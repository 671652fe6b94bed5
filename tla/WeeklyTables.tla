----------------------------- MODULE WeeklyTables -----------------------------
(***************************************************************************)
(* The weekly rollup tables as functions of the runs they count.  A table  *)
(* is a function: its keys are the columns of its unique constraint,       *)
(* <<student, week, ...>>, its values the counters.  A counted run has,    *)
(* besides what was stored, the week and the place in time it was created  *)
(* in.                                                                     *)
(***************************************************************************)
EXTENDS Gameplay, Functions, Collections, TLC

CONSTANT ClipCeiling    \* DECISION_TIME_CLIP_CEILING_MS

SumOf(S, f(_)) == SumFunction([x \in S |-> f(x)])

(* One row per key, with what f makes of the elements under it.            *)
Grouped(S, key(_), f(_)) ==
    [k \in {key(x) : x \in S} |-> f({x \in S : key(x) = k})]

-------------------------------------------------------------------------------
(* Summary statistics.                                                     *)

StatOf(S, f(_)) ==
    LET values == {f(x) : x \in S}
    IN  [sum |-> SumOf(S, f), count |-> Cardinality(S),
         squares |-> SumOf(S, LAMBDA x : f(x) * f(x)),
         min |-> IF S = {} THEN None ELSE Min(values),
         max |-> IF S = {} THEN None ELSE Max(values)]

(* Of what there is, nulls left out.                                       *)
LeastOf(values)    == IF values \ {None} = {} THEN None ELSE Min(values \ {None})
GreatestOf(values) == IF values \ {None} = {} THEN None ELSE Max(values \ {None})

MergedSums(a, b) ==
    [sum |-> a.sum + b.sum, count |-> a.count + b.count, squares |-> a.squares + b.squares]

MergedStats(a, b) ==
    MergedSums(a, b) ++ [min |-> LeastOf({a.min, b.min}), max |-> GreatestOf({a.max, b.max})]

Clipped(time) == Min({time, ClipCeiling})

ClippedStatOf(S, f(_)) ==
    [sum |-> SumOf(S, LAMBDA x : Clipped(f(x))),
     squares |-> SumOf(S, LAMBDA x : Clipped(f(x)) * Clipped(f(x))),
     outliers |-> Cardinality({x \in S : f(x) > ClipCeiling})]

Percent(part, whole) == IF whole > 0 THEN <<100 * part, whole>> ELSE <<0, 1>>
Average(stat)        == IF stat.count > 0 THEN <<stat.sum, stat.count>> ELSE <<0, 1>>

(* sample_variance_from_stats, of which the code takes the square root.    *)
Variance(stat) ==
    IF stat.count <= 1 THEN <<0, 1>>
    ELSE <<Max({0, stat.count * stat.squares - stat.sum * stat.sum}),
           stat.count * (stat.count - 1)>>

-------------------------------------------------------------------------------
(* The run-level tables.                                                   *)

Counters(runs) ==
    [runs |-> Cardinality(runs), wins |-> Cardinality({r \in runs : r.won}),
     correct |-> SumOf(runs, LAMBDA r : r.correct), wrong |-> SumOf(runs, LAMBDA r : r.wrong),
     score |-> StatOf(runs, LAMBDA r : r.score), elapsed |-> StatOf(runs, LAMBDA r : r.elapsed)]

(* Which run is the latest and which the first goes by created_at.         *)
LatestRun(runs) == [latest |-> Max({r.at : r \in runs})]
FirstRun(runs)  == [first |-> Min({r.at : r \in runs})]

StudentWeeks(runs) ==
    Grouped(runs, LAMBDA r : <<r.student, r.week>>,
            LAMBDA R : Counters(R) ++ LatestRun(R) ++ FirstRun(R))
StudentLevels(runs) ==
    Grouped(runs, LAMBDA r : <<r.student, r.week, r.level>>,
            LAMBDA R : Counters(R) ++ LatestRun(R))

(* A room's row has no extremes.                                           *)
RoomCounters(runs) ==
    LET sums(stat) == [sum |-> stat.sum, count |-> stat.count, squares |-> stat.squares]
    IN  [Counters(runs) EXCEPT !.score = sums(@), !.elapsed = sums(@)]

MergedCounters(a, b, merged(_, _)) ==
    [runs |-> a.runs + b.runs, wins |-> a.wins + b.wins,
     correct |-> a.correct + b.correct, wrong |-> a.wrong + b.wrong,
     score |-> merged(a.score, b.score), elapsed |-> merged(a.elapsed, b.elapsed)]

\* Mutant: whatever commits last is the latest.
LastWriter(old, new) == [latest |-> new.latest]

(* latest_run gives way to a later one ...                                 *)
MergedLatest(old, new) ==
    [latest |-> IF new.latest > old.latest THEN new.latest ELSE old.latest]

(* ... and first_run to an earlier one.                                    *)
MergedFirst(old, new) == [first |-> Min({old.first, new.first})]

(* ON CONFLICT ... DO UPDATE.  What is left of the row is the old row's.   *)
MergedWeek(old, new) ==
    MergedCounters(old, new, MergedStats) ++ MergedLatest(old, new)
                                          ++ MergedFirst(old, new) ++ old
MergedLevel(old, new) == MergedCounters(old, new, MergedStats) ++ MergedLatest(old, new) ++ old

\* Mutant: EXCLUDED's counters replace the row's.
RoomReplaced(old, new) == [f \in DOMAIN old \ {"pupils"} |-> new[f]] ++ old

MergedRoom(old, new) == MergedCounters(old, new, MergedSums) ++ old

-------------------------------------------------------------------------------
(* The turn-level tables.                                                  *)

Steps(runs) == UNION {{r} \X DOMAIN r.turns : r \in runs}
Turn(s)     == s[1].turns[s[2]]
At(s, what) == <<s[1].student, s[1].week, s[1].level, what>>
Ofs(S, f(_)) == UNION {{s} \X f(s) : s \in S}

\* Mutant: the bag is emptied after every turn.
BagOfTheTurn(s) == IF Turn(s).number = None THEN 1 ELSE Turn(s).number

(* The number in the bag before a turn: the last one chosen in the run.    *)
Bag(s) ==
    LET chosen == {i \in 1 .. s[2] - 1 : s[1].turns[i].number # None}
    IN  IF chosen = {} THEN 1 ELSE s[1].turns[Max(chosen)].number

ConditionMet(s) ==
    LET value == ParseCard(Turn(s).card).value
    IN  CASE ComparatorByType[CardType(Turn(s))] = "eq" -> Bag(s) = value
          [] ComparatorByType[CardType(Turn(s))] = "lt" -> Bag(s) < value
          [] ComparatorByType[CardType(Turn(s))] = "gt" -> Bag(s) > value

Mistakes(S) == {s \in S : ~Turn(s).correct}

Time(s)       == Turn(s).time
NumberTime(s) == IF Turn(s).numberTime = None THEN 0 ELSE Turn(s).numberTime

Hotspots(S) == Grouped(Mistakes(S), LAMBDA s : At(s, Turn(s).from), Cardinality)

SpecialTiles(S) ==
    Grouped(Ofs(S, LAMBDA s : DOMAIN Turn(s).chain),
            LAMBDA e : At(e[1], Turn(e[1]).chain[e[2]]), Cardinality)

\* Mutant: only turns that triggered something count.
ChainsTriggered(S) ==
    Grouped({s \in S : Turn(s).chain # <<>>}, LAMBDA s : At(s, Len(Turn(s).chain)), Cardinality)

ChainLengths(S) == Grouped(S, LAMBDA s : At(s, Len(Turn(s).chain)), Cardinality)

(* A family has a row once a card of it is chosen or offered.              *)
CardFamilies(S) ==
    LET offers  == Ofs(S, LAMBDA s : DOMAIN Turn(s).offered)
        chosenKey(s)  == At(s, CardFamily(Turn(s)))
        offeredKey(e) == At(e[1], ParseCard(Turn(e[1]).offered[e[2]]).family)
    IN  [k \in {chosenKey(s) : s \in S} \union {offeredKey(e) : e \in offers} |->
            LET chosen == {s \in S : chosenKey(s) = k}
            IN  [offered |-> Cardinality({e \in offers : offeredKey(e) = k}),
                 chosen  |-> Cardinality(chosen),
                 wrong   |-> Cardinality(Mistakes(chosen)),
                 correct |-> Cardinality(chosen \ Mistakes(chosen)),
                 time    |-> StatOf(chosen, Time)]]

CardTypes(S) ==
    Grouped(S, LAMBDA s : At(s, CardType(Turn(s))),
            LAMBDA T : [chosen |-> Cardinality(T), time |-> StatOf(T, Time),
                        clipped |-> ClippedStatOf(T, Time)])

TileConditionals(S) ==
    {s \in S : CardFamily(Turn(s)) = "conditional_tile" /\ CardTile(Turn(s)) # None}

BagConditionals(S) ==
    {s \in S : /\ CardType(Turn(s)) \in DOMAIN ComparatorByType
               /\ ParseCard(Turn(s).card).value # None}

Conditionals(S) ==
    LET counted(T, else) == [total |-> Cardinality(T), correct |-> Cardinality(T \ Mistakes(T)),
                             else |-> Cardinality(else)]
    IN  Grouped(TileConditionals(S), LAMBDA s : At(s, <<"tile", CardTile(Turn(s))>>),
                LAMBDA T : counted(T, {s \in T : Turn(s).fromType # CardTile(Turn(s))}))
        ++
        Grouped(BagConditionals(S), LAMBDA s : At(s, <<"bag", ComparatorByType[CardType(Turn(s))]>>),
                LAMBDA T : counted(T, {s \in T : ~ConditionMet(s)}))

BackUsage(S) ==
    Grouped({s \in S : CardFamily(Turn(s)) = "back"}, LAMBDA s : At(s, Turn(s).rank), Cardinality)

ForeachContext(S) ==
    Grouped({s \in S : CardFamily(Turn(s)) = "foreach_tile" /\ CardTile(Turn(s)) # None},
            LAMBDA s : At(s, "foreach"),
            LAMBDA T : LET met == {s \in T : OnTile(s[1], Turn(s), CardTile(Turn(s)))}
                       IN  [with |-> Cardinality(met), without |-> Cardinality(T \ met)])

NumberChoices(S) ==
    Grouped({s \in S : Turn(s).number # None}, LAMBDA s : At(s, Turn(s).number),
            LAMBDA T : [count |-> Cardinality(T), time |-> StatOf(T, NumberTime)])

(* All of them, of the turns S of a week that there still are.             *)
Details(S) ==
    [hotspots |-> Hotspots(S), tiles |-> SpecialTiles(S), chains |-> ChainLengths(S),
     families |-> CardFamilies(S), types |-> CardTypes(S), conditionals |-> Conditionals(S),
     backs |-> BackUsage(S), foreach |-> ForeachContext(S), numbers |-> NumberChoices(S)]
===============================================================================
