-------------------------- MODULE RollupVerification --------------------------
(***************************************************************************)
(* verify_weekly_rollups: the raw runs and turns of a slice, counted anew  *)
(* by level, against the sums of the rows that were made of them.  Its     *)
(* checks of archives and run buckets are in WeeklyCompaction.             *)
(*                                                                         *)
(* It counts for itself and asks the columns of a turn in its own way: a   *)
(* conditional is one whose column says so, where the aggregation reads    *)
(* the card's payload if the column says nothing.                          *)
(***************************************************************************)
EXTENDS RollupAnalytics

(* _compare_mapping: what one side lacks counts as zero.                   *)
SameCounts(raw, rollup, zero) ==
    LET of(mapping, k) == IF k \in DOMAIN mapping THEN mapping[k] ELSE zero
    IN  \A k \in DOMAIN raw \union DOMAIN rollup : of(raw, k) = of(rollup, k)

Counts(table, f(_)) == SumRows(table, DOMAIN table, f)
ByLevel(table, f(_)) == Grouped(DOMAIN table, LevelAnd, f)

(* rows are the slice's rows of every table.                               *)
SummaryVerified(runs, rows) ==
    LET S == Steps(runs)
        n == Cardinality(runs)
        counts(f(_)) == Counts(rows.weeks, f)
    IN  /\ counts(LAMBDA v : v.runs) = n
        /\ counts(LAMBDA v : v.wins) = Cardinality({r \in runs : r.won})
        /\ counts(LAMBDA v : v.correct) = SumOf(runs, LAMBDA r : r.correct)
        /\ counts(LAMBDA v : v.wrong) = SumOf(runs, LAMBDA r : r.wrong)
        /\ Counts(rows.details.chains, LAMBDA v : v) = Cardinality(S)
        /\ Counts(rows.details.tiles, LAMBDA v : v) = SumOf(S, LAMBDA s : Len(Turn(s).chain))
        /\ Counts(rows.levels, LAMBDA v : v.runs) = n
        /\ Counts(rows.rooms, LAMBDA v : v.runs) = n

(* A key for every card that is chosen and every one that is offered.      *)
FamiliesVerified(S, table) ==
    LET offers == Ofs(S, LAMBDA s : DOMAIN Turn(s).offered)
        chosenKey(s)  == <<s[1].level, CardFamily(Turn(s))>>
        offeredKey(e) == <<e[1][1].level, ParseCard(Turn(e[1]).offered[e[2]]).family>>
        raw == [k \in {chosenKey(s) : s \in S} \union {offeredKey(e) : e \in offers} |->
                   LET chosen == {s \in S : chosenKey(s) = k}
                   IN  [offered |-> Cardinality({e \in offers : offeredKey(e) = k}),
                        chosen  |-> Cardinality(chosen),
                        correct |-> Cardinality({s \in chosen : Turn(s).correct}),
                        wrong   |-> Cardinality({s \in chosen : ~Turn(s).correct})]]
        rollup == ByLevel(table, LAMBDA K :
            [offered |-> SumRows(table, K, LAMBDA v : v.offered),
             chosen  |-> SumRows(table, K, LAMBDA v : v.chosen),
             correct |-> SumRows(table, K, LAMBDA v : v.correct),
             wrong   |-> SumRows(table, K, LAMBDA v : v.wrong)])
    IN  SameCounts(raw, rollup, [offered |-> 0, chosen |-> 0, correct |-> 0, wrong |-> 0])

TypesVerified(S, table) ==
    LET raw == Grouped(S, LAMBDA s : <<s[1].level, CardType(Turn(s))>>,
            LAMBDA T : [chosen |-> Cardinality(T), time |-> SumOf(T, Time),
                        clipped |-> SumOf(T, LAMBDA s : Clipped(Time(s))),
                        outliers |-> Cardinality({s \in T : Clipped(Time(s)) # Time(s)})])
        rollup == ByLevel(table, LAMBDA K :
            [chosen |-> SumRows(table, K, LAMBDA v : v.chosen),
             time   |-> SumRows(table, K, LAMBDA v : v.time.sum),
             clipped |-> SumRows(table, K, LAMBDA v : v.clipped.sum),
             outliers |-> SumRows(table, K, LAMBDA v : v.clipped.outliers)])
    IN  /\ SameCounts(raw, rollup, [chosen |-> 0, time |-> 0, clipped |-> 0, outliers |-> 0])
        /\ \A k \in DOMAIN table : table[k].time.count = table[k].chosen

NumbersVerified(S, table) ==
    LET raw == Grouped({s \in S : Turn(s).number # None},
            LAMBDA s : <<s[1].level, Turn(s).number>>,
            LAMBDA T : [count |-> Cardinality(T), time |-> SumOf(T, NumberTime)])
        rollup == ByLevel(table, LAMBDA K :
            [count |-> SumRows(table, K, LAMBDA v : v.count),
             time  |-> SumRows(table, K, LAMBDA v : v.time.sum)])
    IN  SameCounts(raw, rollup, [count |-> 0, time |-> 0])

(* _iter_turns_with_bag_number, over all turns of a run in order.          *)
BagsBefore(turns) ==
    LET bag[i \in DOMAIN turns] ==
            IF i = 1 THEN 1
            ELSE IF turns[i - 1].number # None THEN turns[i - 1].number ELSE bag[i - 1]
    IN  bag

BagColumns == {"conditional_bag_eq", "conditional_bag_lt", "conditional_bag_gt"}

ConditionalsVerified(S, table) ==
    LET tile(s)  == CardTile(Turn(s))
        value(s) == ParseCard(Turn(s).card).value
        sign(s)  == ComparatorByType[Turn(s).type]
        before(s) == BagsBefore(s[1].turns)[s[2]]
        met(s)   == \/ sign(s) = "eq" /\ before(s) = value(s)
                    \/ sign(s) = "lt" /\ before(s) < value(s)
                    \/ sign(s) = "gt" /\ before(s) > value(s)
        tiles == {s \in S : Turn(s).family = "conditional_tile" /\ tile(s) # None}
        bags  == {s \in S : /\ Turn(s).family \in BagColumns
                            /\ Turn(s).type \in DOMAIN ComparatorByType /\ value(s) # None}
        counted(T, isElse(_)) ==
            [total |-> Cardinality(T), correct |-> Cardinality({s \in T : Turn(s).correct}),
             else |-> Cardinality({s \in T : isElse(s)})]
        raw == Grouped(tiles, LAMBDA s : <<s[1].level, <<"tile", tile(s)>>>>,
                   LAMBDA T : counted(T, LAMBDA s : Turn(s).fromType # tile(s)))
               ++
               Grouped(bags, LAMBDA s : <<s[1].level, <<"bag", sign(s)>>>>,
                   LAMBDA T : counted(T, LAMBDA s : ~met(s)))
        rollup == ByLevel(table, LAMBDA K :
            [total   |-> SumRows(table, K, LAMBDA v : v.total),
             correct |-> SumRows(table, K, LAMBDA v : v.correct),
             else    |-> SumRows(table, K, LAMBDA v : v.else)])
    IN  SameCounts(raw, rollup, [total |-> 0, correct |-> 0, else |-> 0])

Verified(runs, rows) ==
    LET S == Steps(runs)
    IN  /\ SummaryVerified(runs, rows)
        /\ FamiliesVerified(S, rows.details.families)
        /\ TypesVerified(S, rows.details.types)
        /\ ConditionalsVerified(S, rows.details.conditionals)
        /\ NumbersVerified(S, rows.details.numbers)
===============================================================================
