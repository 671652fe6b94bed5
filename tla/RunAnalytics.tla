----------------------------- MODULE RunAnalytics -----------------------------
(***************************************************************************)
(* The same questions put to the raw runs and their turns: the analytics   *)
(* that the rollups replace.  S is a set of steps <<run, turn>> and runs a *)
(* set of runs, both of the pupils asked about.                            *)
(***************************************************************************)
EXTENDS WeeklyTables

RunLevel(r)  == r.level
StepLevel(s) == s[1].level

Card(s) == ExtractTurnCard(Turn(s))

(* A level without moves: the database divides by zero.                    *)
WinRateByLevel(runs) ==
    Grouped(runs, RunLevel,
        LAMBDA R : LET wins == Cardinality({r \in R : r.won})
                   IN  [runs |-> Cardinality(R), wins |-> wins,
                        rate |-> Percent(wins, Cardinality(R))])

WrongMovesRateByLevel(runs) ==
    Grouped(runs, RunLevel,
        LAMBDA R : LET correct == SumOf(R, LAMBDA r : r.correct)
                       wrong   == SumOf(R, LAMBDA r : r.wrong)
                   IN  [correct |-> correct, wrong |-> wrong, moves |-> correct + wrong,
                        rate |-> IF correct + wrong = 0 THEN None
                                 ELSE Percent(wrong, correct + wrong)])

(* The variance is that of a population; the rollups give a sample's.      *)
TimeDistributionByLevel(runs) ==
    Grouped(runs, RunLevel,
        LAMBDA R : LET all == StatOf(R, LAMBDA r : r.elapsed)
                   IN  [avg |-> Average(all), min |-> all.min, max |-> all.max,
                        variance |-> <<all.count * all.squares - all.sum * all.sum,
                                       all.count * all.count>>,
                        runs |-> all.count])

MistakeHotspotsByLevel(S) ==
    Grouped(Mistakes(S), LAMBDA s : <<StepLevel(s), Turn(s).from>>, Cardinality)

SpecialTileBreakdown(S) ==
    Grouped(Ofs(S, LAMBDA s : DOMAIN Turn(s).chain),
            LAMBDA e : <<StepLevel(e[1]), Turn(e[1]).chain[e[2]]>>, Cardinality)

(* From the middle and the quarters of the sorted values.                  *)
SummaryStats(T) ==
    LET n == Cardinality(T)
        all == StatOf(T, Time)
        nth(i) == CHOOSE v \in {Time(s) : s \in T} :
                     /\ Cardinality({s \in T : Time(s) < v}) <= i
                     /\ Cardinality({s \in T : Time(s) <= v}) > i
    IN  [total |-> n, avg |-> Average(all), min |-> all.min, max |-> all.max,
         median |-> nth(n \div 2),
         q1 |-> IF n >= 4 THEN nth(n \div 4) ELSE all.min,
         q3 |-> IF n >= 4 THEN nth((3 * n) \div 4) ELSE all.max]

DecisionTimeByCardType(S) == Grouped(S, LAMBDA s : Card(s).type, SummaryStats)

DecisionTimeByFamilyByLevel(S) ==
    Grouped(S, LAMBDA s : <<StepLevel(s), Card(s).family>>, SummaryStats)

(* Every level with every family of any level.                             *)
OfferChoiceShareByFamily(S) ==
    LET offers   == Ofs(S, LAMBDA s : DOMAIN Turn(s).offered)
        familyOf(e) == ParseCard(Turn(e[1]).offered[e[2]]).family
        families == {Card(s).family : s \in S} \union {familyOf(e) : e \in offers}
    IN  [k \in {StepLevel(s) : s \in S} \X families |->
            LET given   == {e \in offers : StepLevel(e[1]) = k[1]}
                taken   == {s \in S : StepLevel(s) = k[1]}
                offered == Cardinality({e \in given : familyOf(e) = k[2]})
                chosen  == Cardinality({s \in taken : Card(s).family = k[2]})
            IN  [offered |-> offered, chosen |-> chosen,
                 offeredShare |-> Percent(offered, Cardinality(given)),
                 chosenShare  |-> Percent(chosen, Cardinality(taken)),
                 choiceRate   |-> Percent(chosen, offered)]]

CardAccuracyByFamilyByLevel(S) ==
    Grouped(S, LAMBDA s : <<StepLevel(s), Card(s).family>>,
        LAMBDA T : LET wrong == Cardinality(Mistakes(T))
                       total == Cardinality(T)
                   IN  [total |-> total, correct |-> total - wrong, wrong |-> wrong,
                        accuracy |-> Percent(total - wrong, total)])

Accuracies(S, key(_), isElse(_)) ==
    LET else(T) == Percent(Cardinality({s \in T : isElse(s)}), Cardinality(T))
        correct(T) == Cardinality(T \ Mistakes(T))
    IN  [buckets |-> Grouped(S, LAMBDA s : <<StepLevel(s), key(s)>>,
             LAMBDA T : [total |-> Cardinality(T), correct |-> correct(T),
                         accuracy |-> Percent(correct(T), Cardinality(T)), else |-> else(T)]),
         levels |-> Grouped(S, StepLevel, else)]

TileConditionalAccuracy(S) ==
    Accuracies({s \in S : Turn(s).family = "conditional_tile" /\ Card(s).tile # None},
               LAMBDA s : Card(s).tile, LAMBDA s : Turn(s).fromType # Card(s).tile)

BagFamilies == {"conditional_bag_eq", "conditional_bag_lt", "conditional_bag_gt"}

(* The bag as the turns with a bag card alone tell it: a number chosen in  *)
(* another turn is missed.                                                 *)
BagOfBagTurns(s) ==
    LET chosen == {i \in 1 .. s[2] - 1 : /\ s[1].turns[i].family \in BagFamilies
                                         /\ s[1].turns[i].number # None}
    IN  IF chosen = {} THEN 1 ELSE s[1].turns[Max(chosen)].number

BagConditionalAccuracy(S) ==
    LET value(s) == ParseCard(Turn(s).card).value
        sign(s)  == ComparatorByType[Card(s).type]
        met(s)   == CASE sign(s) = "eq" -> BagOfBagTurns(s) = value(s)
                      [] sign(s) = "lt" -> BagOfBagTurns(s) < value(s)
                      [] sign(s) = "gt" -> BagOfBagTurns(s) > value(s)
    IN  Accuracies({s \in S : Turn(s).family \in BagFamilies /\ value(s) # None},
                   sign, LAMBDA s : ~met(s))

BackCardUsageByPlace(S) ==
    Grouped({s \in S : Turn(s).family = "back"},
            LAMBDA s : <<StepLevel(s), Turn(s).rank>>, Cardinality)

ForeachTileContextUsage(S) ==
    Grouped({s \in S : Turn(s).family = "foreach_tile" /\ Card(s).tile # None}, StepLevel,
        LAMBDA T : LET met == {s \in T : OnTile(s[1], Turn(s), Card(s).tile)}
                   IN  [with |-> Cardinality(met), without |-> Cardinality(T \ met)])

(* The turns of a level without a trigger are those that are left.         *)
ChainLengthsByLevel(S) ==
    LET triggered(l) == {s \in S : StepLevel(s) = l /\ Turn(s).chain # <<>>}
        some == Grouped({s \in S : Turn(s).chain # <<>>},
                        LAMBDA s : <<StepLevel(s), Len(Turn(s).chain)>>, Cardinality)
        left(l) == Cardinality({s \in S : StepLevel(s) = l}) - Cardinality(triggered(l))
    IN  some ++ [k \in {<<l, 0>> : l \in {l \in {StepLevel(s) : s \in S} : left(l) > 0}} |->
                    left(k[1])]

Numbered(S) == {s \in S : Turn(s).number # None}

NumberChoicesByLevel(S) ==
    Grouped(Numbered(S), LAMBDA s : <<StepLevel(s), Turn(s).number>>, Cardinality)

(* Nulls are left out of the average, where the rollups count them as 0.   *)
NumberDecisionTime(S) ==
    Grouped(Numbered(S), LAMBDA s : <<StepLevel(s), Turn(s).number>>,
        LAMBDA T : LET timed == {s \in T : Turn(s).numberTime # None}
                   IN  [avg |-> Average(StatOf(timed, NumberTime)), count |-> Cardinality(T),
                        timed |-> Cardinality(timed)])

===============================================================================
