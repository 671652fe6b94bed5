---------------------------- MODULE RollupAnalytics ----------------------------
(***************************************************************************)
(* The answers of the analytics and turn-insight sections, from the weekly *)
(* tables: every answer adds up the rows of some pupils over the weeks.    *)
(***************************************************************************)
EXTENDS WeeklyTables

(* _rollup_scope                                                           *)
InScope(table, pupils) == {k \in DOMAIN table : k[1] \in pupils}

Level(k)     == k[3]
LevelAnd(k)  == <<k[3], k[4]>>
OnlyThird(k) == k[4]

SumRows(table, rows, f(_)) == SumOf(rows, LAMBDA k : f(table[k]))

(* Sums of sums, and the least and the greatest there is.                  *)
SumStats(table, rows, f(_)) ==
    [sum |-> SumRows(table, rows, LAMBDA v : f(v).sum),
     count |-> SumRows(table, rows, LAMBDA v : f(v).count),
     squares |-> SumRows(table, rows, LAMBDA v : f(v).squares),
     min |-> LeastOf({f(table[k]).min : k \in rows}),
     max |-> GreatestOf({f(table[k]).max : k \in rows})]

RollupWinRateByLevel(levels, pupils) ==
    Grouped(InScope(levels, pupils), Level,
        LAMBDA K : LET runs == SumRows(levels, K, LAMBDA v : v.runs)
                       wins == SumRows(levels, K, LAMBDA v : v.wins)
                   IN  [runs |-> runs, wins |-> wins, rate |-> Percent(wins, runs)])

RollupWrongMovesRateByLevel(levels, pupils) ==
    Grouped(InScope(levels, pupils), Level,
        LAMBDA K : LET correct == SumRows(levels, K, LAMBDA v : v.correct)
                       wrong   == SumRows(levels, K, LAMBDA v : v.wrong)
                   IN  [correct |-> correct, wrong |-> wrong, moves |-> correct + wrong,
                        rate |-> Percent(wrong, correct + wrong)])

RollupTimeDistributionByLevel(levels, pupils) ==
    Grouped(InScope(levels, pupils), Level,
        LAMBDA K : LET all == SumStats(levels, K, LAMBDA v : v.elapsed)
                   IN  [avg |-> Average(all), min |-> all.min, max |-> all.max,
                        variance |-> Variance(all), runs |-> all.count])

RollupCounts(table, pupils) ==
    Grouped(InScope(table, pupils), LevelAnd, LAMBDA K : SumRows(table, K, LAMBDA v : v))

RollupMistakeHotspotsByLevel(details, pupils) == RollupCounts(details.hotspots, pupils)
RollupSpecialTileBreakdown(details, pupils)   == RollupCounts(details.tiles, pupils)
RollupChainLengthsByLevel(details, pupils)    == RollupCounts(details.chains, pupils)
RollupBackCardUsageByPlace(details, pupils)   == RollupCounts(details.backs, pupils)

RollupOfferChoiceShareByFamily(details, pupils) ==
    LET table == details.families
        offered(K) == SumRows(table, K, LAMBDA v : v.offered)
        chosen(K)  == SumRows(table, K, LAMBDA v : v.chosen)
        peers(K)   == {k \in InScope(table, pupils) : \E j \in K : Level(j) = Level(k)}
    IN  Grouped(InScope(table, pupils), LevelAnd,
            LAMBDA K : [offered |-> offered(K), chosen |-> chosen(K),
                        offeredShare |-> Percent(offered(K), offered(peers(K))),
                        chosenShare  |-> Percent(chosen(K), chosen(peers(K))),
                        choiceRate   |-> Percent(chosen(K), offered(K))])

RollupCardAccuracyByFamilyByLevel(details, pupils) ==
    LET table == details.families
    IN  Grouped(InScope(table, pupils), LevelAnd,
            LAMBDA K : LET correct == SumRows(table, K, LAMBDA v : v.correct)
                           wrong   == SumRows(table, K, LAMBDA v : v.wrong)
                       IN  [total |-> correct + wrong, correct |-> correct, wrong |-> wrong,
                            accuracy |-> Percent(correct, correct + wrong)])

(* The median and the quartiles are given as the average and the extremes. *)
RollupDecisionTimeByFamilyByLevel(details, pupils) ==
    Grouped(InScope(details.families, pupils), LevelAnd,
        LAMBDA K : LET all == SumStats(details.families, K, LAMBDA v : v.time)
                   IN  [total |-> all.count, avg |-> Average(all), min |-> all.min,
                        max |-> all.max, variance |-> Variance(all)])

SerializedDecisionTime(table, K) ==
    LET all      == SumStats(table, K, LAMBDA v : v.time)
        sum      == SumRows(table, K, LAMBDA v : v.clipped.sum)
        squares  == SumRows(table, K, LAMBDA v : v.clipped.squares)
    IN  [total |-> all.count, rawAvg |-> Average(all),
         avg |-> Average([sum |-> sum, count |-> all.count]), min |-> all.min, max |-> all.max,
         variance |-> Variance(all),
         clippedVariance |-> Variance([sum |-> sum, squares |-> squares, count |-> all.count]),
         outliers |-> SumRows(table, K, LAMBDA v : v.clipped.outliers)]

RollupDecisionTimeByCardType(details, pupils) ==
    LET rows == InScope(details.types, pupils)
        serialized(K) == SerializedDecisionTime(details.types, K)
    IN  [summary |-> Grouped(rows, OnlyThird, serialized),
         weekly  |-> Grouped(rows, LAMBDA k : <<k[4], k[2]>>, serialized)]

(* By tile type or by comparator, and the else branches of a level.        *)
RollupConditionals(details, kind, pupils) ==
    LET table == details.conditionals
        rows  == {k \in InScope(table, pupils) : k[4][1] = kind}
        sum(K, f(_)) == SumRows(table, K, f)
        else(K)  == sum(K, LAMBDA v : v.else)
        total(K) == sum(K, LAMBDA v : v.total)
    IN  [buckets |-> Grouped(rows, LAMBDA k : <<k[3], k[4][2]>>,
             LAMBDA K : LET correct == sum(K, LAMBDA v : v.correct)
                        IN  [total |-> total(K), correct |-> correct,
                             accuracy |-> Percent(correct, total(K)),
                             else |-> Percent(else(K), total(K))]),
         levels |-> Grouped(rows, Level, LAMBDA K : Percent(else(K), total(K)))]

RollupTileConditionalAccuracy(details, pupils) == RollupConditionals(details, "tile", pupils)
RollupBagConditionalAccuracy(details, pupils)  == RollupConditionals(details, "bag", pupils)

RollupForeachTileContextUsage(details, pupils) ==
    LET table == details.foreach
    IN  Grouped(InScope(table, pupils), Level,
            LAMBDA K : [with    |-> SumRows(table, K, LAMBDA v : v.with),
                        without |-> SumRows(table, K, LAMBDA v : v.without)])

RollupNumberChoices(details, pupils) ==
    LET table == details.numbers
    IN  Grouped(InScope(table, pupils), LevelAnd,
            LAMBDA K : SumRows(table, K, LAMBDA v : v.count))

RollupNumberDecisionTime(details, pupils) ==
    Grouped(InScope(details.numbers, pupils), LevelAnd,
        LAMBDA K : LET all == SumStats(details.numbers, K, LAMBDA v : v.time)
                   IN  [avg |-> Average(all), count |-> all.count, min |-> all.min,
                        max |-> all.max, variance |-> Variance(all)])
===============================================================================
