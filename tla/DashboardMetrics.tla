--------------------------- MODULE DashboardMetrics ---------------------------
(***************************************************************************)
(* What the teacher dashboard computes from a pupil's weekly rows and run  *)
(* buckets, and from a classroom's weekly rows.  Floats are exact rational *)
(* numbers <<n, d>>, d > 0.  Rows are those of WeeklyTables, by their keys. *)
(***************************************************************************)
EXTENDS Integers, Sequences, SequencesExt, FiniteSets, FiniteSetsExt

(* In lowest terms: e is the least with which n * e is a multiple of d.    *)
Lowest(n, d) ==
    LET e == CHOOSE e \in 1 .. d : /\ (n * e) % d = 0
                                   /\ \A f \in 1 .. e - 1 : (n * f) % d # 0
    IN  <<(n * e) \div d, e>>

Ratio(n, d)  == IF d > 0 THEN Lowest(n, d) ELSE <<0, 1>>
Whole(n)     == <<n, 1>>
Plus(a, b)   == Lowest(a[1] * b[2] + b[1] * a[2], a[2] * b[2])
Times(a, b)  == Lowest(a[1] * b[1], a[2] * b[2])
Minus(a, b)  == Plus(a, <<-b[1], b[2]>>)
Over(a, b)   == IF b[1] > 0 THEN Lowest(a[1] * b[2], a[2] * b[1])
                            ELSE Lowest(-a[1] * b[2], -a[2] * b[1])
Less(a, b)   == a[1] * b[2] < b[1] * a[2]

Total(seq) ==
    LET total[i \in 0 .. Len(seq)] == IF i = 0 THEN Whole(0) ELSE Plus(total[i - 1], seq[i])
    IN  total[Len(seq)]

Mean(seq) == Times(Total(seq), <<1, Len(seq)>>)
Each(f(_), seq) == [i \in DOMAIN seq |-> f(seq[i])]

SumOver(rows, f(_)) == SumFunction([k \in DOMAIN rows |-> f(rows[k])])

-------------------------------------------------------------------------------
(* Run buckets.                                                            *)

(* A bucket of runs in the order they were created, and its point.         *)
BucketPoint(runs) ==
    LET sum(f(_)) == SumFunction(Each(f, runs))
        correct   == sum(LAMBDA r : r.correct)
        wrong     == sum(LAMBDA r : r.wrong)
    IN  [level    |-> Head(runs).level,
         first    |-> Head(runs).at,
         last     |-> Last(runs).at,
         count    |-> Len(runs),
         accuracy |-> Ratio(100 * correct, correct + wrong),
         score    |-> Ratio(sum(LAMBDA r : r.score), Len(runs)),
         time     |-> Ratio(sum(LAMBDA r : r.elapsed), 1000 * Len(runs))]

Chunk(runs, n, size) == SubSeq(runs, (n - 1) * size + 1, Min({n * size, Len(runs)}))

(* A set as a sequence, by a column.                                       *)
SortedBy(S, by) ==
    LET first(T) == CHOOSE x \in T : \A y \in T : x[by] <= y[by]
        rest[i \in 0 .. Cardinality(S)] ==
            IF i = 0 THEN S ELSE rest[i - 1] \ {first(rest[i - 1])}
    IN  [i \in 1 .. Cardinality(S) |-> first(rest[i - 1])]

(* Buckets of size runs of one level each, by the first run and the last.  *)
BucketPoints(runs, size) ==
    LET ofLevel(l) == SortedBy({r \in runs : r.level = l}, "at")
        buckets(l) == {BucketPoint(Chunk(ofLevel(l), n, size)) :
                          n \in 1 .. (Len(ofLevel(l)) + size - 1) \div size}
    IN  SortedBy(UNION {buckets(r.level) : r \in runs}, "first")

LevelPoints(points, level) == SelectSeq(points, LAMBDA p : p.level = level)

-------------------------------------------------------------------------------
(* Metrics.                                                                *)

AccuracyRate(correct, wrong) == Ratio(100 * correct, correct + wrong)

\* Mutant: a wrong move takes no time.
TimePerCorrectMove(elapsed, correct, wrong) == Ratio(elapsed, 1000 * correct)

DecisionTime(elapsed, correct, wrong) == Ratio(elapsed, 1000 * (correct + wrong))

(* Recent values count for more; weights in halves.                        *)
RecencyWeight(age) == CASE age <= 30 -> 6 [] age \in 31 .. 90 -> 4
                        [] age \in 91 .. 180 -> 3 [] age > 180 -> 2

WeightedMean(values, ages) ==
    IF values = <<>> THEN Whole(0)
    ELSE LET weights == [i \in DOMAIN ages |-> Whole(RecencyWeight(ages[i]))]
         IN  Over(Total([i \in DOMAIN values |-> Times(values[i], weights[i])]), Total(weights))

\* Mutant: the mean of x is n / 2.
XDeviationFromOne(i, n) == <<2 * (i - 1) - n, 2>>

(* x_i - mean(x) for x = 0 .. n - 1.                                       *)
XDeviation(i, n) == <<2 * (i - 1) - (n - 1), 2>>

(* Least squares over the positions of the values.                         *)
Slope(values) ==
    LET n    == Len(values)
        mean == Mean(values)
        x(i) == XDeviation(i, n)
        top  == Total([i \in DOMAIN values |-> Times(x(i), Minus(values[i], mean))])
        base == Total([i \in DOMAIN values |-> Times(x(i), x(i))])
    IN  IF base[1] = 0 THEN Whole(0) ELSE Over(top, base)

Trend(values) ==
    LET slope == Slope(values)
    IN  CASE Len(values) < 3 -> "insufficient_data"
          [] OTHER -> CASE Less(<<1, 20>>, slope)  -> "improving"
                        [] Less(slope, <<-1, 20>>) -> "declining"
                        [] OTHER -> IF Less(Whole(80), Mean(values)) THEN "mastered"
                                                                     ELSE "plateaued"

(* The consistency score 1 - stdev / mean, clamped to 0..1, is over 0.85.  *)
IsConsistent(values) ==
    /\ Len(values) >= 2
    /\ LET mean  == Mean(values)
           sq(v) == Times(Minus(v, mean), Minus(v, mean))
           var   == Times(Total(Each(sq, values)), <<1, Len(values) - 1>>)
       IN  \/ mean[1] < 0
           \/ mean[1] > 0 /\ Less(var, Times(<<9, 400>>, Times(mean, mean)))

(* The last values against the first ones, in percent.                     *)
Improvement(values) ==
    LET half(n) == n \div 2
        size == Min({3, Max({2, half(Len(values))})})
        from == Mean(SubSeq(values, 1, size))
        to   == Mean(SubSeq(values, Len(values) - size + 1, Len(values)))
    IN  IF Len(values) < 3 \/ from[1] <= 0 THEN Whole(0)
        ELSE Times(Whole(100), Over(Minus(to, from), from))

-------------------------------------------------------------------------------
(* Panels.                                                                 *)

(* _build_student_dashboard_info: the totals come from the weekly rows,    *)
(* the curve from the points, ages days old.                               *)
StudentInfo(rows, points, ages) ==
    LET sum(f(_))  == SumOver(rows, f)
        runs       == sum(LAMBDA w : w.runs)
        wins       == sum(LAMBDA w : w.wins)
        correct    == sum(LAMBDA w : w.correct)
        wrong      == sum(LAMBDA w : w.wrong)
        elapsed    == sum(LAMBDA w : w.elapsed.sum)
        accuracies == Each(LAMBDA p : p.accuracy, points)
        scores     == Each(LAMBDA p : p.score, points)
        average    == WeightedMean(scores, ages)
        accuracy   == AccuracyRate(correct, wrong)
        trend      == Trend(accuracies)
    IN  [runs       |-> runs,
         winRate    |-> Ratio(100 * wins, runs),
         latest     |-> Max({rows[k].latest : k \in DOMAIN rows}),
         accuracy   |-> accuracy,
         time       |-> DecisionTime(elapsed, correct, wrong),
         score      |-> average,
         improvement |-> Improvement(accuracies),
         trend      |-> trend,
         slope      |-> IF Len(points) >= 3 THEN Slope(accuracies) ELSE Whole(0),
         levels     |-> [l \in {p.level : p \in ToSet(points)} |->
                            Trend(Each(LAMBDA p : p.accuracy, LevelPoints(points, l)))],
         attention  |-> \/ trend = "declining"
                        \/ wrong > correct,
         reward     |-> \/ trend = "improving" /\ Less(<<1, 10>>, Slope(accuracies))
                        \/ ~Less(accuracy, Whole(90))
                        \/ IsConsistent(scores) /\ Less(Whole(0), average)]

(* _build_classroom_dashboard_stats.                                       *)
ClassroomInfo(rows, pupils) ==
    LET sum(f(_)) == SumOver(rows, f)
        runs      == sum(LAMBDA w : w.runs)
        correct   == sum(LAMBDA w : w.correct)
        wrong     == sum(LAMBDA w : w.wrong)
    IN  [runs       |-> runs,
         winRate    |-> Ratio(100 * sum(LAMBDA w : w.wins), runs),
         accuracy   |-> AccuracyRate(correct, wrong),
         score      |-> Ratio(sum(LAMBDA w : w.score.sum), runs),
         time       |-> DecisionTime(sum(LAMBDA w : w.elapsed.sum), correct, wrong),
         engagement |-> Ratio(runs, pupils)]

(* The first ten of some by a key, ties in any order: nobody left out      *)
(* comes before anybody taken.                                             *)
Best(some, before(_, _)) ==
    {p \in some : Cardinality({q \in some : before(q, p)}) < 10}

Panels(infos) ==
    LET all == DOMAIN infos
        weak(p) == infos[p].trend \in {"declining", "plateaued"} /\ Less(infos[p].accuracy, Whole(80))
    IN  [attention |-> {p \in all : infos[p].attention},
         rewards   |-> {p \in all : infos[p].reward},
         top       |-> Best(all, LAMBDA p, q : Less(infos[q].accuracy, infos[p].accuracy)),
         bottom    |-> Best(all, LAMBDA p, q : Less(infos[p].accuracy, infos[q].accuracy)),
         improving |-> Best({p \in all : infos[p].improvement[1] # 0},
                            LAMBDA p, q : Less(infos[q].improvement, infos[p].improvement)),
         weak      |-> Best({p \in all : weak(p)},
                            LAMBDA p, q : Less(infos[p].slope, infos[q].slope))]
===============================================================================
