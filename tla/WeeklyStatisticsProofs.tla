------------------------ MODULE WeeklyStatisticsProofs ------------------------
(***************************************************************************)
(* That the weekly tables have what the runs come to and a page shows it,  *)
(* that a closed week stays as it is and that a card means one thing, for  *)
(* any payloads, rooms and teachers, flushers, batches and weeks.          *)
(***************************************************************************)
EXTENDS WeeklyStatistics, DataInduction

InBatch(f) == ToSet(batch[f])

(* What is stored, popped or buffered.                                     *)
Types ==
    /\ home \in [Pupils -> Rooms] /\ moves \in 0 .. MaxMoves /\ week \in Weeks
    /\ failures \in 0 .. MaxFailures
    /\ buffer \in Seq(Accepted) /\ batch \in [Flushers -> Seq(Accepted)]
    /\ DOMAIN stamps = Flushers
    /\ \A f \in Flushers : Len(batch[f]) <= BatchSize /\ DOMAIN stamps[f] = InBatch(f)
    /\ DOMAIN runs \subseteq Accepted /\ compacted \subseteq DOMAIN runs
    /\ done \subseteq Weeks /\ disturbed \subseteq Weeks
    /\ compaction \in [week : Weeks \union {None}, todo : SUBSET Teachers]
    /\ DOMAIN details = DOMAIN Details({})

(* An accepted run is in one place: the buffer, one batch or the database. *)
RunsInOnePlace ==
    /\ IsInjective(buffer) /\ ToSet(buffer) \intersect DOMAIN runs = {}
    /\ \A f \in Flushers :
          /\ IsInjective(batch[f])
          /\ InBatch(f) \intersect DOMAIN runs = {}
          /\ InBatch(f) \intersect ToSet(buffer) = {}
          /\ \A g \in Flushers \ {f} : InBatch(f) \intersect InBatch(g) = {}
    /\ ToSet(buffer) \union UNION {InBatch(f) : f \in Flushers} = Accepted \ DOMAIN runs

(* A run counts in a week that has begun, and has a place.                 *)
Stamps == [at : Nat, week : 1 .. week]

Stamped ==
    /\ \A f \in Flushers : \A id \in DOMAIN stamps[f] : stamps[f][id] \in Stamps
    /\ \A id \in DOMAIN runs : runs[id] \in Stamps /\ Insertable(Stored[id])

(* No run will be counted in w any more.                                   *)
Quiet(w) ==
    w < week /\ \A f \in Flushers : \A id \in DOMAIN stamps[f] : stamps[f][id].week # w

(* So it is of the weeks that are compacted or were.                       *)
Closed ==
    /\ \A w \in done : Quiet(w)
    /\ compaction.week = None => compaction.todo = {}
    /\ compaction.week # None => compaction.week \notin done /\ Quiet(compaction.week)

(* A row has what the same row made anew would have ...                    *)
Matches(row, fresh) == \A c \in DOMAIN fresh : row[c] = fresh[c]

(* ... and is its pupil's teacher's until the pupil moves or the week is   *)
(* done; a row is missing only of a week somebody moved in and nobody will *)
(* be counted in again.                                                    *)
InStep(table, fresh) ==
    /\ \A k \in DOMAIN table :
          /\ k \in DOMAIN fresh /\ Matches(table[k], fresh[k])
          /\ {"room", "teacher"} \subseteq DOMAIN table[k]
          /\ k[2] \notin done \union disturbed =>
                table[k].room = home[k[1]] /\ table[k].teacher = TeacherOf[home[k[1]]]
    /\ \A k \in DOMAIN fresh \ DOMAIN table : k[2] \in disturbed /\ Quiet(k[2])

Summaries ==
    /\ InStep(studentWeek, StudentWeeks(AllRuns))
    /\ InStep(studentLevel, StudentLevels(AllRuns))

BaseInv == Types /\ RunsInOnePlace /\ Stamped /\ Closed

SummariesInv == BaseInv /\ Summaries

(* Runs of a week under the room that their pupil's row names.             *)
RoomOf(r)    == studentWeek[<<r.student, r.week>>].room
Under(c, w)  == {r \in AllRuns : r.week = w /\ RoomOf(r) = c}

RoomRows ==
    /\ \A k \in DOMAIN roomWeek :
          /\ k = <<k[1], k[2]>>
          /\ "teacher" \in DOMAIN roomWeek[k] /\ roomWeek[k].teacher = TeacherOf[k[1]]
          /\ k[2] \notin disturbed => Matches(roomWeek[k], RoomCounters(Under(k[1], k[2])))
    /\ \A r \in AllRuns : r.week \notin disturbed => <<RoomOf(r), r.week>> \in DOMAIN roomWeek
    /\ \A k \in DOMAIN studentLevel :
          k[2] \notin disturbed => studentLevel[k].room = studentWeek[<<k[1], k[2]>>].room

RoomsInv == SummariesInv /\ RoomRows

-------------------------------------------------------------------------------
(* Runs.                                                                   *)

(* The elapsed time is a number, sent or clamped.                          *)
LEMMA ElapsedIs ==
    ASSUME NEW id \in Accepted
    PROVE  Stored[id].elapsed \in Int
<1> DEFINE p == Payloads[id]
<1>1. WellFormed(p) /\ Valid(p)
    BY StatisticsAssumption DEF Accepted
<1>2. Stored[id].elapsed = IF p.form = "unity" \/ p.elapsed = None
                             THEN Clamped(p.started, p.ended) ELSE p.elapsed
    BY DEF Stored, StoredRun
<1> HIDE DEF p
<1>3. CASE p.form = "unity" \/ p.elapsed = None
    <2>1. p.started \in Int /\ p.ended \in Int /\ LongestGame \in Int
        BY <1>1, <1>3, StatisticsAssumption DEF WellFormed, Valid, CanonicalValid
    <2> DEFINE least == Min({LongestGame, p.ended - p.started})
    <2>2. least \in Int
        BY <2>1, ExtremesOfPair
    <2> HIDE DEF least
    <2>3. \A a, b \in Int : Max({a, b}) \in Int
        BY ExtremesOfPair
    <2>4. 0 \in Int
        OBVIOUS
    <2>5. Max({0, least}) \in Int
        BY <2>2, <2>3, <2>4, Zenon
    <2>6. QED
        BY <1>2, <1>3, <2>5 DEF Clamped, least
<1>4. CASE ~(p.form = "unity" \/ p.elapsed = None)
    BY <1>1, <1>2, <1>4 DEF WellFormed
<1>5. QED
    BY <1>3, <1>4

(* What a run is made of: its payload's part and its stamp.                *)
LEMMA RunFields ==
    ASSUME NEW id \in Accepted, NEW w, NEW stamp \in [at : Nat, week : w]
    PROVE  LET run == Stored[id] ++ stamp
           IN  /\ run.id = id /\ run.at = stamp.at /\ run.week = stamp.week
               /\ run.student = Payloads[id].student /\ run.student \in Pupils
               /\ run.level = Payloads[id].level
               /\ run.score \in Int /\ run.correct \in Int /\ run.wrong \in Int
               /\ run.elapsed \in Int
               /\ run.place = Stored[id].place /\ run.turns = Stored[id].turns
<1> DEFINE run == Stored[id] ++ stamp
<1>1. /\ DOMAIN Stored[id] = {"id", "student", "level", "place", "won", "score", "correct",
                              "wrong", "elapsed", "map", "turns"}
      /\ DOMAIN stamp = {"at", "week"}
      /\ Stored[id].id = id /\ Stored[id].student = Payloads[id].student
      /\ Stored[id].level = Payloads[id].level /\ Stored[id].score = Payloads[id].score
      /\ Stored[id].correct = Payloads[id].correct /\ Stored[id].wrong = Payloads[id].wrong
    BY DEF Stored, StoredRun
<1>2. \A c \in DOMAIN Stored[id] : run[c] = Stored[id][c]
    BY DEF ++
<1>3. run.at = stamp.at /\ run.week = stamp.week
    BY <1>1 DEF ++
<1> HIDE DEF run
<1>4. /\ run.id = id /\ run.student = Payloads[id].student /\ run.level = Payloads[id].level
      /\ run.score = Payloads[id].score /\ run.correct = Payloads[id].correct
      /\ run.wrong = Payloads[id].wrong /\ run.elapsed = Stored[id].elapsed
      /\ run.place = Stored[id].place /\ run.turns = Stored[id].turns
    BY <1>1, <1>2
<1>5. /\ {Payloads[id].score, Payloads[id].correct, Payloads[id].wrong} \subseteq Int
      /\ Payloads[id].student \in Pupils
    BY StatisticsAssumption DEF WellFormed, Accepted
<1>6. QED
    BY <1>3, <1>4, <1>5, ElapsedIs DEF run

(* The accepted runs are finitely many.                                    *)
LEMMA AcceptedIsFinite == IsFiniteSet(Accepted)
<1>1. IsFiniteSet(ToSet(Arrivals))
    <2>1. Arrivals \in Seq(DOMAIN Payloads)
        BY StatisticsAssumption
    <2>2. ToSet(Arrivals) = {Arrivals[i] : i \in 1 .. Len(Arrivals)}
        BY <2>1 DEF ToSet
    <2>3. IsFiniteSet(1 .. Len(Arrivals)) /\ Arrivals \in [1 .. Len(Arrivals) -> DOMAIN Payloads]
        BY <2>1, FS_Interval
    <2>4. IsFiniteSet({Arrivals[i] : i \in 1 .. Len(Arrivals)})
        BY <2>3, ImageIsFinite, Zenon
    <2>5. QED
        BY <2>2, <2>4
<1>2. QED
    BY <1>1, FS_Subset, StatisticsAssumption

-------------------------------------------------------------------------------
(* Where a run is, and in which week.                                      *)

(* The runs' times are numbers, and so is what comes after them.           *)
LEMMA NowIs == ASSUME Types, Stamped PROVE Now \in Nat
<1> DEFINE times(rows) == {rows[id].at : id \in DOMAIN rows}
           stamped == {times(stamps[f]) : f \in Flushers}
           all == {0} \union times(runs) \union UNION stamped
<1>1. ASSUME NEW rows, DOMAIN rows \subseteq Accepted, \A id \in DOMAIN rows : rows[id] \in Stamps
      PROVE  IsFiniteSet(times(rows)) /\ times(rows) \subseteq Nat
    <2> DEFINE at == [id \in DOMAIN rows |-> rows[id].at]
    <2>1. IsFiniteSet(DOMAIN rows)
        BY <1>1, AcceptedIsFinite, FS_Subset
    <2>2. at \in [DOMAIN rows -> Nat]
        BY <1>1 DEF Stamps
    <2>3. times(rows) = {at[id] : id \in DOMAIN rows}
        OBVIOUS
    <2> HIDE DEF at
    <2>4. IsFiniteSet({at[id] : id \in DOMAIN rows})
        BY <2>1, <2>2, ImageIsFinite, Zenon
    <2>5. times(rows) \subseteq Nat
        BY <1>1 DEF Stamps
    <2>6. QED
        BY <2>3, <2>4, <2>5
<1>2. IsFiniteSet(times(runs)) /\ times(runs) \subseteq Nat
    <2>1. DOMAIN runs \subseteq Accepted /\ \A id \in DOMAIN runs : runs[id] \in Stamps
        BY DEF Types, Stamped
    <2> HIDE DEF times
    <2>2. QED
        BY <1>1, <2>1
<1>3. ASSUME NEW f \in Flushers
      PROVE  IsFiniteSet(times(stamps[f])) /\ times(stamps[f]) \subseteq Nat
    <2>1. DOMAIN stamps[f] \subseteq Accepted /\ \A id \in DOMAIN stamps[f] : stamps[f][id] \in Stamps
        <3>1. batch[f] \in Seq(Accepted) /\ DOMAIN stamps[f] = InBatch(f)
            BY DEF Types
        <3>2. QED
            BY <3>1, ToSetIn DEF Stamped, InBatch
    <2> HIDE DEF times
    <2>2. QED
        BY <1>1, <2>1
<1>4. IsFiniteSet(UNION stamped) /\ UNION stamped \subseteq Nat
    <2> DEFINE g == [f \in Flushers |-> times(stamps[f])]
    <2>1. stamped = {g[f] : f \in Flushers} /\ g \in [Flushers -> SUBSET Nat]
        BY <1>3
    <2>2. IsFiniteSet(Flushers)
        BY StatisticsAssumption
    <2>3. IsFiniteSet(stamped)
        <3> HIDE DEF g, stamped, times
        <3>1. g \in [Flushers -> SUBSET Nat]
            BY <2>1
        <3>2. IsFiniteSet({g[f] : f \in Flushers})
            BY <2>2, <3>1, ImageIsFinite, Zenon
        <3>3. QED
            BY <2>1, <3>2
    <2>4. \A T \in stamped : IsFiniteSet(T) /\ T \subseteq Nat
        BY <1>3
    <2> HIDE DEF stamped
    <2>5. QED
        BY <2>3, <2>4, FS_UNION
<1>5. IsFiniteSet(all) /\ all # {} /\ all \subseteq Nat
    <2> HIDE DEF times, stamped
    <2>1. IsFiniteSet({0}) /\ IsFiniteSet({0} \union times(runs))
        BY <1>2, FS_Singleton, FS_Union
    <2>2. IsFiniteSet(all)
        BY <1>4, <2>1, FS_Union
    <2>3. QED
        BY <1>2, <1>4, <2>2
<1>6. Now = Max(all)
    BY DEF Now
<1>7. QED
    <2> HIDE DEF all
    <2>1. all \subseteq Int
        BY <1>5
    <2>2. Max(all) \in all
        BY <1>5, <2>1, Extremes
    <2>3. QED
        BY <1>5, <1>6, <2>2

(* A place in a batch.                                                     *)
LEMMA PlaceIs ==
    ASSUME NEW S, NEW seq \in Seq(S), NEW id \in ToSet(seq)
    PROVE  (CHOOSE i \in 1 .. Len(seq) : seq[i] = id) \in 1 .. Len(seq)
<1>1. \E i \in 1 .. Len(seq) : seq[i] = id
    BY ToSetIn
<1>2. QED
    BY <1>1

(* Nothing is stored at first, all that is accepted is in the buffer.      *)
LEMMA BaseInitially == ASSUME Init PROVE BaseInv
<1>1. /\ Arrivals \in Seq(DOMAIN Payloads) /\ Accepted \subseteq ToSet(Arrivals)
      /\ IsInjective(Arrivals)
    BY StatisticsAssumption DEF IsInjective
<1>2. /\ buffer \in Seq(DOMAIN Payloads) /\ ToSet(buffer) = Accepted /\ IsInjective(buffer)
    <2>1. buffer = Keep(Arrivals, Accepted)
        BY DEF Init
    <2>2. /\ Keep(Arrivals, Accepted) \in Seq(DOMAIN Payloads)
          /\ ToSet(Keep(Arrivals, Accepted)) = ToSet(Arrivals) \intersect Accepted
        BY <1>1, KeepElements
    <2>3. IsInjective(Keep(Arrivals, Accepted))
        BY <1>1, KeepDistinct
    <2>4. QED
        BY <1>1, <2>1, <2>2, <2>3
<1>3. buffer \in Seq(Accepted)
    <2>1. \A i \in 1 .. Len(buffer) : buffer[i] \in Accepted
        BY <1>2, ToSetIn
    <2>2. QED
        BY <1>2, <2>1
<1>4. \A f \in Flushers : /\ batch[f] = <<>> /\ InBatch(f) = {} /\ IsInjective(batch[f])
                          /\ stamps[f] = Nothing
    BY ToSetEmpty, EmptyDistinct DEF Init, InBatch
<1>5. DOMAIN Nothing = {} /\ runs = Nothing
    BY DEF Init, Nothing
<1>6. Types
    <2>1. /\ home \in [Pupils -> Rooms] /\ moves \in 0 .. MaxMoves /\ week \in Weeks
          /\ failures \in 0 .. MaxFailures
        BY StatisticsAssumption DEF Init, Weeks
    <2>2. batch \in [Flushers -> Seq(Accepted)] /\ DOMAIN stamps = Flushers
        BY DEF Init
    <2>3. \A f \in Flushers : Len(batch[f]) <= BatchSize /\ DOMAIN stamps[f] = InBatch(f)
        <3>1. Len(<<>>) = 0 /\ 0 <= BatchSize
            BY StatisticsAssumption
        <3>2. QED
            BY <1>4, <1>5, <3>1
    <2>4. compaction \in [week : Weeks \union {None}, todo : SUBSET Teachers]
        BY DEF Init
    <2>5. /\ DOMAIN runs \subseteq Accepted /\ compacted \subseteq DOMAIN runs
          /\ done \subseteq Weeks /\ disturbed \subseteq Weeks /\ details = Details({})
        BY <1>5 DEF Init
    <2>6. QED
        BY <1>3, <2>1, <2>2, <2>3, <2>4, <2>5 DEF Types
<1>7. RunsInOnePlace
    BY <1>2, <1>4, <1>5 DEF RunsInOnePlace
<1>8. Stamped
    BY <1>4, <1>5 DEF Stamped
<1>9. Closed
    BY DEF Init, Closed
<1>10. QED
    BY <1>6, <1>7, <1>8, <1>9 DEF BaseInv

(* Stamps of a week stay stamps.                                           *)
LEMMA StampsStay == ASSUME week \in Nat, week' \in Nat, week <= week'
                    PROVE  Stamps \subseteq Stamps'
BY DEF Stamps

(* A batch is popped and stamped with the week that is running.            *)
LEMMA InsertBase ==
    ASSUME BaseInv, NEW f \in Flushers, NEW n \in 1 .. BatchSize, Insert(f, n)
    PROVE  BaseInv'
<1> USE DEF BaseInv
<1> DEFINE head == SubSeq(buffer, 1, n)
           tail == SubSeq(buffer, n + 1, Len(buffer))
<1>1. n \in 0 .. Len(buffer) /\ n \in 1 .. BatchSize
    <2>1. BatchSize \in Int /\ Len(buffer) \in Int
        BY StatisticsAssumption DEF Types
    <2>2. n \in 1 .. Min({BatchSize, Len(buffer)})
        BY DEF Insert
    <2>3. Min({BatchSize, Len(buffer)}) = IF BatchSize <= Len(buffer) THEN BatchSize ELSE Len(buffer)
        BY <2>1, ExtremesOfPair
    <2>4. QED
        BY <2>1, <2>2, <2>3
<1>2. /\ head \in Seq(Accepted) /\ tail \in Seq(Accepted) /\ Len(head) = n
      /\ buffer = head \o tail
    BY <1>1, SplitSequence DEF Types
<1>3. /\ buffer' = tail /\ batch' = [batch EXCEPT ![f] = head]
      /\ stamps' = [stamps EXCEPT ![f] =
             [id \in ToSet(batch'[f]) |->
                 [at |-> Now + (CHOOSE i \in 1 .. n : batch'[f][i] = id), week |-> week]]]
      /\ UNCHANGED <<people, week, failures, runs, compacted, tables, compaction, done, disturbed>>
    BY DEF Insert
<1> HIDE DEF head, tail
<1>4. /\ ToSet(buffer) = ToSet(head) \union ToSet(tail) /\ ToSet(head) \intersect ToSet(tail) = {}
      /\ IsInjective(head) /\ IsInjective(tail)
    BY <1>2, ToSetConcat, ConcatDistinct DEF RunsInOnePlace
<1>5. /\ batch' \in [Flushers -> Seq(Accepted)] /\ batch'[f] = head
      /\ \A g \in Flushers \ {f} : batch'[g] = batch[g]
    BY <1>2, <1>3 DEF Types
<1>6. /\ DOMAIN stamps' = Flushers /\ DOMAIN stamps'[f] = ToSet(head)
      /\ \A g \in Flushers \ {f} : stamps'[g] = stamps[g]
      /\ \A id \in ToSet(head) :
            stamps'[f][id] = [at |-> Now + (CHOOSE i \in 1 .. n : head[i] = id), week |-> week]
    BY <1>3, <1>5 DEF Types
<1>7. \A id \in ToSet(head) : stamps'[f][id] \in Stamps /\ stamps'[f][id].week = week
    <2>1. Now \in Nat /\ week \in Nat /\ week \in 1 .. week
        BY NowIs DEF Types, Weeks
    <2>2. ASSUME NEW id \in ToSet(head)
          PROVE  (CHOOSE i \in 1 .. n : head[i] = id) \in 1 .. n
        BY <1>2, PlaceIs
    <2>3. \A id \in ToSet(head) : Now + (CHOOSE i \in 1 .. n : head[i] = id) \in Nat
        BY <1>1, <2>1, <2>2
    <2>4. ASSUME NEW id \in ToSet(head)
          PROVE  stamps'[f][id] \in Stamps /\ stamps'[f][id].week = week
        <3> DEFINE at == Now + (CHOOSE i \in 1 .. n : head[i] = id)
        <3>1. at \in Nat /\ stamps'[f][id] = [at |-> at, week |-> week]
            BY <1>6, <2>3
        <3> HIDE DEF at
        <3>2. QED
            BY <2>1, <3>1 DEF Stamps
    <2>5. QED
        BY <2>4
<1>8. /\ InBatch(f)' = ToSet(head)
      /\ \A g \in Flushers \ {f} : InBatch(g)' = InBatch(g)
    BY <1>5 DEF InBatch
<1>9. Types'
    <2>1. \A g \in Flushers : Len(batch'[g]) <= BatchSize /\ DOMAIN stamps'[g] = InBatch(g)'
        <3>1. Len(batch'[f]) <= BatchSize /\ DOMAIN stamps'[f] = InBatch(f)'
            BY <1>1, <1>2, <1>5, <1>6, <1>8
        <3>2. \A g \in Flushers \ {f} :
                  Len(batch[g]) <= BatchSize /\ DOMAIN stamps[g] = InBatch(g)
            BY DEF Types
        <3>3. ASSUME NEW g \in Flushers \ {f}
              PROVE  Len(batch'[g]) <= BatchSize /\ DOMAIN stamps'[g] = InBatch(g)'
            BY <1>5, <1>6, <1>8, <3>2
        <3>4. QED
            BY <3>1, <3>3
    <2>2. QED
        BY <1>2, <1>3, <1>5, <1>6, <2>1 DEF Types, people, tables
<1>10. RunsInOnePlace'
    <2>1. UNION {InBatch(g)' : g \in Flushers} =
             ToSet(head) \union UNION {InBatch(g) : g \in Flushers \ {f}}
        BY <1>8
    <2>2. ToSet(buffer') \union UNION {InBatch(g)' : g \in Flushers} = Accepted \ DOMAIN runs'
        <3>1. InBatch(f) = {}
            BY ToSetEmpty DEF Insert, InBatch
        <3>2. ToSet(buffer) \union UNION {InBatch(g) : g \in Flushers \ {f}} =
                 Accepted \ DOMAIN runs
            BY <3>1 DEF RunsInOnePlace
        <3>3. QED
            BY <1>3, <1>4, <2>1, <3>2
    <2>3. \A g \in Flushers :
              /\ IsInjective(batch'[g]) /\ InBatch(g)' \intersect DOMAIN runs' = {}
              /\ InBatch(g)' \intersect ToSet(buffer') = {}
              /\ \A h \in Flushers \ {g} : InBatch(g)' \intersect InBatch(h)' = {}
        BY <1>3, <1>4, <1>5, <1>8 DEF RunsInOnePlace
    <2>4. IsInjective(buffer') /\ ToSet(buffer') \intersect DOMAIN runs' = {}
        BY <1>3, <1>4 DEF RunsInOnePlace
    <2>5. QED
        BY <2>2, <2>3, <2>4 DEF RunsInOnePlace
<1>11. Stamped'
    <2>1. Stamps' = Stamps
        BY <1>3 DEF Stamps
    <2>2. ASSUME NEW g \in Flushers, NEW id \in DOMAIN stamps'[g]
          PROVE  stamps'[g][id] \in Stamps'
        <3>1. CASE g = f
            BY <1>6, <1>7, <2>1, <3>1
        <3>2. CASE g # f
            <4>1. stamps'[g] = stamps[g]
                BY <1>6, <3>2
            <4>2. QED
                BY <2>1, <4>1 DEF Stamped
        <3>3. QED
            BY <3>1, <3>2
    <2>3. \A id \in DOMAIN runs' : runs'[id] \in Stamps' /\ Insertable(Stored[id])
        BY <1>3, <2>1 DEF Stamped
    <2>4. QED
        BY <2>2, <2>3 DEF Stamped
<1>12. Closed'
    <2>1. \A w : Quiet(w) => Quiet(w)'
        <3>1. week \in Nat
            BY DEF Types, Weeks
        <3>2. QED
            BY <1>3, <1>6, <1>7, <3>1 DEF Quiet
    <2>2. QED
        BY <1>3, <2>1 DEF Closed
<1>13. QED
    BY <1>9, <1>10, <1>11, <1>12

(* Its runs are in the database.                                           *)
LEMMA CommitBase == ASSUME BaseInv, NEW f \in Flushers, Commit(f) PROVE BaseInv'
<1> USE DEF BaseInv
<1>1. /\ Unstored(f) = {} /\ runs' = runs ++ stamps[f]
      /\ batch' = [batch EXCEPT ![f] = <<>>] /\ stamps' = [stamps EXCEPT ![f] = Nothing]
      /\ UNCHANGED <<people, week, buffer, failures, compacted, details, compaction, done, disturbed>>
    BY DEF Commit
<1>2. /\ batch' \in [Flushers -> Seq(Accepted)] /\ batch'[f] = <<>>
      /\ \A g \in Flushers \ {f} : batch'[g] = batch[g]
    BY <1>1 DEF Types
<1>3. /\ DOMAIN stamps' = Flushers /\ DOMAIN stamps'[f] = {}
      /\ \A g \in Flushers \ {f} : stamps'[g] = stamps[g]
    BY <1>1 DEF Types, Nothing
<1>4. /\ InBatch(f)' = {}
      /\ \A g \in Flushers \ {f} : InBatch(g)' = InBatch(g)
    BY <1>2, ToSetEmpty DEF InBatch
<1>5. DOMAIN stamps[f] = InBatch(f) /\ InBatch(f) \subseteq Accepted
    BY ToSetIn DEF Types, InBatch
<1>6. /\ DOMAIN runs' = DOMAIN runs \union InBatch(f)
      /\ \A id \in DOMAIN runs : runs'[id] = runs[id]
      /\ \A id \in InBatch(f) : runs'[id] = stamps[f][id]
    BY <1>1, <1>5 DEF ++, RunsInOnePlace
<1>7. Types'
    <2>1. \A g \in Flushers : Len(batch'[g]) <= BatchSize /\ DOMAIN stamps'[g] = InBatch(g)'
        <3>1. Len(<<>>) = 0 /\ 0 <= BatchSize
            BY StatisticsAssumption
        <3>2. QED
            BY <1>2, <1>3, <1>4, <3>1 DEF Types
    <2>2. QED
        BY <1>1, <1>2, <1>3, <1>5, <1>6, <2>1 DEF Types, people
<1>8. RunsInOnePlace'
    <2>1. UNION {InBatch(g)' : g \in Flushers} = UNION {InBatch(g) : g \in Flushers \ {f}}
        BY <1>4
    <2>2. UNION {InBatch(g) : g \in Flushers} =
             InBatch(f) \union UNION {InBatch(g) : g \in Flushers \ {f}}
        OBVIOUS
    <2>3. InBatch(f) \intersect UNION {InBatch(g) : g \in Flushers \ {f}} = {}
        BY DEF RunsInOnePlace
    <2>4. ToSet(buffer') \union UNION {InBatch(g)' : g \in Flushers} = Accepted \ DOMAIN runs'
        BY <1>1, <1>6, <2>1, <2>2, <2>3 DEF RunsInOnePlace
    <2>5. \A g \in Flushers :
              /\ IsInjective(batch'[g]) /\ InBatch(g)' \intersect DOMAIN runs' = {}
              /\ InBatch(g)' \intersect ToSet(buffer') = {}
              /\ \A h \in Flushers \ {g} : InBatch(g)' \intersect InBatch(h)' = {}
        BY <1>1, <1>2, <1>4, <1>6, EmptyDistinct DEF RunsInOnePlace
    <2>6. IsInjective(buffer') /\ ToSet(buffer') \intersect DOMAIN runs' = {}
        BY <1>1, <1>6 DEF RunsInOnePlace
    <2>7. QED
        BY <2>4, <2>5, <2>6 DEF RunsInOnePlace
<1>9. Stamped'
    <2>1. \A id \in InBatch(f) : stamps[f][id] \in Stamps /\ Insertable(Stored[id])
        BY <1>1, <1>5 DEF Stamped, Unstored, InBatch
    <2>2. Stamps' = Stamps
        BY <1>1 DEF Stamps
    <2>3. QED
        BY <1>3, <1>6, <2>1, <2>2 DEF Stamped
<1>10. Closed'
    <2>1. \A w : Quiet(w) => Quiet(w)'
        BY <1>1, <1>3 DEF Quiet
    <2>2. QED
        BY <1>1, <2>1 DEF Closed
<1>11. QED
    BY <1>7, <1>8, <1>9, <1>10

(* The batch is in the buffer again.                                       *)
LEMMA RollbackBase == ASSUME BaseInv, NEW f \in Flushers, Rollback(f) PROVE BaseInv'
<1> USE DEF BaseInv
<1>1. /\ buffer' = buffer \o batch[f] /\ failures' \in 0 .. MaxFailures
      /\ batch' = [batch EXCEPT ![f] = <<>>] /\ stamps' = [stamps EXCEPT ![f] = Nothing]
      /\ UNCHANGED <<people, week, runs, compacted, tables, compaction, done, disturbed>>
    BY StatisticsAssumption DEF Rollback, Types
<1>2. /\ batch' \in [Flushers -> Seq(Accepted)] /\ batch'[f] = <<>>
      /\ \A g \in Flushers \ {f} : batch'[g] = batch[g]
    BY <1>1 DEF Types
<1>3. /\ DOMAIN stamps' = Flushers /\ DOMAIN stamps'[f] = {}
      /\ \A g \in Flushers \ {f} : stamps'[g] = stamps[g]
    BY <1>1 DEF Types, Nothing
<1>4. /\ InBatch(f)' = {}
      /\ \A g \in Flushers \ {f} : InBatch(g)' = InBatch(g)
    BY <1>2, ToSetEmpty DEF InBatch
<1>5. /\ buffer' \in Seq(Accepted) /\ ToSet(buffer') = ToSet(buffer) \union InBatch(f)
      /\ IsInjective(buffer')
    <2>1. /\ buffer \in Seq(Accepted) /\ batch[f] \in Seq(Accepted)
          /\ IsInjective(buffer) /\ IsInjective(batch[f])
          /\ ToSet(buffer) \intersect ToSet(batch[f]) = {}
        BY DEF Types, RunsInOnePlace, InBatch
    <2>2. ToSet(buffer \o batch[f]) = ToSet(buffer) \union ToSet(batch[f])
        BY <2>1, ToSetConcat
    <2>3. IsInjective(buffer \o batch[f])
        BY <2>1, ConcatDistinct
    <2>4. buffer \o batch[f] \in Seq(Accepted)
        BY <2>1
    <2>5. QED
        BY <1>1, <2>2, <2>3, <2>4 DEF InBatch
<1>6. Types'
    <2>1. \A g \in Flushers : Len(batch'[g]) <= BatchSize /\ DOMAIN stamps'[g] = InBatch(g)'
        <3>1. Len(<<>>) = 0 /\ 0 <= BatchSize
            BY StatisticsAssumption
        <3>2. QED
            BY <1>2, <1>3, <1>4, <3>1 DEF Types
    <2>2. QED
        BY <1>1, <1>2, <1>3, <1>5, <2>1 DEF Types, people, tables
<1>7. RunsInOnePlace'
    <2>1. UNION {InBatch(g)' : g \in Flushers} = UNION {InBatch(g) : g \in Flushers \ {f}}
        BY <1>4
    <2>2. UNION {InBatch(g) : g \in Flushers} =
             InBatch(f) \union UNION {InBatch(g) : g \in Flushers \ {f}}
        OBVIOUS
    <2>3. ToSet(buffer') \union UNION {InBatch(g)' : g \in Flushers} = Accepted \ DOMAIN runs'
        BY <1>1, <1>5, <2>1, <2>2 DEF RunsInOnePlace
    <2>4. \A g \in Flushers :
              /\ IsInjective(batch'[g]) /\ InBatch(g)' \intersect DOMAIN runs' = {}
              /\ InBatch(g)' \intersect ToSet(buffer') = {}
              /\ \A h \in Flushers \ {g} : InBatch(g)' \intersect InBatch(h)' = {}
        BY <1>1, <1>2, <1>4, <1>5, EmptyDistinct DEF RunsInOnePlace
    <2>5. IsInjective(buffer') /\ ToSet(buffer') \intersect DOMAIN runs' = {}
        BY <1>1, <1>5 DEF RunsInOnePlace
    <2>6. QED
        BY <2>3, <2>4, <2>5 DEF RunsInOnePlace
<1>8. Stamped'
    BY <1>1, <1>3 DEF Stamped, Stamps
<1>9. Closed'
    <2>1. \A w : Quiet(w) => Quiet(w)'
        BY <1>1, <1>3 DEF Quiet
    <2>2. QED
        BY <1>1, <2>1 DEF Closed
<1>10. QED
    BY <1>6, <1>7, <1>8, <1>9

(* What the batches and the stored runs are does not change when these and *)
(* the week stay.                                                          *)
LEMMA BaseStays ==
    ASSUME BaseInv, UNCHANGED <<queue, runs, week>>
    PROVE  /\ RunsInOnePlace' /\ Stamped' /\ \A w : Quiet(w)' <=> Quiet(w)
           /\ failures' \in 0 .. MaxFailures
           /\ buffer' \in Seq(Accepted) /\ batch' \in [Flushers -> Seq(Accepted)]
           /\ DOMAIN stamps' = Flushers
           /\ \A f \in Flushers : Len(batch'[f]) <= BatchSize /\ DOMAIN stamps'[f] = InBatch(f)'
           /\ DOMAIN runs' \subseteq Accepted
<1>1. \A f \in Flushers : InBatch(f)' = InBatch(f)
    BY DEF InBatch, queue
<1>2. RunsInOnePlace'
    BY <1>1 DEF RunsInOnePlace, BaseInv, queue
<1>3. Stamped'
    <2>1. Stamps' = Stamps
        BY DEF Stamps
    <2>2. QED
        BY <2>1 DEF Stamped, BaseInv, queue
<1>4. \A w : Quiet(w)' <=> Quiet(w)
    BY DEF Quiet, queue
<1>5. /\ failures' \in 0 .. MaxFailures
      /\ buffer' \in Seq(Accepted) /\ batch' \in [Flushers -> Seq(Accepted)]
      /\ DOMAIN stamps' = Flushers /\ DOMAIN runs' \subseteq Accepted
      /\ \A f \in Flushers : Len(batch'[f]) <= BatchSize /\ DOMAIN stamps'[f] = InBatch(f)'
    BY <1>1 DEF Types, BaseInv, queue
<1>6. QED
    BY <1>2, <1>3, <1>4, <1>5

(* A week that is over stays over.                                         *)
LEMMA NextWeekBase == ASSUME BaseInv, NextWeek PROVE BaseInv'
<1> USE DEF BaseInv
<1>1. /\ week \in Nat /\ week' = week + 1 /\ week' \in Weeks
      /\ UNCHANGED <<people, queue, runs, compacted, tables, compaction, done, disturbed>>
    BY StatisticsAssumption DEF NextWeek, Types, Weeks
<1>2. \A f \in Flushers : InBatch(f)' = InBatch(f)
    BY <1>1 DEF InBatch, queue
<1>3. Types'
    BY <1>1, <1>2 DEF Types, people, queue, tables
<1>4. RunsInOnePlace'
    BY <1>1, <1>2 DEF RunsInOnePlace, queue
<1>5. Stamped'
    <2>1. Stamps \subseteq Stamps'
        BY <1>1, StampsStay
    <2>2. QED
        BY <1>1, <2>1 DEF Stamped, queue
<1>6. Closed'
    <2>1. \A w \in Weeks : Quiet(w) => Quiet(w)'
        BY <1>1 DEF Quiet, queue, Weeks
    <2>2. done \subseteq Weeks /\ compaction.week \in Weeks \union {None}
        BY DEF Types
    <2>3. QED
        BY <1>1, <2>1, <2>2 DEF Closed
<1>7. QED
    BY <1>3, <1>4, <1>5, <1>6

(* A pupil has another room of those there are.                            *)
LEMMA MoveBase ==
    ASSUME BaseInv, NEW p \in Pupils, NEW c \in Rooms, Move(p, c)
    PROVE  BaseInv'
<1> USE DEF BaseInv
<1>1. /\ home' = [home EXCEPT ![p] = c] /\ moves < MaxMoves /\ moves' = moves + 1
      /\ disturbed' = disturbed \union (1 .. week \ done)
      /\ UNCHANGED <<week, queue, runs, compacted, tables, compaction, done>>
    BY DEF Move
<1>2. /\ RunsInOnePlace' /\ Stamped' /\ \A w : Quiet(w)' <=> Quiet(w)
      /\ failures' \in 0 .. MaxFailures
      /\ buffer' \in Seq(Accepted) /\ batch' \in [Flushers -> Seq(Accepted)]
      /\ DOMAIN stamps' = Flushers
      /\ \A f \in Flushers : Len(batch'[f]) <= BatchSize /\ DOMAIN stamps'[f] = InBatch(f)'
      /\ DOMAIN runs' \subseteq Accepted
    BY <1>1, BaseStays
<1>3. Types'
    <2>1. /\ home' \in [Pupils -> Rooms] /\ moves' \in 0 .. MaxMoves /\ week' \in Weeks
        BY <1>1, StatisticsAssumption DEF Types
    <2>2. disturbed' \subseteq Weeks
        BY <1>1, StatisticsAssumption DEF Types, Weeks
    <2>3. QED
        BY <1>1, <1>2, <2>1, <2>2 DEF Types, tables
<1>4. Closed'
    BY <1>1, <1>2 DEF Closed
<1>5. QED
    BY <1>2, <1>3, <1>4

(* What a step of a compaction does to the weeks.                          *)
LEMMA CompactionBase ==
    ASSUME BaseInv, UNCHANGED <<people, week, queue, runs, disturbed>>,
           compacted' \subseteq DOMAIN runs, DOMAIN details' = DOMAIN details,
           compaction' \in [week : Weeks \union {None}, todo : SUBSET Teachers],
           done' \subseteq Weeks, \A w \in done' : Quiet(w),
           compaction'.week = None => compaction'.todo = {},
           compaction'.week # None => compaction'.week \notin done' /\ Quiet(compaction'.week)
    PROVE  BaseInv'
<1> USE DEF BaseInv
<1>1. /\ RunsInOnePlace' /\ Stamped' /\ \A w : Quiet(w)' <=> Quiet(w)
      /\ failures' \in 0 .. MaxFailures
      /\ buffer' \in Seq(Accepted) /\ batch' \in [Flushers -> Seq(Accepted)]
      /\ DOMAIN stamps' = Flushers
      /\ \A f \in Flushers : Len(batch'[f]) <= BatchSize /\ DOMAIN stamps'[f] = InBatch(f)'
      /\ DOMAIN runs' \subseteq Accepted
    BY BaseStays
<1>2. Types'
    BY <1>1 DEF Types, people
<1>3. Closed'
    BY <1>1 DEF Closed
<1>4. QED
    BY <1>1, <1>2, <1>3

(* Only a week that is over is compacted, and only once.                   *)
LEMMA StartBase == ASSUME BaseInv, NEW w \in Weeks, StartCompaction(w) PROVE BaseInv'
<1>1. /\ compaction' = [week |-> w, todo |-> {TeacherNow(r) : r \in RunsIn(w)}]
      /\ w \notin done /\ Quiet(w) /\ RunsIn(w) # {}
      /\ UNCHANGED <<people, week, queue, runs, compacted, tables, done, disturbed>>
    BY DEF StartCompaction, Quiet, IsOver
<1>2. ASSUME NEW r \in RunsIn(w)
      PROVE  TeacherNow(r) \in Teachers
    <2>1. PICK id \in DOMAIN runs : r = RunOf(id)
        BY DEF RunsIn, AllRuns
    <2>2. id \in Accepted /\ runs[id] \in Stamps
        BY DEF BaseInv, Types, Stamped
    <2>3. r.student \in Pupils
        BY <2>1, <2>2, RunFields DEF RunOf, Stamps
    <2>4. home[r.student] \in Rooms
        BY <2>3 DEF BaseInv, Types
    <2>5. QED
        BY <2>4 DEF TeacherNow, Teachers
<1>3. compaction' \in [week : Weeks \union {None}, todo : SUBSET Teachers]
    BY <1>1, <1>2
<1>4. w # None
    BY StatisticsAssumption DEF Weeks
<1>5. compaction'.week = w
    BY <1>1
<1>6. /\ compacted' \subseteq DOMAIN runs /\ DOMAIN details' = DOMAIN details
      /\ done' \subseteq Weeks /\ \A v \in done' : Quiet(v)
    BY <1>1 DEF tables, BaseInv, Types, Closed
<1>7. UNCHANGED <<people, week, queue, runs, disturbed>>
    BY <1>1
<1>8. QED
    BY <1>1, <1>3, <1>4, <1>5, <1>6, <1>7, CompactionBase

(* A slice keeps to the week.                                              *)
LEMMA SliceBase == ASSUME BaseInv, NEW t \in Teachers, Slice(t) PROVE BaseInv'
<1> USE DEF BaseInv
<1>1. /\ t \in compaction.todo
      /\ compaction' = [compaction EXCEPT !.todo = @ \ {t}]
      /\ UNCHANGED <<people, week, queue, runs, done, disturbed>>
    BY DEF Slice
<1>2. /\ compaction \in [week : Weeks \union {None}, todo : SUBSET Teachers]
      /\ compacted \subseteq DOMAIN runs /\ done \subseteq Weeks
    BY DEF Types
<1>3. /\ compaction' \in [week : Weeks \union {None}, todo : SUBSET Teachers]
      /\ compaction'.week = compaction.week
    BY <1>1, <1>2
<1>4. compaction.week # None
    BY <1>1 DEF Closed
<1>5. compacted' \subseteq DOMAIN runs /\ DOMAIN details' = DOMAIN details
    <2> DEFINE mine == RunsUnder(t, compaction.week)
    <2>1. CASE mine = {}
        BY <1>2, <2>1 DEF Slice, tables
    <2>2. CASE mine # {}
        <3>1. details' = Remade(t).details /\ compacted' = compacted \union {r.id : r \in mine}
            BY <2>2 DEF Slice
        <3>2. DOMAIN Remade(t).details = DOMAIN details
            BY DEF Remade
        <3>3. ASSUME NEW r \in mine
              PROVE  r.id \in DOMAIN runs
            <4>1. PICK id \in DOMAIN runs : r = RunOf(id)
                BY DEF RunsUnder, RunsIn, AllRuns
            <4>2. id \in Accepted /\ runs[id] \in Stamps
                BY DEF Types, Stamped
            <4>3. r.id = id
                BY <4>1, <4>2, RunFields DEF RunOf, Stamps
            <4>4. QED
                BY <4>3
        <3>4. QED
            BY <1>2, <3>1, <3>2, <3>3
    <2>3. QED
        BY <2>1, <2>2
<1>6. done' \subseteq Weeks /\ \A w \in done' : Quiet(w)
    BY <1>1, <1>2 DEF Closed
<1>7. compaction'.week \notin done' /\ Quiet(compaction'.week)
    BY <1>1, <1>3, <1>4 DEF Closed
<1>8. QED
    BY <1>1, <1>3, <1>4, <1>5, <1>6, <1>7, CompactionBase

(* A command that failed is over.                                          *)
LEMMA SliceFailsBase == ASSUME BaseInv, NEW t \in Teachers, SliceFails(t) PROVE BaseInv'
<1>1. /\ compaction' = [week |-> None, todo |-> {}]
      /\ UNCHANGED <<people, week, queue, runs, compacted, tables, done, disturbed>>
    BY DEF SliceFails
<1>2. /\ compaction' \in [week : Weeks \union {None}, todo : SUBSET Teachers]
      /\ compaction'.week = None /\ compaction'.todo = {}
    BY <1>1
<1>3. /\ compacted' \subseteq DOMAIN runs /\ DOMAIN details' = DOMAIN details
      /\ done' \subseteq Weeks /\ \A v \in done' : Quiet(v)
    BY <1>1 DEF tables, BaseInv, Types, Closed
<1>4. QED
    BY <1>1, <1>2, <1>3, CompactionBase

(* A week that is done is over.                                            *)
LEMMA FinalizeBase == ASSUME BaseInv, Finalize PROVE BaseInv'
<1>1. /\ compaction.week # None /\ done' = done \union {compaction.week}
      /\ compaction' = [week |-> None, todo |-> {}]
      /\ UNCHANGED <<people, week, queue, runs, compacted, tables, disturbed>>
    BY DEF Finalize
<1>2. /\ compaction' \in [week : Weeks \union {None}, todo : SUBSET Teachers]
      /\ compaction'.week = None /\ compaction'.todo = {}
    BY <1>1
<1>3. compacted' \subseteq DOMAIN runs /\ DOMAIN details' = DOMAIN details
    BY <1>1 DEF tables, BaseInv, Types
<1>4. done' \subseteq Weeks /\ \A w \in done' : Quiet(w)
    BY <1>1 DEF BaseInv, Types, Closed
<1>5. QED
    BY <1>1, <1>2, <1>3, <1>4, CompactionBase

(* No step breaks it.                                                      *)
LEMMA BaseStep == ASSUME BaseInv, [Next]_vars PROVE BaseInv'
<1>1. CASE UNCHANGED vars
    <2>1. UNCHANGED <<people, week, queue, runs, compacted, tables, compaction, done, disturbed>>
        BY <1>1 DEF vars
    <2>2. /\ compacted' \subseteq DOMAIN runs /\ DOMAIN details' = DOMAIN details
          /\ compaction' \in [week : Weeks \union {None}, todo : SUBSET Teachers]
          /\ done' \subseteq Weeks /\ \A w \in done' : Quiet(w)
          /\ compaction'.week = None => compaction'.todo = {}
          /\ compaction'.week # None => compaction'.week \notin done' /\ Quiet(compaction'.week)
        BY <2>1 DEF tables, BaseInv, Types, Closed
    <2>3. QED
        BY <2>1, <2>2, CompactionBase
<1>2. CASE \E f \in Flushers, n \in 1 .. BatchSize : Insert(f, n)
    BY <1>2, InsertBase
<1>3. CASE \E f \in Flushers : Commit(f)
    BY <1>3, CommitBase
<1>4. CASE \E f \in Flushers : Rollback(f)
    BY <1>4, RollbackBase
<1>5. CASE NextWeek
    BY <1>5, NextWeekBase
<1>6. CASE \E p \in Pupils, c \in Rooms : Move(p, c)
    BY <1>6, MoveBase
<1>7. CASE \E w \in Weeks : StartCompaction(w)
    BY <1>7, StartBase
<1>8. CASE \E t \in Teachers : Slice(t)
    BY <1>8, SliceBase
<1>9. CASE \E t \in Teachers : SliceFails(t)
    BY <1>9, SliceFailsBase
<1>10. CASE Finalize
    BY <1>10, FinalizeBase
<1>11. QED
    BY <1>1, <1>2, <1>3, <1>4, <1>5, <1>6, <1>7, <1>8, <1>9, <1>10 DEF Next

-------------------------------------------------------------------------------
(* A closed week.                                                          *)

(* Tables with the same rows of a week are the same of that week.          *)
LEMMA SameOfWeek ==
    ASSUME NEW a, NEW b, NEW w,
           \A k : k[2] = w => /\ k \in DOMAIN a <=> k \in DOMAIN b
                              /\ k \in DOMAIN a => a[k] = b[k]
    PROVE  OfWeek(a, w) = OfWeek(b, w)
<1> DEFINE A == {k \in DOMAIN a : ~(k[2] # w)}
           B == {k \in DOMAIN b : ~(k[2] # w)}
<1>1. A = B /\ \A k \in A : a[k] = b[k]
    OBVIOUS
<1>2. OfWeek(a, w) = [k \in A |-> a[k]] /\ OfWeek(b, w) = [k \in B |-> b[k]]
    BY DEF OfWeek, Without
<1>3. QED
    BY <1>1, <1>2

(* The rows of runs have the runs' weeks.                                  *)
LEMMA RowsOfWeeks ==
    ASSUME NEW S, NEW W, \A r \in S : r.week \in W
    PROVE  /\ \A k \in DOMAIN OfPupil(StudentWeeks(S)) : k[2] \in W
           /\ \A k \in DOMAIN OfPupil(StudentLevels(S)) : k[2] \in W
           /\ \A k \in DOMAIN RoomWeeks(S) : k[2] \in W
<1>1. /\ DOMAIN OfPupil(StudentWeeks(S)) = {<<r.student, r.week>> : r \in S}
      /\ DOMAIN OfPupil(StudentLevels(S)) = {<<r.student, r.week, r.level>> : r \in S}
      /\ DOMAIN RoomWeeks(S) = {<<home[r.student], r.week>> : r \in S}
    BY DEF OfPupil, StudentWeeks, StudentLevels, RoomWeeks, Grouped
<1>2. QED
    BY <1>1

(* The detail rows of turns have their runs' weeks.                        *)
LEMMA DetailsOfWeeks ==
    ASSUME NEW S, NEW W, \A s \in S : s[1].week \in W
    PROVE  \A table \in DOMAIN Details(S) : \A k \in DOMAIN Details(S)[table] : k[2] \in W
<1>1. \A s \in S : \A what : At(s, what)[2] \in W
    BY DEF At
<1>2. \A k \in DOMAIN Hotspots(S) : k[2] \in W
    BY <1>1 DEF Hotspots, Grouped, Mistakes
<1>3. \A k \in DOMAIN SpecialTiles(S) : k[2] \in W
    BY <1>1 DEF SpecialTiles, Grouped, Ofs
<1>4. \A k \in DOMAIN ChainLengths(S) : k[2] \in W
    BY <1>1 DEF ChainLengths, Grouped
<1>5. \A k \in DOMAIN CardFamilies(S) : k[2] \in W
    BY <1>1 DEF CardFamilies, Ofs
<1>6. \A k \in DOMAIN CardTypes(S) : k[2] \in W
    BY <1>1 DEF CardTypes, Grouped
<1>7. \A k \in DOMAIN Conditionals(S) : k[2] \in W
    BY <1>1 DEF Conditionals, Grouped, TileConditionals, BagConditionals, ++
<1>8. \A k \in DOMAIN BackUsage(S) : k[2] \in W
    BY <1>1 DEF BackUsage, Grouped
<1>9. \A k \in DOMAIN ForeachContext(S) : k[2] \in W
    BY <1>1 DEF ForeachContext, Grouped
<1>10. \A k \in DOMAIN NumberChoices(S) : k[2] \in W
    BY <1>1 DEF NumberChoices, Grouped
<1>11. QED
    BY <1>2, <1>3, <1>4, <1>5, <1>6, <1>7, <1>8, <1>9, <1>10 DEF Details

(* A stored run as the statistics have it.                                 *)
LEMMA RunIs ==
    ASSUME BaseInv, NEW id \in DOMAIN runs
    PROVE  LET run == RunOf(id)
           IN  /\ run.id = id /\ run.at = runs[id].at /\ run.week = runs[id].week
               /\ run.at \in Nat /\ run.week \in 1 .. week
               /\ run.student = Payloads[id].student /\ run.student \in Pupils
               /\ run.level = Payloads[id].level
               /\ run.score \in Int /\ run.correct \in Int /\ run.wrong \in Int
               /\ run.elapsed \in Int
               /\ run.place = Stored[id].place /\ run.turns = Stored[id].turns
               /\ DOMAIN Stored[id] \subseteq DOMAIN run /\ "week" \in DOMAIN run
<1>1. id \in Accepted /\ runs[id] \in [at : Nat, week : 1 .. week]
    BY DEF BaseInv, Types, Stamped, Stamps
<1>2. DOMAIN Stored[id] \subseteq DOMAIN RunOf(id) /\ "week" \in DOMAIN RunOf(id)
    BY <1>1 DEF RunOf, ++
<1>3. runs[id].at \in Nat /\ runs[id].week \in 1 .. week
    BY <1>1
<1>4. QED
    BY <1>1, <1>2, <1>3, RunFields DEF RunOf

(* The runs that are committed together, with their stamps.                *)
New(f) == {Stored[id] ++ stamps[f][id] : id \in DOMAIN stamps[f]}

(* One of them.                                                            *)
LEMMA NewIs ==
    ASSUME BaseInv, NEW f \in Flushers, NEW id \in DOMAIN stamps[f]
    PROVE  LET run == Stored[id] ++ stamps[f][id]
           IN  /\ id \in Accepted /\ id \notin DOMAIN runs
               /\ run.id = id /\ run.at = stamps[f][id].at /\ run.week = stamps[f][id].week
               /\ run.at \in Nat /\ run.week \in 1 .. week
               /\ run.student = Payloads[id].student /\ run.student \in Pupils
               /\ run.level = Payloads[id].level
               /\ run.score \in Int /\ run.correct \in Int /\ run.wrong \in Int
               /\ run.elapsed \in Int
<1>1. id \in Accepted /\ id \notin DOMAIN runs
    BY ToSetIn DEF BaseInv, Types, RunsInOnePlace, InBatch
<1>2. stamps[f][id] \in [at : Nat, week : 1 .. week]
    BY DEF BaseInv, Stamped, Stamps
<1>3. stamps[f][id].at \in Nat /\ stamps[f][id].week \in 1 .. week
    BY <1>2
<1>4. QED
    BY <1>1, <1>2, <1>3, RunFields

(* Of a teacher's slice all runs are the week's, with their turns or not.  *)
LEMMA SliceWeek ==
    ASSUME BaseInv, NEW t, NEW w, NEW r \in RunsUnder(t, w)
    PROVE  r.week = w /\ Left(r).week = w
<1>1. PICK id \in DOMAIN runs : r = RunOf(id)
    BY DEF RunsUnder, RunsIn, AllRuns
<1>2. r.week = w /\ "week" \in DOMAIN r
    BY <1>1, RunIs DEF RunsUnder, RunsIn
<1>3. Left(r).week = r.week
    BY <1>2 DEF Left
<1>4. QED
    BY <1>2, <1>3

(* A commit, which counts runs in weeks that are not quiet, and a slice,   *)
(* which makes the rows of its own week, leave the weeks that are done.    *)
LEMMA ClosedStep ==
    ASSUME BaseInv, [Next]_vars, NEW w \in done
    PROVE  /\ OfWeek(studentWeek', w) = OfWeek(studentWeek, w)
           /\ OfWeek(studentLevel', w) = OfWeek(studentLevel, w)
           /\ OfWeek(roomWeek', w) = OfWeek(roomWeek, w)
           /\ \A t \in DOMAIN details : OfWeek(details'[t], w) = OfWeek(details[t], w)
<1>1. Quiet(w)
    BY DEF BaseInv, Closed
<1>2. ASSUME NEW f \in Flushers, Commit(f)
      PROVE  /\ OfWeek(studentWeek', w) = OfWeek(studentWeek, w)
             /\ OfWeek(studentLevel', w) = OfWeek(studentLevel, w)
             /\ OfWeek(roomWeek', w) = OfWeek(roomWeek, w)
             /\ details' = details
    <2>1. \A r \in New(f) : r.week # w
        BY <1>1, NewIs DEF New, Quiet
    <2> DEFINE W == {r.week : r \in New(f)}
    <2>2. w \notin W
        BY <2>1
    <2>3. \A r \in New(f) : r.week \in W
        OBVIOUS
    <2> HIDE DEF W
    <2>4. /\ \A k \in DOMAIN OfPupil(StudentWeeks(New(f))) : k[2] # w
          /\ \A k \in DOMAIN OfPupil(StudentLevels(New(f))) : k[2] # w
          /\ \A k \in DOMAIN RoomWeeks(New(f)) : k[2] # w
        BY <2>2, <2>3, RowsOfWeeks
    <2>5. /\ studentWeek'  = Upserted(studentWeek, OfPupil(StudentWeeks(New(f))), MergedWeek)
          /\ studentLevel' = Upserted(studentLevel, OfPupil(StudentLevels(New(f))), MergedLevel)
          /\ roomWeek'     = Upserted(roomWeek, RoomWeeks(New(f)), MergedRoom)
          /\ details' = details
        BY <1>2 DEF Commit, New
    <2>6. OfWeek(studentWeek', w) = OfWeek(studentWeek, w)
        <3>1. \A k : k[2] = w => /\ k \in DOMAIN studentWeek' <=> k \in DOMAIN studentWeek
                                 /\ k \in DOMAIN studentWeek' => studentWeek'[k] = studentWeek[k]
            BY <2>4, <2>5 DEF Upserted
        <3>2. QED
            BY <3>1, SameOfWeek
    <2>7. OfWeek(studentLevel', w) = OfWeek(studentLevel, w)
        <3>1. \A k : k[2] = w => /\ k \in DOMAIN studentLevel' <=> k \in DOMAIN studentLevel
                                 /\ k \in DOMAIN studentLevel' => studentLevel'[k] = studentLevel[k]
            BY <2>4, <2>5 DEF Upserted
        <3>2. QED
            BY <3>1, SameOfWeek
    <2>8. OfWeek(roomWeek', w) = OfWeek(roomWeek, w)
        <3>1. \A k : k[2] = w => /\ k \in DOMAIN roomWeek' <=> k \in DOMAIN roomWeek
                                 /\ k \in DOMAIN roomWeek' => roomWeek'[k] = roomWeek[k]
            BY <2>4, <2>5 DEF Upserted
        <3>2. QED
            BY <3>1, SameOfWeek
    <2>9. QED
        BY <2>5, <2>6, <2>7, <2>8
<1>3. ASSUME NEW t \in Teachers, Slice(t), ~(UNCHANGED tables)
      PROVE  /\ OfWeek(studentWeek', w) = OfWeek(studentWeek, w)
             /\ OfWeek(studentLevel', w) = OfWeek(studentLevel, w)
             /\ OfWeek(roomWeek', w) = OfWeek(roomWeek, w)
             /\ \A table \in DOMAIN details : OfWeek(details'[table], w) = OfWeek(details[table], w)
    <2> DEFINE v    == compaction.week
               mine == RunsUnder(t, v)
               left == {Left(r) : r \in mine}
               W    == {v}
    <2>1. v # w /\ w \notin W
        BY <1>3 DEF BaseInv, Closed, Slice
    <2>2. /\ studentWeek' = Remade(t).weeks /\ studentLevel' = Remade(t).levels
          /\ roomWeek' = Remade(t).rooms /\ details' = Remade(t).details
        BY <1>3 DEF Slice
    <2>3. /\ Remade(t).weeks = Rest(studentWeek, t) ++ OfPupil(StudentWeeks(mine))
          /\ Remade(t).levels = Rest(studentLevel, t) ++ OfPupil(StudentLevels(mine))
          /\ Remade(t).rooms = Rest(roomWeek, t) ++ RoomWeeks(mine)
          /\ \A table \in DOMAIN details :
                Remade(t).details[table] =
                    Without(details[table], LAMBDA k : TheirDetail(k, t)) ++ Details(Steps(left))[table]
        BY DEF Remade
    <2>4. \A r \in mine : r.week \in W
        BY SliceWeek
    <2>5. \A s \in Steps(left) : s[1].week \in W
        <3>1. \A r \in left : r.week = v
            BY SliceWeek
        <3>2. QED
            BY <3>1 DEF Steps
    <2> HIDE DEF v, mine, left, W
    <2>6. /\ \A k \in DOMAIN OfPupil(StudentWeeks(mine)) : k[2] # w
          /\ \A k \in DOMAIN OfPupil(StudentLevels(mine)) : k[2] # w
          /\ \A k \in DOMAIN RoomWeeks(mine) : k[2] # w
        BY <2>1, <2>4, RowsOfWeeks
    <2>7. \A table \in DOMAIN Details(Steps(left)) :
              \A k \in DOMAIN Details(Steps(left))[table] : k[2] # w
        BY <2>1, <2>5, DetailsOfWeeks
    <2>8. DOMAIN details = DOMAIN Details(Steps(left))
        BY DEF BaseInv, Types, Details
    <2>9. \A k : k[2] = w =>
              /\ k \in DOMAIN Rest(studentWeek, t) <=> k \in DOMAIN studentWeek
              /\ k \in DOMAIN studentWeek => Rest(studentWeek, t)[k] = studentWeek[k]
              /\ k \in DOMAIN Rest(studentLevel, t) <=> k \in DOMAIN studentLevel
              /\ k \in DOMAIN studentLevel => Rest(studentLevel, t)[k] = studentLevel[k]
              /\ k \in DOMAIN Rest(roomWeek, t) <=> k \in DOMAIN roomWeek
              /\ k \in DOMAIN roomWeek => Rest(roomWeek, t)[k] = roomWeek[k]
        BY <2>1 DEF Rest, Without, Theirs, v
    <2>10. OfWeek(studentWeek', w) = OfWeek(studentWeek, w)
        <3>1. \A k : k[2] = w => /\ k \in DOMAIN studentWeek' <=> k \in DOMAIN studentWeek
                                 /\ k \in DOMAIN studentWeek' => studentWeek'[k] = studentWeek[k]
            BY <2>2, <2>3, <2>6, <2>9 DEF ++
        <3>2. QED
            BY <3>1, SameOfWeek
    <2>11. OfWeek(studentLevel', w) = OfWeek(studentLevel, w)
        <3>1. \A k : k[2] = w => /\ k \in DOMAIN studentLevel' <=> k \in DOMAIN studentLevel
                                 /\ k \in DOMAIN studentLevel' => studentLevel'[k] = studentLevel[k]
            BY <2>2, <2>3, <2>6, <2>9 DEF ++
        <3>2. QED
            BY <3>1, SameOfWeek
    <2>12. OfWeek(roomWeek', w) = OfWeek(roomWeek, w)
        <3>1. \A k : k[2] = w => /\ k \in DOMAIN roomWeek' <=> k \in DOMAIN roomWeek
                                 /\ k \in DOMAIN roomWeek' => roomWeek'[k] = roomWeek[k]
            BY <2>2, <2>3, <2>6, <2>9 DEF ++
        <3>2. QED
            BY <3>1, SameOfWeek
    <2>13. ASSUME NEW table \in DOMAIN details
           PROVE  OfWeek(details'[table], w) = OfWeek(details[table], w)
        <3> DEFINE kept == Without(details[table], LAMBDA k : TheirDetail(k, t))
                   new  == Details(Steps(left))[table]
        <3>1. details'[table] = kept ++ new
            BY <2>2, <2>3
        <3>2. \A k : k[2] = w => /\ k \in DOMAIN kept <=> k \in DOMAIN details[table]
                                 /\ k \in DOMAIN kept => kept[k] = details[table][k]
            BY <2>1 DEF Without, TheirDetail, Theirs, v
        <3>3. \A k \in DOMAIN new : k[2] # w
            BY <2>7, <2>8
        <3> HIDE DEF kept, new
        <3>4. \A k : k[2] = w => /\ k \in DOMAIN details'[table] <=> k \in DOMAIN details[table]
                                 /\ k \in DOMAIN details'[table] =>
                                        details'[table][k] = details[table][k]
            BY <3>1, <3>2, <3>3 DEF ++
        <3>5. QED
            BY <3>4, SameOfWeek
    <2>14. QED
        BY <2>10, <2>11, <2>12, <2>13
<1>4. CASE UNCHANGED tables
    BY <1>4 DEF tables
<1>5. CASE \E f \in Flushers : Commit(f)
    BY <1>2, <1>5
<1>6. CASE (\E t \in Teachers : Slice(t)) /\ ~(UNCHANGED tables)
    BY <1>3, <1>6
<1>7. (\E f \in Flushers : Commit(f)) \/ (\E t \in Teachers : Slice(t)) \/ UNCHANGED tables
    BY DEF Next, vars, Insert, Rollback, NextWeek, Move, StartCompaction, SliceFails, Finalize
<1>8. QED
    BY <1>4, <1>5, <1>6, <1>7

(* The invariant of all that follows.                                      *)
LEMMA BaseHolds == Spec => []BaseInv
<1>1. Init => BaseInv
    BY BaseInitially
<1>2. BaseInv /\ [Next]_vars => BaseInv'
    BY BaseStep
<1>3. QED
    BY <1>1, <1>2, PTL DEF Spec

(* What a closed week says of it never changes again, whatever is stored,  *)
(* compacted and moved afterwards: a run counts in the week it is stored   *)
(* in, and no transaction of a week outlives its compaction.               *)
(* (rollup_incremental.py, compact_weekly_runs.py)                         *)
THEOREM ClosedWeeksStayClosedTheorem == Spec => ClosedWeeksStayClosed
<1>1. BaseInv /\ [Next]_vars =>
         [\A w \in done :
             /\ OfWeek(studentWeek', w) = OfWeek(studentWeek, w)
             /\ OfWeek(studentLevel', w) = OfWeek(studentLevel, w)
             /\ OfWeek(roomWeek', w) = OfWeek(roomWeek, w)
             /\ \A t \in DOMAIN details : OfWeek(details'[t], w) = OfWeek(details[t], w)]_vars
    BY ClosedStep
<1>2. QED
    BY <1>1, BaseHolds, PTL DEF Spec, ClosedWeeksStayClosed

-------------------------------------------------------------------------------
(* A card.                                                                 *)

(* A stored turn's columns say what its card says, however it was sent.    *)
LEMMA StoredTurnReadsAlike ==
    ASSUME NEW sent
    PROVE  LET turn == StoredTurn(sent)
               read == ParseCard(turn.card)
               raw  == ExtractTurnCard(turn)
           IN  /\ <<turn.type, turn.family, turn.tile>> = <<read.type, read.family, read.tile>>
               /\ <<CardType(turn), CardFamily(turn), CardTile(turn)>> =
                      <<raw.type, raw.family, raw.tile>>
<1> DEFINE turn == StoredTurn(sent)
           card == NormalizedCard(sent.card)
           type == IF card.type = None THEN "unknown" ELSE NormalType(card.type)
<1>1. \A name : NormalTypeForIngestion(name) = NormalType(name)
    BY DEF NormalTypeForIngestion, NormalType
<1>2. /\ turn.card = card /\ turn.tile = card.tile
      /\ turn.type = type /\ turn.family = FamilyOf(type)
    BY <1>1 DEF StoredTurn, CardMetadata
<1> HIDE DEF turn
<1>3. /\ ParseCard(turn.card).type = type /\ ParseCard(turn.card).family = FamilyOf(type)
      /\ ParseCard(turn.card).tile = card.tile
    BY <1>2 DEF ParseCard
<1> HIDE DEF card, type
<1>4. /\ CardType(turn) = type /\ CardFamily(turn) = FamilyOf(type) /\ CardTile(turn) = card.tile
    BY <1>2, <1>3 DEF CardType, CardFamily, CardTile
<1>5. /\ ExtractTurnCard(turn).type = type /\ ExtractTurnCard(turn).family = FamilyOf(type)
      /\ ExtractTurnCard(turn).tile = card.tile
    BY <1>2, <1>3 DEF ExtractTurnCard
<1>6. QED
    BY <1>2, <1>3, <1>4, <1>5 DEF turn

(* The card of a stored turn is the same card to the flusher that filled   *)
(* its columns, to the weekly aggregation and to the raw analytics, of     *)
(* every turn that is ever stored.  (write_buffer.py, weekly_aggregation.py *)
(* and analytics.py each parse it themselves)                              *)
THEOREM CardsReadAlikeTheorem == Spec => []CardsReadAlike
<1>1. BaseInv => CardsReadAlike
    <2> SUFFICES ASSUME BaseInv, NEW s \in Steps(AllRuns)
                 PROVE  LET turn == Turn(s)
                            read == ParseCard(turn.card)
                            raw  == ExtractTurnCard(turn)
                        IN  /\ <<turn.type, turn.family, turn.tile>> =
                                   <<read.type, read.family, read.tile>>
                            /\ <<CardType(turn), CardFamily(turn), CardTile(turn)>> =
                                   <<raw.type, raw.family, raw.tile>>
        BY DEF CardsReadAlike
    <2>1. PICK r \in AllRuns, i \in DOMAIN s[1].turns : s = <<r, i>>
        BY DEF Steps
    <2>2. PICK id \in DOMAIN runs : r = RunOf(id)
        BY DEF AllRuns
    <2>3. r.turns = Stored[id].turns /\ id \in Accepted
        BY <2>2, RunIs DEF BaseInv, Types
    <2>4. r.turns = InOrder(Payloads[id].turns)
        BY <2>3 DEF Stored, StoredRun
    <2>5. \E sent : Turn(s) = StoredTurn(sent)
        BY <2>1, <2>4 DEF Turn, InOrder
    <2>6. QED
        BY <2>5, StoredTurnReadsAlike
<1>2. QED
    BY <1>1, BaseHolds, PTL

-------------------------------------------------------------------------------
(* A row, and two in one.                                                  *)

Column(R, c)  == SumFunction([r \in R |-> r[c]])
Squares(R, c) == SumFunction([r \in R |-> r[c] * r[c]])
Values(R, c)  == {r[c] : r \in R}

Stat(R, c) ==
    [sum |-> Column(R, c), count |-> Cardinality(R), squares |-> Squares(R, c),
     min |-> IF R = {} THEN None ELSE Min(Values(R, c)),
     max |-> IF R = {} THEN None ELSE Max(Values(R, c))]

WeekRow(R)  == Counters(R) ++ LatestRun(R) ++ FirstRun(R)
LevelRow(R) == Counters(R) ++ LatestRun(R)

(* Finitely many runs with numbers in their columns.                       *)
Measured == {"score", "correct", "wrong", "elapsed", "at"}
Countable(R) == IsFiniteSet(R) /\ \A r \in R : \A c \in Measured : r[c] \in Int

(* A column of some runs of them.                                          *)
LEMMA ColumnsAddUp ==
    ASSUME NEW A, NEW B, Countable(A \union B), A \intersect B = {}, NEW c \in Measured
    PROVE  /\ Column(A \union B, c) = Column(A, c) + Column(B, c)
           /\ Squares(A \union B, c) = Squares(A, c) + Squares(B, c)
           /\ Column(A, c) \in Int /\ Column(B, c) \in Int
           /\ Squares(A, c) \in Int /\ Squares(B, c) \in Int
<1> DEFINE U == A \union B
           g == [r \in U |-> r[c]]
           h == [r \in U |-> r[c] * r[c]]
<1>1. IsFiniteSet(U) /\ A \in SUBSET U /\ B \in SUBSET U /\ U \in SUBSET U
    BY DEF Countable
<1>2. g \in [U -> Int] /\ h \in [U -> Int]
    BY DEF Countable
<1>3. \A R \in SUBSET U : /\ [r \in R |-> g[r]] = [r \in R |-> r[c]]
                          /\ [r \in R |-> h[r]] = [r \in R |-> r[c] * r[c]]
    OBVIOUS
<1>4. \A R \in SUBSET U : SumIn(g, R) = Column(R, c) /\ SumIn(h, R) = Squares(R, c)
    <2> HIDE DEF g, h, U
    <2>1. QED
        BY <1>3, Zenon DEF SumIn, Column, Squares
<1> HIDE DEF g, h
<1>5. /\ SumIn(g, U) = SumIn(g, A) + SumIn(g, B)
      /\ SumIn(h, U) = SumIn(h, A) + SumIn(h, B)
    BY <1>1, <1>2, SumUnion
<1>6. /\ SumIn(g, A) \in Int /\ SumIn(g, B) \in Int
      /\ SumIn(h, A) \in Int /\ SumIn(h, B) \in Int
    BY <1>1, <1>2, SumWithout
<1>7. QED
    BY <1>1, <1>4, <1>5, <1>6

(* Its extremes.                                                           *)
LEMMA ColumnExtremes ==
    ASSUME NEW R, Countable(R), R # {}, NEW c \in Measured
    PROVE  LET V == Values(R, c)
           IN  /\ IsFiniteSet(V) /\ V # {} /\ V \subseteq Int
               /\ Min(V) \in Int /\ Max(V) \in Int /\ Min(V) <= Max(V)
<1> DEFINE V == Values(R, c)
           g == [r \in R |-> r[c]]
<1>1. IsFiniteSet(R) /\ \A r \in R : r[c] \in Int
    BY DEF Countable
<1>2. g \in [R -> Int] /\ V = {g[r] : r \in R}
    BY <1>1 DEF Values
<1> HIDE DEF g
<1>3. IsFiniteSet({g[r] : r \in R})
    BY <1>1, <1>2, ImageIsFinite, Zenon
<1>4. IsFiniteSet(V) /\ V # {} /\ V \subseteq Int
    BY <1>1, <1>2, <1>3 DEF Values
<1> HIDE DEF V
<1>5. /\ Min(V) \in V /\ \A x \in V : Min(V) <= x
      /\ Max(V) \in V /\ \A x \in V : x <= Max(V)
    BY <1>4, Extremes
<1>6. QED
    BY <1>4, <1>5 DEF V

LEMMA ColumnExtremesOfUnion ==
    ASSUME NEW A, NEW B, Countable(A), Countable(B), A # {}, B # {}, NEW c \in Measured
    PROVE  LET V == Values(A, c)
               W == Values(B, c)
               U == Values(A \union B, c)
           IN  /\ Min(U) = Min({Min(V), Min(W)}) /\ Max(U) = Max({Max(V), Max(W)})
               /\ Max(U) = IF Max(W) > Max(V) THEN Max(W) ELSE Max(V)
<1>1. Values(A \union B, c) = Values(A, c) \union Values(B, c)
    BY DEF Values
<1>2. /\ IsFiniteSet(Values(A, c)) /\ Values(A, c) # {} /\ Values(A, c) \subseteq Int
      /\ IsFiniteSet(Values(B, c)) /\ Values(B, c) # {} /\ Values(B, c) \subseteq Int
    BY ColumnExtremes
<1> DEFINE V == Values(A, c)
           W == Values(B, c)
<1> HIDE DEF V, W
<1>3. Values(A \union B, c) = V \union W
    BY <1>1 DEF V, W
<1>4. /\ IsFiniteSet(V) /\ V # {} /\ V \subseteq Int
      /\ IsFiniteSet(W) /\ W # {} /\ W \subseteq Int
    BY <1>2 DEF V, W
<1>5. /\ Min(V \union W) = Min({Min(V), Min(W)}) /\ Max(V \union W) = Max({Max(V), Max(W)})
      /\ Max(V \union W) = IF Max(W) > Max(V) THEN Max(W) ELSE Max(V)
    BY <1>4, ExtremesOfUnion
<1>6. QED
    BY <1>3, <1>5 DEF V, W

(* Two sets of runs together.                                              *)
LEMMA CountableUnion ==
    ASSUME NEW A, NEW B, Countable(A), Countable(B)
    PROVE  Countable(A \union B)
BY FS_Union DEF Countable

LEMMA CountsAddUp ==
    ASSUME NEW A, NEW B, IsFiniteSet(A), IsFiniteSet(B), A \intersect B = {}
    PROVE  Cardinality(A \union B) = Cardinality(A) + Cardinality(B)
<1>1. Cardinality(A \union B) = Cardinality(A) + Cardinality(B) - Cardinality(A \intersect B)
    BY FS_Union
<1>2. Cardinality(A) \in Nat /\ Cardinality(B) \in Nat /\ Cardinality(A \intersect B) = 0
    BY FS_CardinalityType, FS_EmptySet
<1>3. QED
    BY <1>1, <1>2

(* The columns of a row ...                                                *)
LEMMA CountersAre ==
    ASSUME NEW R
    PROVE  Counters(R) =
              [runs |-> Cardinality(R), wins |-> Cardinality({r \in R : r.won}),
               correct |-> Column(R, "correct"), wrong |-> Column(R, "wrong"),
               score |-> Stat(R, "score"), elapsed |-> Stat(R, "elapsed")]
BY DEF Counters, StatOf, SumOf, Column, Squares, Values, Stat

(* ... and of two rows in one.                                             *)
LEMMA StatsMerge ==
    ASSUME NEW A, NEW B, Countable(A), Countable(B), A # {}, B # {}, A \intersect B = {},
           NEW c \in Measured
    PROVE  MergedStats(Stat(A, c), Stat(B, c)) = Stat(A \union B, c)
<1> DEFINE U == A \union B
           m == MergedStats(Stat(A, c), Stat(B, c))
           Least(R) == Min(Values(R, c))
           Greatest(R) == Max(Values(R, c))
<1>1. U # {} /\ Countable(U)
    BY CountableUnion
<1>2. /\ Stat(A, c).sum = Column(A, c) /\ Stat(A, c).count = Cardinality(A)
      /\ Stat(A, c).squares = Squares(A, c)
      /\ Stat(A, c).min = Least(A) /\ Stat(A, c).max = Greatest(A)
    BY DEF Stat
<1>3. /\ Stat(B, c).sum = Column(B, c) /\ Stat(B, c).count = Cardinality(B)
      /\ Stat(B, c).squares = Squares(B, c)
      /\ Stat(B, c).min = Least(B) /\ Stat(B, c).max = Greatest(B)
    BY DEF Stat
<1>4. Stat(U, c) = [sum |-> Column(U, c), count |-> Cardinality(U), squares |-> Squares(U, c),
                    min |-> Least(U), max |-> Greatest(U)]
    BY <1>1 DEF Stat
<1>5. /\ Column(U, c) = Column(A, c) + Column(B, c)
      /\ Squares(U, c) = Squares(A, c) + Squares(B, c)
    BY <1>1, ColumnsAddUp
<1>6. Cardinality(U) = Cardinality(A) + Cardinality(B)
    BY CountsAddUp DEF Countable
<1>7. /\ Least(U) = Min({Least(A), Least(B)}) /\ Greatest(U) = Max({Greatest(A), Greatest(B)})
    BY ColumnExtremesOfUnion
<1>8. /\ Least(A) \in Int /\ Least(B) \in Int /\ Greatest(A) \in Int /\ Greatest(B) \in Int
    BY ColumnExtremes
<1> HIDE DEF U, Least, Greatest
<1>9. /\ LeastOf({Least(A), Least(B)}) = Min({Least(A), Least(B)})
      /\ GreatestOf({Greatest(A), Greatest(B)}) = Max({Greatest(A), Greatest(B)})
    <2>1. ASSUME NEW x \in Int, NEW y \in Int
          PROVE  {x, y} \ {None} = {x, y} /\ {x, y} # {}
        BY StatisticsAssumption
    <2>2. /\ {Least(A), Least(B)} \ {None} = {Least(A), Least(B)}
          /\ {Greatest(A), Greatest(B)} \ {None} = {Greatest(A), Greatest(B)}
          /\ {Least(A), Least(B)} # {} /\ {Greatest(A), Greatest(B)} # {}
        BY <1>8, <2>1
    <2>3. QED
        BY <2>2 DEF LeastOf, GreatestOf
<1>10. m = [sum |-> Column(A, c) + Column(B, c), count |-> Cardinality(A) + Cardinality(B),
            squares |-> Squares(A, c) + Squares(B, c)]
           ++ [min |-> LeastOf({Least(A), Least(B)}),
               max |-> GreatestOf({Greatest(A), Greatest(B)})]
    BY <1>2, <1>3 DEF MergedStats, MergedSums
<1>11. m = [sum |-> Column(U, c), count |-> Cardinality(U), squares |-> Squares(U, c)]
           ++ [min |-> Least(U), max |-> Greatest(U)]
    BY <1>5, <1>6, <1>7, <1>9, <1>10
<1> HIDE DEF m
<1>12. m = [sum |-> Column(U, c), count |-> Cardinality(U), squares |-> Squares(U, c),
            min |-> Least(U), max |-> Greatest(U)]
    BY <1>11 DEF ++
<1>13. QED
    BY <1>4, <1>12 DEF m, U

(* The counters of two sets of runs.                                       *)
LEMMA CountersMerge ==
    ASSUME NEW A, NEW B, Countable(A), Countable(B), A # {}, B # {}, A \intersect B = {},
           NEW old, NEW new, Matches(old, Counters(A)), Matches(new, Counters(B))
    PROVE  MergedCounters(old, new, MergedStats) = Counters(A \union B)
<1> DEFINE U == A \union B
           won(R) == {r \in R : r.won}
<1>1. /\ old.runs = Cardinality(A) /\ old.wins = Cardinality(won(A))
      /\ old.correct = Column(A, "correct") /\ old.wrong = Column(A, "wrong")
      /\ old.score = Stat(A, "score") /\ old.elapsed = Stat(A, "elapsed")
    BY CountersAre DEF Matches
<1>2. /\ new.runs = Cardinality(B) /\ new.wins = Cardinality(won(B))
      /\ new.correct = Column(B, "correct") /\ new.wrong = Column(B, "wrong")
      /\ new.score = Stat(B, "score") /\ new.elapsed = Stat(B, "elapsed")
    BY CountersAre DEF Matches
<1>3. Counters(U) =
         [runs |-> Cardinality(U), wins |-> Cardinality(won(U)),
          correct |-> Column(U, "correct"), wrong |-> Column(U, "wrong"),
          score |-> Stat(U, "score"), elapsed |-> Stat(U, "elapsed")]
    BY CountersAre
<1>4. Countable(U)
    BY CountableUnion
<1>5. Cardinality(U) = Cardinality(A) + Cardinality(B)
    BY CountsAddUp DEF Countable
<1>6. Cardinality(won(U)) = Cardinality(won(A)) + Cardinality(won(B))
    <2>1. /\ IsFiniteSet(won(A)) /\ IsFiniteSet(won(B))
          /\ won(A) \intersect won(B) = {} /\ won(U) = won(A) \union won(B)
        BY FS_Subset DEF Countable
    <2> HIDE DEF won
    <2>2. QED
        BY <2>1, CountsAddUp
<1>7. /\ Column(U, "correct") = Column(A, "correct") + Column(B, "correct")
      /\ Column(U, "wrong") = Column(A, "wrong") + Column(B, "wrong")
    BY <1>4, ColumnsAddUp DEF Measured
<1>8. /\ MergedStats(Stat(A, "score"), Stat(B, "score")) = Stat(U, "score")
      /\ MergedStats(Stat(A, "elapsed"), Stat(B, "elapsed")) = Stat(U, "elapsed")
    BY StatsMerge DEF Measured
<1>9. MergedCounters(old, new, MergedStats) =
         [runs |-> old.runs + new.runs, wins |-> old.wins + new.wins,
          correct |-> old.correct + new.correct, wrong |-> old.wrong + new.wrong,
          score |-> MergedStats(old.score, new.score),
          elapsed |-> MergedStats(old.elapsed, new.elapsed)]
    BY DEF MergedCounters
<1> HIDE DEF U, won
<1>10. MergedCounters(old, new, MergedStats) = Counters(U)
    BY <1>1, <1>2, <1>3, <1>5, <1>6, <1>7, <1>8, <1>9
<1>11. QED
    BY <1>10 DEF U

(* Which of their runs is the latest, and which the first.                 *)
LEMMA EndsMerge ==
    ASSUME NEW A, NEW B, Countable(A), Countable(B), A # {}, B # {}, NEW old, NEW new
    PROVE  /\ Matches(old, LatestRun(A)) /\ Matches(new, LatestRun(B)) =>
                 MergedLatest(old, new) = LatestRun(A \union B)
           /\ Matches(old, FirstRun(A)) /\ Matches(new, FirstRun(B)) =>
                 MergedFirst(old, new) = FirstRun(A \union B)
<1> DEFINE latest(R) == Max(Values(R, "at"))
           first(R)  == Min(Values(R, "at"))
           U == A \union B
<1>1. \A R : /\ LatestRun(R) = [latest |-> latest(R)] /\ FirstRun(R) = [first |-> first(R)]
    BY DEF LatestRun, FirstRun, Values
<1>2. /\ first(U) = Min({first(A), first(B)})
      /\ latest(U) = IF latest(B) > latest(A) THEN latest(B) ELSE latest(A)
    BY ColumnExtremesOfUnion DEF Measured
<1> HIDE DEF latest, first
<1>3. ASSUME Matches(old, LatestRun(A)), Matches(new, LatestRun(B))
      PROVE  MergedLatest(old, new) = LatestRun(U)
    <2>1. old.latest = latest(A) /\ new.latest = latest(B)
        BY <1>1, <1>3 DEF Matches
    <2>2. QED
        BY <1>1, <1>2, <2>1 DEF MergedLatest
<1>4. ASSUME Matches(old, FirstRun(A)), Matches(new, FirstRun(B))
      PROVE  MergedFirst(old, new) = FirstRun(U)
    <2>1. old.first = first(A) /\ new.first = first(B)
        BY <1>1, <1>4 DEF Matches
    <2>2. QED
        BY <1>1, <1>2, <2>1 DEF MergedFirst
<1>5. QED
    BY <1>3, <1>4

(* The parts of a row are its columns.                                     *)
LEMMA RowParts ==
    ASSUME NEW R
    PROVE  /\ WeekRow(R) = Counters(R) ++ LatestRun(R) ++ FirstRun(R)
           /\ LevelRow(R) = Counters(R) ++ LatestRun(R)
           /\ DOMAIN Counters(R) = {"runs", "wins", "correct", "wrong", "score", "elapsed"}
           /\ DOMAIN LatestRun(R) = {"latest"} /\ DOMAIN FirstRun(R) = {"first"}
BY DEF WeekRow, LevelRow, Counters, LatestRun, FirstRun

LEMMA PartsMatch ==
    ASSUME NEW R, NEW row
    PROVE  /\ Matches(row, WeekRow(R)) <=> /\ Matches(row, Counters(R)) /\ Matches(row, LatestRun(R))
                                           /\ Matches(row, FirstRun(R))
           /\ Matches(row, LevelRow(R)) <=> Matches(row, Counters(R)) /\ Matches(row, LatestRun(R))
<1>1. /\ WeekRow(R) = Counters(R) ++ LatestRun(R) ++ FirstRun(R)
      /\ LevelRow(R) = Counters(R) ++ LatestRun(R)
      /\ DOMAIN Counters(R) = {"runs", "wins", "correct", "wrong", "score", "elapsed"}
      /\ DOMAIN LatestRun(R) = {"latest"} /\ DOMAIN FirstRun(R) = {"first"}
    BY RowParts
<1>2. QED
    BY <1>1 DEF Matches, ++

(* A row that is upserted keeps what it says of room and teacher ...       *)
LEMMA RowsKeep ==
    ASSUME NEW old, NEW new
    PROVE  \A c \in {"room", "teacher"} \intersect DOMAIN old :
              /\ c \in DOMAIN MergedWeek(old, new) /\ MergedWeek(old, new)[c] = old[c]
              /\ c \in DOMAIN MergedLevel(old, new) /\ MergedLevel(old, new)[c] = old[c]
<1> DEFINE sums == MergedCounters(old, new, MergedStats)
<1>1. /\ MergedWeek(old, new) = sums ++ MergedLatest(old, new) ++ MergedFirst(old, new) ++ old
      /\ MergedLevel(old, new) = sums ++ MergedLatest(old, new) ++ old
    BY DEF MergedWeek, MergedLevel
<1>2. /\ DOMAIN sums = {"runs", "wins", "correct", "wrong", "score", "elapsed"}
      /\ DOMAIN MergedLatest(old, new) = {"latest"} /\ DOMAIN MergedFirst(old, new) = {"first"}
    BY DEF MergedCounters, MergedLatest, MergedFirst
<1> HIDE DEF sums
<1>3. QED
    BY <1>1, <1>2 DEF ++

(* ... and has what the same row made anew would have.                     *)
LEMMA RowsMerge ==
    ASSUME NEW A, NEW B, Countable(A), Countable(B), A # {}, B # {}, A \intersect B = {},
           NEW old, NEW new
    PROVE  /\ Matches(old, WeekRow(A)) /\ Matches(new, WeekRow(B)) =>
                 Matches(MergedWeek(old, new), WeekRow(A \union B))
           /\ Matches(old, LevelRow(A)) /\ Matches(new, LevelRow(B)) =>
                 Matches(MergedLevel(old, new), LevelRow(A \union B))
<1> DEFINE U == A \union B
           sums == MergedCounters(old, new, MergedStats)
<1>1. /\ MergedWeek(old, new) = sums ++ MergedLatest(old, new) ++ MergedFirst(old, new) ++ old
      /\ MergedLevel(old, new) = sums ++ MergedLatest(old, new) ++ old
    BY DEF MergedWeek, MergedLevel
<1>2. /\ DOMAIN sums = {"runs", "wins", "correct", "wrong", "score", "elapsed"}
      /\ DOMAIN MergedLatest(old, new) = {"latest"} /\ DOMAIN MergedFirst(old, new) = {"first"}
    BY DEF MergedCounters, MergedLatest, MergedFirst
<1>3. Matches(old, Counters(A)) /\ Matches(new, Counters(B)) => sums = Counters(U)
    BY CountersMerge
<1>4. /\ Matches(old, LatestRun(A)) /\ Matches(new, LatestRun(B)) =>
            MergedLatest(old, new) = LatestRun(U)
      /\ Matches(old, FirstRun(A)) /\ Matches(new, FirstRun(B)) =>
            MergedFirst(old, new) = FirstRun(U)
    BY EndsMerge
<1> HIDE DEF U, sums
<1>5. /\ \A c \in DOMAIN sums : MergedWeek(old, new)[c] = sums[c] /\ MergedLevel(old, new)[c] = sums[c]
      /\ \A c \in DOMAIN MergedLatest(old, new) :
            /\ MergedWeek(old, new)[c] = MergedLatest(old, new)[c]
            /\ MergedLevel(old, new)[c] = MergedLatest(old, new)[c]
      /\ \A c \in DOMAIN MergedFirst(old, new) :
            MergedWeek(old, new)[c] = MergedFirst(old, new)[c]
    BY <1>1, <1>2 DEF ++
<1>6. ASSUME Matches(old, WeekRow(A)), Matches(new, WeekRow(B))
      PROVE  Matches(MergedWeek(old, new), WeekRow(U))
    <2>1. /\ sums = Counters(U) /\ MergedLatest(old, new) = LatestRun(U)
          /\ MergedFirst(old, new) = FirstRun(U)
        BY <1>3, <1>4, <1>6, PartsMatch
    <2>2. /\ Matches(MergedWeek(old, new), Counters(U)) /\ Matches(MergedWeek(old, new), LatestRun(U))
          /\ Matches(MergedWeek(old, new), FirstRun(U))
        BY <1>5, <2>1 DEF Matches
    <2>3. QED
        BY <2>2, PartsMatch
<1>7. ASSUME Matches(old, LevelRow(A)), Matches(new, LevelRow(B))
      PROVE  Matches(MergedLevel(old, new), LevelRow(U))
    <2>1. sums = Counters(U) /\ MergedLatest(old, new) = LatestRun(U)
        BY <1>3, <1>4, <1>7, PartsMatch
    <2>2. /\ Matches(MergedLevel(old, new), Counters(U))
          /\ Matches(MergedLevel(old, new), LatestRun(U))
        BY <1>5, <2>1 DEF Matches
    <2>3. QED
        BY <2>2, PartsMatch
<1>8. QED
    BY <1>6, <1>7 DEF U

-------------------------------------------------------------------------------
(* The pupils' tables.                                                     *)

WeekRuns(S, k)  == {r \in S : <<r.student, r.week>> = k}
LevelRuns(S, k) == {r \in S : <<r.student, r.week, r.level>> = k}

(* Their rows.                                                             *)
LEMMA TablesAre ==
    ASSUME NEW S
    PROVE  /\ DOMAIN StudentWeeks(S) = {<<r.student, r.week>> : r \in S}
           /\ DOMAIN StudentLevels(S) = {<<r.student, r.week, r.level>> : r \in S}
           /\ \A k \in DOMAIN StudentWeeks(S) :
                 StudentWeeks(S)[k] = WeekRow(WeekRuns(S, k)) /\ WeekRuns(S, k) # {}
           /\ \A k \in DOMAIN StudentLevels(S) :
                 StudentLevels(S)[k] = LevelRow(LevelRuns(S, k)) /\ LevelRuns(S, k) # {}
BY DEF StudentWeeks, StudentLevels, Grouped, WeekRow, LevelRow, WeekRuns, LevelRuns

(* A table with its pupils' rooms and teachers.                            *)
LEMMA OfPupilIs ==
    ASSUME NEW table
    PROVE  /\ DOMAIN OfPupil(table) = DOMAIN table
           /\ \A k \in DOMAIN table :
                 /\ DOMAIN OfPupil(table)[k] = DOMAIN table[k] \union {"room", "teacher"}
                 /\ \A c \in DOMAIN table[k] : OfPupil(table)[k][c] = table[k][c]
                 /\ DOMAIN table[k] \intersect {"room", "teacher"} = {} =>
                       /\ OfPupil(table)[k].room = home[k[1]]
                       /\ OfPupil(table)[k].teacher = TeacherOf[home[k[1]]]
BY DEF OfPupil, ++

(* Rows made anew match, and say where the pupil is.                       *)
LEMMA FreshRows ==
    ASSUME NEW S
    PROVE  /\ \A k \in DOMAIN StudentWeeks(S) :
                 LET row == OfPupil(StudentWeeks(S))[k]
                 IN  /\ Matches(row, WeekRow(WeekRuns(S, k)))
                     /\ {"room", "teacher"} \subseteq DOMAIN row
                     /\ row.room = home[k[1]] /\ row.teacher = TeacherOf[home[k[1]]]
           /\ \A k \in DOMAIN StudentLevels(S) :
                 LET row == OfPupil(StudentLevels(S))[k]
                 IN  /\ Matches(row, LevelRow(LevelRuns(S, k)))
                     /\ {"room", "teacher"} \subseteq DOMAIN row
                     /\ row.room = home[k[1]] /\ row.teacher = TeacherOf[home[k[1]]]
<1>1. \A R : /\ DOMAIN WeekRow(R) \intersect {"room", "teacher"} = {}
             /\ DOMAIN LevelRow(R) \intersect {"room", "teacher"} = {}
    <2> TAKE R
    <2>1. /\ WeekRow(R) = Counters(R) ++ LatestRun(R) ++ FirstRun(R)
          /\ LevelRow(R) = Counters(R) ++ LatestRun(R)
          /\ DOMAIN Counters(R) = {"runs", "wins", "correct", "wrong", "score", "elapsed"}
          /\ DOMAIN LatestRun(R) = {"latest"} /\ DOMAIN FirstRun(R) = {"first"}
        BY RowParts
    <2>2. QED
        BY <2>1 DEF ++
<1>2. ASSUME NEW k \in DOMAIN StudentWeeks(S)
      PROVE  LET row == OfPupil(StudentWeeks(S))[k]
             IN  /\ Matches(row, WeekRow(WeekRuns(S, k)))
                 /\ {"room", "teacher"} \subseteq DOMAIN row
                 /\ row.room = home[k[1]] /\ row.teacher = TeacherOf[home[k[1]]]
    <2> DEFINE table == StudentWeeks(S)
    <2>1. /\ table[k] = WeekRow(WeekRuns(S, k)) /\ DOMAIN table[k] \intersect {"room", "teacher"} = {}
        BY <1>1, TablesAre
    <2> HIDE DEF table
    <2>2. k \in DOMAIN table
        BY DEF table
    <2>3. /\ DOMAIN OfPupil(table)[k] = DOMAIN table[k] \union {"room", "teacher"}
          /\ \A c \in DOMAIN table[k] : OfPupil(table)[k][c] = table[k][c]
          /\ OfPupil(table)[k].room = home[k[1]]
          /\ OfPupil(table)[k].teacher = TeacherOf[home[k[1]]]
        BY <2>1, <2>2, OfPupilIs
    <2>4. Matches(OfPupil(table)[k], WeekRow(WeekRuns(S, k)))
        BY <2>1, <2>3 DEF Matches
    <2>5. QED
        BY <2>3, <2>4 DEF table
<1>3. ASSUME NEW k \in DOMAIN StudentLevels(S)
      PROVE  LET row == OfPupil(StudentLevels(S))[k]
             IN  /\ Matches(row, LevelRow(LevelRuns(S, k)))
                 /\ {"room", "teacher"} \subseteq DOMAIN row
                 /\ row.room = home[k[1]] /\ row.teacher = TeacherOf[home[k[1]]]
    <2> DEFINE table == StudentLevels(S)
    <2>1. /\ table[k] = LevelRow(LevelRuns(S, k)) /\ DOMAIN table[k] \intersect {"room", "teacher"} = {}
        BY <1>1, TablesAre
    <2> HIDE DEF table
    <2>2. k \in DOMAIN table
        BY DEF table
    <2>3. /\ DOMAIN OfPupil(table)[k] = DOMAIN table[k] \union {"room", "teacher"}
          /\ \A c \in DOMAIN table[k] : OfPupil(table)[k][c] = table[k][c]
          /\ OfPupil(table)[k].room = home[k[1]]
          /\ OfPupil(table)[k].teacher = TeacherOf[home[k[1]]]
        BY <2>1, <2>2, OfPupilIs
    <2>4. Matches(OfPupil(table)[k], LevelRow(LevelRuns(S, k)))
        BY <2>1, <2>3 DEF Matches
    <2>5. QED
        BY <2>3, <2>4 DEF table
<1>4. QED
    BY <1>2, <1>3

(* The runs in the database can be counted, and those of a batch ...       *)
LEMMA RunsCountable ==
    ASSUME BaseInv
    PROVE  Countable(AllRuns) /\ \A f \in Flushers : Countable(New(f))
<1>1. IsFiniteSet(DOMAIN runs)
    BY AcceptedIsFinite, FS_Subset DEF BaseInv, Types
<1>2. IsFiniteSet(AllRuns)
    <2> DEFINE g == [id \in DOMAIN runs |-> RunOf(id)]
    <2>1. g \in [DOMAIN runs -> AllRuns]
        BY DEF AllRuns
    <2>2. AllRuns = {g[id] : id \in DOMAIN runs}
        BY DEF AllRuns
    <2> HIDE DEF g
    <2>3. IsFiniteSet({g[id] : id \in DOMAIN runs})
        BY <1>1, <2>1, ImageIsFinite, Zenon
    <2>4. QED
        BY <2>2, <2>3
<1>3. \A r \in AllRuns : \A c \in Measured : r[c] \in Int
    BY RunIs DEF AllRuns, Measured
<1>4. ASSUME NEW f \in Flushers
      PROVE  Countable(New(f))
    <2>1. IsFiniteSet(DOMAIN stamps[f])
        <3>1. DOMAIN stamps[f] \subseteq Accepted
            BY NewIs
        <3>2. QED
            BY <3>1, AcceptedIsFinite, FS_Subset
    <2> DEFINE g == [id \in DOMAIN stamps[f] |-> Stored[id] ++ stamps[f][id]]
    <2>2. g \in [DOMAIN stamps[f] -> New(f)]
        BY DEF New
    <2>0. New(f) = {g[id] : id \in DOMAIN stamps[f]}
        BY DEF New
    <2>3. \A r \in New(f) : \A c \in Measured : r[c] \in Int
        BY NewIs DEF New, Measured
    <2> HIDE DEF g
    <2>4. IsFiniteSet({g[id] : id \in DOMAIN stamps[f]})
        BY <2>1, <2>2, ImageIsFinite, Zenon
    <2>5. QED
        BY <2>0, <2>3, <2>4 DEF Countable
<1>5. QED
    BY <1>2, <1>3, <1>4 DEF Countable

LEMMA PartCountable ==
    ASSUME NEW R, Countable(R)
    PROVE  \A A \in SUBSET R : Countable(A)
BY FS_Subset DEF Countable

(* ... which a commit adds.                                                *)
LEMMA RunsAfterCommit ==
    ASSUME BaseInv, NEW f \in Flushers, Commit(f)
    PROVE  AllRuns' = AllRuns \union New(f) /\ AllRuns \intersect New(f) = {}
<1>1. /\ DOMAIN runs' = DOMAIN runs \union DOMAIN stamps[f]
      /\ \A id \in DOMAIN runs : runs'[id] = runs[id]
      /\ \A id \in DOMAIN stamps[f] : runs'[id] = stamps[f][id]
    BY NewIs DEF Commit, ++
<1>2. AllRuns' = {Stored[id] ++ runs'[id] : id \in DOMAIN runs'}
    BY DEF AllRuns, RunOf
<1>3. AllRuns' = AllRuns \union New(f)
    BY <1>1, <1>2 DEF AllRuns, RunOf, New
<1>4. ASSUME NEW r \in AllRuns, r \in New(f)
      PROVE  FALSE
    <2>1. r.id \in DOMAIN runs
        BY RunIs DEF AllRuns
    <2>2. r.id \notin DOMAIN runs
        BY <1>4, NewIs DEF New
    <2>3. QED
        BY <2>1, <2>2
<1>5. QED
    BY <1>3, <1>4

LEMMA SummariesInitially == ASSUME Init PROVE Summaries
<1>1. AllRuns = {}
    BY DEF Init, AllRuns, Nothing
<1>2. /\ DOMAIN StudentWeeks(AllRuns) = {} /\ DOMAIN StudentLevels(AllRuns) = {}
      /\ DOMAIN studentWeek = {} /\ DOMAIN studentLevel = {}
    <2>1. /\ DOMAIN StudentWeeks(AllRuns) = {<<r.student, r.week>> : r \in AllRuns}
          /\ DOMAIN StudentLevels(AllRuns) = {<<r.student, r.week, r.level>> : r \in AllRuns}
        BY TablesAre
    <2>2. DOMAIN studentWeek = {} /\ DOMAIN studentLevel = {}
        BY DEF Init, Nothing
    <2>3. QED
        BY <1>1, <2>1, <2>2
<1>3. QED
    BY <1>2 DEF Summaries, InStep

(* A step that leaves the runs and the pupils' tables, and moves nobody in *)
(* a week that is not disturbed then.                                      *)
LEMMA SummariesStay ==
    ASSUME SummariesInv, UNCHANGED <<runs, studentWeek, studentLevel>>,
           done \subseteq done', disturbed \subseteq disturbed', \A w \in Weeks : Quiet(w) => Quiet(w)',
           home' = home \/ 1 .. week \subseteq done' \union disturbed'
    PROVE  Summaries'
<1>1. AllRuns' = AllRuns
    BY DEF AllRuns, RunOf
<1>2. StudentWeeks(AllRuns)' = StudentWeeks(AllRuns) /\ StudentLevels(AllRuns)' = StudentLevels(AllRuns)
    <2>1. /\ StudentWeeks(AllRuns)' = StudentWeeks(AllRuns')
          /\ StudentLevels(AllRuns)' = StudentLevels(AllRuns')
        BY DEF StudentWeeks, StudentLevels, Grouped, Counters, StatOf, SumOf, LatestRun, FirstRun
    <2>2. QED
        BY <1>1, <2>1
<1>3. ASSUME NEW r \in AllRuns
      PROVE  r.week \in 1 .. week
    BY RunIs DEF SummariesInv, AllRuns
<1>4. /\ \A k \in DOMAIN StudentWeeks(AllRuns) : k[2] \in 1 .. week
      /\ \A k \in DOMAIN StudentLevels(AllRuns) : k[2] \in 1 .. week
    <2>1. /\ DOMAIN StudentWeeks(AllRuns) = {<<r.student, r.week>> : r \in AllRuns}
          /\ DOMAIN StudentLevels(AllRuns) = {<<r.student, r.week, r.level>> : r \in AllRuns}
        BY TablesAre
    <2>2. QED
        BY <1>3, <2>1
<1> DEFINE weeks == StudentWeeks(AllRuns)
           levels == StudentLevels(AllRuns)
<1>5. InStep(studentWeek, weeks) /\ InStep(studentLevel, levels)
    BY DEF SummariesInv, Summaries
<1>6. /\ weeks' = weeks /\ levels' = levels
      /\ \A k \in DOMAIN weeks : k[2] \in 1 .. week /\ k[2] \in Weeks
      /\ \A k \in DOMAIN levels : k[2] \in 1 .. week /\ k[2] \in Weeks
    <2>1. 1 .. week \subseteq Weeks
        BY StatisticsAssumption DEF SummariesInv, BaseInv, Types, Weeks
    <2>2. QED
        BY <1>2, <1>4, <2>1
<1> HIDE DEF weeks, levels
<1>7. InStep(studentWeek, weeks)'
    BY <1>5, <1>6 DEF InStep, Matches
<1>8. InStep(studentLevel, levels)'
    BY <1>5, <1>6 DEF InStep, Matches
<1>9. QED
    BY <1>7, <1>8 DEF Summaries, weeks, levels

(* A batch is counted.  A week somebody is counted in has no missing rows. *)
LEMMA SummariesCommit ==
    ASSUME SummariesInv, NEW f \in Flushers, Commit(f), BaseInv'
    PROVE  Summaries'
<1> DEFINE A == AllRuns
           N == New(f)
           U == A \union N
<1>0. BaseInv
    BY DEF SummariesInv
<1>1. AllRuns' = U /\ A \intersect N = {}
    BY <1>0, RunsAfterCommit
<1>2. /\ studentWeek'  = Upserted(studentWeek, OfPupil(StudentWeeks(N)), MergedWeek)
      /\ studentLevel' = Upserted(studentLevel, OfPupil(StudentLevels(N)), MergedLevel)
      /\ home' = home /\ done' = done /\ disturbed' = disturbed
    BY DEF Commit, New, people
<1>3. Countable(A) /\ Countable(N)
    BY <1>0, RunsCountable
<1>4. \A r \in N : ~Quiet(r.week)
    BY <1>0, NewIs DEF New, Quiet
<1>5. \A w : Quiet(w) => Quiet(w)'
    <2>1. stamps' = [stamps EXCEPT ![f] = Nothing] /\ DOMAIN stamps = Flushers /\ DOMAIN Nothing = {}
          /\ week' = week
        BY <1>0 DEF Commit, BaseInv, Types, Nothing
    <2>2. QED
        BY <2>1 DEF Quiet
<1>6. /\ StudentWeeks(AllRuns)' = StudentWeeks(AllRuns')
      /\ StudentLevels(AllRuns)' = StudentLevels(AllRuns')
    BY DEF StudentWeeks, StudentLevels, Grouped, Counters, StatOf, SumOf, LatestRun, FirstRun
<1> HIDE DEF A, N, U
<1>7. InStep(studentWeek, StudentWeeks(AllRuns))'
    <2> DEFINE new   == OfPupil(StudentWeeks(N))
               fresh == StudentWeeks(A)
               more  == StudentWeeks(U)
               Part(S, k) == WeekRuns(S, k)
    <2>1. /\ DOMAIN studentWeek' = DOMAIN studentWeek \union DOMAIN new
          /\ \A k \in DOMAIN studentWeek' :
                /\ k \notin DOMAIN new => studentWeek'[k] = studentWeek[k]
                /\ k \notin DOMAIN studentWeek => studentWeek'[k] = new[k]
                /\ k \in DOMAIN new /\ k \in DOMAIN studentWeek =>
                       studentWeek'[k] = MergedWeek(studentWeek[k], new[k])
        BY <1>2 DEF Upserted
    <2>2. DOMAIN new = DOMAIN StudentWeeks(N) /\ \A k \in DOMAIN new : ~Quiet(k[2])
        <3>1. DOMAIN new = DOMAIN StudentWeeks(N)
            BY OfPupilIs
        <3>2. DOMAIN StudentWeeks(N) = {<<r.student, r.week>> : r \in N}
            BY TablesAre
        <3>3. QED
            BY <1>4, <3>1, <3>2
    <2>3. DOMAIN more = DOMAIN fresh \union DOMAIN new
        <3>1. /\ DOMAIN fresh = {<<r.student, r.week>> : r \in A}
              /\ DOMAIN more = {<<r.student, r.week>> : r \in U}
              /\ DOMAIN StudentWeeks(N) = {<<r.student, r.week>> : r \in N}
            BY TablesAre
        <3>2. QED
            BY <2>2, <3>1 DEF U
    <2>4. /\ \A k \in DOMAIN fresh : fresh[k] = WeekRow(Part(A, k)) /\ Part(A, k) # {}
          /\ \A k \in DOMAIN more : more[k] = WeekRow(Part(U, k))
          /\ \A k \in DOMAIN new : Part(N, k) # {}
        BY <2>2, TablesAre
    <2>5. \A k : /\ Part(U, k) = Part(A, k) \union Part(N, k)
                 /\ Part(A, k) \intersect Part(N, k) = {}
                 /\ k \notin DOMAIN new => Part(N, k) = {}
                 /\ k \notin DOMAIN fresh => Part(A, k) = {}
        <3>1. /\ DOMAIN fresh = {<<r.student, r.week>> : r \in A}
              /\ DOMAIN StudentWeeks(N) = {<<r.student, r.week>> : r \in N}
            BY TablesAre
        <3>2. QED
            BY <1>1, <2>2, <3>1 DEF WeekRuns, U
    <2>6. \A k : Countable(Part(A, k)) /\ Countable(Part(N, k))
        BY <1>3, PartCountable DEF WeekRuns
    <2>7. \A k \in DOMAIN new :
              /\ Matches(new[k], WeekRow(Part(N, k)))
              /\ {"room", "teacher"} \subseteq DOMAIN new[k]
              /\ new[k].room = home[k[1]] /\ new[k].teacher = TeacherOf[home[k[1]]]
        BY <2>2, FreshRows
    <2>8. InStep(studentWeek, fresh)
        BY DEF SummariesInv, Summaries, A
    <2> HIDE DEF new, fresh, more, Part
    <2>9. ASSUME NEW k \in DOMAIN studentWeek'
          PROVE  /\ k \in DOMAIN more /\ Matches(studentWeek'[k], more[k])
                 /\ {"room", "teacher"} \subseteq DOMAIN studentWeek'[k]
                 /\ k[2] \notin done \union disturbed =>
                       /\ studentWeek'[k].room = home[k[1]]
                       /\ studentWeek'[k].teacher = TeacherOf[home[k[1]]]
        <3>1. CASE k \notin DOMAIN new
            <4>1. /\ k \in DOMAIN studentWeek /\ studentWeek'[k] = studentWeek[k]
                  /\ k \in DOMAIN fresh /\ Matches(studentWeek[k], fresh[k])
                BY <2>1, <2>8, <3>1 DEF InStep
            <4>2. k \in DOMAIN more /\ more[k] = fresh[k]
                <5>1. Part(U, k) = Part(A, k)
                    BY <2>5, <3>1
                <5>2. QED
                    BY <2>3, <2>4, <4>1, <5>1
            <4>3. QED
                BY <2>8, <4>1, <4>2 DEF InStep
        <3>2. CASE k \in DOMAIN new /\ k \notin DOMAIN studentWeek
            <4>1. k \notin DOMAIN fresh
                BY <2>2, <2>8, <3>2 DEF InStep
            <4>2. k \in DOMAIN more /\ more[k] = WeekRow(Part(N, k))
                <5>1. Part(U, k) = Part(N, k)
                    BY <2>5, <4>1
                <5>2. QED
                    BY <2>3, <2>4, <3>2, <5>1
            <4>3. studentWeek'[k] = new[k]
                BY <2>1, <3>2
            <4>4. QED
                BY <2>7, <3>2, <4>2, <4>3
        <3>3. CASE k \in DOMAIN new /\ k \in DOMAIN studentWeek
            <4>1. /\ k \in DOMAIN fresh /\ Matches(studentWeek[k], WeekRow(Part(A, k)))
                  /\ {"room", "teacher"} \subseteq DOMAIN studentWeek[k]
                BY <2>4, <2>8, <3>3 DEF InStep
            <4>2. studentWeek'[k] = MergedWeek(studentWeek[k], new[k])
                BY <2>1, <3>3
            <4>3. Matches(new[k], WeekRow(Part(N, k)))
                BY <2>7, <3>3
            <4>4. /\ Part(A, k) # {} /\ Part(N, k) # {} /\ Part(A, k) \intersect Part(N, k) = {}
                  /\ Countable(Part(A, k)) /\ Countable(Part(N, k))
                BY <2>4, <2>5, <2>6, <3>3, <4>1
            <4>5. Matches(MergedWeek(studentWeek[k], new[k]), WeekRow(Part(A, k) \union Part(N, k)))
                BY <4>1, <4>3, <4>4, RowsMerge
            <4>6. \A c \in {"room", "teacher"} :
                      c \in DOMAIN studentWeek'[k] /\ studentWeek'[k][c] = studentWeek[k][c]
                BY <4>1, <4>2, RowsKeep
            <4>7. k \in DOMAIN more /\ more[k] = WeekRow(Part(A, k) \union Part(N, k))
                BY <2>3, <2>4, <2>5, <4>1
            <4>8. QED
                BY <2>8, <3>3, <4>2, <4>5, <4>6, <4>7 DEF InStep
        <3>4. QED
            BY <2>1, <3>1, <3>2, <3>3
    <2>10. \A k \in DOMAIN more \ DOMAIN studentWeek' : k[2] \in disturbed /\ Quiet(k[2])
        BY <2>1, <2>3, <2>8 DEF InStep
    <2>11. fresh' = more
        BY <1>1, <1>6 DEF fresh, more, A, U, N
    <2>12. InStep(studentWeek, fresh)'
        BY <1>2, <1>5, <2>9, <2>10, <2>11 DEF InStep, Matches
    <2>13. QED
        BY <2>12 DEF fresh, A
<1>8. InStep(studentLevel, StudentLevels(AllRuns))'
    <2> DEFINE new   == OfPupil(StudentLevels(N))
               fresh == StudentLevels(A)
               more  == StudentLevels(U)
               Part(S, k) == LevelRuns(S, k)
    <2>1. /\ DOMAIN studentLevel' = DOMAIN studentLevel \union DOMAIN new
          /\ \A k \in DOMAIN studentLevel' :
                /\ k \notin DOMAIN new => studentLevel'[k] = studentLevel[k]
                /\ k \notin DOMAIN studentLevel => studentLevel'[k] = new[k]
                /\ k \in DOMAIN new /\ k \in DOMAIN studentLevel =>
                       studentLevel'[k] = MergedLevel(studentLevel[k], new[k])
        BY <1>2 DEF Upserted
    <2>2. DOMAIN new = DOMAIN StudentLevels(N) /\ \A k \in DOMAIN new : ~Quiet(k[2])
        <3>1. DOMAIN new = DOMAIN StudentLevels(N)
            BY OfPupilIs
        <3>2. DOMAIN StudentLevels(N) = {<<r.student, r.week, r.level>> : r \in N}
            BY TablesAre
        <3>3. QED
            BY <1>4, <3>1, <3>2
    <2>3. DOMAIN more = DOMAIN fresh \union DOMAIN new
        <3>1. /\ DOMAIN fresh = {<<r.student, r.week, r.level>> : r \in A}
              /\ DOMAIN more = {<<r.student, r.week, r.level>> : r \in U}
              /\ DOMAIN StudentLevels(N) = {<<r.student, r.week, r.level>> : r \in N}
            BY TablesAre
        <3>2. QED
            BY <2>2, <3>1 DEF U
    <2>4. /\ \A k \in DOMAIN fresh : fresh[k] = LevelRow(Part(A, k)) /\ Part(A, k) # {}
          /\ \A k \in DOMAIN more : more[k] = LevelRow(Part(U, k))
          /\ \A k \in DOMAIN new : Part(N, k) # {}
        BY <2>2, TablesAre
    <2>5. \A k : /\ Part(U, k) = Part(A, k) \union Part(N, k)
                 /\ Part(A, k) \intersect Part(N, k) = {}
                 /\ k \notin DOMAIN new => Part(N, k) = {}
                 /\ k \notin DOMAIN fresh => Part(A, k) = {}
        <3>1. /\ DOMAIN fresh = {<<r.student, r.week, r.level>> : r \in A}
              /\ DOMAIN StudentLevels(N) = {<<r.student, r.week, r.level>> : r \in N}
            BY TablesAre
        <3>2. QED
            BY <1>1, <2>2, <3>1 DEF LevelRuns, U
    <2>6. \A k : Countable(Part(A, k)) /\ Countable(Part(N, k))
        BY <1>3, PartCountable DEF LevelRuns
    <2>7. \A k \in DOMAIN new :
              /\ Matches(new[k], LevelRow(Part(N, k)))
              /\ {"room", "teacher"} \subseteq DOMAIN new[k]
              /\ new[k].room = home[k[1]] /\ new[k].teacher = TeacherOf[home[k[1]]]
        BY <2>2, FreshRows
    <2>8. InStep(studentLevel, fresh)
        BY DEF SummariesInv, Summaries, A
    <2> HIDE DEF new, fresh, more, Part
    <2>9. ASSUME NEW k \in DOMAIN studentLevel'
          PROVE  /\ k \in DOMAIN more /\ Matches(studentLevel'[k], more[k])
                 /\ {"room", "teacher"} \subseteq DOMAIN studentLevel'[k]
                 /\ k[2] \notin done \union disturbed =>
                       /\ studentLevel'[k].room = home[k[1]]
                       /\ studentLevel'[k].teacher = TeacherOf[home[k[1]]]
        <3>1. CASE k \notin DOMAIN new
            <4>1. /\ k \in DOMAIN studentLevel /\ studentLevel'[k] = studentLevel[k]
                  /\ k \in DOMAIN fresh /\ Matches(studentLevel[k], fresh[k])
                BY <2>1, <2>8, <3>1 DEF InStep
            <4>2. k \in DOMAIN more /\ more[k] = fresh[k]
                <5>1. Part(U, k) = Part(A, k)
                    BY <2>5, <3>1
                <5>2. QED
                    BY <2>3, <2>4, <4>1, <5>1
            <4>3. QED
                BY <2>8, <4>1, <4>2 DEF InStep
        <3>2. CASE k \in DOMAIN new /\ k \notin DOMAIN studentLevel
            <4>1. k \notin DOMAIN fresh
                BY <2>2, <2>8, <3>2 DEF InStep
            <4>2. k \in DOMAIN more /\ more[k] = LevelRow(Part(N, k))
                <5>1. Part(U, k) = Part(N, k)
                    BY <2>5, <4>1
                <5>2. QED
                    BY <2>3, <2>4, <3>2, <5>1
            <4>3. studentLevel'[k] = new[k]
                BY <2>1, <3>2
            <4>4. QED
                BY <2>7, <3>2, <4>2, <4>3
        <3>3. CASE k \in DOMAIN new /\ k \in DOMAIN studentLevel
            <4>1. /\ k \in DOMAIN fresh /\ Matches(studentLevel[k], LevelRow(Part(A, k)))
                  /\ {"room", "teacher"} \subseteq DOMAIN studentLevel[k]
                BY <2>4, <2>8, <3>3 DEF InStep
            <4>2. studentLevel'[k] = MergedLevel(studentLevel[k], new[k])
                BY <2>1, <3>3
            <4>3. Matches(new[k], LevelRow(Part(N, k)))
                BY <2>7, <3>3
            <4>4. /\ Part(A, k) # {} /\ Part(N, k) # {} /\ Part(A, k) \intersect Part(N, k) = {}
                  /\ Countable(Part(A, k)) /\ Countable(Part(N, k))
                BY <2>4, <2>5, <2>6, <3>3, <4>1
            <4>5. Matches(MergedLevel(studentLevel[k], new[k]), LevelRow(Part(A, k) \union Part(N, k)))
                BY <4>1, <4>3, <4>4, RowsMerge
            <4>6. \A c \in {"room", "teacher"} :
                      c \in DOMAIN studentLevel'[k] /\ studentLevel'[k][c] = studentLevel[k][c]
                BY <4>1, <4>2, RowsKeep
            <4>7. k \in DOMAIN more /\ more[k] = LevelRow(Part(A, k) \union Part(N, k))
                BY <2>3, <2>4, <2>5, <4>1
            <4>8. QED
                BY <2>8, <3>3, <4>2, <4>5, <4>6, <4>7 DEF InStep
        <3>4. QED
            BY <2>1, <3>1, <3>2, <3>3
    <2>10. \A k \in DOMAIN more \ DOMAIN studentLevel' : k[2] \in disturbed /\ Quiet(k[2])
        BY <2>1, <2>3, <2>8 DEF InStep
    <2>11. fresh' = more
        BY <1>1, <1>6 DEF fresh, more, A, U, N
    <2>12. InStep(studentLevel, fresh)'
        BY <1>2, <1>5, <2>9, <2>10, <2>11 DEF InStep, Matches
    <2>13. QED
        BY <2>12 DEF fresh, A
<1>9. QED
    BY <1>7, <1>8 DEF Summaries

(* A teacher's rows are made anew.  A pupil's runs of a week are all under *)
(* the same teacher, and a row that is not made again is of a pupil that   *)
(* moved away.                                                             *)
LEMMA SummariesSlice ==
    ASSUME SummariesInv, NEW t \in Teachers, Slice(t), RunsUnder(t, compaction.week) # {}
    PROVE  Summaries'
<1> DEFINE v == compaction.week
           A == AllRuns
           M == RunsUnder(t, v)
<1>0. BaseInv
    BY DEF SummariesInv
<1>1. /\ home' = home /\ done' = done /\ disturbed' = disturbed /\ week' = week
      /\ stamps' = stamps /\ runs' = runs /\ AllRuns' = AllRuns
    <2>1. /\ home' = home /\ done' = done /\ disturbed' = disturbed /\ week' = week
          /\ stamps' = stamps /\ runs' = runs
        BY DEF Slice, people, queue
    <2>2. QED
        BY <2>1 DEF AllRuns, RunOf
<1>2. /\ studentWeek'  = Rest(studentWeek, t) ++ OfPupil(StudentWeeks(M))
      /\ studentLevel' = Rest(studentLevel, t) ++ OfPupil(StudentLevels(M))
    BY DEF Slice, Remade
<1>3. v \notin done /\ Quiet(v)
    BY <1>0 DEF Slice, BaseInv, Closed
<1>4. \A r : r \in M <=> r \in A /\ r.week = v /\ TeacherOf[home[r.student]] = t
    BY DEF RunsUnder, RunsIn, TeacherNow
<1>5. \A w : Quiet(w) => Quiet(w)'
    BY <1>1 DEF Quiet
<1>6. /\ StudentWeeks(AllRuns)' = StudentWeeks(AllRuns')
      /\ StudentLevels(AllRuns)' = StudentLevels(AllRuns')
    BY DEF StudentWeeks, StudentLevels, Grouped, Counters, StatOf, SumOf, LatestRun, FirstRun
<1> HIDE DEF v, A, M
<1>7. InStep(studentWeek, StudentWeeks(AllRuns))'
    <2> DEFINE new   == OfPupil(StudentWeeks(M))
               fresh == StudentWeeks(A)
               rest  == Rest(studentWeek, t)
    <2>1. studentWeek' = rest ++ new
        BY <1>2
    <2>2. /\ DOMAIN rest = {k \in DOMAIN studentWeek : ~(k[2] = v /\ studentWeek[k].teacher = t)}
          /\ \A k \in DOMAIN rest : rest[k] = studentWeek[k]
        BY DEF Rest, Without, Theirs, v
    <2>3. /\ DOMAIN new = DOMAIN StudentWeeks(M)
          /\ DOMAIN new = {<<r.student, r.week>> : r \in M} /\ DOMAIN fresh = {<<r.student, r.week>> : r \in A}
        BY OfPupilIs, TablesAre
    <2>4. \A k \in DOMAIN new : WeekRuns(M, k) = WeekRuns(A, k)
        BY <1>4, <2>3 DEF WeekRuns
    <2>5. ASSUME NEW k \in DOMAIN new
          PROVE  /\ k \in DOMAIN fresh /\ Matches(new[k], fresh[k])
                 /\ {"room", "teacher"} \subseteq DOMAIN new[k]
                 /\ new[k].room = home[k[1]] /\ new[k].teacher = TeacherOf[home[k[1]]]
        <3>1. k \in DOMAIN fresh
            BY <1>4, <2>3
        <3>2. fresh[k] = WeekRow(WeekRuns(M, k))
            BY <2>4, <3>1, TablesAre
        <3>3. k \in DOMAIN StudentWeeks(M)
            BY <2>3
        <3>4. QED
            BY <3>1, <3>2, <3>3, FreshRows
    <2>6. InStep(studentWeek, fresh)
        BY DEF SummariesInv, Summaries, A
    <2>7. ASSUME NEW k \in DOMAIN fresh, k \notin DOMAIN new, k[2] = v
          PROVE  TeacherOf[home[k[1]]] # t
        BY <1>4, <2>3, <2>7
    <2> HIDE DEF new, fresh, rest
    <2>8. ASSUME NEW k \in DOMAIN studentWeek'
          PROVE  /\ k \in DOMAIN fresh /\ Matches(studentWeek'[k], fresh[k])
                 /\ {"room", "teacher"} \subseteq DOMAIN studentWeek'[k]
                 /\ k[2] \notin done \union disturbed =>
                       /\ studentWeek'[k].room = home[k[1]]
                       /\ studentWeek'[k].teacher = TeacherOf[home[k[1]]]
        <3>1. CASE k \in DOMAIN rest
            <4>1. studentWeek'[k] = studentWeek[k] /\ k \in DOMAIN studentWeek
                BY <2>1, <2>2, <3>1 DEF ++
            <4>2. QED
                BY <2>6, <4>1 DEF InStep
        <3>2. CASE k \notin DOMAIN rest
            <4>1. studentWeek'[k] = new[k] /\ k \in DOMAIN new
                BY <2>1, <3>2 DEF ++
            <4>2. QED
                BY <2>5, <4>1
        <3>3. QED
            BY <3>1, <3>2
    <2>9. ASSUME NEW k \in DOMAIN fresh \ DOMAIN studentWeek'
          PROVE  k[2] \in disturbed /\ Quiet(k[2])
        <3>1. k \notin DOMAIN rest /\ k \notin DOMAIN new
            BY <2>1 DEF ++
        <3>2. CASE k \notin DOMAIN studentWeek
            BY <2>6, <3>2 DEF InStep
        <3>3. CASE k \in DOMAIN studentWeek
            <4>1. k[2] = v /\ studentWeek[k].teacher = t
                BY <2>2, <3>1, <3>3
            <4>2. TeacherOf[home[k[1]]] # t
                BY <2>7, <3>1, <4>1
            <4>3. QED
                BY <1>3, <2>6, <3>3, <4>1, <4>2 DEF InStep
        <3>4. QED
            BY <3>2, <3>3
    <2>10. fresh' = fresh
        BY <1>1, <1>6 DEF fresh, A
    <2>11. InStep(studentWeek, fresh)'
        BY <1>1, <1>5, <2>8, <2>9, <2>10 DEF InStep, Matches
    <2>12. QED
        BY <2>11 DEF fresh, A
<1>8. InStep(studentLevel, StudentLevels(AllRuns))'
    <2> DEFINE new   == OfPupil(StudentLevels(M))
               fresh == StudentLevels(A)
               rest  == Rest(studentLevel, t)
    <2>1. studentLevel' = rest ++ new
        BY <1>2
    <2>2. /\ DOMAIN rest = {k \in DOMAIN studentLevel : ~(k[2] = v /\ studentLevel[k].teacher = t)}
          /\ \A k \in DOMAIN rest : rest[k] = studentLevel[k]
        BY DEF Rest, Without, Theirs, v
    <2>3. /\ DOMAIN new = DOMAIN StudentLevels(M)
          /\ DOMAIN new = {<<r.student, r.week, r.level>> : r \in M} /\ DOMAIN fresh = {<<r.student, r.week, r.level>> : r \in A}
        BY OfPupilIs, TablesAre
    <2>4. \A k \in DOMAIN new : LevelRuns(M, k) = LevelRuns(A, k)
        BY <1>4, <2>3 DEF LevelRuns
    <2>5. ASSUME NEW k \in DOMAIN new
          PROVE  /\ k \in DOMAIN fresh /\ Matches(new[k], fresh[k])
                 /\ {"room", "teacher"} \subseteq DOMAIN new[k]
                 /\ new[k].room = home[k[1]] /\ new[k].teacher = TeacherOf[home[k[1]]]
        <3>1. k \in DOMAIN fresh
            BY <1>4, <2>3
        <3>2. fresh[k] = LevelRow(LevelRuns(M, k))
            BY <2>4, <3>1, TablesAre
        <3>3. k \in DOMAIN StudentLevels(M)
            BY <2>3
        <3>4. QED
            BY <3>1, <3>2, <3>3, FreshRows
    <2>6. InStep(studentLevel, fresh)
        BY DEF SummariesInv, Summaries, A
    <2>7. ASSUME NEW k \in DOMAIN fresh, k \notin DOMAIN new, k[2] = v
          PROVE  TeacherOf[home[k[1]]] # t
        BY <1>4, <2>3, <2>7
    <2> HIDE DEF new, fresh, rest
    <2>8. ASSUME NEW k \in DOMAIN studentLevel'
          PROVE  /\ k \in DOMAIN fresh /\ Matches(studentLevel'[k], fresh[k])
                 /\ {"room", "teacher"} \subseteq DOMAIN studentLevel'[k]
                 /\ k[2] \notin done \union disturbed =>
                       /\ studentLevel'[k].room = home[k[1]]
                       /\ studentLevel'[k].teacher = TeacherOf[home[k[1]]]
        <3>1. CASE k \in DOMAIN rest
            <4>1. studentLevel'[k] = studentLevel[k] /\ k \in DOMAIN studentLevel
                BY <2>1, <2>2, <3>1 DEF ++
            <4>2. QED
                BY <2>6, <4>1 DEF InStep
        <3>2. CASE k \notin DOMAIN rest
            <4>1. studentLevel'[k] = new[k] /\ k \in DOMAIN new
                BY <2>1, <3>2 DEF ++
            <4>2. QED
                BY <2>5, <4>1
        <3>3. QED
            BY <3>1, <3>2
    <2>9. ASSUME NEW k \in DOMAIN fresh \ DOMAIN studentLevel'
          PROVE  k[2] \in disturbed /\ Quiet(k[2])
        <3>1. k \notin DOMAIN rest /\ k \notin DOMAIN new
            BY <2>1 DEF ++
        <3>2. CASE k \notin DOMAIN studentLevel
            BY <2>6, <3>2 DEF InStep
        <3>3. CASE k \in DOMAIN studentLevel
            <4>1. k[2] = v /\ studentLevel[k].teacher = t
                BY <2>2, <3>1, <3>3
            <4>2. TeacherOf[home[k[1]]] # t
                BY <2>7, <3>1, <4>1
            <4>3. QED
                BY <1>3, <2>6, <3>3, <4>1, <4>2 DEF InStep
        <3>4. QED
            BY <3>2, <3>3
    <2>10. fresh' = fresh
        BY <1>1, <1>6 DEF fresh, A
    <2>11. InStep(studentLevel, fresh)'
        BY <1>1, <1>5, <2>8, <2>9, <2>10 DEF InStep, Matches
    <2>12. QED
        BY <2>11 DEF fresh, A
<1>9. QED
    BY <1>7, <1>8 DEF Summaries

(* No step breaks it.                                                      *)
LEMMA SummariesStep == ASSUME SummariesInv, [Next]_vars PROVE SummariesInv'
<1>0. BaseInv /\ BaseInv' /\ DOMAIN stamps = Flushers
    BY BaseStep DEF SummariesInv, BaseInv, Types
<1> SUFFICES Summaries'
    BY <1>0 DEF SummariesInv
<1>1. CASE UNCHANGED vars
    <2>1. /\ UNCHANGED <<home, runs, studentWeek, studentLevel, done, disturbed>>
          /\ \A w : Quiet(w) => Quiet(w)'
        BY <1>1 DEF vars, people, tables, queue, Quiet
    <2>2. QED
        BY <2>1, SummariesStay
<1>2. ASSUME NEW f \in Flushers, NEW n \in 1 .. BatchSize, Insert(f, n)
      PROVE  Summaries'
    <2>1. UNCHANGED <<home, week, runs, studentWeek, studentLevel, done, disturbed>>
        BY <1>2 DEF Insert, people, tables
    <2>2. ASSUME NEW w, Quiet(w)
          PROVE  Quiet(w)'
        <3>1. stamps' = [stamps EXCEPT ![f] =
                  [id \in ToSet(batch'[f]) |->
                      [at |-> Now + (CHOOSE i \in 1 .. n : batch'[f][i] = id), week |-> week]]]
            BY <1>2 DEF Insert
        <3>2. \A id \in DOMAIN stamps'[f] : stamps'[f][id].week = week
            BY <1>0, <3>1
        <3>3. \A g \in Flushers \ {f} : stamps'[g] = stamps[g]
            BY <1>0, <3>1
        <3>4. week \in Nat
            BY <1>0 DEF BaseInv, Types, Weeks
        <3>5. w < week /\ \A g \in Flushers : \A id \in DOMAIN stamps[g] : stamps[g][id].week # w
            BY <2>2 DEF Quiet
        <3>6. ASSUME NEW g \in Flushers, NEW id \in DOMAIN stamps'[g]
              PROVE  stamps'[g][id].week # w
            <4>1. CASE g = f
                <5>1. w # week
                    BY <3>4, <3>5
                <5>2. QED
                    BY <3>2, <4>1, <5>1
            <4>2. CASE g # f
                BY <3>3, <3>5, <4>2
            <4>3. QED
                BY <4>1, <4>2
        <3>7. QED
            BY <2>1, <3>5, <3>6 DEF Quiet
    <2>3. QED
        BY <2>1, <2>2, SummariesStay
<1>3. ASSUME NEW f \in Flushers, Commit(f)
      PROVE  Summaries'
    BY <1>0, <1>3, SummariesCommit
<1>4. ASSUME NEW f \in Flushers, Rollback(f)
      PROVE  Summaries'
    <2>1. /\ UNCHANGED <<home, week, runs, studentWeek, studentLevel, done, disturbed>>
          /\ stamps' = [stamps EXCEPT ![f] = Nothing] /\ DOMAIN Nothing = {}
        BY <1>4 DEF Rollback, people, tables, Nothing
    <2>2. \A w : Quiet(w) => Quiet(w)'
        BY <1>0, <2>1 DEF Quiet
    <2>3. QED
        BY <2>1, <2>2, SummariesStay
<1>5. CASE NextWeek
    <2>1. /\ UNCHANGED <<home, runs, stamps, studentWeek, studentLevel, done, disturbed>>
          /\ week' = week + 1 /\ week \in Nat
        BY <1>0, <1>5 DEF NextWeek, people, tables, queue, BaseInv, Types, Weeks
    <2>2. done \subseteq done' /\ disturbed \subseteq disturbed' /\ home' = home
        BY <2>1
    <2>3. \A k \in Weeks : Quiet(k) => Quiet(k)'
        BY <2>1 DEF Quiet, Weeks
    <2>4. QED
        BY <2>1, <2>2, <2>3, SummariesStay
<1>6. ASSUME NEW p \in Pupils, NEW c \in Rooms, Move(p, c)
      PROVE  Summaries'
    <2>1. /\ UNCHANGED <<week, stamps, runs, studentWeek, studentLevel, done>>
          /\ disturbed' = disturbed \union (1 .. week \ done)
        BY <1>6 DEF Move, tables, queue
    <2>2. \A w : Quiet(w) => Quiet(w)'
        BY <2>1 DEF Quiet
    <2>3. /\ done \subseteq done' /\ disturbed \subseteq disturbed'
          /\ 1 .. week \subseteq done' \union disturbed'
        BY <2>1
    <2>4. QED
        BY <2>1, <2>2, <2>3, SummariesStay
<1>7. ASSUME NEW w \in Weeks, StartCompaction(w)
      PROVE  Summaries'
    <2>1. UNCHANGED <<home, week, stamps, runs, studentWeek, studentLevel, done, disturbed>>
        BY <1>7 DEF StartCompaction, people, tables, queue
    <2>2. \A k : Quiet(k) => Quiet(k)'
        BY <2>1 DEF Quiet
    <2>3. QED
        BY <2>1, <2>2, SummariesStay
<1>8. ASSUME NEW t \in Teachers, Slice(t)
      PROVE  Summaries'
    <2>1. CASE RunsUnder(t, compaction.week) # {}
        BY <1>8, <2>1, SummariesSlice
    <2>2. CASE RunsUnder(t, compaction.week) = {}
        <3>1. UNCHANGED <<home, week, stamps, runs, studentWeek, studentLevel, done, disturbed>>
            BY <1>8, <2>2 DEF Slice, people, tables, queue
        <3>2. \A k : Quiet(k) => Quiet(k)'
            BY <3>1 DEF Quiet
        <3>3. QED
            BY <3>1, <3>2, SummariesStay
    <2>3. QED
        BY <2>1, <2>2
<1>9. ASSUME NEW t \in Teachers, SliceFails(t)
      PROVE  Summaries'
    <2>1. UNCHANGED <<home, week, stamps, runs, studentWeek, studentLevel, done, disturbed>>
        BY <1>9 DEF SliceFails, people, tables, queue
    <2>2. \A k : Quiet(k) => Quiet(k)'
        BY <2>1 DEF Quiet
    <2>3. QED
        BY <2>1, <2>2, SummariesStay
<1>10. CASE Finalize
    <2>1. /\ UNCHANGED <<home, week, stamps, runs, studentWeek, studentLevel, disturbed>>
          /\ done \subseteq done'
        BY <1>10 DEF Finalize, people, tables, queue
    <2>2. \A k : Quiet(k) => Quiet(k)'
        BY <2>1 DEF Quiet
    <2>3. QED
        BY <2>1, <2>2, SummariesStay
<1>11. QED
    BY <1>1, <1>2, <1>3, <1>4, <1>5, <1>6, <1>7, <1>8, <1>9, <1>10 DEF Next

LEMMA SummariesHold == Spec => []SummariesInv
<1>1. Init => SummariesInv
    BY BaseInitially, SummariesInitially DEF SummariesInv
<1>2. SummariesInv /\ [Next]_vars => SummariesInv'
    BY SummariesStep
<1>3. QED
    BY <1>1, <1>2, PTL DEF Spec

(* A pupil's row of a week, and of a level in it, is what its runs come    *)
(* to, in whatever batches and order they were committed and whether the   *)
(* row was upserted or made anew, for any numbers of flushers, rooms and   *)
(* weeks; it is missing only of a week somebody moved in.                  *)
(* (rollup_incremental.py against weekly_aggregation.py)                   *)
THEOREM SummariesExactTheorem == Spec => []SummariesExact
<1>1. SummariesInv => SummariesExact
    BY DEF SummariesInv, Summaries, InStep, Matches, SummariesExact
<1>2. QED
    BY <1>1, SummariesHold, PTL

(* The state's types, every accepted run in one place, no stored run       *)
(* without a place, and a row's first run not after its latest.            *)
THEOREM TypeOKTheorem == Spec => []TypeOK
<1>1. ASSUME SummariesInv
      PROVE  TypeOK
    <2>1. BaseInv /\ InStep(studentWeek, StudentWeeks(AllRuns))
        BY <1>1 DEF SummariesInv, Summaries
    <2>2. /\ home \in [Pupils -> Rooms] /\ moves \in 0 .. MaxMoves /\ week \in Weeks
          /\ DOMAIN runs \subseteq Accepted /\ compacted \subseteq DOMAIN runs
          /\ failures \in 0 .. MaxFailures
          /\ done \subseteq Weeks /\ disturbed \subseteq Weeks
          /\ compaction.week \in Weeks \union {None} /\ compaction.todo \subseteq Teachers
        BY <2>1 DEF BaseInv, Types
    <2>3. \A f \in Flushers : Len(batch[f]) <= BatchSize /\ DOMAIN stamps[f] = ToSet(batch[f])
        BY <2>1 DEF BaseInv, Types, InBatch
    <2>4. ToSet(buffer) \union UNION {ToSet(batch[f]) : f \in Flushers} = Accepted \ DOMAIN runs
        BY <2>1 DEF BaseInv, RunsInOnePlace, InBatch
    <2>5. ASSUME NEW r \in AllRuns
          PROVE  r.week \in Weeks /\ r.place # None
        <3>1. PICK id \in DOMAIN runs : r = RunOf(id)
            BY DEF AllRuns
        <3>2. r.week \in 1 .. week /\ r.place = Stored[id].place
            BY <2>1, <3>1, RunIs
        <3>3. Stored[id].place # None
            BY <2>1 DEF BaseInv, Stamped, Insertable
        <3>4. r.week \in Weeks
            BY <2>2, <3>2, StatisticsAssumption DEF Weeks
        <3>5. QED
            BY <3>2, <3>3, <3>4
    <2>6. ASSUME NEW k \in DOMAIN studentWeek
          PROVE  studentWeek[k].latest >= studentWeek[k].first
        <3> DEFINE R == WeekRuns(AllRuns, k)
        <3>1. Matches(studentWeek[k], WeekRow(R)) /\ R # {}
            BY <2>1, TablesAre DEF InStep
        <3>2. Countable(R)
            BY <2>1, RunsCountable, PartCountable DEF WeekRuns
        <3> HIDE DEF R
        <3>3. Min(Values(R, "at")) <= Max(Values(R, "at")) /\ Min(Values(R, "at")) \in Int
              /\ Max(Values(R, "at")) \in Int
            BY <3>1, <3>2, ColumnExtremes DEF Measured
        <3>4. Matches(studentWeek[k], LatestRun(R)) /\ Matches(studentWeek[k], FirstRun(R))
            BY <3>1, PartsMatch
        <3>5. /\ studentWeek[k].latest = Max(Values(R, "at"))
              /\ studentWeek[k].first = Min(Values(R, "at"))
            BY <3>4 DEF Matches, LatestRun, FirstRun, Values
        <3>6. QED
            BY <3>3, <3>5
    <2>7. QED
        BY <2>2, <2>3, <2>4, <2>5, <2>6 DEF TypeOK
<1>2. QED
    BY <1>1, SummariesHold, PTL

-------------------------------------------------------------------------------
(* The rooms' table.                                                       *)

RoomStat(R, c) == [sum |-> Column(R, c), count |-> Cardinality(R), squares |-> Squares(R, c)]

(* The columns of a row.                                                   *)
LEMMA RoomCountersAre ==
    ASSUME NEW R
    PROVE  RoomCounters(R) =
              [runs |-> Cardinality(R), wins |-> Cardinality({r \in R : r.won}),
               correct |-> Column(R, "correct"), wrong |-> Column(R, "wrong"),
               score |-> RoomStat(R, "score"), elapsed |-> RoomStat(R, "elapsed")]
<1>1. RoomCounters(R) =
         [Counters(R) EXCEPT
             !.score = [sum |-> @.sum, count |-> @.count, squares |-> @.squares],
             !.elapsed = [sum |-> @.sum, count |-> @.count, squares |-> @.squares]]
    BY DEF RoomCounters
<1>2. /\ DOMAIN Counters(R) = {"runs", "wins", "correct", "wrong", "score", "elapsed"}
      /\ Counters(R).runs = Cardinality(R) /\ Counters(R).wins = Cardinality({r \in R : r.won})
      /\ Counters(R).correct = Column(R, "correct") /\ Counters(R).wrong = Column(R, "wrong")
      /\ Counters(R).score = Stat(R, "score") /\ Counters(R).elapsed = Stat(R, "elapsed")
    BY CountersAre
<1>3. \A c : [sum |-> Stat(R, c).sum, count |-> Stat(R, c).count, squares |-> Stat(R, c).squares]
                = RoomStat(R, c)
    BY DEF Stat, RoomStat
<1>4. RoomCounters(R) =
         [Counters(R) EXCEPT !.score = RoomStat(R, "score"), !.elapsed = RoomStat(R, "elapsed")]
    BY <1>1, <1>2, <1>3
<1>5. QED
    BY <1>2, <1>4

(* A row that is upserted is the sum of the two.                           *)
LEMMA RoomsMerge ==
    ASSUME NEW A, NEW B, Countable(A), Countable(B), A \intersect B = {},
           NEW old, NEW new, Matches(old, RoomCounters(A)), Matches(new, RoomCounters(B))
    PROVE  Matches(MergedRoom(old, new), RoomCounters(A \union B))
<1> DEFINE U == A \union B
           won(R) == {r \in R : r.won}
           sums == MergedCounters(old, new, MergedSums)
<1>1. /\ old.runs = Cardinality(A) /\ old.wins = Cardinality(won(A))
      /\ old.correct = Column(A, "correct") /\ old.wrong = Column(A, "wrong")
      /\ old.score = RoomStat(A, "score") /\ old.elapsed = RoomStat(A, "elapsed")
    BY RoomCountersAre DEF Matches
<1>2. /\ new.runs = Cardinality(B) /\ new.wins = Cardinality(won(B))
      /\ new.correct = Column(B, "correct") /\ new.wrong = Column(B, "wrong")
      /\ new.score = RoomStat(B, "score") /\ new.elapsed = RoomStat(B, "elapsed")
    BY RoomCountersAre DEF Matches
<1>3. RoomCounters(U) =
         [runs |-> Cardinality(U), wins |-> Cardinality(won(U)),
          correct |-> Column(U, "correct"), wrong |-> Column(U, "wrong"),
          score |-> RoomStat(U, "score"), elapsed |-> RoomStat(U, "elapsed")]
    BY RoomCountersAre
<1>4. Countable(U)
    BY CountableUnion
<1>5. Cardinality(U) = Cardinality(A) + Cardinality(B)
    BY CountsAddUp DEF Countable
<1>6. Cardinality(won(U)) = Cardinality(won(A)) + Cardinality(won(B))
    <2>1. /\ IsFiniteSet(won(A)) /\ IsFiniteSet(won(B))
          /\ won(A) \intersect won(B) = {} /\ won(U) = won(A) \union won(B)
        BY FS_Subset DEF Countable
    <2> HIDE DEF won
    <2>2. QED
        BY <2>1, CountsAddUp
<1>7. \A c \in Measured : /\ Column(U, c) = Column(A, c) + Column(B, c)
                          /\ Squares(U, c) = Squares(A, c) + Squares(B, c)
    <2> TAKE c \in Measured
    <2>1. QED
        BY <1>4, ColumnsAddUp
<1>8. \A c \in Measured : MergedSums(RoomStat(A, c), RoomStat(B, c)) = RoomStat(U, c)
    BY <1>5, <1>7 DEF MergedSums, RoomStat
<1>9. sums = [runs |-> old.runs + new.runs, wins |-> old.wins + new.wins,
              correct |-> old.correct + new.correct, wrong |-> old.wrong + new.wrong,
              score |-> MergedSums(old.score, new.score),
              elapsed |-> MergedSums(old.elapsed, new.elapsed)]
    BY DEF MergedCounters
<1>10. MergedRoom(old, new) = sums ++ old
    BY DEF MergedRoom
<1>11. {"score", "elapsed", "correct", "wrong"} \subseteq Measured
    BY DEF Measured
<1> HIDE DEF U, won, sums
<1>12. sums = RoomCounters(U)
    BY <1>1, <1>2, <1>3, <1>5, <1>6, <1>7, <1>8, <1>9, <1>11
<1>13. QED
    BY <1>10, <1>12 DEF Matches, ++, U

(* ... of the same teacher.                                                *)
LEMMA RoomKeeps ==
    ASSUME NEW old, NEW new, "teacher" \in DOMAIN old
    PROVE  "teacher" \in DOMAIN MergedRoom(old, new) /\ MergedRoom(old, new).teacher = old.teacher
<1>1. MergedRoom(old, new) = MergedCounters(old, new, MergedSums) ++ old
    BY DEF MergedRoom
<1>2. DOMAIN MergedCounters(old, new, MergedSums) =
         {"runs", "wins", "correct", "wrong", "score", "elapsed"}
    BY DEF MergedCounters
<1>3. QED
    BY <1>1, <1>2 DEF ++

(* The pupils of a room, by where they are now, and their row.             *)
Here(S, k) == {r \in S : <<home[r.student], r.week>> = k}

LEMMA RoomRowsAre ==
    ASSUME NEW S
    PROVE  /\ DOMAIN RoomWeeks(S) = {<<home[r.student], r.week>> : r \in S}
           /\ \A k \in DOMAIN RoomWeeks(S) :
                 /\ Matches(RoomWeeks(S)[k], RoomCounters(Here(S, k)))
                 /\ "teacher" \in DOMAIN RoomWeeks(S)[k]
                 /\ RoomWeeks(S)[k].teacher = TeacherOf[k[1]]
<1> DEFINE c(R) == home[(CHOOSE r \in R : TRUE).student]
           place(R) == [teacher |-> TeacherOf[c(R)],
                        pupils  |-> Cardinality({p \in Pupils : home[p] = c(R)})]
<1>1. /\ DOMAIN RoomWeeks(S) = {<<home[r.student], r.week>> : r \in S}
      /\ \A k \in DOMAIN RoomWeeks(S) :
            RoomWeeks(S)[k] = RoomCounters(Here(S, k)) ++ place(Here(S, k))
    BY DEF RoomWeeks, Grouped, Here
<1>2. ASSUME NEW k \in DOMAIN RoomWeeks(S)
      PROVE  /\ Matches(RoomWeeks(S)[k], RoomCounters(Here(S, k)))
             /\ "teacher" \in DOMAIN RoomWeeks(S)[k]
             /\ RoomWeeks(S)[k].teacher = TeacherOf[k[1]]
    <2>1. Here(S, k) # {}
        BY <1>1 DEF Here
    <2>2. c(Here(S, k)) = k[1]
        BY <2>1 DEF Here
    <2>3. /\ DOMAIN place(Here(S, k)) = {"teacher", "pupils"}
          /\ place(Here(S, k)).teacher = TeacherOf[k[1]]
        BY <2>2
    <2>4. RoomWeeks(S)[k] = RoomCounters(Here(S, k)) ++ place(Here(S, k))
        BY <1>1
    <2>5. DOMAIN RoomCounters(Here(S, k)) = {"runs", "wins", "correct", "wrong", "score", "elapsed"}
        BY RoomCountersAre
    <2> HIDE DEF place, c
    <2>6. QED
        BY <2>3, <2>4, <2>5 DEF Matches, ++
<1>3. QED
    BY <1>1, <1>2

LEMMA RoomsInitially == ASSUME Init PROVE RoomRows
<1>1. AllRuns = {} /\ DOMAIN roomWeek = {} /\ DOMAIN studentLevel = {}
    BY DEF Init, AllRuns, Nothing
<1>2. QED
    BY <1>1 DEF RoomRows

(* A step that leaves the runs and the tables.                             *)
LEMMA RoomsStay ==
    ASSUME RoomsInv, UNCHANGED <<runs, studentWeek, studentLevel, roomWeek>>,
           disturbed \subseteq disturbed'
    PROVE  RoomRows'
<1>1. AllRuns' = AllRuns
    BY DEF AllRuns, RunOf
<1>2. \A r : RoomOf(r)' = RoomOf(r)
    BY DEF RoomOf
<1>3. \A d, w : Under(d, w)' = Under(d, w)
    BY <1>1, <1>2 DEF Under
<1>4. \A R : RoomCounters(R)' = RoomCounters(R)
    BY DEF RoomCounters, Counters, StatOf, SumOf
<1>5. RoomRows
    BY DEF RoomsInv
<1>6. /\ \A k \in DOMAIN roomWeek' :
            /\ k = <<k[1], k[2]>>
            /\ "teacher" \in DOMAIN roomWeek'[k] /\ roomWeek'[k].teacher = TeacherOf[k[1]]
            /\ k[2] \notin disturbed' => Matches(roomWeek'[k], RoomCounters(Under(k[1], k[2])))
      /\ \A r \in AllRuns' : r.week \notin disturbed' => <<RoomOf(r), r.week>> \in DOMAIN roomWeek'
      /\ \A k \in DOMAIN studentLevel' :
            k[2] \notin disturbed' => studentLevel'[k].room = studentWeek'[<<k[1], k[2]>>].room
    BY <1>1, <1>5 DEF RoomRows
<1>7. \A k \in DOMAIN roomWeek' :
          k[2] \notin disturbed' => Matches(roomWeek'[k], RoomCounters(Under(k[1], k[2])'))
    BY <1>3, <1>6
<1>8. QED
    BY <1>2, <1>6, <1>7 DEF RoomRows, Matches

(* Every run of a week nobody moved in has its pupil's row and the level's. *)
LEMMA RowsAreThere ==
    ASSUME SummariesInv, NEW r \in AllRuns, r.week \notin disturbed
    PROVE  /\ <<r.student, r.week>> \in DOMAIN studentWeek
           /\ <<r.student, r.week, r.level>> \in DOMAIN studentLevel
<1>1. /\ <<r.student, r.week>> \in DOMAIN StudentWeeks(AllRuns)
      /\ <<r.student, r.week, r.level>> \in DOMAIN StudentLevels(AllRuns)
    BY TablesAre
<1>2. /\ \A k \in DOMAIN StudentWeeks(AllRuns) \ DOMAIN studentWeek : k[2] \in disturbed
      /\ \A k \in DOMAIN StudentLevels(AllRuns) \ DOMAIN studentLevel : k[2] \in disturbed
    BY DEF SummariesInv, Summaries, InStep
<1>3. QED
    BY <1>1, <1>2

(* ... and will after the step.                                            *)
LEMMA RowsWillBeThere ==
    ASSUME SummariesInv', NEW r \in AllRuns', r.week \notin disturbed'
    PROVE  /\ <<r.student, r.week>> \in DOMAIN studentWeek'
           /\ <<r.student, r.week, r.level>> \in DOMAIN studentLevel'
<1> DEFINE R == AllRuns'
<1>0. /\ DOMAIN StudentWeeks(R) = {<<x.student, x.week>> : x \in R}
      /\ DOMAIN StudentLevels(R) = {<<x.student, x.week, x.level>> : x \in R}
    <2> HIDE DEF R
    <2>1. QED
        BY TablesAre
<1>1. /\ <<r.student, r.week>> \in DOMAIN StudentWeeks(AllRuns')
      /\ <<r.student, r.week, r.level>> \in DOMAIN StudentLevels(AllRuns')
    BY <1>0
<1>2. /\ StudentWeeks(AllRuns)' = StudentWeeks(AllRuns')
      /\ StudentLevels(AllRuns)' = StudentLevels(AllRuns')
    BY DEF StudentWeeks, StudentLevels, Grouped, Counters, StatOf, SumOf, LatestRun, FirstRun
<1>3. /\ \A k \in DOMAIN StudentWeeks(AllRuns)' \ DOMAIN studentWeek' : k[2] \in disturbed'
      /\ \A k \in DOMAIN StudentLevels(AllRuns)' \ DOMAIN studentLevel' : k[2] \in disturbed'
    BY DEF SummariesInv, Summaries, InStep
<1>4. QED
    BY <1>1, <1>2, <1>3

(* Rows and where they come from.                                          *)
LEMMA RowsOfRuns ==
    ASSUME SummariesInv
    PROVE  /\ \A k \in DOMAIN studentWeek :
                 /\ "room" \in DOMAIN studentWeek[k]
                 /\ \E r \in AllRuns : k = <<r.student, r.week>>
           /\ \A k \in DOMAIN studentLevel :
                 /\ "room" \in DOMAIN studentLevel[k]
                 /\ \E r \in AllRuns : k = <<r.student, r.week, r.level>>
<1>1. /\ DOMAIN StudentWeeks(AllRuns) = {<<r.student, r.week>> : r \in AllRuns}
      /\ DOMAIN StudentLevels(AllRuns) = {<<r.student, r.week, r.level>> : r \in AllRuns}
    BY TablesAre
<1>2. /\ \A k \in DOMAIN studentWeek :
            k \in DOMAIN StudentWeeks(AllRuns) /\ "room" \in DOMAIN studentWeek[k]
      /\ \A k \in DOMAIN studentLevel :
            k \in DOMAIN StudentLevels(AllRuns) /\ "room" \in DOMAIN studentLevel[k]
    BY DEF SummariesInv, Summaries, InStep
<1>3. QED
    BY <1>1, <1>2

(* The rows of a week that is not done and nobody moved in are in their    *)
(* pupils' rooms.                                                          *)
LEMMA RowsAtHome ==
    ASSUME SummariesInv
    PROVE  /\ \A k \in DOMAIN studentWeek :
                 k[2] \notin done \union disturbed => studentWeek[k].room = home[k[1]]
           /\ \A k \in DOMAIN studentLevel :
                 k[2] \notin done \union disturbed => studentLevel[k].room = home[k[1]]
BY DEF SummariesInv, Summaries, InStep

(* A room's row grows with its pupils' rows: those that get runs have rows *)
(* in the room they are in now.                                            *)
LEMMA RoomsCommit ==
    ASSUME RoomsInv, SummariesInv', NEW f \in Flushers, Commit(f)
    PROVE  RoomRows'
<1> DEFINE A == AllRuns
           N == New(f)
           U == A \union N
           new == RoomWeeks(N)
<1>1. SummariesInv /\ BaseInv /\ RoomRows
    BY DEF RoomsInv, SummariesInv
<1>2. AllRuns' = U /\ A \intersect N = {}
    BY <1>1, RunsAfterCommit
<1>3. /\ studentWeek'  = Upserted(studentWeek, OfPupil(StudentWeeks(N)), MergedWeek)
      /\ studentLevel' = Upserted(studentLevel, OfPupil(StudentLevels(N)), MergedLevel)
      /\ roomWeek'     = Upserted(roomWeek, new, MergedRoom)
      /\ home' = home /\ done' = done /\ disturbed' = disturbed
    BY DEF Commit, New, people
<1>4. Countable(A) /\ Countable(N)
    BY <1>1, RunsCountable
<1>5. \A r \in N : r.week \notin done
    <2>1. \A r \in N : ~Quiet(r.week)
        BY <1>1, NewIs DEF New, Quiet
    <2>2. QED
        BY <1>1, <2>1 DEF BaseInv, Closed
<1>6. \A r \in A : r.week \notin disturbed =>
          /\ <<r.student, r.week>> \in DOMAIN studentWeek
          /\ <<r.student, r.week, r.level>> \in DOMAIN studentLevel
    BY <1>1, RowsAreThere
<1>7. \A r \in U : r.week \notin disturbed =>
          /\ <<r.student, r.week>> \in DOMAIN studentWeek'
          /\ <<r.student, r.week, r.level>> \in DOMAIN studentLevel'
    BY <1>2, <1>3, RowsWillBeThere
<1>8. /\ \A k \in DOMAIN studentWeek :
            k \in DOMAIN studentWeek' /\ studentWeek'[k].room = studentWeek[k].room
      /\ \A k \in DOMAIN studentLevel :
            k \in DOMAIN studentLevel' /\ studentLevel'[k].room = studentLevel[k].room
    <2>1. ASSUME NEW k \in DOMAIN studentWeek
          PROVE  k \in DOMAIN studentWeek' /\ studentWeek'[k].room = studentWeek[k].room
        <3>1. /\ k \in DOMAIN studentWeek'
              /\ \/ studentWeek'[k] = studentWeek[k]
                 \/ \E row : studentWeek'[k] = MergedWeek(studentWeek[k], row)
            BY <1>3 DEF Upserted
        <3>2. "room" \in DOMAIN studentWeek[k]
            BY <1>1, RowsOfRuns
        <3>3. \A row : MergedWeek(studentWeek[k], row).room = studentWeek[k].room
            BY <3>2, RowsKeep
        <3>4. QED
            BY <3>1, <3>3
    <2>2. ASSUME NEW k \in DOMAIN studentLevel
          PROVE  k \in DOMAIN studentLevel' /\ studentLevel'[k].room = studentLevel[k].room
        <3>1. /\ k \in DOMAIN studentLevel'
              /\ \/ studentLevel'[k] = studentLevel[k]
                 \/ \E row : studentLevel'[k] = MergedLevel(studentLevel[k], row)
            BY <1>3 DEF Upserted
        <3>2. "room" \in DOMAIN studentLevel[k]
            BY <1>1, RowsOfRuns
        <3>3. \A row : MergedLevel(studentLevel[k], row).room = studentLevel[k].room
            BY <3>2, RowsKeep
        <3>4. QED
            BY <3>1, <3>3
    <2>3. QED
        BY <2>1, <2>2
<1>9. /\ \A k \in DOMAIN studentWeek' :
            k[2] \notin done \union disturbed => studentWeek'[k].room = home[k[1]]
      /\ \A k \in DOMAIN studentLevel' :
            k[2] \notin done \union disturbed => studentLevel'[k].room = home[k[1]]
    BY <1>3 DEF SummariesInv, Summaries, InStep
<1>10. /\ \A r \in A : r.week \notin disturbed => RoomOf(r)' = RoomOf(r)
       /\ \A r \in N : r.week \notin disturbed => RoomOf(r)' = home[r.student]
    <2>1. \A r \in A : r.week \notin disturbed => RoomOf(r)' = RoomOf(r)
        BY <1>6, <1>8 DEF RoomOf
    <2>2. ASSUME NEW r \in N, r.week \notin disturbed
          PROVE  RoomOf(r)' = home[r.student]
        <3>1. <<r.student, r.week>> \in DOMAIN studentWeek' /\ r.week \notin done
            BY <1>5, <1>7, <2>2
        <3>2. QED
            BY <1>9, <2>2, <3>1 DEF RoomOf
    <2>3. QED
        BY <2>1, <2>2
<1>11. /\ DOMAIN new = {<<home[r.student], r.week>> : r \in N}
       /\ \A k \in DOMAIN new :
             /\ Matches(new[k], RoomCounters(Here(N, k)))
             /\ "teacher" \in DOMAIN new[k] /\ new[k].teacher = TeacherOf[k[1]]
    BY RoomRowsAre
<1>12. /\ DOMAIN roomWeek' = DOMAIN roomWeek \union DOMAIN new
       /\ \A k \in DOMAIN roomWeek' :
             /\ k \notin DOMAIN new => roomWeek'[k] = roomWeek[k]
             /\ k \notin DOMAIN roomWeek => roomWeek'[k] = new[k]
             /\ k \in DOMAIN new /\ k \in DOMAIN roomWeek =>
                    roomWeek'[k] = MergedRoom(roomWeek[k], new[k])
    BY <1>3 DEF Upserted
<1>13. \A k \in DOMAIN roomWeek' : k = <<k[1], k[2]>>
    BY <1>1, <1>11, <1>12 DEF RoomRows
<1>14. ASSUME NEW k \in DOMAIN roomWeek', k[2] \notin disturbed
       PROVE  /\ Under(k[1], k[2])' = Under(k[1], k[2]) \union Here(N, k)
              /\ Under(k[1], k[2]) \intersect Here(N, k) = {}
              /\ Countable(Under(k[1], k[2])) /\ Countable(Here(N, k))
    <2>1. Under(k[1], k[2])' = {r \in AllRuns' : r.week = k[2] /\ RoomOf(r)' = k[1]}
        BY DEF Under
    <2>2. Under(k[1], k[2]) = {r \in A : r.week = k[2] /\ RoomOf(r) = k[1]}
        BY DEF Under
    <2>3. Here(N, k) = {r \in N : r.week = k[2] /\ home[r.student] = k[1]}
        BY <1>13 DEF Here
    <2>4. Under(k[1], k[2])' = Under(k[1], k[2]) \union Here(N, k)
        <3> HIDE DEF A, N
        <3>1. AllRuns' = A \union N
            BY <1>2
        <3>2. QED
            BY <1>10, <1>14, <2>1, <2>2, <2>3, <3>1
    <2>5. Under(k[1], k[2]) \subseteq A /\ Here(N, k) \subseteq N
        BY <2>2, <2>3
    <2> HIDE DEF A, N
    <2>6. QED
        BY <1>2, <1>4, <2>4, <2>5, PartCountable
<1> HIDE DEF A, N, U, new
<1>15. \A R : RoomCounters(R)' = RoomCounters(R)
    BY DEF RoomCounters, Counters, StatOf, SumOf
<1>16. ASSUME NEW k \in DOMAIN roomWeek'
       PROVE  /\ "teacher" \in DOMAIN roomWeek'[k] /\ roomWeek'[k].teacher = TeacherOf[k[1]]
              /\ k[2] \notin disturbed => Matches(roomWeek'[k], RoomCounters(Under(k[1], k[2])'))
    <2>1. CASE k \notin DOMAIN new
        <3>1. k \in DOMAIN roomWeek /\ roomWeek'[k] = roomWeek[k]
            BY <1>12, <2>1
        <3>2. Here(N, k) = {}
            BY <1>11, <2>1 DEF Here
        <3>3. k[2] \notin disturbed => Under(k[1], k[2])' = Under(k[1], k[2])
            BY <1>14, <3>2
        <3>4. QED
            BY <1>1, <3>1, <3>3 DEF RoomRows
    <2>2. CASE k \in DOMAIN new /\ k \notin DOMAIN roomWeek
        <3>1. roomWeek'[k] = new[k]
            BY <1>12, <2>2
        <3>2. k[2] \notin disturbed => Under(k[1], k[2]) = {}
            <4>1. \A r \in AllRuns : r.week \notin disturbed => <<RoomOf(r), r.week>> \in DOMAIN roomWeek
                BY <1>1 DEF RoomRows
            <4>2. QED
                BY <1>13, <2>2, <4>1 DEF Under
        <3>3. k[2] \notin disturbed => Under(k[1], k[2])' = Here(N, k)
            BY <1>14, <3>2
        <3>4. QED
            BY <1>11, <2>2, <3>1, <3>3
    <2>3. CASE k \in DOMAIN new /\ k \in DOMAIN roomWeek
        <3>1. /\ roomWeek'[k] = MergedRoom(roomWeek[k], new[k])
              /\ "teacher" \in DOMAIN roomWeek[k] /\ roomWeek[k].teacher = TeacherOf[k[1]]
              /\ k[2] \notin disturbed => Matches(roomWeek[k], RoomCounters(Under(k[1], k[2])))
              /\ Matches(new[k], RoomCounters(Here(N, k)))
            BY <1>1, <1>11, <1>12, <2>3 DEF RoomRows
        <3>2. /\ "teacher" \in DOMAIN roomWeek'[k]
              /\ roomWeek'[k].teacher = TeacherOf[k[1]]
            BY <3>1, RoomKeeps
        <3>3. ASSUME k[2] \notin disturbed
              PROVE  Matches(roomWeek'[k], RoomCounters(Under(k[1], k[2])'))
            <4>1. /\ Under(k[1], k[2])' = Under(k[1], k[2]) \union Here(N, k)
                  /\ Under(k[1], k[2]) \intersect Here(N, k) = {}
                  /\ Countable(Under(k[1], k[2])) /\ Countable(Here(N, k))
                BY <1>14, <3>3
            <4>2. Matches(MergedRoom(roomWeek[k], new[k]),
                          RoomCounters(Under(k[1], k[2]) \union Here(N, k)))
                BY <3>1, <3>3, <4>1, RoomsMerge
            <4>3. QED
                BY <3>1, <4>1, <4>2
        <3>4. QED
            BY <3>2, <3>3
    <2>4. QED
        BY <1>12, <2>1, <2>2, <2>3
<1>17. ASSUME NEW r \in AllRuns', r.week \notin disturbed
       PROVE  <<RoomOf(r)', r.week>> \in DOMAIN roomWeek'
    <2>1. CASE r \in A
        <3>1. RoomOf(r)' = RoomOf(r) /\ <<RoomOf(r), r.week>> \in DOMAIN roomWeek
            BY <1>1, <1>10, <1>17, <2>1 DEF RoomRows, A
        <3>2. QED
            BY <1>12, <3>1
    <2>2. CASE r \in N
        <3>1. <<home[r.student], r.week>> \in DOMAIN new
            BY <1>11, <2>2
        <3>2. QED
            BY <1>10, <1>12, <1>17, <2>2, <3>1
    <2>3. QED
        BY <1>2, <2>1, <2>2 DEF U
<1>18. ASSUME NEW k \in DOMAIN studentLevel', k[2] \notin disturbed
       PROVE  studentLevel'[k].room = studentWeek'[<<k[1], k[2]>>].room
    <2>1. CASE k \in DOMAIN studentLevel
        <3>1. PICK r \in A : k = <<r.student, r.week, r.level>>
            BY <1>1, <2>1, RowsOfRuns DEF A
        <3>2. <<k[1], k[2]>> \in DOMAIN studentWeek
            BY <1>6, <1>18, <3>1
        <3>3. studentLevel[k].room = studentWeek[<<k[1], k[2]>>].room
            BY <1>1, <1>18, <2>1 DEF RoomRows
        <3>4. QED
            BY <1>8, <2>1, <3>2, <3>3
    <2>2. CASE k \notin DOMAIN studentLevel
        <3>1. PICK r \in N : k = <<r.student, r.week, r.level>>
            <4>1. k \in DOMAIN OfPupil(StudentLevels(N))
                BY <1>3, <2>2 DEF Upserted
            <4>2. /\ DOMAIN OfPupil(StudentLevels(N)) = DOMAIN StudentLevels(N)
                  /\ DOMAIN StudentLevels(N) = {<<r.student, r.week, r.level>> : r \in N}
                BY OfPupilIs, TablesAre
            <4>3. QED
                BY <4>1, <4>2
        <3>2. k[2] \notin done /\ <<k[1], k[2]>> \in DOMAIN studentWeek'
            BY <1>5, <1>7, <1>18, <3>1 DEF U
        <3>3. studentLevel'[k].room = home[k[1]]
            BY <1>9, <1>18, <3>2
        <3>4. studentWeek'[<<k[1], k[2]>>].room = home[k[1]]
            <4>1. \A j \in DOMAIN studentWeek' : j = <<k[1], k[2]>> => studentWeek'[j].room = home[k[1]]
                BY <1>9, <1>18, <3>2
            <4>2. QED
                BY <3>2, <4>1
        <3>5. QED
            BY <3>3, <3>4
    <2>3. QED
        BY <2>1, <2>2
<1>19. QED
    BY <1>3, <1>13, <1>16, <1>17, <1>18 DEF RoomRows, Matches

(* A slice makes the rows of a teacher's rooms from the same runs as their *)
(* pupils' rows, and leaves the other teachers' and the other weeks'.      *)
LEMMA RoomsSlice ==
    ASSUME RoomsInv, SummariesInv', NEW t \in Teachers, Slice(t),
           RunsUnder(t, compaction.week) # {}
    PROVE  RoomRows'
<1> DEFINE v == compaction.week
           A == AllRuns
           M == RunsUnder(t, v)
           new == RoomWeeks(M)
           rest == Rest(roomWeek, t)
<1>1. SummariesInv /\ BaseInv /\ RoomRows
    BY DEF RoomsInv, SummariesInv
<1>2. /\ home' = home /\ done' = done /\ disturbed' = disturbed /\ AllRuns' = A
    BY DEF Slice, people, queue, AllRuns, RunOf
<1>3. /\ studentWeek'  = Rest(studentWeek, t) ++ OfPupil(StudentWeeks(M))
      /\ studentLevel' = Rest(studentLevel, t) ++ OfPupil(StudentLevels(M))
      /\ roomWeek'     = rest ++ new
    BY DEF Slice, Remade
<1>4. v \notin done
    BY <1>1 DEF Slice, BaseInv, Closed
<1>5. \A r : r \in M <=> r \in A /\ r.week = v /\ TeacherOf[home[r.student]] = t
    BY DEF RunsUnder, RunsIn, TeacherNow
<1>6. /\ DOMAIN OfPupil(StudentWeeks(M)) = {<<r.student, r.week>> : r \in M}
      /\ DOMAIN OfPupil(StudentLevels(M)) = {<<r.student, r.week, r.level>> : r \in M}
    <2>1. /\ DOMAIN OfPupil(StudentWeeks(M)) = DOMAIN StudentWeeks(M)
          /\ DOMAIN OfPupil(StudentLevels(M)) = DOMAIN StudentLevels(M)
        BY OfPupilIs
    <2>2. QED
        BY <2>1, TablesAre
<1>7. /\ DOMAIN new = {<<home[r.student], r.week>> : r \in M}
      /\ \A k \in DOMAIN new :
            /\ Matches(new[k], RoomCounters(Here(M, k)))
            /\ "teacher" \in DOMAIN new[k] /\ new[k].teacher = TeacherOf[k[1]]
    BY RoomRowsAre
<1>8. \A r \in A : r.week \notin disturbed =>
          /\ <<r.student, r.week>> \in DOMAIN studentWeek
          /\ <<r.student, r.week, r.level>> \in DOMAIN studentLevel
          /\ <<r.student, r.week>> \in DOMAIN studentWeek'
          /\ <<r.student, r.week, r.level>> \in DOMAIN studentLevel'
    BY <1>1, <1>2, RowsAreThere, RowsWillBeThere
<1>9. /\ \A k \in DOMAIN studentWeek :
            k[2] \notin done \union disturbed => studentWeek[k].room = home[k[1]]
      /\ \A k \in DOMAIN studentLevel :
            k[2] \notin done \union disturbed => studentLevel[k].room = home[k[1]]
    BY <1>1, RowsAtHome
<1>10. /\ \A k \in DOMAIN studentWeek' :
            k[2] \notin done \union disturbed => studentWeek'[k].room = home[k[1]]
       /\ \A k \in DOMAIN studentLevel' :
            k[2] \notin done \union disturbed => studentLevel'[k].room = home[k[1]]
    BY <1>2 DEF SummariesInv, Summaries, InStep
<1>11. /\ \A k \in DOMAIN studentWeek :
              k[2] # v => k \in DOMAIN studentWeek' /\ studentWeek'[k] = studentWeek[k]
       /\ \A k \in DOMAIN studentLevel :
              k[2] # v => k \in DOMAIN studentLevel' /\ studentLevel'[k] = studentLevel[k]
    BY <1>3 DEF Rest, Without, Theirs, ++
<1>12. \A k \in DOMAIN studentLevel' :
          /\ \E r \in A : k = <<r.student, r.week, r.level>>
          /\ k[2] # v => k \in DOMAIN studentLevel
    <2>1. ASSUME NEW k \in DOMAIN studentLevel'
          PROVE  /\ \E r \in A : k = <<r.student, r.week, r.level>>
                 /\ k[2] # v => k \in DOMAIN studentLevel
        <3>1. k \in DOMAIN studentLevel \/ k \in DOMAIN OfPupil(StudentLevels(M))
            BY <1>3, <2>1 DEF Rest, Without, ++
        <3>2. QED
            BY <1>1, <1>5, <1>6, <3>1, RowsOfRuns
    <2>2. QED
        BY <2>1
<1>13. \A k \in DOMAIN roomWeek : k \in DOMAIN rest <=> k[2] # v \/ TeacherOf[k[1]] # t
    BY <1>1 DEF RoomRows, Rest, Without, Theirs
<1>14. DOMAIN rest \subseteq DOMAIN roomWeek /\ \A k \in DOMAIN rest : rest[k] = roomWeek[k]
    BY DEF Rest, Without
<1> HIDE DEF v, A, M, new, rest
<1>15. \A k \in DOMAIN roomWeek' :
          \/ k \in DOMAIN rest /\ roomWeek'[k] = roomWeek[k] /\ k \in DOMAIN roomWeek
          \/ k \in DOMAIN new /\ roomWeek'[k] = new[k]
    BY <1>3, <1>14 DEF ++
<1>16. DOMAIN roomWeek' = DOMAIN rest \union DOMAIN new
    BY <1>3 DEF ++
<1>17. ASSUME NEW r \in A, r.week \notin disturbed
       PROVE  /\ RoomOf(r)' = RoomOf(r)
              /\ r.week = v => RoomOf(r) = home[r.student]
    <2>1. CASE r.week = v
        BY <1>4, <1>8, <1>9, <1>10, <1>17, <2>1 DEF RoomOf
    <2>2. CASE r.week # v
        BY <1>8, <1>11, <1>17, <2>2 DEF RoomOf
    <2>3. QED
        BY <2>1, <2>2
<1>18. \A c, w : w \notin disturbed => Under(c, w)' = Under(c, w)
    <2>1. ASSUME NEW c, NEW w, w \notin disturbed
          PROVE  Under(c, w)' = Under(c, w)
        <3>1. Under(c, w)' = {r \in AllRuns' : r.week = w /\ RoomOf(r)' = c}
            BY DEF Under
        <3>2. Under(c, w) = {r \in A : r.week = w /\ RoomOf(r) = c}
            BY DEF Under, A
        <3>3. QED
            BY <1>2, <1>17, <2>1, <3>1, <3>2
    <2>2. QED
        BY <2>1
<1>19. ASSUME NEW k \in DOMAIN new
       PROVE  /\ k = <<k[1], k[2]>>
              /\ k[2] \notin disturbed => Under(k[1], k[2]) = Here(M, k)
    <2>1. PICK r \in M : k = <<home[r.student], r.week>>
        BY <1>7
    <2>2. k[2] = v /\ TeacherOf[k[1]] = t
        BY <1>5, <2>1
    <2>3. Here(M, k) = {x \in A : x.week = v /\ home[x.student] = k[1]}
        BY <1>5, <2>1, <2>2 DEF Here
    <2>4. Under(k[1], k[2]) = {x \in A : x.week = v /\ RoomOf(x) = k[1]}
        BY <2>2 DEF Under, A
    <2>5. QED
        BY <1>17, <2>1, <2>2, <2>3, <2>4
<1>20. \A R : RoomCounters(R)' = RoomCounters(R)
    BY DEF RoomCounters, Counters, StatOf, SumOf
<1>21. ASSUME NEW k \in DOMAIN roomWeek'
       PROVE  /\ k = <<k[1], k[2]>>
              /\ "teacher" \in DOMAIN roomWeek'[k] /\ roomWeek'[k].teacher = TeacherOf[k[1]]
              /\ k[2] \notin disturbed => Matches(roomWeek'[k], RoomCounters(Under(k[1], k[2])'))
    <2>1. CASE k \in DOMAIN rest /\ roomWeek'[k] = roomWeek[k] /\ k \in DOMAIN roomWeek
        BY <1>1, <1>18, <2>1 DEF RoomRows
    <2>2. CASE k \in DOMAIN new /\ roomWeek'[k] = new[k]
        BY <1>7, <1>18, <1>19, <2>2
    <2>3. QED
        BY <1>15, <2>1, <2>2
<1>22. ASSUME NEW r \in A, r.week \notin disturbed
       PROVE  <<RoomOf(r)', r.week>> \in DOMAIN roomWeek'
    <2>1. RoomOf(r)' = RoomOf(r) /\ <<RoomOf(r), r.week>> \in DOMAIN roomWeek
        BY <1>1, <1>17, <1>22 DEF RoomRows, A
    <2>2. CASE r.week = v /\ TeacherOf[RoomOf(r)] = t
        <3>1. r \in M /\ RoomOf(r) = home[r.student]
            BY <1>5, <1>17, <1>22, <2>2
        <3>2. <<RoomOf(r), r.week>> \in DOMAIN new
            BY <1>7, <3>1
        <3>3. QED
            BY <1>16, <2>1, <3>2
    <2>3. CASE r.week # v \/ TeacherOf[RoomOf(r)] # t
        <3>1. <<RoomOf(r), r.week>> \in DOMAIN rest
            BY <1>13, <2>1, <2>3
        <3>2. QED
            BY <1>16, <2>1, <3>1
    <2>4. QED
        BY <2>2, <2>3
<1>23. ASSUME NEW k \in DOMAIN studentLevel', k[2] \notin disturbed
       PROVE  studentLevel'[k].room = studentWeek'[<<k[1], k[2]>>].room
    <2>1. PICK r \in A : k = <<r.student, r.week, r.level>>
        BY <1>12
    <2> DEFINE j == <<k[1], k[2]>>
    <2>2. j \in DOMAIN studentWeek /\ j \in DOMAIN studentWeek' /\ j[1] = k[1] /\ j[2] = k[2]
        BY <1>8, <1>23, <2>1
    <2> HIDE DEF j
    <2>3. CASE k[2] = v
        <3>1. studentLevel'[k].room = home[k[1]]
            BY <1>4, <1>10, <1>23, <2>3
        <3>2. studentWeek'[j].room = home[k[1]]
            BY <1>4, <1>10, <1>23, <2>2, <2>3
        <3>3. QED
            BY <3>1, <3>2 DEF j
    <2>4. CASE k[2] # v
        <3>1. k \in DOMAIN studentLevel /\ studentLevel'[k] = studentLevel[k]
            BY <1>11, <1>12, <2>4
        <3>2. studentWeek'[j] = studentWeek[j]
            BY <1>11, <2>2, <2>4
        <3>3. studentLevel[k].room = studentWeek[j].room
            BY <1>1, <1>23, <3>1 DEF RoomRows, j
        <3>4. QED
            BY <3>1, <3>2, <3>3 DEF j
    <2>5. QED
        BY <2>3, <2>4
<1>24. QED
    BY <1>2, <1>20, <1>21, <1>22, <1>23 DEF RoomRows, Matches

(* No step breaks it.                                                      *)
LEMMA RoomsStep == ASSUME RoomsInv, [Next]_vars PROVE RoomsInv'
<1>1. SummariesInv'
    BY SummariesStep DEF RoomsInv
<1> SUFFICES RoomRows'
    BY <1>1 DEF RoomsInv
<1>2. ASSUME NEW f \in Flushers, Commit(f)
      PROVE  RoomRows'
    BY <1>1, <1>2, RoomsCommit
<1>3. ASSUME NEW t \in Teachers, Slice(t), RunsUnder(t, compaction.week) # {}
      PROVE  RoomRows'
    BY <1>1, <1>3, RoomsSlice
<1>4. CASE /\ UNCHANGED <<runs, studentWeek, studentLevel, roomWeek>>
           /\ disturbed \subseteq disturbed'
    BY <1>4, RoomsStay
<1>5. ASSUME NEW t \in Teachers, Slice(t), RunsUnder(t, compaction.week) = {}
      PROVE  /\ UNCHANGED <<runs, studentWeek, studentLevel, roomWeek>>
             /\ disturbed \subseteq disturbed'
    BY <1>5 DEF Slice, tables
<1>6. ASSUME NEW f \in Flushers, (\E n \in 1 .. BatchSize : Insert(f, n)) \/ Rollback(f)
      PROVE  /\ UNCHANGED <<runs, studentWeek, studentLevel, roomWeek>>
             /\ disturbed \subseteq disturbed'
    BY <1>6 DEF Insert, Rollback, tables
<1>7. ASSUME \/ UNCHANGED vars \/ NextWeek \/ Finalize
             \/ \E p \in Pupils, c \in Rooms : Move(p, c)
             \/ \E w \in Weeks : StartCompaction(w)
             \/ \E t \in Teachers : SliceFails(t)
      PROVE  /\ UNCHANGED <<runs, studentWeek, studentLevel, roomWeek>>
             /\ disturbed \subseteq disturbed'
    BY <1>7 DEF vars, tables, NextWeek, Finalize, Move, StartCompaction, SliceFails
<1>8. QED
    BY <1>2, <1>3, <1>4, <1>5, <1>6, <1>7 DEF Next

LEMMA RoomsHold == Spec => []RoomsInv
<1>1. Init => RoomsInv
    BY BaseInitially, SummariesInitially, RoomsInitially DEF SummariesInv, RoomsInv
<1>2. RoomsInv /\ [Next]_vars => RoomsInv'
    BY RoomsStep
<1>3. QED
    BY <1>1, <1>2, PTL DEF Spec

(* The columns of the keys add up to the column of what is under them.     *)
LEMMA ColumnOfFibres ==
    ASSUME NEW S, IsFiniteSet(S), NEW g \in [S -> Int], NEW key, NEW K, IsFiniteSet(K)
    PROVE  SumFunction([k \in K |-> SumIn(g, Fibre(S, key, k))]) = SumIn(g, Fibres(S, key, K))
<1> DEFINE t == [k \in K |-> SumIn(g, Fibre(S, key, k))]
<1>1. \A k \in K : Fibre(S, key, k) \in SUBSET S
    BY DEF Fibre
<1>2. \A A \in SUBSET S : SumIn(g, A) \in Int
    BY SumWithout
<1>3. t \in [K -> Int] /\ t = [k \in K |-> t[k]]
    BY <1>1, <1>2
<1>4. \A k \in K : t[k] = SumIn(g, Fibre(S, key, k))
    OBVIOUS
<1> HIDE DEF t
<1>5. SumIn(t, K) = SumIn(g, Fibres(S, key, K))
    BY <1>3, <1>4, SumOfFibres
<1>6. SumFunction(t) = SumIn(g, Fibres(S, key, K))
    BY <1>3, <1>5 DEF SumIn
<1>7. QED
    BY <1>6 DEF t

(* What the rows of some keys add up to, and what some runs come to.       *)
Totals(table, K) ==
    [runs     |-> SumFunction([k \in K |-> table[k].runs]),
     wins     |-> SumFunction([k \in K |-> table[k].wins]),
     correct  |-> SumFunction([k \in K |-> table[k].correct]),
     wrong    |-> SumFunction([k \in K |-> table[k].wrong]),
     score    |-> SumFunction([k \in K |-> table[k].score.sum]),
     squares  |-> SumFunction([k \in K |-> table[k].score.squares]),
     elapsed  |-> SumFunction([k \in K |-> table[k].elapsed.sum]),
     measured |-> SumFunction([k \in K |-> table[k].elapsed.count])]

InTotal(R) ==
    [runs     |-> Cardinality(R),
     wins     |-> Cardinality({r \in R : r.won}),
     correct  |-> Column(R, "correct"),
     wrong    |-> Column(R, "wrong"),
     score    |-> Column(R, "score"),
     squares  |-> Squares(R, "score"),
     elapsed  |-> Column(R, "elapsed"),
     measured |-> Cardinality(R)]

(* The rows of some keys add up to what the runs under them come to.       *)
LEMMA RowsAddUp ==
    ASSUME NEW S, Countable(S), NEW key, NEW table, NEW K, IsFiniteSet(K),
           \A k \in K : Matches(table[k], Counters(Fibre(S, key, k))),
           NEW X, X = Fibres(S, key, K)
    PROVE  Totals(table, K) = InTotal(X)
<1> DEFINE of(k) == Fibre(S, key, k)
           won == {r \in S : r.won}
<1>1. \A k \in K : Countable(of(k)) /\ IsFiniteSet(Fibre(won, key, k))
    BY PartCountable, FS_Subset DEF Countable, Fibre
<1>2. \A k \in K :
          /\ table[k].runs = Cardinality(of(k))
          /\ table[k].wins = Cardinality({r \in of(k) : r.won})
          /\ table[k].correct = Column(of(k), "correct") /\ table[k].wrong = Column(of(k), "wrong")
          /\ table[k].score = Stat(of(k), "score") /\ table[k].elapsed = Stat(of(k), "elapsed")
    BY CountersAre DEF Matches
<1>3. /\ SumFunction([k \in K |-> Cardinality(of(k))]) = Cardinality(X)
      /\ SumFunction([k \in K |-> Cardinality(Fibre(won, key, k))]) =
             Cardinality(Fibres(won, key, K))
    <2> DEFINE s == [k \in K |-> Cardinality(of(k))]
               u == [k \in K |-> Cardinality(Fibre(won, key, k))]
    <2>1. s \in [K -> Int] /\ u \in [K -> Int]
        <3>1. \A k \in K : /\ IsFiniteSet(Fibre(S, key, k))
                           /\ IsFiniteSet(Fibre(won, key, k))
            BY <1>1 DEF Countable
        <3>2. \A R : IsFiniteSet(R) => Cardinality(R) \in Int
            BY FS_CardinalityType
        <3>3. \A k \in K : /\ Cardinality(of(k)) \in Int
                           /\ Cardinality(Fibre(won, key, k)) \in Int
            BY <3>1, <3>2
        <3>4. QED
            BY <3>3
    <2>2. /\ \A k \in K : s[k] = Cardinality(Fibre(S, key, k))
          /\ \A k \in K : u[k] = Cardinality(Fibre(won, key, k))
        OBVIOUS
    <2>3. IsFiniteSet(S) /\ IsFiniteSet(won)
        BY FS_Subset DEF Countable
    <2>4. s = [k \in K |-> s[k]] /\ u = [k \in K |-> u[k]]
        OBVIOUS
    <2> HIDE DEF s, u, won
    <2>5. SumIn(s, K) = Cardinality(Fibres(S, key, K))
        BY <2>1, <2>2, <2>3, CountOfFibres
    <2>6. SumIn(u, K) = Cardinality(Fibres(won, key, K))
        BY <2>1, <2>2, <2>3, CountOfFibres
    <2>7. SumFunction(s) = Cardinality(X) /\ SumFunction(u) = Cardinality(Fibres(won, key, K))
        BY <2>4, <2>5, <2>6 DEF SumIn
    <2>8. QED
        BY <2>7 DEF s, u
<1>4. ASSUME NEW c \in Measured
      PROVE  /\ SumFunction([k \in K |-> Column(of(k), c)]) = Column(X, c)
             /\ SumFunction([k \in K |-> Squares(of(k), c)]) = Squares(X, c)
    <2> DEFINE g == [r \in S |-> r[c]]
               h == [r \in S |-> r[c] * r[c]]
    <2>1. IsFiniteSet(S) /\ g \in [S -> Int] /\ h \in [S -> Int]
        BY DEF Countable
    <2>2. \A R \in SUBSET S : SumIn(g, R) = Column(R, c) /\ SumIn(h, R) = Squares(R, c)
        <3>1. \A R \in SUBSET S : /\ [r \in R |-> g[r]] = [r \in R |-> r[c]]
                                  /\ [r \in R |-> h[r]] = [r \in R |-> r[c] * r[c]]
            OBVIOUS
        <3> HIDE DEF g, h
        <3>2. QED
            BY <3>1, Zenon DEF SumIn, Column, Squares
    <2>3. X \in SUBSET S /\ \A k \in K : of(k) \in SUBSET S
        BY DEF Fibre, Fibres
    <2>4. SumFunction([k \in K |-> SumIn(g, of(k))]) = SumIn(g, X)
        <3> HIDE DEF g, h
        <3>1. QED
            BY <2>1, ColumnOfFibres
    <2>5. SumFunction([k \in K |-> SumIn(h, of(k))]) = SumIn(h, X)
        <3> HIDE DEF g, h
        <3>1. QED
            BY <2>1, ColumnOfFibres
    <2> HIDE DEF g, h, of
    <2>6. /\ \A k \in K : SumIn(g, of(k)) = Column(of(k), c) /\ SumIn(h, of(k)) = Squares(of(k), c)
          /\ SumIn(g, X) = Column(X, c) /\ SumIn(h, X) = Squares(X, c)
        BY <2>2, <2>3
    <2>7. /\ [k \in K |-> SumIn(g, of(k))] = [k \in K |-> Column(of(k), c)]
          /\ [k \in K |-> SumIn(h, of(k))] = [k \in K |-> Squares(of(k), c)]
        BY <2>6
    <2>8. QED
        BY <2>4, <2>5, <2>6, <2>7
<1>5. {"score", "elapsed", "correct", "wrong"} \subseteq Measured
    BY DEF Measured
<1>6. /\ \A k \in K : {r \in of(k) : r.won} = Fibre(won, key, k)
      /\ {r \in X : r.won} = Fibres(won, key, K)
    BY DEF Fibre, Fibres
<1>7. \A k \in K : \A c : /\ Stat(of(k), c).sum = Column(of(k), c)
                          /\ Stat(of(k), c).squares = Squares(of(k), c)
                          /\ Stat(of(k), c).count = Cardinality(of(k))
    BY DEF Stat
<1> HIDE DEF of, won
<1>8. /\ [k \in K |-> table[k].runs] = [k \in K |-> Cardinality(of(k))]
      /\ [k \in K |-> table[k].wins] = [k \in K |-> Cardinality(Fibre(won, key, k))]
      /\ [k \in K |-> table[k].correct] = [k \in K |-> Column(of(k), "correct")]
      /\ [k \in K |-> table[k].wrong] = [k \in K |-> Column(of(k), "wrong")]
      /\ [k \in K |-> table[k].score.sum] = [k \in K |-> Column(of(k), "score")]
      /\ [k \in K |-> table[k].score.squares] = [k \in K |-> Squares(of(k), "score")]
      /\ [k \in K |-> table[k].elapsed.sum] = [k \in K |-> Column(of(k), "elapsed")]
      /\ [k \in K |-> table[k].elapsed.count] = [k \in K |-> Cardinality(of(k))]
    <2>1. \A k \in K :
              /\ table[k].runs = Cardinality(of(k))
              /\ table[k].wins = Cardinality(Fibre(won, key, k))
              /\ table[k].correct = Column(of(k), "correct")
              /\ table[k].wrong = Column(of(k), "wrong")
        BY <1>2, <1>6
    <2>2. \A k \in K :
              /\ table[k].score.sum = Column(of(k), "score")
              /\ table[k].score.squares = Squares(of(k), "score")
              /\ table[k].elapsed.sum = Column(of(k), "elapsed")
              /\ table[k].elapsed.count = Cardinality(of(k))
        BY <1>2, <1>7
    <2>3. QED
        BY <2>1, <2>2, Zenon
<1>9. /\ SumFunction([k \in K |-> table[k].runs]) = Cardinality(X)
      /\ SumFunction([k \in K |-> table[k].wins]) = Cardinality({r \in X : r.won})
      /\ SumFunction([k \in K |-> table[k].elapsed.count]) = Cardinality(X)
    BY <1>3, <1>6, <1>8
<1>10. /\ SumFunction([k \in K |-> table[k].correct]) = Column(X, "correct")
       /\ SumFunction([k \in K |-> table[k].wrong]) = Column(X, "wrong")
       /\ SumFunction([k \in K |-> table[k].score.sum]) = Column(X, "score")
       /\ SumFunction([k \in K |-> table[k].score.squares]) = Squares(X, "score")
       /\ SumFunction([k \in K |-> table[k].elapsed.sum]) = Column(X, "elapsed")
    BY <1>4, <1>5, <1>8
<1>11. QED
    BY <1>9, <1>10, Zenon DEF Totals, InTotal

(* A room's row of a week is the sum of its pupils' rows, and of their     *)
(* rows by level, in a week nobody moved in, whatever was committed by     *)
(* whom and made anew for whom in between: the three tables of one         *)
(* transaction stay together.  (rollup_incremental.py)                     *)
THEOREM RoomsAddUpTheorem == Spec => []RoomsAddUp
<1>1. ASSUME RoomsInv
      PROVE  RoomsAddUp
    <2>1. ASSUME NEW k \in DOMAIN roomWeek, k[2] \notin disturbed
          PROVE  LET rows == {j \in DOMAIN studentWeek : j[2] = k[2] /\ studentWeek[j].room = k[1]}
                     levels == {j \in DOMAIN studentLevel : j[2] = k[2] /\ studentLevel[j].room = k[1]}
                     adds(f(_)) == /\ f(roomWeek[k]) = SumRows(studentWeek, rows, f)
                                   /\ f(roomWeek[k]) = SumRows(studentLevel, levels, f)
                 IN  /\ adds(LAMBDA v : v.runs) /\ adds(LAMBDA v : v.wins)
                     /\ adds(LAMBDA v : v.correct) /\ adds(LAMBDA v : v.wrong)
                     /\ adds(LAMBDA v : v.score.sum) /\ adds(LAMBDA v : v.score.squares)
                     /\ adds(LAMBDA v : v.elapsed.sum) /\ adds(LAMBDA v : v.elapsed.count)
        <3> DEFINE A == AllRuns
                   X == Under(k[1], k[2])
                   rows == {j \in DOMAIN studentWeek : j[2] = k[2] /\ studentWeek[j].room = k[1]}
                   levels == {j \in DOMAIN studentLevel : j[2] = k[2] /\ studentLevel[j].room = k[1]}
                   inWeek == [r \in A |-> <<r.student, r.week>>]
                   inLevel == [r \in A |-> <<r.student, r.week, r.level>>]
        <3>1. SummariesInv /\ BaseInv /\ RoomRows
            BY <1>1 DEF RoomsInv, SummariesInv
        <3>2. Countable(A)
            BY <3>1, RunsCountable
        <3>3. Matches(roomWeek[k], RoomCounters(X))
            BY <2>1, <3>1 DEF RoomRows
        <3>4. \A r \in A : r.week = k[2] =>
                  /\ <<r.student, r.week>> \in DOMAIN studentWeek
                  /\ <<r.student, r.week, r.level>> \in DOMAIN studentLevel
                  /\ studentLevel[<<r.student, r.week, r.level>>].room =
                         studentWeek[<<r.student, r.week>>].room
            <4>1. ASSUME NEW r \in A, r.week = k[2]
                  PROVE  /\ <<r.student, r.week>> \in DOMAIN studentWeek
                         /\ <<r.student, r.week, r.level>> \in DOMAIN studentLevel
                BY <2>1, <3>1, <4>1, RowsAreThere
            <4>2. QED
                BY <2>1, <3>1, <4>1 DEF RoomRows
        <3>5. X = Fibres(A, inWeek, rows)
            BY <3>4 DEF Under, RoomOf, Fibres
        <3>6. X = Fibres(A, inLevel, levels)
            BY <3>4 DEF Under, RoomOf, Fibres
        <3>7. \A j \in rows : Matches(studentWeek[j], Counters(Fibre(A, inWeek, j)))
            <4>1. ASSUME NEW j \in rows
                  PROVE  Matches(studentWeek[j], Counters(Fibre(A, inWeek, j)))
                <5>1. Matches(studentWeek[j], WeekRow(WeekRuns(A, j)))
                    BY <3>1, TablesAre DEF SummariesInv, Summaries, InStep
                <5>2. WeekRuns(A, j) = Fibre(A, inWeek, j)
                    BY DEF WeekRuns, Fibre
                <5>3. QED
                    BY <5>1, <5>2, PartsMatch
            <4>2. QED
                BY <4>1
        <3>8. \A j \in levels : Matches(studentLevel[j], Counters(Fibre(A, inLevel, j)))
            <4>1. ASSUME NEW j \in levels
                  PROVE  Matches(studentLevel[j], Counters(Fibre(A, inLevel, j)))
                <5>1. Matches(studentLevel[j], LevelRow(LevelRuns(A, j)))
                    BY <3>1, TablesAre DEF SummariesInv, Summaries, InStep
                <5>2. LevelRuns(A, j) = Fibre(A, inLevel, j)
                    BY DEF LevelRuns, Fibre
                <5>3. QED
                    BY <5>1, <5>2, PartsMatch
            <4>2. QED
                BY <4>1
        <3>9. IsFiniteSet(rows) /\ IsFiniteSet(levels)
            <4> DEFINE K == {inWeek[r] : r \in A}
                       L == {inLevel[r] : r \in A}
            <4>1. rows \subseteq K /\ levels \subseteq L
                BY <3>1, RowsOfRuns
            <4>2. IsFiniteSet(A) /\ inWeek \in [A -> K] /\ inLevel \in [A -> L]
                BY <3>2 DEF Countable
            <4> HIDE DEF inWeek, inLevel, A, rows, levels
            <4>3. IsFiniteSet({inWeek[r] : r \in A}) /\ IsFiniteSet({inLevel[r] : r \in A})
                <5> HIDE DEF K, L
                <5>1. QED
                    BY <4>2, ImageIsFinite, Zenon
            <4>4. QED
                BY <4>1, <4>3, FS_Subset
        <3> HIDE DEF A, X, rows, levels, inWeek, inLevel
        <3>10. LET all == InTotal(X)
               IN  /\ roomWeek[k].runs = all.runs /\ roomWeek[k].wins = all.wins
                   /\ roomWeek[k].correct = all.correct /\ roomWeek[k].wrong = all.wrong
                   /\ roomWeek[k].score.sum = all.score /\ roomWeek[k].score.squares = all.squares
                   /\ roomWeek[k].elapsed.sum = all.elapsed
                   /\ roomWeek[k].elapsed.count = all.measured
            <4> DEFINE row == RoomCounters(X)
            <4>1. row = [runs |-> Cardinality(X), wins |-> Cardinality({r \in X : r.won}),
                         correct |-> Column(X, "correct"), wrong |-> Column(X, "wrong"),
                         score |-> RoomStat(X, "score"), elapsed |-> RoomStat(X, "elapsed")]
                BY RoomCountersAre
            <4>2. \A c \in DOMAIN row : roomWeek[k][c] = row[c]
                BY <3>3 DEF Matches
            <4> HIDE DEF row
            <4>3. /\ roomWeek[k].runs = Cardinality(X)
                  /\ roomWeek[k].wins = Cardinality({r \in X : r.won})
                  /\ roomWeek[k].correct = Column(X, "correct")
                  /\ roomWeek[k].wrong = Column(X, "wrong")
                  /\ roomWeek[k].score = RoomStat(X, "score")
                  /\ roomWeek[k].elapsed = RoomStat(X, "elapsed")
                BY <4>1, <4>2
            <4>4. QED
                BY <4>3 DEF RoomStat, InTotal
        <3>11. Totals(studentWeek, rows) = InTotal(X)
            BY <3>2, <3>5, <3>7, <3>9, RowsAddUp
        <3>12. Totals(studentLevel, levels) = InTotal(X)
            BY <3>2, <3>6, <3>8, <3>9, RowsAddUp
        <3>13. /\ Totals(studentWeek, rows) =
                      [runs     |-> SumRows(studentWeek, rows, LAMBDA v : v.runs),
                       wins     |-> SumRows(studentWeek, rows, LAMBDA v : v.wins),
                       correct  |-> SumRows(studentWeek, rows, LAMBDA v : v.correct),
                       wrong    |-> SumRows(studentWeek, rows, LAMBDA v : v.wrong),
                       score    |-> SumRows(studentWeek, rows, LAMBDA v : v.score.sum),
                       squares  |-> SumRows(studentWeek, rows, LAMBDA v : v.score.squares),
                       elapsed  |-> SumRows(studentWeek, rows, LAMBDA v : v.elapsed.sum),
                       measured |-> SumRows(studentWeek, rows, LAMBDA v : v.elapsed.count)]
               /\ Totals(studentLevel, levels) =
                      [runs     |-> SumRows(studentLevel, levels, LAMBDA v : v.runs),
                       wins     |-> SumRows(studentLevel, levels, LAMBDA v : v.wins),
                       correct  |-> SumRows(studentLevel, levels, LAMBDA v : v.correct),
                       wrong    |-> SumRows(studentLevel, levels, LAMBDA v : v.wrong),
                       score    |-> SumRows(studentLevel, levels, LAMBDA v : v.score.sum),
                       squares  |-> SumRows(studentLevel, levels, LAMBDA v : v.score.squares),
                       elapsed  |-> SumRows(studentLevel, levels, LAMBDA v : v.elapsed.sum),
                       measured |-> SumRows(studentLevel, levels, LAMBDA v : v.elapsed.count)]
            BY DEF Totals, SumRows, SumOf
        <3>14. QED
            BY <3>10, <3>11, <3>12, <3>13 DEF rows, levels
    <2>2. QED
        BY <2>1 DEF RoomsAddUp
<1>2. QED
    BY <1>1, RoomsHold, PTL

-------------------------------------------------------------------------------
(* The dashboard.                                                          *)

(* While nobody has moved, every row is where its pupil is, and a room has *)
(* rows of the weeks in which its pupils have runs.                        *)
RowsStayHome == \A k \in DOMAIN studentWeek : studentWeek[k].room = home[k[1]]
RoomsOfRuns  == \A k \in DOMAIN roomWeek : \E r \in AllRuns : k = <<home[r.student], r.week>>

AtHome == disturbed = {} => RowsStayHome /\ RoomsOfRuns

DashboardInv == RoomsInv /\ AtHome

LEMMA AtHomeInitially == ASSUME Init PROVE AtHome
<1>1. DOMAIN studentWeek = {} /\ DOMAIN roomWeek = {}
    BY DEF Init, Nothing
<1>2. QED
    BY <1>1 DEF AtHome, RowsStayHome, RoomsOfRuns

(* A step that leaves the runs and the tables.                             *)
LEMMA AtHomeStays ==
    ASSUME AtHome, UNCHANGED <<runs, studentWeek, roomWeek, home, disturbed>>
    PROVE  AtHome'
<1>1. AllRuns' = AllRuns
    BY DEF AllRuns, RunOf
<1>2. QED
    BY <1>1 DEF AtHome, RowsStayHome, RoomsOfRuns

(* A batch's runs are counted where their pupils are.                      *)
LEMMA AtHomeCommit ==
    ASSUME DashboardInv, NEW f \in Flushers, Commit(f)
    PROVE  AtHome'
<1> DEFINE N == New(f)
           fresh == OfPupil(StudentWeeks(N))
           new == RoomWeeks(N)
<1>1. SummariesInv /\ BaseInv /\ AtHome
    BY DEF DashboardInv, RoomsInv, SummariesInv
<1>2. AllRuns' = AllRuns \union N
    BY <1>1, RunsAfterCommit
<1>3. /\ studentWeek' = Upserted(studentWeek, fresh, MergedWeek)
      /\ roomWeek' = Upserted(roomWeek, new, MergedRoom)
      /\ home' = home /\ disturbed' = disturbed
    BY DEF Commit, New, people
<1>4. SUFFICES ASSUME disturbed = {}
               PROVE  RowsStayHome' /\ RoomsOfRuns'
    BY <1>3 DEF AtHome
<1>5. RowsStayHome /\ RoomsOfRuns
    BY <1>1, <1>4 DEF AtHome
<1>6. \A k \in DOMAIN fresh : fresh[k].room = home[k[1]]
    <2>1. DOMAIN fresh = DOMAIN StudentWeeks(N)
        BY OfPupilIs
    <2>2. QED
        BY <2>1, FreshRows
<1>7. DOMAIN new = {<<home[r.student], r.week>> : r \in N}
    BY RoomRowsAre
<1> HIDE DEF N, fresh, new
<1>8. ASSUME NEW k \in DOMAIN studentWeek'
      PROVE  studentWeek'[k].room = home[k[1]]
    <2>1. CASE k \in DOMAIN studentWeek
        <3>1. \/ studentWeek'[k] = studentWeek[k]
              \/ \E row : studentWeek'[k] = MergedWeek(studentWeek[k], row)
            BY <1>3, <2>1 DEF Upserted
        <3>2. "room" \in DOMAIN studentWeek[k]
            BY <1>1, <2>1, RowsOfRuns
        <3>3. \A row : MergedWeek(studentWeek[k], row).room = studentWeek[k].room
            BY <3>2, RowsKeep
        <3>4. studentWeek[k].room = home[k[1]]
            BY <1>5, <2>1 DEF RowsStayHome
        <3>5. QED
            BY <3>1, <3>3, <3>4
    <2>2. CASE k \notin DOMAIN studentWeek
        <3>1. k \in DOMAIN fresh /\ studentWeek'[k] = fresh[k]
            BY <1>3, <1>8, <2>2 DEF Upserted
        <3>2. QED
            BY <1>6, <3>1
    <2>3. QED
        BY <2>1, <2>2
<1>9. DOMAIN roomWeek' = DOMAIN roomWeek \union DOMAIN new
    BY <1>3 DEF Upserted
<1>10. \A k \in DOMAIN roomWeek' : \E r \in AllRuns' : k = <<home[r.student], r.week>>
    BY <1>2, <1>5, <1>7, <1>9 DEF RoomsOfRuns
<1>11. QED
    BY <1>3, <1>8, <1>10 DEF RowsStayHome, RoomsOfRuns

(* A slice makes the rows of a teacher's pupils and rooms anew.            *)
LEMMA AtHomeSlice ==
    ASSUME DashboardInv, NEW t \in Teachers, Slice(t), RunsUnder(t, compaction.week) # {}
    PROVE  AtHome'
<1> DEFINE M == RunsUnder(t, compaction.week)
           fresh == OfPupil(StudentWeeks(M))
           new == RoomWeeks(M)
<1>1. /\ studentWeek' = Rest(studentWeek, t) ++ fresh
      /\ roomWeek' = Rest(roomWeek, t) ++ new
      /\ home' = home /\ disturbed' = disturbed /\ AllRuns' = AllRuns
    BY DEF Slice, Remade, people, queue, AllRuns, RunOf
<1>2. SUFFICES ASSUME disturbed = {}
               PROVE  RowsStayHome' /\ RoomsOfRuns'
    BY <1>1 DEF AtHome
<1>3. RowsStayHome /\ RoomsOfRuns
    BY <1>2 DEF DashboardInv, AtHome
<1>4. \A k \in DOMAIN fresh : fresh[k].room = home[k[1]]
    <2>1. DOMAIN fresh = DOMAIN StudentWeeks(M)
        BY OfPupilIs
    <2>2. QED
        BY <2>1, FreshRows
<1>5. DOMAIN new = {<<home[r.student], r.week>> : r \in M} /\ M \subseteq AllRuns
    BY RoomRowsAre DEF RunsUnder, RunsIn
<1>6. \A table : /\ DOMAIN Rest(table, t) \subseteq DOMAIN table
                 /\ \A k \in DOMAIN Rest(table, t) : Rest(table, t)[k] = table[k]
    BY DEF Rest, Without
<1> HIDE DEF M, fresh, new
<1>7. \A k \in DOMAIN studentWeek' : studentWeek'[k].room = home[k[1]]
    BY <1>1, <1>3, <1>4, <1>6 DEF ++, RowsStayHome
<1>8. \A k \in DOMAIN roomWeek' : k \in DOMAIN roomWeek \/ k \in DOMAIN new
    BY <1>1, <1>6 DEF ++
<1>9. \A k \in DOMAIN roomWeek' : \E r \in AllRuns : k = <<home[r.student], r.week>>
    BY <1>3, <1>5, <1>8 DEF RoomsOfRuns
<1>10. QED
    BY <1>1, <1>7, <1>9 DEF RowsStayHome, RoomsOfRuns

(* A move leaves a week nobody has closed, this one, disturbed.            *)
LEMMA AtHomeStep == ASSUME DashboardInv, RoomsInv', [Next]_vars PROVE DashboardInv'
<1>0. AtHome /\ BaseInv
    BY DEF DashboardInv, RoomsInv, SummariesInv
<1>1. ASSUME NEW f \in Flushers, NEW n \in 1 .. BatchSize, Insert(f, n) PROVE AtHome'
    BY <1>0, <1>1, AtHomeStays DEF Insert, people, tables
<1>2. ASSUME NEW f \in Flushers, Commit(f) PROVE AtHome'
    BY <1>2, AtHomeCommit
<1>3. ASSUME NEW f \in Flushers, Rollback(f) PROVE AtHome'
    BY <1>0, <1>3, AtHomeStays DEF Rollback, people, tables
<1>4. ASSUME NextWeek PROVE AtHome'
    BY <1>0, <1>4, AtHomeStays DEF NextWeek, people, tables
<1>5. ASSUME NEW p \in Pupils, NEW c \in Rooms, Move(p, c) PROVE AtHome'
    <2>1. week \in 1 .. week \ done
        <3>1. week \in Nat \ {0} /\ week \notin done
            BY <1>0 DEF BaseInv, Types, Weeks, Closed, Quiet, StatisticsAssumption
        <3>2. QED
            BY <3>1
    <2>2. disturbed' # {}
        BY <1>5, <2>1 DEF Move
    <2>3. QED
        BY <2>2 DEF AtHome
<1>6. ASSUME NEW w \in Weeks, StartCompaction(w) PROVE AtHome'
    BY <1>0, <1>6, AtHomeStays DEF StartCompaction, people, tables
<1>7. ASSUME NEW t \in Teachers, Slice(t) PROVE AtHome'
    <2>1. CASE RunsUnder(t, compaction.week) = {}
        BY <1>0, <1>7, <2>1, AtHomeStays DEF Slice, people, tables
    <2>2. CASE RunsUnder(t, compaction.week) # {}
        BY <1>7, <2>2, AtHomeSlice
    <2>3. QED
        BY <2>1, <2>2
<1>8. ASSUME NEW t \in Teachers, SliceFails(t) PROVE AtHome'
    BY <1>0, <1>8, AtHomeStays DEF SliceFails, people, tables
<1>9. ASSUME Finalize PROVE AtHome'
    BY <1>0, <1>9, AtHomeStays DEF Finalize, people, tables
<1>10. ASSUME UNCHANGED vars PROVE AtHome'
    BY <1>0, <1>10, AtHomeStays DEF vars, people, tables
<1>11. QED
    BY <1>1, <1>2, <1>3, <1>4, <1>5, <1>6, <1>7, <1>8, <1>9, <1>10 DEF Next, DashboardInv

LEMMA DashboardHolds == Spec => []DashboardInv
<1>1. Init => AtHome
    BY AtHomeInitially
<1>2. DashboardInv /\ RoomsInv' /\ [Next]_vars => DashboardInv'
    BY AtHomeStep
<1>3. RoomsInv /\ AtHome => DashboardInv
    BY DEF DashboardInv
<1>4. QED
    BY <1>1, <1>2, <1>3, RoomsHold, PTL DEF Spec

-------------------------------------------------------------------------------
(* Rows that differ in nothing a page reads.                               *)

(* The rows of a pupil or of a room.                                       *)
RowsUnder(table, x) == [k \in {k \in DOMAIN table : k[1] = x} |-> table[k]]

Alike(rows, others) ==
    /\ DOMAIN rows = DOMAIN others
    /\ \A k \in DOMAIN rows :
          /\ rows[k].runs = others[k].runs /\ rows[k].wins = others[k].wins
          /\ rows[k].correct = others[k].correct /\ rows[k].wrong = others[k].wrong
          /\ rows[k].elapsed.sum = others[k].elapsed.sum

(* The sums they have in common.                                           *)
LEMMA AlikeAddUp ==
    ASSUME NEW rows, NEW others, Alike(rows, others)
    PROVE  /\ SumOver(rows, LAMBDA w : w.runs) = SumOver(others, LAMBDA w : w.runs)
           /\ SumOver(rows, LAMBDA w : w.wins) = SumOver(others, LAMBDA w : w.wins)
           /\ SumOver(rows, LAMBDA w : w.correct) = SumOver(others, LAMBDA w : w.correct)
           /\ SumOver(rows, LAMBDA w : w.wrong) = SumOver(others, LAMBDA w : w.wrong)
           /\ SumOver(rows, LAMBDA w : w.elapsed.sum) = SumOver(others, LAMBDA w : w.elapsed.sum)
<1> DEFINE D == DOMAIN rows
<1>1. DOMAIN others = D
    BY DEF Alike
<1>2. /\ [k \in D |-> rows[k].runs] = [k \in D |-> others[k].runs]
      /\ [k \in D |-> rows[k].wins] = [k \in D |-> others[k].wins]
      /\ [k \in D |-> rows[k].correct] = [k \in D |-> others[k].correct]
      /\ [k \in D |-> rows[k].wrong] = [k \in D |-> others[k].wrong]
      /\ [k \in D |-> rows[k].elapsed.sum] = [k \in D |-> others[k].elapsed.sum]
    BY DEF Alike
<1>3. QED
    BY <1>1, <1>2 DEF SumOver

(* A page says the same of such pupils, and of such rooms.                 *)
LEMMA SameInfo ==
    ASSUME NEW rows, NEW others, Alike(rows, others),
           \A k \in DOMAIN rows : rows[k].latest = others[k].latest,
           NEW points, NEW ages
    PROVE  StudentInfo(rows, points, ages) = StudentInfo(others, points, ages)
<1>1. {rows[k].latest : k \in DOMAIN rows} = {others[k].latest : k \in DOMAIN others}
    BY DEF Alike
<1>2. QED
    BY <1>1, AlikeAddUp, Zenon DEF StudentInfo

LEMMA SameRoom ==
    ASSUME NEW rows, NEW others, Alike(rows, others),
           \A k \in DOMAIN rows : rows[k].score.sum = others[k].score.sum,
           NEW pupils
    PROVE  ClassroomInfo(rows, pupils) = ClassroomInfo(others, pupils)
<1> DEFINE D == DOMAIN rows
<1>1. DOMAIN others = D
    BY DEF Alike
<1>2. [k \in D |-> rows[k].score.sum] = [k \in D |-> others[k].score.sum]
    OBVIOUS
<1>3. SumOver(rows, LAMBDA w : w.score.sum) = SumOver(others, LAMBDA w : w.score.sum)
    BY <1>1, <1>2 DEF SumOver
<1>4. QED
    BY <1>3, AlikeAddUp, Zenon DEF ClassroomInfo

(* What a page says of a pupil whose rows have these sums.                 *)
LEMMA InfoSays ==
    ASSUME NEW rows, NEW points, NEW ages
    PROVE  LET info == StudentInfo(rows, points, ages)
               all  == Totals(rows, DOMAIN rows)
           IN  /\ info.runs = all.runs
               /\ info.accuracy = Ratio(100 * all.correct, all.correct + all.wrong)
               /\ info.time = Ratio(all.elapsed, 1000 * (all.correct + all.wrong))
               /\ info.latest = Max({rows[k].latest : k \in DOMAIN rows})
<1> DEFINE all == Totals(rows, DOMAIN rows)
<1>1. /\ SumOver(rows, LAMBDA w : w.runs) = all.runs
      /\ SumOver(rows, LAMBDA w : w.correct) = all.correct
      /\ SumOver(rows, LAMBDA w : w.wrong) = all.wrong
      /\ SumOver(rows, LAMBDA w : w.elapsed.sum) = all.elapsed
    BY DEF SumOver, Totals
<1>2. LET info == StudentInfo(rows, points, ages)
      IN  /\ info.runs = SumOver(rows, LAMBDA w : w.runs)
          /\ info.accuracy = AccuracyRate(SumOver(rows, LAMBDA w : w.correct),
                                          SumOver(rows, LAMBDA w : w.wrong))
          /\ info.time = DecisionTime(SumOver(rows, LAMBDA w : w.elapsed.sum),
                                      SumOver(rows, LAMBDA w : w.correct),
                                      SumOver(rows, LAMBDA w : w.wrong))
          /\ info.latest = Max({rows[k].latest : k \in DOMAIN rows})
    BY Zenon DEF StudentInfo
<1> DEFINE info == StudentInfo(rows, points, ages)
           latest == Max({rows[k].latest : k \in DOMAIN rows})
<1> HIDE DEF all, info, latest
<1>3. /\ info.runs = all.runs /\ info.accuracy = AccuracyRate(all.correct, all.wrong)
      /\ info.time = DecisionTime(all.elapsed, all.correct, all.wrong)
      /\ info.latest = latest
    BY <1>1, <1>2, Zenon DEF info, latest
<1>4. /\ info.runs = all.runs /\ info.latest = latest
      /\ info.accuracy = Ratio(100 * all.correct, all.correct + all.wrong)
      /\ info.time = Ratio(all.elapsed, 1000 * (all.correct + all.wrong))
    BY <1>3, Zenon DEF AccuracyRate, DecisionTime
<1>5. QED
    BY <1>4, Zenon DEF all, info, latest

(* A pupil's rows add up to its history while no week was moved in.        *)
LEMMA RowsAreHistory ==
    ASSUME SummariesInv, disturbed = {}, NEW p
    PROVE  LET rows == RowsUnder(studentWeek, p)
               history == RunsOf({p})
           IN  /\ Totals(rows, DOMAIN rows) = InTotal(history)
               /\ DOMAIN rows # {} =>
                     Max({rows[k].latest : k \in DOMAIN rows}) = Max(Values(history, "at"))
<1> DEFINE rows == RowsUnder(studentWeek, p)
           A == AllRuns
           H == RunsOf({p})
           K == DOMAIN rows
           inWeek == [r \in A |-> <<r.student, r.week>>]
<1>1. Countable(A)
    BY RunsCountable DEF SummariesInv
<1>2. /\ DOMAIN studentWeek = {inWeek[r] : r \in A}
      /\ \A k \in DOMAIN studentWeek : Matches(studentWeek[k], WeekRow(WeekRuns(A, k)))
    <2>1. /\ \A k \in DOMAIN studentWeek : \E r \in A : k = <<r.student, r.week>>
          /\ \A r \in A : <<r.student, r.week>> \in DOMAIN studentWeek
        BY RowsOfRuns, RowsAreThere
    <2>2. \A k \in DOMAIN studentWeek : Matches(studentWeek[k], WeekRow(WeekRuns(A, k)))
        BY TablesAre DEF SummariesInv, Summaries, InStep
    <2>3. DOMAIN studentWeek = {inWeek[r] : r \in A}
        BY <2>1
    <2>4. QED
        BY <2>2, <2>3
<1>3. /\ K = {k \in DOMAIN studentWeek : k[1] = p}
      /\ \A k \in K : rows[k] = studentWeek[k]
    BY DEF RowsUnder
<1>4. H = {r \in A : r.student = p}
    BY DEF RunsOf
<1>5. H = Fibres(A, inWeek, K) /\ \A k \in K : WeekRuns(A, k) = Fibre(A, inWeek, k)
    BY <1>2, <1>3, <1>4 DEF Fibres, Fibre, WeekRuns
<1>6. IsFiniteSet(K)
    <2> DEFINE D == {inWeek[r] : r \in A}
    <2>1. IsFiniteSet(A) /\ inWeek \in [A -> D]
        BY <1>1 DEF Countable
    <2> HIDE DEF inWeek, A
    <2>2. IsFiniteSet({inWeek[r] : r \in A})
        <3> HIDE DEF D
        <3>1. QED
            BY <2>1, ImageIsFinite, Zenon
    <2>3. K \subseteq {inWeek[r] : r \in A}
        BY <1>2, <1>3
    <2>4. QED
        BY <2>2, <2>3, FS_Subset
<1> HIDE DEF rows, A, H, K, inWeek
<1>7. \A k \in K : /\ Matches(rows[k], Counters(WeekRuns(A, k)))
                   /\ rows[k].latest = Max(Values(WeekRuns(A, k), "at"))
    <2>1. ASSUME NEW k \in K
          PROVE  /\ Matches(rows[k], Counters(WeekRuns(A, k)))
                 /\ rows[k].latest = Max(Values(WeekRuns(A, k), "at"))
        <3>1. Matches(rows[k], WeekRow(WeekRuns(A, k)))
            BY <1>2, <1>3
        <3>2. Matches(rows[k], Counters(WeekRuns(A, k))) /\ Matches(rows[k], LatestRun(WeekRuns(A, k)))
            BY <3>1, PartsMatch
        <3>3. rows[k].latest = Max(Values(WeekRuns(A, k), "at"))
            BY <3>2 DEF Matches, LatestRun, Values
        <3>4. QED
            BY <3>2, <3>3
    <2>2. QED
        BY <2>1
<1>8. Totals(rows, K) = InTotal(H)
    BY <1>1, <1>5, <1>6, <1>7, RowsAddUp
<1>9. ASSUME K # {}
      PROVE  Max({rows[k].latest : k \in K}) = Max(Values(H, "at"))
    <2> DEFINE L == {rows[k].latest : k \in K}
               V == Values(H, "at")
    <2>1. \A k \in K : WeekRuns(A, k) \subseteq H /\ WeekRuns(A, k) # {}
        BY <1>2, <1>3, <1>5 DEF WeekRuns, Fibres, inWeek
    <2>2. \A r \in H : \E k \in K : r \in WeekRuns(A, k)
        BY <1>5 DEF Fibres, Fibre
    <2>3. H \subseteq A
        BY <1>4
    <2>4. Countable(H) /\ H # {} /\ \A k \in K : Countable(WeekRuns(A, k))
        BY <1>1, <1>9, <2>1, <2>3, PartCountable
    <2>5. \A R : Countable(R) /\ R # {} =>
              /\ Max(Values(R, "at")) \in Values(R, "at") /\ Values(R, "at") \subseteq Int
              /\ IsFiniteSet(Values(R, "at"))
              /\ \A x \in Values(R, "at") : x <= Max(Values(R, "at"))
        <3>1. ASSUME NEW R, Countable(R), R # {}
              PROVE  /\ IsFiniteSet(Values(R, "at")) /\ Values(R, "at") # {}
                     /\ Values(R, "at") \subseteq Int
            <4> DEFINE g == [r \in R |-> r.at]
            <4>1. IsFiniteSet(R) /\ g \in [R -> Int] /\ Values(R, "at") = {g[r] : r \in R}
                BY <3>1 DEF Countable, Measured, Values
            <4>2. Values(R, "at") # {} /\ Values(R, "at") \subseteq Int
                BY <3>1 DEF Countable, Measured, Values
            <4> HIDE DEF g
            <4>3. IsFiniteSet({g[r] : r \in R})
                BY <4>1, ImageIsFinite, Zenon
            <4>4. QED
                BY <4>1, <4>2, <4>3
        <3>2. QED
            BY <3>1, Extremes
    <2>6. L \subseteq V /\ L # {}
        BY <1>7, <1>9, <2>1, <2>4, <2>5 DEF Values
    <2>7. \A x \in V : \E y \in L : x <= y
        <3>1. ASSUME NEW r \in H
              PROVE  \E y \in L : r["at"] <= y
            <4>1. PICK k \in K : r \in WeekRuns(A, k)
                BY <2>2
            <4>2. r["at"] <= rows[k].latest
                BY <1>7, <2>1, <2>4, <2>5, <4>1 DEF Values
            <4>3. QED
                BY <4>2
        <3>2. QED
            BY <3>1 DEF Values
    <2>8. IsFiniteSet(V) /\ V \subseteq Int /\ Max(V) \in V /\ \A x \in V : x <= Max(V)
        BY <2>4, <2>5
    <2> HIDE DEF L, V
    <2>9. Max(L) \in L /\ \A x \in L : x <= Max(L)
        BY <2>6, <2>8, FS_Subset, Extremes
    <2>10. Max(L) = Max(V)
        <3>1. PICK y \in L : Max(V) <= y
            BY <2>7, <2>8
        <3>2. y <= Max(L) /\ Max(L) <= Max(V)
            BY <2>6, <2>8, <2>9
        <3>3. y \in Int /\ Max(L) \in Int /\ Max(V) \in Int
            BY <2>6, <2>8, <2>9
        <3>4. QED
            BY <3>1, <3>2, <3>3
    <2>11. QED
        BY <2>10 DEF L, V
<1>10. QED
    BY <1>8, <1>9 DEF rows, H, K

(* What a page is made of.                                                 *)
InfoOf(p, weeks) ==
    LET points == BucketPoints(RunsOf({p}), BucketSize)
    IN  StudentInfo(RowsUnder(weeks, p), points, [i \in DOMAIN points |-> Age(points[i])])

LEMMA PageIs ==
    ASSUME NEW c, NEW weeks, NEW rooms
    PROVE  LET page  == PageOf(c, weeks, rooms)
               infos == [p \in {p \in Pupils : home[p] = c /\ DOMAIN RowsUnder(weeks, p) # {}} |->
                            InfoOf(p, weeks)]
           IN  page = [infos |-> infos, panels |-> Panels(infos),
                       room  |-> ClassroomInfo(RowsUnder(rooms, c),
                                               Cardinality({p \in Pupils : home[p] = c}))]
<1>1. \A table, x : Without(table, LAMBDA k : k[1] # x) = RowsUnder(table, x)
    BY DEF Without, RowsUnder
<1>2. QED
    BY <1>1, Zenon DEF PageOf, InfoOf, Each

(* The dashboard's figures, taken from rollups, are those of the runs      *)
(* whenever nobody has moved: of a pupil and of its room, though the rows  *)
(* were upserted by batches or made anew by slices.                        *)
(* (views.py against weekly_aggregation.py)                                *)
THEOREM DashboardFollowsHistoryTheorem == Spec => []DashboardFollowsHistory
<1>1. ASSUME DashboardInv, disturbed = {}, NEW c \in Rooms
      PROVE  LET page == PageOf(c, studentWeek, roomWeek)
             IN  /\ page = PageOf(c, StudentWeeks(AllRuns), RoomWeeks(AllRuns))
                 /\ \A p \in DOMAIN page.infos : FitsHistory(page.infos[p], RunsOf({p}))
    <2> DEFINE A == AllRuns
               fresh == StudentWeeks(A)
               anew == RoomWeeks(A)
               Shown(weeks) == {p \in Pupils : home[p] = c /\ DOMAIN RowsUnder(weeks, p) # {}}
               Infos(weeks) == [p \in Shown(weeks) |-> InfoOf(p, weeks)]
               number == Cardinality({p \in Pupils : home[p] = c})
    <2>1. SummariesInv /\ RoomRows /\ RowsStayHome /\ RoomsOfRuns
        BY <1>1 DEF DashboardInv, RoomsInv, AtHome
    <2>2. DOMAIN studentWeek = DOMAIN fresh
        <3>1. /\ \A k \in DOMAIN studentWeek : k \in DOMAIN fresh
              /\ \A k \in DOMAIN fresh \ DOMAIN studentWeek : k[2] \in disturbed
            BY <2>1 DEF SummariesInv, Summaries, InStep
        <3>2. QED
            BY <1>1, <3>1
    <2>3. \A k \in DOMAIN studentWeek : Matches(studentWeek[k], WeekRow(WeekRuns(A, k)))
                                        /\ fresh[k] = WeekRow(WeekRuns(A, k))
        BY <2>1, <2>2, TablesAre DEF SummariesInv, Summaries, InStep
    <2>4. /\ DOMAIN anew = {<<home[r.student], r.week>> : r \in A}
          /\ \A k \in DOMAIN anew : Matches(anew[k], RoomCounters(Here(A, k)))
        BY RoomRowsAre
    <2>5. \A r \in A : <<r.student, r.week>> \in DOMAIN studentWeek /\ RoomOf(r) = home[r.student]
        BY <1>1, <2>1, RowsAreThere DEF RowsStayHome, RoomOf
    <2>6. DOMAIN roomWeek = DOMAIN anew
        <3>1. \A r \in A : <<RoomOf(r), r.week>> \in DOMAIN roomWeek
            BY <1>1, <2>1 DEF RoomRows
        <3>2. \A k \in DOMAIN roomWeek : k \in DOMAIN anew
            BY <2>1, <2>4 DEF RoomsOfRuns
        <3>3. \A k \in DOMAIN anew : k \in DOMAIN roomWeek
            BY <2>4, <2>5, <3>1
        <3>4. QED
            BY <3>2, <3>3
    <2>7. \A k \in DOMAIN roomWeek : Matches(roomWeek[k], RoomCounters(Here(A, k)))
        <3>1. ASSUME NEW k \in DOMAIN roomWeek
              PROVE  Matches(roomWeek[k], RoomCounters(Here(A, k)))
            <4>1. k = <<k[1], k[2]>> /\ Matches(roomWeek[k], RoomCounters(Under(k[1], k[2])))
                BY <1>1, <2>1 DEF RoomRows
            <4>2. Under(k[1], k[2]) = Here(A, k)
                <5>1. Here(A, k) = {r \in A : home[r.student] = k[1] /\ r.week = k[2]}
                    BY <4>1 DEF Here
                <5>2. Under(k[1], k[2]) = {r \in A : r.week = k[2] /\ RoomOf(r) = k[1]}
                    BY DEF Under, A
                <5>3. QED
                    BY <2>5, <5>1, <5>2
            <4>3. QED
                BY <4>1, <4>2
        <3>2. QED
            BY <3>1
    <2> HIDE DEF A, fresh, anew
    <2>8. \A p : /\ Alike(RowsUnder(studentWeek, p), RowsUnder(fresh, p))
                 /\ \A k \in DOMAIN RowsUnder(studentWeek, p) :
                       RowsUnder(studentWeek, p)[k].latest = RowsUnder(fresh, p)[k].latest
        <3>1. ASSUME NEW k \in DOMAIN studentWeek
              PROVE  \A x \in {"runs", "wins", "correct", "wrong", "elapsed", "latest"} :
                         studentWeek[k][x] = fresh[k][x]
            <4>1. {"runs", "wins", "correct", "wrong", "elapsed", "latest"} \subseteq
                      DOMAIN WeekRow(WeekRuns(A, k))
                <5> DEFINE R == WeekRuns(A, k)
                <5>1. WeekRow(R) = Counters(R) ++ LatestRun(R) ++ FirstRun(R)
                    BY DEF WeekRow
                <5>2. /\ DOMAIN LatestRun(R) = {"latest"}
                      /\ DOMAIN Counters(R) = {"runs", "wins", "correct", "wrong", "score", "elapsed"}
                    BY RowParts
                <5> HIDE DEF R
                <5>3. QED
                    BY <5>1, <5>2 DEF ++, R
            <4>2. QED
                BY <2>3, <4>1 DEF Matches
        <3>2. \A k \in DOMAIN studentWeek :
                  /\ studentWeek[k].runs = fresh[k].runs /\ studentWeek[k].wins = fresh[k].wins
                  /\ studentWeek[k].correct = fresh[k].correct
                  /\ studentWeek[k].wrong = fresh[k].wrong
                  /\ studentWeek[k].elapsed = fresh[k].elapsed
                  /\ studentWeek[k].latest = fresh[k].latest
            BY <3>1
        <3>3. QED
            BY <2>2, <3>2 DEF Alike, RowsUnder
    <2>9. /\ Alike(RowsUnder(roomWeek, c), RowsUnder(anew, c))
          /\ \A k \in DOMAIN RowsUnder(roomWeek, c) :
                RowsUnder(roomWeek, c)[k].score.sum = RowsUnder(anew, c)[k].score.sum
        <3>1. ASSUME NEW k \in DOMAIN roomWeek
              PROVE  \A x \in {"runs", "wins", "correct", "wrong", "elapsed", "score"} :
                         roomWeek[k][x] = anew[k][x]
            <4>1. DOMAIN RoomCounters(Here(A, k)) =
                      {"runs", "wins", "correct", "wrong", "score", "elapsed"}
                BY RoomCountersAre
            <4>2. QED
                BY <2>4, <2>6, <2>7, <4>1 DEF Matches
        <3>2. \A k \in DOMAIN roomWeek :
                  /\ roomWeek[k].runs = anew[k].runs /\ roomWeek[k].wins = anew[k].wins
                  /\ roomWeek[k].correct = anew[k].correct /\ roomWeek[k].wrong = anew[k].wrong
                  /\ roomWeek[k].elapsed = anew[k].elapsed /\ roomWeek[k].score = anew[k].score
            BY <3>1
        <3>3. QED
            BY <2>6, <3>2 DEF Alike, RowsUnder
    <2>10. \A p : InfoOf(p, studentWeek) = InfoOf(p, fresh)
        BY <2>8, SameInfo DEF InfoOf
    <2>11. Infos(studentWeek) = Infos(fresh)
        <3>1. Shown(studentWeek) = Shown(fresh)
            BY <2>8 DEF Alike
        <3> HIDE DEF Shown
        <3>2. QED
            BY <2>10, <3>1
    <2>12. ClassroomInfo(RowsUnder(roomWeek, c), number) = ClassroomInfo(RowsUnder(anew, c), number)
        <3> HIDE DEF number
        <3>1. QED
            BY <2>9, SameRoom
    <2>13. \A weeks, rooms :
              PageOf(c, weeks, rooms) = [infos |-> Infos(weeks), panels |-> Panels(Infos(weeks)),
                                         room  |-> ClassroomInfo(RowsUnder(rooms, c), number)]
        BY PageIs
    <2>14. ASSUME NEW p \in Shown(studentWeek)
           PROVE  FitsHistory(InfoOf(p, studentWeek), RunsOf({p}))
        <3> DEFINE rows == RowsUnder(studentWeek, p)
                   info == InfoOf(p, studentWeek)
                   H == RunsOf({p})
        <3>1. /\ info.runs = Totals(rows, DOMAIN rows).runs
              /\ info.accuracy = Ratio(100 * Totals(rows, DOMAIN rows).correct,
                                       Totals(rows, DOMAIN rows).correct + Totals(rows, DOMAIN rows).wrong)
              /\ info.time = Ratio(Totals(rows, DOMAIN rows).elapsed,
                                   1000 * (Totals(rows, DOMAIN rows).correct
                                           + Totals(rows, DOMAIN rows).wrong))
              /\ info.latest = Max({rows[k].latest : k \in DOMAIN rows})
            <4> DEFINE points == BucketPoints(RunsOf({p}), BucketSize)
                       ages == [i \in DOMAIN points |-> Age(points[i])]
            <4>1. info = StudentInfo(rows, points, ages)
                BY DEF InfoOf
            <4> HIDE DEF points, ages, info, rows
            <4>2. QED
                BY <4>1, InfoSays
        <3>2. /\ Totals(rows, DOMAIN rows) = InTotal(H)
              /\ Max({rows[k].latest : k \in DOMAIN rows}) = Max(Values(H, "at"))
            BY <1>1, <2>1, RowsAreHistory
        <3> HIDE DEF rows, info, H
        <3>3. /\ info.runs = Cardinality(H)
              /\ info.accuracy = Ratio(100 * Column(H, "correct"),
                                       Column(H, "correct") + Column(H, "wrong"))
              /\ info.time = Ratio(Column(H, "elapsed"),
                                   1000 * (Column(H, "correct") + Column(H, "wrong")))
              /\ info.latest = Max({r.at : r \in H})
            BY <3>1, <3>2 DEF InTotal, Values
        <3>4. FitsHistory(info, H)
            BY <3>3, Zenon DEF FitsHistory, SumOf, Column
        <3>5. QED
            BY <3>4 DEF info, H
    <2> HIDE DEF Infos, number
    <2>15. PageOf(c, studentWeek, roomWeek) = PageOf(c, fresh, anew)
        BY <2>11, <2>12, <2>13
    <2>16. PageOf(c, studentWeek, roomWeek).infos = Infos(studentWeek)
        BY <2>13
    <2>17. \A p \in DOMAIN Infos(studentWeek) :
               FitsHistory(Infos(studentWeek)[p], RunsOf({p}))
        BY <2>14 DEF Infos
    <2>18. QED
        BY <2>15, <2>16, <2>17 DEF fresh, anew, A
<1>2. DashboardInv => DashboardFollowsHistory
    BY <1>1 DEF DashboardFollowsHistory
<1>3. QED
    BY <1>2, DashboardHolds, PTL

-------------------------------------------------------------------------------
(* Learning curves: exact fractions, and the slope of a curve.             *)

(* Numbers that divide, and fractions.                                     *)
Positive == Nat \ {0}
Fractions == Int \X Positive

(* f is the quotient n / d.                                                *)
Equals(f, n, d) == f \in Fractions /\ n \in Int /\ d \in Positive /\ f[1] * d = n * f[2]

(* A common factor goes ...                                                *)
LEMMA Cancel ==
    ASSUME NEW x \in Int, NEW y \in Int, NEW z \in Int, z # 0, x * z = y * z
    PROVE  x = y
OBVIOUS

(* ... and their signs.                                                    *)
LEMMA CancelSign ==
    ASSUME NEW x \in Int, NEW z \in Int, z > 0, x * z > 0
    PROVE  x > 0
OBVIOUS

(* A product of denominators is one.                                       *)
LEMMA Products ==
    ASSUME NEW d \in Positive, NEW e \in Positive
    PROVE  d * e \in Positive
BY DEF Positive

(* Division without a remainder ...                                        *)
LEMMA DividesBy ==
    ASSUME NEW n \in Int, NEW d \in Positive, NEW j \in Int, n = j * d
    PROVE  n \div d = j /\ n % d = 0
BY DEF Positive

(* ... and what there is when nothing remains.                             *)
LEMMA Divides ==
    ASSUME NEW n \in Int, NEW d \in Positive, n % d = 0
    PROVE  /\ \E j \in Int : n = j * d
           /\ n \div d \in Int /\ n = (n \div d) * d
<1>1. PICK j \in Int : n = j * d
    BY DEF Positive
<1>2. n \div d = j
    BY <1>1, DividesBy
<1>3. QED
    BY <1>1, <1>2

(* n / d and m / e are equal.                                              *)
SameRatio(n, d, m, e) == n * e = m * d

(* k / d of n is whole, and what it is.                                    *)
Clears(k, n, d)  == (n * k) % d = 0
Cleared(k, n, d) == (n * k) \div d

(* The denominator is the least that will do.                              *)
Least(e, n, d) ==
    /\ e \in 1 .. d /\ Clears(e, n, d)
    /\ \A f \in 1 .. e - 1 : ~Clears(f, n, d)

(* There is one, and Lowest takes it.                                      *)
LEMMA LeastThere ==
    ASSUME NEW n \in Int, NEW d \in Positive
    PROVE  \E e : Least(e, n, d) /\ Lowest(n, d) = <<(n * e) \div d, e>>
<1> DEFINE E == {e \in 1 .. d : (n * e) % d = 0}
<1>1. d \in 1 .. d /\ n * d \in Int
    BY DEF Positive
<1>2. (n * d) % d = 0
    BY <1>1, DividesBy
<1>3. E \in SUBSET Int /\ E # {} /\ IsFiniteSet(E)
    <2>1. IsFiniteSet(1 .. d) /\ E \subseteq 1 .. d
        BY FS_Interval DEF Positive
    <2>2. QED
        BY <1>1, <1>2, <2>1, FS_Subset
<1>4. Min(E) \in E /\ \A x \in E : Min(E) <= x
    <2> HIDE DEF E
    <2>1. QED
        BY <1>3, Extremes
<1>5. \E e \in 1 .. d : (n * e) % d = 0 /\ \A f \in 1 .. e - 1 : (n * f) % d # 0
    <2>1. Min(E) \in 1 .. d /\ (n * Min(E)) % d = 0
        BY <1>4
    <2>2. ASSUME NEW f \in 1 .. Min(E) - 1
          PROVE  (n * f) % d # 0
        <3>1. f \in 1 .. d /\ ~(Min(E) <= f)
            BY <2>1 DEF Positive
        <3>2. QED
            BY <1>4, <3>1
    <2>3. QED
        BY <2>1, <2>2
<1> DEFINE e == CHOOSE e \in 1 .. d : (n * e) % d = 0 /\ \A f \in 1 .. e - 1 : (n * f) % d # 0
<1>6. e \in 1 .. d /\ (n * e) % d = 0 /\ \A f \in 1 .. e - 1 : (n * f) % d # 0
    BY <1>5
<1>7. Lowest(n, d) = <<(n * e) \div d, e>>
    BY DEF Lowest
<1> HIDE DEF e
<1>8. QED
    BY <1>6, <1>7 DEF Least, Clears

(* A fraction in lowest terms is the fraction.                             *)
LEMMA LowestIs ==
    ASSUME NEW n \in Int, NEW d \in Positive
    PROVE  Equals(Lowest(n, d), n, d)
<1>1. PICK e : Least(e, n, d) /\ Lowest(n, d) = <<(n * e) \div d, e>>
    BY LeastThere
<1>2. e \in Positive /\ n * e \in Int /\ (n * e) % d = 0
    BY <1>1 DEF Least, Clears, Positive
<1>3. (n * e) \div d \in Int /\ n * e = ((n * e) \div d) * d
    BY <1>2, Divides
<1>4. QED
    BY <1>1, <1>2, <1>3 DEF Equals, Fractions

(* Equal fractions are the same in lowest terms.                           *)
LEMMA SameMultiples ==
    ASSUME NEW n \in Int, NEW d \in Positive, NEW m \in Int, NEW e \in Positive,
           SameRatio(n, d, m, e), NEW k \in Int, Clears(k, n, d)
    PROVE  Clears(k, m, e) /\ Cleared(k, n, d) = Cleared(k, m, e)
<1>1. PICK j \in Int : n * k = j * d
    <2>1. n * k \in Int
        OBVIOUS
    <2>2. QED
        BY <2>1, Divides DEF Clears
<1>2. d \in Int /\ d # 0 /\ e \in Int /\ m * k \in Int /\ j * e \in Int
    BY DEF Positive
<1>3. (m * k) * d = (j * e) * d
    <2>1. (m * k) * d = (m * d) * k
        BY <1>2
    <2>2. (m * d) * k = (n * e) * k
        BY DEF SameRatio
    <2>3. (n * e) * k = (n * k) * e
        BY <1>2
    <2>4. (n * k) * e = (j * d) * e
        BY <1>1
    <2>5. (j * d) * e = (j * e) * d
        BY <1>2
    <2>6. QED
        BY <2>1, <2>2, <2>3, <2>4, <2>5
<1>4. m * k = j * e
    BY <1>2, <1>3, Cancel
<1>5. (m * k) % e = 0 /\ (m * k) \div e = j
    BY <1>2, <1>4, DividesBy
<1>6. (n * k) \div d = j
    BY <1>1, DividesBy
<1>7. QED
    BY <1>5, <1>6 DEF Clears, Cleared

(* ... so that arithmetic on equal fractions gives equal results.          *)
LEMMA LowestSame ==
    ASSUME NEW n \in Int, NEW d \in Positive, NEW m \in Int, NEW e \in Positive,
           SameRatio(n, d, m, e)
    PROVE  Lowest(n, d) = Lowest(m, e)
<1>1. PICK g : Least(g, n, d) /\ Lowest(n, d) = <<(n * g) \div d, g>>
    BY LeastThere
<1>2. PICK h : Least(h, m, e) /\ Lowest(m, e) = <<(m * h) \div e, h>>
    BY LeastThere
<1>3. g \in Positive /\ h \in Positive /\ g \in Int /\ h \in Int
    BY <1>1, <1>2 DEF Least, Positive
<1>4. Clears(g, m, e) /\ Cleared(g, n, d) = Cleared(g, m, e)
    <2>1. Clears(g, n, d)
        BY <1>1 DEF Least
    <2>2. QED
        BY <1>3, <2>1, SameMultiples
<1>5. Clears(h, n, d)
    <2>1. SameRatio(m, e, n, d)
        BY DEF SameRatio
    <2>2. QED
        BY <1>2, <1>3, <2>1, SameMultiples DEF Least
<1>6. ~(g < h) /\ ~(h < g)
    <2>1. g < h => g \in 1 .. h - 1
        BY <1>3 DEF Positive
    <2>2. h < g => h \in 1 .. g - 1
        BY <1>3 DEF Positive
    <2>3. QED
        BY <1>1, <1>2, <1>4, <1>5, <2>1, <2>2 DEF Least
<1>7. g = h
    BY <1>3, <1>6
<1>8. QED
    BY <1>1, <1>2, <1>4, <1>7 DEF Cleared

(* The same fraction by another quotient.                                  *)
LEMMA IsScaled ==
    ASSUME NEW f, NEW n, NEW d, Equals(f, n, d), NEW m \in Int, NEW e \in Positive, n * e = m * d
    PROVE  Equals(f, m, e)
<1>1. /\ f \in Fractions /\ f[1] \in Int /\ f[2] \in Int /\ n \in Int /\ d \in Int /\ d # 0
      /\ e \in Int /\ f[1] * d = n * f[2]
    BY DEF Equals, Fractions, Positive
<1> DEFINE x == f[1]
           y == f[2]
<1>2. x \in Int /\ y \in Int /\ x * d = n * y
    BY <1>1
<1> HIDE DEF x, y
<1>3. (x * e) * d = (m * y) * d
    <2>1. (x * e) * d = (x * d) * e
        BY <1>1, <1>2
    <2>2. (x * d) * e = (n * y) * e
        BY <1>2
    <2>3. (n * y) * e = (n * e) * y
        BY <1>1, <1>2
    <2>4. (n * e) * y = (m * d) * y
        OBVIOUS
    <2>5. (m * d) * y = (m * y) * d
        BY <1>1, <1>2
    <2>6. QED
        BY <2>1, <2>2, <2>3, <2>4, <2>5
<1>4. x * e \in Int /\ m * y \in Int
    BY <1>1, <1>2
<1>5. x * e = m * y
    BY <1>1, <1>3, <1>4, Cancel
<1>6. QED
    BY <1>1, <1>5 DEF Equals, x, y

(* What the arithmetic computes: a sum.                                    *)
LEMMA PlusIs ==
    ASSUME NEW a, NEW b, NEW n, NEW m, NEW d, Equals(a, n, d), Equals(b, m, d)
    PROVE  Equals(Plus(a, b), n + m, d)
<1> DEFINE p == a[1]
           q == a[2]
           r == b[1]
           s == b[2]
<1>1. /\ p \in Int /\ q \in Positive /\ r \in Int /\ s \in Positive
      /\ n \in Int /\ m \in Int /\ d \in Positive /\ p * d = n * q /\ r * d = m * s
    BY DEF Equals, Fractions
<1>2. Plus(a, b) = Lowest(p * s + r * q, q * s)
    BY DEF Plus
<1> HIDE DEF p, q, r, s
<1>3. q * s \in Positive /\ q \in Int /\ s \in Int /\ d \in Int
    BY <1>1, Products DEF Positive
<1>4. p * s + r * q \in Int /\ n + m \in Int
    BY <1>1, <1>3
<1>5. Equals(Plus(a, b), p * s + r * q, q * s)
    BY <1>2, <1>3, <1>4, LowestIs
<1>6. (p * s + r * q) * d = (n + m) * (q * s)
    <2>1. (p * s + r * q) * d = (p * d) * s + (r * d) * q
        BY <1>1, <1>3
    <2>2. (p * d) * s + (r * d) * q = (n * q) * s + (m * s) * q
        BY <1>1
    <2>3. (n * q) * s + (m * s) * q = (n + m) * (q * s)
        BY <1>1, <1>3
    <2>4. QED
        BY <2>1, <2>2, <2>3
<1>7. QED
    BY <1>1, <1>4, <1>5, <1>6, IsScaled

(* A product.                                                              *)
LEMMA TimesIs ==
    ASSUME NEW a, NEW b, NEW n, NEW m, NEW d, NEW e, Equals(a, n, d), Equals(b, m, e)
    PROVE  Equals(Times(a, b), n * m, d * e)
<1> DEFINE p == a[1]
           q == a[2]
           r == b[1]
           s == b[2]
<1>1. /\ p \in Int /\ q \in Positive /\ r \in Int /\ s \in Positive
      /\ n \in Int /\ m \in Int /\ d \in Positive /\ e \in Positive
      /\ p * d = n * q /\ r * e = m * s
    BY DEF Equals, Fractions
<1>2. Times(a, b) = Lowest(p * r, q * s)
    BY DEF Times
<1> HIDE DEF p, q, r, s
<1>3. q * s \in Positive /\ d * e \in Positive /\ q \in Int /\ s \in Int /\ d \in Int /\ e \in Int
    BY <1>1, Products DEF Positive
<1>4. p * r \in Int /\ n * m \in Int
    BY <1>1
<1>5. Equals(Times(a, b), p * r, q * s)
    BY <1>2, <1>3, <1>4, LowestIs
<1>6. (p * r) * (d * e) = (n * m) * (q * s)
    <2>1. (p * r) * (d * e) = (p * d) * (r * e)
        BY <1>1, <1>3
    <2>2. (p * d) * (r * e) = (n * q) * (m * s)
        BY <1>1
    <2>3. (n * q) * (m * s) = (n * m) * (q * s)
        BY <1>1, <1>3
    <2>4. QED
        BY <2>1, <2>2, <2>3
<1>7. QED
    BY <1>3, <1>4, <1>5, <1>6, IsScaled

(* A difference.                                                           *)
LEMMA MinusIs ==
    ASSUME NEW a, NEW b, NEW n, NEW m, NEW d, Equals(a, n, d), Equals(b, m, d)
    PROVE  Equals(Minus(a, b), n - m, d)
<1>1. Equals(<<-b[1], b[2]>>, -m, d)
    <2> DEFINE r == b[1]
               s == b[2]
    <2>1. r \in Int /\ s \in Positive /\ m \in Int /\ d \in Positive /\ r * d = m * s
        BY DEF Equals, Fractions
    <2>2. Equals(<<-r, s>>, -m, d)
        <3> HIDE DEF r, s
        <3>1. s \in Int /\ d \in Int
            BY <2>1 DEF Positive
        <3>2. (-r) * d = (-m) * s
            BY <2>1, <3>1
        <3>3. QED
            BY <2>1, <3>2 DEF Equals, Fractions
    <2>3. QED
        BY <2>2
<1>2. Equals(Minus(a, b), n + (-m), d)
    BY <1>1, PlusIs, Zenon DEF Minus
<1>3. n + (-m) = n - m
    <2>1. n \in Int /\ m \in Int
        BY DEF Equals
    <2>2. QED
        BY <2>1
<1>4. QED
    BY <1>2, <1>3

(* A quotient by a positive fraction.                                      *)
LEMMA OverIs ==
    ASSUME NEW a, NEW b, NEW n, NEW m, NEW d, NEW e, Equals(a, n, d), Equals(b, m, e), m > 0
    PROVE  d * m \in Positive /\ Over(a, b) = Lowest(n * e, d * m)
<1> DEFINE p == a[1]
           q == a[2]
           r == b[1]
           s == b[2]
<1>1. /\ p \in Int /\ q \in Positive /\ r \in Int /\ s \in Positive
      /\ n \in Int /\ m \in Int /\ d \in Positive /\ e \in Positive
      /\ p * d = n * q /\ r * e = m * s
    BY DEF Equals, Fractions
<1>2. Over(a, b) = IF r > 0 THEN Lowest(p * s, q * r) ELSE Lowest(-p * s, -q * r)
    BY DEF Over
<1> HIDE DEF p, q, r, s
<1>3. m \in Positive /\ q \in Int /\ s \in Int /\ d \in Int /\ e \in Int
    BY <1>1 DEF Positive
<1>4. r > 0
    <2>1. m * s > 0
        BY <1>1, <1>3, Products DEF Positive
    <2>2. e > 0 /\ r * e > 0
        BY <1>1, <2>1 DEF Positive
    <2>3. QED
        BY <1>1, <1>3, <2>2, CancelSign
<1>5. q * r \in Positive /\ d * m \in Positive /\ p * s \in Int /\ n * e \in Int
    <2>1. r \in Positive
        BY <1>1, <1>4 DEF Positive
    <2>2. QED
        BY <1>1, <1>3, <2>1, Products
<1>6. (p * s) * (d * m) = (n * e) * (q * r)
    <2>1. (p * s) * (d * m) = (p * d) * (m * s)
        BY <1>1, <1>3
    <2>2. (p * d) * (m * s) = (n * q) * (r * e)
        BY <1>1
    <2>3. (n * q) * (r * e) = (n * e) * (q * r)
        BY <1>1, <1>3
    <2>4. QED
        BY <2>1, <2>2, <2>3
<1>7. Lowest(p * s, q * r) = Lowest(n * e, d * m)
    <2>1. SameRatio(p * s, q * r, n * e, d * m)
        BY <1>6 DEF SameRatio
    <2>2. QED
        BY <1>5, <2>1, LowestSame
<1>8. QED
    BY <1>2, <1>4, <1>5, <1>7

(* Total adds the fractions of a sequence one by one.                      *)
LEMMA TotalRecursion ==
    ASSUME NEW seq \in Seq(Fractions)
    PROVE  \E t \in [0 .. Len(seq) -> Fractions] :
              /\ t[0] = Whole(0) /\ Total(seq) = t[Len(seq)]
              /\ \A i \in 1 .. Len(seq) : t[i] = Plus(t[i - 1], seq[i])
<1> DEFINE n == Len(seq)
           F == [i \in 1 .. n |-> [x \in Fractions |-> Plus(x, seq[i])]]
           Defined(g) == g = [i \in 0 .. n |-> IF i = 0 THEN Whole(0)
                                               ELSE Plus(g[i - 1], seq[i])]
<1>1. n \in Nat /\ \A i \in 1 .. n : seq[i] \in Fractions
    OBVIOUS
<1>2. Whole(0) \in Fractions
    BY DEF Whole, Fractions, Positive
<1>3. \A x, y \in Fractions : Plus(x, y) \in Fractions
    <2> SUFFICES ASSUME NEW x \in Fractions, NEW y \in Fractions
                 PROVE  Plus(x, y) \in Fractions
        OBVIOUS
    <2>1. /\ x[1] \in Int /\ y[1] \in Int /\ x[2] \in Positive /\ y[2] \in Positive
          /\ x[2] \in Int /\ y[2] \in Int
        BY DEF Fractions, Positive
    <2>2. x[1] * y[2] + y[1] * x[2] \in Int /\ x[2] * y[2] \in Positive
        BY <2>1, Products
    <2>3. QED
        BY <2>2, LowestIs DEF Plus, Equals
<1>4. F \in StepsOn(n, Fractions)
    BY <1>1, <1>3 DEF StepsOn
<1>5. \A i \in 1 .. n : \A x \in Fractions : F[i][x] = Plus(x, seq[i])
    OBVIOUS
<1>6. \E g : Defined(g)
    <2> HIDE DEF F
    <2>0. PICK g : Iterate(g, n, Fractions, Whole(0), F)
        <3> HIDE DEF n
        <3>1. QED
            BY <1>1, <1>2, <1>4, Iterates
    <2>1. /\ g \in [0 .. n -> Fractions] /\ g[0] = Whole(0)
          /\ \A i \in 1 .. n : g[i] = F[i][g[i - 1]]
        BY <2>0 DEF Iterate
    <2>2. ASSUME NEW i \in 0 .. n
          PROVE  g[i] = IF i = 0 THEN Whole(0) ELSE Plus(g[i - 1], seq[i])
        <3>1. i # 0 => g[i - 1] \in Fractions /\ i \in 1 .. n
            BY <1>1, <2>1
        <3>2. QED
            BY <1>5, <2>1, <3>1
    <2>3. Defined(g)
        <3> HIDE DEF n
        <3>1. g = [i \in 0 .. n |-> g[i]]
            BY <2>1
        <3>2. QED
            BY <2>2, <3>1
    <2> HIDE DEF Defined
    <2>4. QED
        BY <2>3
<1> DEFINE t == CHOOSE g : Defined(g)
<1>7. Defined(t)
    <2> HIDE DEF Defined
    <2>1. QED
        BY <1>6
<1>8. Total(seq) = t[n]
    BY DEF Total
<1> HIDE DEF t
<1>9. \A i \in 0 .. n : t[i] = IF i = 0 THEN Whole(0) ELSE Plus(t[i - 1], seq[i])
    <2> HIDE DEF n
    <2>1. QED
        BY <1>7
<1>10. t[0] = Whole(0) /\ \A i \in 1 .. n : t[i] = Plus(t[i - 1], seq[i])
    <2>1. 0 \in 0 .. n /\ \A i \in 1 .. n : i \in 0 .. n /\ i # 0
        BY <1>1
    <2> HIDE DEF n
    <2>2. QED
        BY <1>9, <2>1
<1>11. \A i \in 0 .. n : t[i] \in Fractions
    <2> DEFINE T == {i \in 0 .. n : t[i] \in Fractions}
    <2>1. 0 \in T
        BY <1>1, <1>2, <1>10
    <2>2. ASSUME NEW i \in 0 .. n, i < n, i \in T
          PROVE  i + 1 \in T
        <3>1. i + 1 \in 1 .. n /\ t[i] \in Fractions /\ seq[i + 1] \in Fractions
            BY <1>1, <2>2
        <3>2. t[i + 1] = Plus(t[i], seq[i + 1])
            BY <1>1, <1>10, <3>1
        <3>3. QED
            BY <1>1, <1>3, <3>1, <3>2
    <2> HIDE DEF T, n
    <2>3. \A i \in 0 .. n : i \in T
        BY <1>1, <2>1, <2>2, IntervalInduction
    <2>4. QED
        BY <2>3 DEF T
<1>12. t \in [0 .. n -> Fractions]
    <2> HIDE DEF n
    <2>1. t = [i \in 0 .. n |-> t[i]]
        BY <1>7
    <2>2. QED
        BY <1>11, <2>1
<1>13. QED
    BY <1>8, <1>10, <1>12

(* A sum of fractions over one denominator.                                *)
LEMMA TotalIs ==
    ASSUME NEW seq \in Seq(Fractions), NEW n, n = Len(seq), NEW d \in Positive,
           NEW a, NEW g, SumsTo(g, a, n), \A i \in 1 .. n : Equals(seq[i], a[i], d)
    PROVE  Equals(Total(seq), g[n], d)
<1>1. PICK t \in [0 .. n -> Fractions] : /\ t[0] = Whole(0) /\ Total(seq) = t[n]
                                         /\ \A i \in 1 .. n : t[i] = Plus(t[i - 1], seq[i])
    BY TotalRecursion
<1>2. n \in Nat
    OBVIOUS
<1> DEFINE T == {i \in 0 .. n : Equals(t[i], g[i], d)}
<1>3. 0 \in T
    <2>1. Equals(Whole(0), 0, d)
        BY DEF Equals, Whole, Fractions, Positive
    <2>2. QED
        BY <1>1, <1>2, <2>1 DEF SumsTo
<1>4. ASSUME NEW i \in 0 .. n, i < n, i \in T
      PROVE  i + 1 \in T
    <2>1. i + 1 \in 1 .. n /\ (i + 1) - 1 = i /\ i + 1 \in 0 .. n
        BY <1>2, <1>4
    <2>2. t[i + 1] = Plus(t[i], seq[i + 1]) /\ g[i + 1] = g[i] + a[i + 1]
        BY <1>1, <2>1 DEF SumsTo
    <2>3. Equals(Plus(t[i], seq[i + 1]), g[i] + a[i + 1], d)
        BY <1>4, <2>1, PlusIs
    <2>4. QED
        BY <2>1, <2>2, <2>3
<1>5. n \in T
    <2> HIDE DEF T
    <2>1. \A i \in 0 .. n : i \in T
        BY <1>2, <1>3, <1>4, IntervalInduction
    <2>2. QED
        BY <1>2, <2>1
<1>6. QED
    BY <1>1, <1>5

(* Finitely many fractions have a common denominator.                      *)
LEMMA CommonDenominator ==
    ASSUME NEW seq \in Seq(Fractions)
    PROVE  \E d \in Positive : \E a \in [1 .. Len(seq) -> Int] :
              \A i \in 1 .. Len(seq) : Equals(seq[i], a[i], d)
<1> DEFINE OverOne(s, a, d) == a \in [1 .. Len(s) -> Int]
                               /\ \A i \in 1 .. Len(s) : Equals(s[i], a[i], d)
           T == {s \in Seq(Fractions) : \E d \in Positive : \E a : OverOne(s, a, d)}
<1>1. <<>> \in T
    <2>1. OverOne(<<>>, [i \in 1 .. 0 |-> 0], 1) /\ 1 \in Positive /\ <<>> \in Seq(Fractions)
        BY DEF Positive
    <2> HIDE DEF OverOne
    <2>2. QED
        BY <2>1
<1>2. ASSUME NEW s \in Seq(Fractions), NEW x \in Fractions, s \in T
      PROVE  Append(s, x) \in T
    <2>0. PICK d \in Positive : \E a : OverOne(s, a, d)
        BY <1>2
    <2>1. PICK a : OverOne(s, a, d)
        BY <2>0
    <2> DEFINE n == Len(s)
               e == x[2]
               y == x[1]
               b == [i \in 1 .. n + 1 |-> IF i <= n THEN a[i] * e ELSE y * d]
               more == Append(s, x)
    <2>2. e \in Positive /\ y \in Int /\ Equals(x, y, e) /\ n \in Nat /\ e \in Int /\ d \in Int
        BY DEF Fractions, Equals, Positive
    <2>3. more \in Seq(Fractions) /\ Len(more) = n + 1 /\ more[n + 1] = x
        OBVIOUS
    <2>4. \A i \in 1 .. n : more[i] = s[i]
        OBVIOUS
    <2> HIDE DEF e, y, n, more
    <2>5. \A i \in 1 .. n : a[i] \in Int /\ Equals(s[i], a[i], d)
        BY <2>1 DEF n
    <2>6. b \in [1 .. n + 1 -> Int]
        <3>1. y * d \in Int /\ \A i \in 1 .. n : a[i] * e \in Int
            BY <2>2, <2>5
        <3>2. \A i \in 1 .. n + 1 : i <= n => i \in 1 .. n
            BY <2>2
        <3>3. QED
            BY <3>1, <3>2
    <2>7. d * e \in Positive
        BY <2>2, Products
    <2>8. ASSUME NEW i \in 1 .. n + 1
          PROVE  Equals(more[i], b[i], d * e)
        <3>1. CASE i \in 1 .. n
            <4> DEFINE m == a[i]
            <4>1. m \in Int /\ Equals(more[i], m, d) /\ b[i] = m * e
                BY <2>2, <2>4, <2>5, <3>1
            <4> HIDE DEF m, b
            <4>2. m * (d * e) = (m * e) * d /\ m * e \in Int
                BY <2>2, <4>1
            <4>3. QED
                BY <2>7, <4>1, <4>2, IsScaled
        <3>2. CASE i = n + 1
            <4>1. more[i] = x /\ b[i] = y * d
                BY <2>2, <2>3, <3>2
            <4> HIDE DEF b
            <4>2. y * (d * e) = (y * d) * e /\ y * d \in Int
                BY <2>2
            <4>3. Equals(x, y * d, d * e)
                BY <2>2, <2>7, <4>2, IsScaled
            <4>4. QED
                BY <4>1, <4>3
        <3>3. QED
            BY <2>2, <3>1, <3>2
    <2>9. OverOne(more, b, d * e)
        <3> HIDE DEF b
        <3>1. QED
            BY <2>3, <2>6, <2>8
    <2>10. more \in T
        <3> HIDE DEF OverOne, b
        <3>1. QED
            BY <2>3, <2>7, <2>9
    <2>11. QED
        BY <2>10 DEF more
<1>3. seq \in T
    <2> HIDE DEF T
    <2>1. QED
        BY <1>1, <1>2, SequenceInduction
<1>4. QED
    BY <1>3

(* What is summed up along the n positions of a curve.                     *)
Places(u, n)       == \A i \in 1 .. n : u[i] = i - 1
PlaceSquares(v, n)  == \A i \in 1 .. n : v[i] = (i - 1) * (i - 1)
Weighted(q, Y, n)  == \A i \in 1 .. n : q[i] = (i - 1) * Y[i]
SquareTerms(b, n)  ==
    \A i \in 1 .. n : b[i] = (2 * (i - 1) - (n - 1)) * (2 * (i - 1) - (n - 1))
Deviations(a, Y, S, n) ==
    \A i \in 1 .. n : a[i] = (2 * (i - 1) - (n - 1)) * (Y[i] * n - S)

(* 0 + 1 + ... + n - 1, twice.                                             *)
LEMMA Triangle ==
    ASSUME NEW n \in Nat, NEW u, NEW U, SumsTo(U, u, n), Places(u, n)
    PROVE  2 * U[n] = n * (n - 1)
<1> DEFINE T == {k \in 0 .. n : 2 * U[k] = k * (k - 1)}
<1>1. 0 \in T
    BY SumsStart
<1>2. ASSUME NEW k \in 0 .. n, k < n, k \in T
      PROVE  k + 1 \in T
    <2>1. /\ U[k] \in Int /\ U[k + 1] = U[k] + u[k + 1]
          /\ k + 1 \in 1 .. n /\ k + 1 \in 0 .. n /\ (k + 1) - 1 = k /\ k \in Int
        BY <1>2, SumsStep
    <2>2. U[k + 1] = U[k] + k
        BY <2>1 DEF Places
    <2>3. 2 * U[k] = k * (k - 1)
        BY <1>2
    <2>4. (k + 1) * k = k * (k - 1) + 2 * k
        BY <2>1
    <2>5. 2 * U[k + 1] = (k + 1) * k
        BY <2>1, <2>2, <2>3, <2>4
    <2>6. QED
        BY <2>1, <2>5
<1>3. n \in T
    <2> HIDE DEF T
    <2>1. \A k \in 0 .. n : k \in T
        BY <1>1, <1>2, IntervalInduction
    <2>2. QED
        BY <2>1
<1>4. QED
    BY <1>3

(* The sum of the products of deviations, without the mean.                *)
LEMMA TopSums ==
    ASSUME NEW n \in Nat, NEW S \in Int, NEW Y, \A i \in 1 .. n : Y[i] \in Int,
           NEW P, SumsTo(P, Y, n),
           NEW q, NEW Q, SumsTo(Q, q, n), Weighted(q, Y, n),
           NEW u, NEW U, SumsTo(U, u, n), Places(u, n),
           NEW a, NEW A, SumsTo(A, a, n),
           Deviations(a, Y, S, n)
    PROVE  A[n] = n * (2 * Q[n] - (n - 1) * P[n]) - S * (2 * U[n] - (n - 1) * n)
<1> DEFINE T == {k \in 0 .. n : A[k] = n * (2 * Q[k] - (n - 1) * P[k])
                                        - S * (2 * U[k] - (n - 1) * k)}
<1>1. 0 \in T
    <2>1. A[0] = 0 /\ Q[0] = 0 /\ P[0] = 0 /\ U[0] = 0 /\ 0 \in 0 .. n
        BY SumsStart
    <2>2. 0 = n * (2 * 0 - (n - 1) * 0) - S * (2 * 0 - (n - 1) * 0)
        OBVIOUS
    <2>3. QED
        BY <2>1, <2>2
<1>2. ASSUME NEW k \in 0 .. n, k < n, k \in T
      PROVE  k + 1 \in T
    <2> DEFINE y == Y[k + 1]
               x == 2 * k - (n - 1)
    <2>1. /\ k + 1 \in 1 .. n /\ k + 1 \in 0 .. n /\ (k + 1) - 1 = k /\ k \in Int /\ y \in Int
          /\ x \in Int /\ n \in Int
        <3>1. /\ k + 1 \in 1 .. n /\ k + 1 \in 0 .. n /\ (k + 1) - 1 = k /\ k \in Int
              /\ x \in Int /\ n \in Int
            BY ONLY n \in Nat, k \in 0 .. n, k < n, Successor
        <3>2. y \in Int
            BY <3>1
        <3>3. QED
            BY <3>1, <3>2
    <2>2. P[k] \in Int /\ P[k + 1] = P[k] + y
        <3> HIDE DEF x, T
        <3>1. k < n
            BY <1>2
        <3>2. P[k] \in Int /\ P[k + 1] = P[k] + Y[k + 1]
            BY <3>1, SumsStep
        <3>3. QED
            BY <3>2
    <2>3. Q[k] \in Int /\ Q[k + 1] = Q[k] + k * y
        <3>1. Q[k] \in Int /\ Q[k + 1] = Q[k] + q[k + 1]
            BY <1>2, SumsStep
        <3>2. QED
            BY <2>1, <3>1 DEF Weighted
    <2>4. U[k] \in Int /\ U[k + 1] = U[k] + k
        <3>1. U[k] \in Int /\ U[k + 1] = U[k] + u[k + 1]
            BY <1>2, SumsStep
        <3>2. QED
            BY <2>1, <3>1 DEF Places
    <2>5. A[k] \in Int /\ A[k + 1] = A[k] + x * (y * n - S)
        <3>1. A[k] \in Int /\ A[k + 1] = A[k] + a[k + 1]
            BY <1>2, SumsStep
        <3>2. QED
            BY <2>1, <3>1 DEF Deviations
    <2>6. A[k] = n * (2 * Q[k] - (n - 1) * P[k]) - S * (2 * U[k] - (n - 1) * k)
        BY <1>2
    <2> DEFINE p0 == P[k]
               q0 == Q[k]
               u0 == U[k]
    <2>7. p0 \in Int /\ q0 \in Int /\ u0 \in Int
        BY <2>2, <2>3, <2>4
    <2>8. A[k + 1] = n * (2 * q0 - (n - 1) * p0) - S * (2 * u0 - (n - 1) * k) + x * (y * n - S)
        BY <2>5, <2>6
    <2>9. P[k + 1] = p0 + y /\ Q[k + 1] = q0 + k * y /\ U[k + 1] = u0 + k
        BY <2>2, <2>3, <2>4
    <2>10. x = 2 * k - (n - 1)
        OBVIOUS
    <2> HIDE DEF p0, q0, u0, y, x
    <2>11. n * (2 * (q0 + k * y) - (n - 1) * (p0 + y)) - S * (2 * (u0 + k) - (n - 1) * (k + 1))
           = n * (2 * q0 - (n - 1) * p0) - S * (2 * u0 - (n - 1) * k) + x * (y * n - S)
        <3> DEFINE m == n - 1
        <3>1. m \in Int /\ x = 2 * k - m
            BY <2>1, <2>10
        <3>2. n * (2 * (q0 + k * y) - m * (p0 + y)) - S * (2 * (u0 + k) - m * (k + 1))
              = n * (2 * q0 - m * p0) - S * (2 * u0 - m * k) + (2 * k - m) * (y * n - S)
            <4> HIDE DEF m
            <4>1. QED
                BY ONLY <2>1, <2>7, <3>1, S \in Int
        <3>3. QED
            BY <3>1, <3>2
    <2>12. QED
        BY <2>1, <2>8, <2>9, <2>11
<1>3. n \in T
    <2> HIDE DEF T
    <2>1. \A k \in 0 .. n : k \in T
        BY <1>1, <1>2, IntervalInduction
    <2>2. QED
        BY <2>1
<1>4. QED
    BY <1>3

(* The sum of the squared deviations of x ...                              *)
LEMMA BaseSums ==
    ASSUME NEW n \in Nat,
           NEW v, NEW V, SumsTo(V, v, n), PlaceSquares(v, n),
           NEW u, NEW U, SumsTo(U, u, n), Places(u, n),
           NEW b, NEW B, SumsTo(B, b, n),
           SquareTerms(b, n)
    PROVE  B[n] = 4 * V[n] - 4 * ((n - 1) * U[n]) + n * ((n - 1) * (n - 1))
<1> DEFINE T == {k \in 0 .. n : B[k] = 4 * V[k] - 4 * ((n - 1) * U[k]) + k * ((n - 1) * (n - 1))}
<1>1. 0 \in T
    <2>1. B[0] = 0 /\ V[0] = 0 /\ U[0] = 0 /\ 0 \in 0 .. n
        BY SumsStart
    <2>2. 0 = 4 * 0 - 4 * ((n - 1) * 0) + 0 * ((n - 1) * (n - 1))
        OBVIOUS
    <2>3. QED
        BY <2>1, <2>2
<1>2. ASSUME NEW k \in 0 .. n, k < n, k \in T
      PROVE  k + 1 \in T
    <2> DEFINE m == n - 1
               v0 == V[k]
               u0 == U[k]
    <2>1. k + 1 \in 1 .. n /\ k + 1 \in 0 .. n /\ (k + 1) - 1 = k /\ k \in Int /\ m \in Int
        BY ONLY n \in Nat, k \in 0 .. n, k < n, Successor
    <2>2. v0 \in Int /\ V[k + 1] = v0 + k * k
        <3>1. V[k] \in Int /\ V[k + 1] = V[k] + v[k + 1]
            BY <1>2, SumsStep
        <3>2. QED
            BY <2>1, <3>1 DEF PlaceSquares
    <2>3. u0 \in Int /\ U[k + 1] = u0 + k
        <3>1. U[k] \in Int /\ U[k + 1] = U[k] + u[k + 1]
            BY <1>2, SumsStep
        <3>2. QED
            BY <2>1, <3>1 DEF Places
    <2>4. B[k + 1] = B[k] + (2 * k - m) * (2 * k - m)
        <3>1. B[k] \in Int /\ B[k + 1] = B[k] + b[k + 1]
            BY <1>2, SumsStep
        <3>2. QED
            BY <2>1, <3>1 DEF SquareTerms
    <2>5. B[k] = 4 * v0 - 4 * (m * u0) + k * (m * m)
        BY <1>2
    <2>6. 4 * (v0 + k * k) - 4 * (m * (u0 + k)) + (k + 1) * (m * m)
          = (4 * v0 - 4 * (m * u0) + k * (m * m)) + (2 * k - m) * (2 * k - m)
        <3> HIDE DEF m, v0, u0
        <3>1. QED
            BY ONLY <2>1, <2>2, <2>3
    <2>7. B[k + 1] = 4 * V[k + 1] - 4 * (m * U[k + 1]) + (k + 1) * (m * m)
        <3> HIDE DEF m, v0, u0
        <3>1. QED
            BY <2>2, <2>3, <2>4, <2>5, <2>6
    <2>8. QED
        BY <2>1, <2>7
<1>3. n \in T
    <2> HIDE DEF T
    <2>1. \A k \in 0 .. n : k \in T
        BY <1>1, <1>2, IntervalInduction
    <2>2. QED
        BY <2>1
<1>4. QED
    BY <1>3

(* Squares are not negative.                                               *)
LEMMA Square ==
    ASSUME NEW x \in Int
    PROVE  x * x >= 0 /\ (x # 0 => x * x > 0)
<1>1. CASE x >= 0
    BY <1>1
<1>2. CASE x < 0
    BY <1>2
<1>3. QED
    BY <1>1, <1>2

(* ... which is positive: the line has a slope.                            *)
LEMMA BasePositive ==
    ASSUME NEW n \in Nat, n >= 2, NEW b, NEW B, SumsTo(B, b, n),
           SquareTerms(b, n)
    PROVE  B[n] > 0
<1> DEFINE T == {k \in 0 .. n : k = 0 \/ B[k] > 0}
<1>1. 0 \in T
    OBVIOUS
<1>2. ASSUME NEW k \in 0 .. n, k < n, k \in T
      PROVE  k + 1 \in T
    <2> DEFINE x == 2 * k - (n - 1)
    <2>1. k + 1 \in 1 .. n /\ k + 1 \in 0 .. n /\ (k + 1) - 1 = k /\ x \in Int
        BY ONLY n \in Nat, k \in 0 .. n, k < n, Successor
    <2>2. B[k] \in Int /\ B[k + 1] = B[k] + b[k + 1]
        BY <1>2, SumsStep
    <2>3. b[k + 1] = x * x
        BY <2>1 DEF SquareTerms
    <2>4. x * x >= 0 /\ (x # 0 => x * x > 0) /\ x * x \in Int
        <3> HIDE DEF x
        <3>1. QED
            BY <2>1, Square
    <2>5. CASE k = 0
        <3>1. B[k] = 0
            BY <2>5, SumsStart
        <3>2. x # 0
            BY <2>5
        <3> HIDE DEF x
        <3>3. B[k + 1] > 0
            BY <2>2, <2>3, <2>4, <3>1, <3>2
        <3>4. QED
            BY <2>1, <3>3
    <2>6. CASE k # 0
        <3>1. B[k] > 0
            BY <1>2, <2>6
        <3> HIDE DEF x
        <3>2. B[k + 1] > 0
            BY <2>2, <2>3, <2>4, <3>1
        <3>3. QED
            BY <2>1, <3>2
    <2>7. QED
        BY <2>5, <2>6
<1>3. n \in T
    <2> HIDE DEF T
    <2>1. \A k \in 0 .. n : k \in T
        BY <1>1, <1>2, IntervalInduction
    <2>2. QED
        BY <2>1
<1>4. QED
    BY <1>3

(* A tuple of fractions is a sequence.                                     *)
LEMMA FractionSequence ==
    ASSUME NEW n \in Nat, NEW s, DOMAIN s = 1 .. n, s = [i \in 1 .. n |-> s[i]],
           \A i \in 1 .. n : s[i] \in Fractions
    PROVE  s \in Seq(Fractions) /\ n = Len(s)
<1>1. s \in [1 .. n -> Fractions]
    OBVIOUS
<1>2. s \in Seq(Fractions)
    BY <1>1, SeqDef
<1>3. QED
    BY <1>2

(* A sum of fractions, by their numerators.                                *)
LEMMA TotalBy ==
    ASSUME NEW n \in Nat, NEW s, DOMAIN s = 1 .. n, s = [i \in 1 .. n |-> s[i]],
           NEW a, NEW d \in Positive, \A i \in 1 .. n : Equals(s[i], a[i], d)
    PROVE  \E g : SumsTo(g, a, n) /\ Equals(Total(s), g[n], d)
<1>1. \A i \in 1 .. n : s[i] \in Fractions /\ a[i] \in Int
    BY DEF Equals
<1>2. s \in Seq(Fractions) /\ n = Len(s)
    BY <1>1, FractionSequence
<1> DEFINE b == [i \in 1 .. n |-> a[i]]
<1>3. b \in [1 .. n -> Int] /\ \A i \in 1 .. n : b[i] = a[i]
    BY <1>1
<1> HIDE DEF b
<1>4. PICK g : SumsTo(g, b, n)
    BY <1>3, SumsAlong
<1>5. SumsTo(g, a, n)
    BY <1>3, <1>4 DEF SumsTo
<1>6. Equals(Total(s), g[n], d)
    BY <1>2, <1>5, TotalIs
<1>7. QED
    BY <1>5, <1>6

(* Taking the mean first loses nothing: the slope by the deviations from   *)
(* the mean is the slope by the sums of x, y, x * y and x * x.             *)
LEMMA SlopeIs ==
    ASSUME NEW v \in Seq(Fractions), Len(v) >= 2,
           NEW x, x = [i \in DOMAIN v |-> Whole(i - 1)]
    PROVE  Slope(v) = Over(Moment(x, v), Moment(x, x))
<1> DEFINE n == Len(v)
<1>1. n \in Nat /\ n >= 2 /\ n \in Int /\ n \in Positive /\ DOMAIN v = 1 .. n
    BY DEF Positive
<1>2. v = [i \in 1 .. n |-> v[i]] /\ \A i \in 1 .. n : v[i] \in Fractions
    OBVIOUS
<1>3. DOMAIN x = 1 .. n /\ Len(x) = n /\ x = [i \in 1 .. n |-> x[i]]
    OBVIOUS
<1>4. \A i \in 1 .. n : x[i] = Whole(i - 1)
    BY <1>1
<1>5. PICK d \in Positive : \E a \in [1 .. n -> Int] : \A i \in 1 .. n : Equals(v[i], a[i], d)
    BY CommonDenominator
<1>6. PICK Y : \A i \in 1 .. n : Equals(v[i], Y[i], d)
    BY <1>5
<1> DEFINE mean == Mean(v)
           s1 == [i \in 1 .. n |-> Times(XDeviation(i, n), Minus(v[i], mean))]
           s2 == [i \in 1 .. n |-> Times(XDeviation(i, n), XDeviation(i, n))]
           s3 == [i \in 1 .. n |-> Times(x[i], v[i])]
           s4 == [i \in 1 .. n |-> Times(x[i], x[i])]
<1>7. Slope(v) = IF Total(s2)[1] = 0 THEN Whole(0) ELSE Over(Total(s1), Total(s2))
    BY <1>1 DEF Slope
<1>8. Moment(x, v) = Minus(Times(Whole(n), Total(s3)), Times(Total(x), Total(v)))
    BY <1>3 DEF Moment
<1>9. Moment(x, x) = Minus(Times(Whole(n), Total(s4)), Times(Total(x), Total(x)))
    BY <1>3 DEF Moment
<1>10. mean = Times(Total(v), <<1, n>>)
    BY DEF Mean
<1>11. /\ \A i \in 1 .. n : s1[i] = Times(XDeviation(i, n), Minus(v[i], mean))
       /\ \A i \in 1 .. n : s2[i] = Times(XDeviation(i, n), XDeviation(i, n))
       /\ \A i \in 1 .. n : s3[i] = Times(x[i], v[i])
       /\ \A i \in 1 .. n : s4[i] = Times(x[i], x[i])
    OBVIOUS
<1>12. /\ DOMAIN s1 = 1 .. n /\ s1 = [i \in 1 .. n |-> s1[i]]
       /\ DOMAIN s2 = 1 .. n /\ s2 = [i \in 1 .. n |-> s2[i]]
       /\ DOMAIN s3 = 1 .. n /\ s3 = [i \in 1 .. n |-> s3[i]]
       /\ DOMAIN s4 = 1 .. n /\ s4 = [i \in 1 .. n |-> s4[i]]
    OBVIOUS
<1> DEFINE X(i) == 2 * (i - 1) - (n - 1)
           u == [i \in 1 .. n |-> i - 1]
<1>13. \A i \in 1 .. n : u[i] = i - 1
    OBVIOUS
<1>14. d \in Int /\ d # 0 /\ \A i \in 1 .. n : Y[i] \in Int /\ X(i) \in Int /\ i - 1 \in Int
    BY <1>1, <1>6 DEF Equals, Positive
<1> HIDE DEF n, mean, s1, s2, s3, s4, u
<1>15. 1 \in Positive /\ 2 \in Positive /\ d * n \in Positive /\ 2 * (d * n) \in Positive
    <2>1. 1 \in Positive /\ 2 \in Positive
        BY DEF Positive
    <2>2. QED
        BY <1>1, <2>1, Products

(* The points.                                                             *)
<1>16. PICK P : SumsTo(P, Y, n) /\ Equals(Total(v), P[n], d)
    BY <1>1, <1>2, <1>6, TotalBy
<1>17. ASSUME NEW i \in 1 .. n
       PROVE  Equals(x[i], u[i], 1)
    <2> DEFINE k == i - 1
    <2>1. k \in Int /\ x[i] = <<k, 1>> /\ u[i] = k
        <3>1. x[i] = <<i - 1, 1>>
            BY <1>4 DEF Whole
        <3>2. QED
            BY <1>13, <1>14, <3>1
    <2> HIDE DEF k
    <2>2. Equals(<<k, 1>>, k, 1)
        BY <1>15, <2>1 DEF Equals, Fractions
    <2>3. QED
        BY <2>1, <2>2
<1>18. PICK U : SumsTo(U, u, n) /\ Equals(Total(x), U[n], 1)
    BY <1>1, <1>3, <1>15, <1>17, TotalBy
<1> DEFINE S == P[n]
<1>19. S \in Int /\ Equals(mean, S, d * n)
    <2>1. Equals(<<1, n>>, 1, n)
        BY <1>1 DEF Equals, Fractions
    <2>2. Equals(mean, S * 1, d * n)
        BY <1>10, <1>16, <2>1, TimesIs
    <2>3. S \in Int
        BY <1>16 DEF Equals
    <2>4. QED
        BY <2>2, <2>3
<1> HIDE DEF S
<1>20. ASSUME NEW i \in 1 .. n
       PROVE  Equals(XDeviation(i, n), X(i), 2)
    BY <1>14, <1>15, <1>20 DEF Equals, XDeviation, Fractions

(* By deviations.                                                          *)
<1> DEFINE a == [i \in 1 .. n |-> X(i) * (Y[i] * n - S)]
           b == [i \in 1 .. n |-> X(i) * X(i)]
           q == [i \in 1 .. n |-> (i - 1) * Y[i]]
           w == [i \in 1 .. n |-> (i - 1) * (i - 1)]
<1>21. /\ \A i \in 1 .. n : a[i] = X(i) * (Y[i] * n - S)
       /\ \A i \in 1 .. n : b[i] = X(i) * X(i)
       /\ \A i \in 1 .. n : q[i] = (i - 1) * Y[i]
       /\ \A i \in 1 .. n : w[i] = (i - 1) * (i - 1)
    OBVIOUS
<1> HIDE DEF a, b, q, w, X
<1>22. Deviations(a, Y, S, n) /\ SquareTerms(b, n) /\ Weighted(q, Y, n) /\ PlaceSquares(w, n)
       /\ Places(u, n)
    BY <1>13, <1>21 DEF Deviations, SquareTerms, Weighted, PlaceSquares, Places, X
<1>23. PICK A : SumsTo(A, a, n) /\ Equals(Total(s1), A[n], 2 * (d * n))
    <2>1. ASSUME NEW i \in 1 .. n
          PROVE  Equals(s1[i], a[i], 2 * (d * n))
        <3>1. Y[i] \in Int /\ Y[i] * n \in Int
            BY <1>1, <1>14
        <3> DEFINE y == Y[i]
        <3>2. y \in Int /\ Equals(v[i], y, d)
            BY <1>6, <3>1
        <3> HIDE DEF y
        <3>3. Equals(v[i], y * n, d * n)
            <4>1. y * (d * n) = (y * n) * d /\ y * n \in Int
                BY <1>1, <1>14, <3>2
            <4>2. QED
                BY <1>15, <3>2, <4>1, IsScaled
        <3>4. Equals(Minus(v[i], mean), y * n - S, d * n)
            BY <1>19, <3>3, MinusIs
        <3>5. Equals(Times(XDeviation(i, n), Minus(v[i], mean)), X(i) * (y * n - S), 2 * (d * n))
            BY <1>20, <3>4, TimesIs
        <3>6. QED
            BY <1>11, <1>21, <3>5 DEF y
    <2>2. QED
        BY <1>1, <1>12, <1>15, <2>1, TotalBy
<1>24. PICK B : SumsTo(B, b, n) /\ Equals(Total(s2), B[n], 2 * 2)
    <2>1. ASSUME NEW i \in 1 .. n
          PROVE  Equals(s2[i], b[i], 2 * 2)
        <3>1. Equals(Times(XDeviation(i, n), XDeviation(i, n)), X(i) * X(i), 2 * 2)
            BY <1>20, TimesIs
        <3>2. QED
            BY <1>11, <1>21, <3>1
    <2>2. 2 * 2 \in Positive
        BY DEF Positive
    <2>3. QED
        BY <1>1, <1>12, <2>1, <2>2, TotalBy

(* By moments.                                                             *)
<1>25. PICK Q : SumsTo(Q, q, n) /\ Equals(Total(s3), Q[n], d)
    <2>1. ASSUME NEW i \in 1 .. n
          PROVE  Equals(s3[i], q[i], d)
        <3>1. Equals(Times(x[i], v[i]), u[i] * Y[i], 1 * d)
            BY <1>6, <1>17, TimesIs
        <3>2. 1 * d = d /\ u[i] * Y[i] = q[i]
            BY <1>13, <1>14, <1>21
        <3>3. QED
            BY <1>11, <3>1, <3>2
    <2>2. QED
        BY <1>1, <1>12, <2>1, TotalBy
<1>26. PICK V : SumsTo(V, w, n) /\ Equals(Total(s4), V[n], 1)
    <2>1. ASSUME NEW i \in 1 .. n
          PROVE  Equals(s4[i], w[i], 1)
        <3>1. Equals(Times(x[i], x[i]), u[i] * u[i], 1 * 1)
            BY <1>17, TimesIs
        <3>2. 1 * 1 = 1 /\ u[i] * u[i] = w[i]
            BY <1>13, <1>14, <1>21
        <3>3. QED
            BY <1>11, <3>1, <3>2
    <2>2. QED
        BY <1>1, <1>12, <1>15, <2>1, TotalBy
<1> DEFINE An == A[n]
           Bn == B[n]
           Qn == Q[n]
           Vn == V[n]
           Un == U[n]
           M == n * Qn - Un * S
           W == n * Vn - Un * Un
<1>27. An \in Int /\ Bn \in Int /\ Qn \in Int /\ Vn \in Int /\ Un \in Int
    BY <1>18, <1>23, <1>24, <1>25, <1>26 DEF Equals
<1>28. M \in Int /\ W \in Int
    <2> HIDE DEF An, Bn, Qn, Vn, Un
    <2>1. QED
        BY <1>1, <1>19, <1>27
<1>29. Equals(Whole(n), n, 1)
    BY <1>1, <1>15 DEF Equals, Whole, Fractions
<1>30. Equals(Moment(x, v), M, d)
    <2>1. Equals(Times(Whole(n), Total(s3)), n * Qn, 1 * d)
        BY <1>25, <1>29, TimesIs
    <2>2. Equals(Times(Total(x), Total(v)), Un * S, 1 * d)
        BY <1>16, <1>18, TimesIs DEF S
    <2>3. 1 * d = d
        BY <1>14
    <2> HIDE DEF Un, Qn
    <2>4. QED
        BY <1>8, <2>1, <2>2, <2>3, MinusIs
<1>31. Equals(Moment(x, x), W, 1)
    <2>1. Equals(Times(Whole(n), Total(s4)), n * Vn, 1 * 1)
        BY <1>26, <1>29, TimesIs
    <2>2. Equals(Times(Total(x), Total(x)), Un * Un, 1 * 1)
        BY <1>18, TimesIs
    <2> HIDE DEF Un, Vn
    <2>3. QED
        BY <1>9, <2>1, <2>2, MinusIs

(* They are proportional.                                                  *)
<1>32. 2 * Un = n * (n - 1)
    BY <1>1, <1>18, <1>22, Triangle
<1>33. An = n * (2 * Qn - (n - 1) * S) - S * (2 * Un - (n - 1) * n)
    <2>1. \A i \in 1 .. n : Y[i] \in Int
        BY <1>14
    <2>2. /\ SumsTo(P, Y, n) /\ SumsTo(Q, q, n) /\ Weighted(q, Y, n) /\ SumsTo(U, u, n)
          /\ Places(u, n) /\ SumsTo(A, a, n) /\ Deviations(a, Y, S, n)
        BY <1>16, <1>18, <1>22, <1>23, <1>25
    <2>3. A[n] = n * (2 * Q[n] - (n - 1) * P[n]) - S * (2 * U[n] - (n - 1) * n)
        BY ONLY <1>1, <1>19, <2>1, <2>2, TopSums
    <2>4. QED
        BY <2>3 DEF S
<1>34. Bn = 4 * Vn - 4 * ((n - 1) * Un) + n * ((n - 1) * (n - 1))
    BY <1>1, <1>18, <1>22, <1>24, <1>26, BaseSums
<1>35. Bn > 0
    BY <1>1, <1>22, <1>24, BasePositive
<1> HIDE DEF An, Bn, Qn, Vn, Un
<1>36. An = 2 * M
    <2>1. 2 * Un - (n - 1) * n = 0
        BY <1>1, <1>27, <1>32
    <2>2. S * (2 * Un - (n - 1) * n) = 0
        BY <1>19, <2>1
    <2>3. n * (2 * Qn - (n - 1) * S) = 2 * (n * Qn) - (n * (n - 1)) * S
        BY <1>1, <1>19, <1>27
    <2>4. (n * (n - 1)) * S = (2 * Un) * S
        BY <1>32
    <2>5. (2 * Un) * S = 2 * (Un * S)
        BY <1>19, <1>27
    <2>6. QED
        BY <1>1, <1>19, <1>27, <1>33, <2>2, <2>3, <2>4, <2>5
<1>37. n * Bn = 4 * W
    <2>1. n * Bn = 4 * (n * Vn) - 4 * ((n * (n - 1)) * Un) + (n * (n - 1)) * (n * (n - 1))
        BY <1>1, <1>27, <1>34
    <2>2. n * Bn = 4 * (n * Vn) - 4 * ((2 * Un) * Un) + (2 * Un) * (2 * Un)
        BY <1>32, <2>1
    <2>3. 4 * (n * Vn) - 4 * ((2 * Un) * Un) + (2 * Un) * (2 * Un) = 4 * (n * Vn - Un * Un)
        BY <1>1, <1>27
    <2>4. QED
        BY <2>2, <2>3
<1> HIDE DEF M, W
<1>38. W > 0
    <2>1. n * Bn > 0
        BY <1>1, <1>27, <1>35
    <2>2. QED
        BY <1>28, <1>37, <2>1
<1>39. Total(s2)[1] # 0
    <2> DEFINE f == Total(s2)
    <2>1. f[1] \in Int /\ f[2] \in Positive /\ f[1] * (2 * 2) = Bn * f[2]
        BY <1>24 DEF Equals, Fractions, Bn
    <2> HIDE DEF f
    <2>2. Bn \in Positive
        BY <1>27, <1>35 DEF Positive
    <2>3. Bn * f[2] \in Positive
        BY <2>1, <2>2, Products
    <2>4. f[1] # 0
        BY <2>1, <2>3 DEF Positive
    <2>5. QED
        BY <2>4 DEF f
<1>40. /\ (2 * (d * n)) * Bn \in Positive
       /\ Over(Total(s1), Total(s2)) = Lowest(An * (2 * 2), (2 * (d * n)) * Bn)
    BY <1>23, <1>24, <1>35, OverIs DEF An, Bn
<1>41. d * W \in Positive /\ Over(Moment(x, v), Moment(x, x)) = Lowest(M * 1, d * W)
    BY <1>30, <1>31, <1>38, OverIs
<1>42. SameRatio(An * (2 * 2), (2 * (d * n)) * Bn, M * 1, d * W)
    <2>1. (An * (2 * 2)) * (d * W) = (8 * M) * (d * W)
        BY <1>14, <1>28, <1>36
    <2>2. (2 * (d * n)) * Bn = (2 * d) * (n * Bn)
        BY <1>1, <1>14, <1>27
    <2>3. (2 * d) * (n * Bn) = (2 * d) * (4 * W)
        BY <1>37
    <2>4. (M * 1) * ((2 * d) * (4 * W)) = (8 * M) * (d * W)
        BY <1>14, <1>28
    <2>5. QED
        BY <2>1, <2>2, <2>3, <2>4 DEF SameRatio
<1>43. Lowest(An * (2 * 2), (2 * (d * n)) * Bn) = Lowest(M * 1, d * W)
    <2>1. An * (2 * 2) \in Int /\ M * 1 \in Int
        BY <1>27, <1>28
    <2>2. QED
        BY <1>40, <1>41, <1>42, <2>1, LowestSame
<1>44. QED
    BY <1>7, <1>39, <1>40, <1>41, <1>43

(* What SortedBy makes of a set is a sequence of its elements.              *)
LEMMA SortedByIs ==
    ASSUME NEW S, IsFiniteSet(S), NEW by, \A x \in S : x[by] \in Int
    PROVE  SortedBy(S, by) \in Seq(S)
<1> DEFINE N == Cardinality(S)
           First(T) == CHOOSE x \in T : \A y \in T : x[by] <= y[by]
           Defined(g) == g = [i \in 0 .. N |-> IF i = 0 THEN S ELSE g[i - 1] \ {First(g[i - 1])}]
           F == [i \in 1 .. N |-> [T \in SUBSET S |-> T \ {First(T)}]]
<1>1. N \in Nat
    BY FS_CardinalityType
<1>2. ASSUME NEW T \in SUBSET S, T # {}
      PROVE  First(T) \in T
    <2> DEFINE g == [x \in T |-> x[by]]
               K == {g[x] : x \in T}
    <2>1. IsFiniteSet(T) /\ g \in [T -> Int]
        BY FS_Subset
    <2>2. IsFiniteSet(K)
        <3> HIDE DEF g
        <3>1. QED
            BY <2>1, ImageIsFinite, Zenon
    <2>3. K # {} /\ K \subseteq Int /\ \A x \in T : g[x] = x[by]
        BY <1>2
    <2>4. Min(K) \in K /\ \A x \in K : Min(K) <= x
        <3> HIDE DEF K
        <3>1. QED
            BY <2>2, <2>3, Extremes
    <2>5. \E x \in T : \A y \in T : x[by] <= y[by]
        <3>1. PICK x \in T : g[x] = Min(K)
            BY <2>4
        <3>2. \A y \in T : g[y] \in K
            OBVIOUS
        <3> HIDE DEF K, g
        <3>3. QED
            BY <2>3, <2>4, <3>1, <3>2
    <2>6. QED
        BY <2>5
<1>3. F \in StepsOn(N, SUBSET S)
    BY DEF StepsOn
<1>4. \A i \in 1 .. N : \A T \in SUBSET S : F[i][T] = T \ {First(T)}
    OBVIOUS
<1> HIDE DEF F, First
<1>5. \E g : Defined(g)
    <2>1. PICK g : Iterate(g, N, SUBSET S, S, F)
        <3> HIDE DEF N
        <3>1. S \in SUBSET S
            OBVIOUS
        <3>2. QED
            BY <1>1, <1>3, <3>1, Iterates
    <2>2. ASSUME NEW i \in 0 .. N
          PROVE  g[i] = IF i = 0 THEN S ELSE g[i - 1] \ {First(g[i - 1])}
        <3>1. CASE i = 0
            BY <2>1, <3>1 DEF Iterate
        <3>2. CASE i # 0
            <4>1. i \in 1 .. N /\ i - 1 \in 0 .. N
                BY <1>1, <3>2
            <4>2. g[i - 1] \in SUBSET S /\ g[i] = F[i][g[i - 1]]
                BY <2>1, <4>1 DEF Iterate
            <4>3. QED
                BY <1>4, <3>2, <4>1, <4>2
        <3>3. QED
            BY <3>1, <3>2
    <2>3. Defined(g)
        <3> HIDE DEF N
        <3>1. g = [i \in 0 .. N |-> g[i]]
            BY <2>1 DEF Iterate
        <3>2. QED
            BY <2>2, <3>1
    <2> HIDE DEF Defined
    <2>4. QED
        BY <2>3
<1> DEFINE rest == CHOOSE g : Defined(g)
<1>6. Defined(rest)
    <2> HIDE DEF Defined
    <2>1. QED
        BY <1>5
<1>7. SortedBy(S, by) = [i \in 1 .. N |-> First(rest[i - 1])]
    BY DEF SortedBy, First
<1> HIDE DEF rest
<1>8. \A i \in 0 .. N : rest[i] = IF i = 0 THEN S ELSE rest[i - 1] \ {First(rest[i - 1])}
    <2> HIDE DEF N
    <2>1. QED
        BY <1>6
<1> DEFINE Remains(T, i) == T \in SUBSET S /\ Cardinality(T) = N - i
           I == {i \in 0 .. N : Remains(rest[i], i)}
<1>9. ASSUME NEW T, NEW i \in 0 .. N, Remains(T, i), i < N
      PROVE  First(T) \in T /\ Remains(T \ {First(T)}, i + 1)
    <2>1. IsFiniteSet(T) /\ T \in SUBSET S /\ Cardinality(T) = N - i
        BY <1>9, FS_Subset
    <2>2. T # {}
        BY <1>1, <1>9, <2>1, FS_EmptySet
    <2>3. First(T) \in T
        BY <1>2, <2>1, <2>2
    <2>4. Cardinality(T \ {First(T)}) = Cardinality(T) - 1
        BY <2>1, <2>3, FS_RemoveElement
    <2>5. Cardinality(T \ {First(T)}) = N - (i + 1)
        <3> HIDE DEF N
        <3>1. QED
            BY <1>1, <2>1, <2>4
    <2>6. QED
        BY <2>1, <2>3, <2>5
<1>10. 0 \in I
    <2>1. rest[0] = S /\ 0 \in 0 .. N
        <3>1. 0 \in 0 .. N
            BY <1>1
        <3> HIDE DEF N
        <3>2. QED
            BY <1>8, <3>1
    <2>2. Cardinality(S) = N - 0
        BY <1>1
    <2>3. QED
        BY <2>1, <2>2
<1>11. ASSUME NEW i \in 0 .. N, i < N, i \in I
       PROVE  i + 1 \in I
    <2>1. i + 1 \in 0 .. N /\ i + 1 # 0 /\ (i + 1) - 1 = i
        BY <1>1, <1>11
    <2>2. rest[i + 1] = rest[i] \ {First(rest[i])}
        <3> HIDE DEF N
        <3>1. QED
            BY <1>8, <2>1
    <2>3. Remains(rest[i], i)
        BY <1>11
    <2>4. Remains(rest[i + 1], i + 1)
        <3> HIDE DEF Remains, N
        <3>1. QED
            BY <1>9, <1>11, <2>2, <2>3
    <2>5. QED
        BY <2>1, <2>4
<1>12. \A i \in 0 .. N : i \in I
    <2> HIDE DEF I, N
    <2>1. QED
        BY <1>1, <1>10, <1>11, IntervalInduction
<1>13. ASSUME NEW i \in 1 .. N
       PROVE  First(rest[i - 1]) \in S
    <2>1. i - 1 \in 0 .. N /\ i - 1 < N
        BY <1>1
    <2>2. Remains(rest[i - 1], i - 1)
        BY <1>12, <2>1
    <2>3. First(rest[i - 1]) \in rest[i - 1] /\ rest[i - 1] \in SUBSET S
        BY <1>9, <2>1, <2>2
    <2>4. QED
        BY <2>3
<1> DEFINE seq == [i \in 1 .. N |-> First(rest[i - 1])]
<1>14. seq \in [1 .. N -> S]
    BY <1>13
<1>15. seq \in Seq(S)
    <2> HIDE DEF N, seq
    <2>1. QED
        BY <1>1, <1>14, SeqDef
<1>16. QED
    BY <1>7, <1>15

(* A figure of the runs of a bucket.                                       *)
LEMMA SumOfBucket ==
    ASSUME NEW R, NEW seq \in Seq(R), NEW c, \A r \in R : r[c] \in Int
    PROVE  SumFunction([i \in DOMAIN seq |-> seq[i][c]]) \in Int
<1> DEFINE S == DOMAIN seq
           g == [i \in S |-> seq[i][c]]
<1>1. S = 1 .. Len(seq) /\ Len(seq) \in Nat /\ \A i \in S : seq[i] \in R
    OBVIOUS
<1>2. IsFiniteSet(S) /\ S \in SUBSET S
    BY <1>1, FS_Interval
<1>3. g \in [S -> Int]
    BY <1>1
<1>4. SumIn(g, S) = SumFunction(g)
    <2>1. [i \in S |-> g[i]] = g
        OBVIOUS
    <2> HIDE DEF g, S
    <2>2. QED
        BY <2>1, Zenon DEF SumIn
<1>5. SumIn(g, S) \in Int
    <2> HIDE DEF g, S
    <2>1. QED
        BY <1>2, <1>3, SumWithout
<1>6. QED
    BY <1>4, <1>5

(* The point of a bucket that has runs.                                    *)
LEMMA PointIs ==
    ASSUME NEW R, \A r \in R : r["at"] \in Int /\ r["correct"] \in Int /\ r["wrong"] \in Int,
           NEW seq \in Seq(R), seq # <<>>
    PROVE  BucketPoint(seq)["first"] \in Int /\ BucketPoint(seq).accuracy \in Fractions
<1> DEFINE correct == SumFunction([i \in DOMAIN seq |-> seq[i].correct])
           wrong == SumFunction([i \in DOMAIN seq |-> seq[i].wrong])
<1>1. /\ BucketPoint(seq)["first"] = Head(seq)["at"]
      /\ BucketPoint(seq).accuracy = Ratio(100 * correct, correct + wrong)
    BY Zenon DEF BucketPoint, Each
<1>2. Head(seq) \in R
    OBVIOUS
<1>3. correct \in Int /\ wrong \in Int
    BY SumOfBucket
<1> HIDE DEF correct, wrong
<1>4. Ratio(100 * correct, correct + wrong) \in Fractions
    <2> DEFINE n == 100 * correct
               d == correct + wrong
    <2>1. n \in Int /\ d \in Int
        BY <1>3
    <2> HIDE DEF n, d
    <2>2. CASE d > 0
        <3>1. d \in Positive
            BY ONLY <2>1, <2>2 DEF Positive
        <3>2. Equals(Lowest(n, d), n, d)
            BY ONLY <2>1, <3>1, LowestIs
        <3>3. Ratio(n, d) = Lowest(n, d)
            BY <2>2 DEF Ratio
        <3>4. QED
            BY <3>2, <3>3 DEF Equals, n, d
    <2>3. CASE ~(d > 0)
        <3>1. Ratio(n, d) = <<0, 1>>
            BY <2>3 DEF Ratio
        <3>2. <<0, 1>> \in Fractions
            BY ONLY DEF Fractions, Positive
        <3>3. QED
            BY <3>1, <3>2, Zenon DEF n, d
    <2>4. QED
        BY <2>2, <2>3
<1>5. QED
    BY <1>1, <1>2, <1>4

(* A part of a sequence between two of its positions.                      *)
LEMMA PartOf ==
    ASSUME NEW R, NEW seq \in Seq(R), NEW from \in Int, NEW to \in Int,
           1 <= from, from <= to, to <= Len(seq)
    PROVE  SubSeq(seq, from, to) \in Seq(R) /\ SubSeq(seq, from, to) # <<>>
<1>1. \A i \in from .. to : seq[i] \in R
    OBVIOUS
<1>2. SubSeq(seq, from, to) \in Seq(R) /\ Len(SubSeq(seq, from, to)) = to - from + 1
    BY <1>1, SubSeqProperties
<1>3. to - from + 1 # 0
    OBVIOUS
<1>4. QED
    BY <1>2, <1>3

(* A chunk has runs.                                                       *)
LEMMA ChunkIs ==
    ASSUME NEW R, NEW seq \in Seq(R), NEW size \in Positive,
           NEW n \in 1 .. (Len(seq) + size - 1) \div size
    PROVE  Chunk(seq, n, size) \in Seq(R) /\ Chunk(seq, n, size) # <<>>
<1> DEFINE N == Len(seq)
           q == (N + size - 1) \div size
           from == (n - 1) * size + 1
           to == Min({n * size, N})
<1>1. N \in Nat /\ size \in Int /\ size > 0 /\ size \in Nat
    BY DEF Positive
<1>2. q \in Int /\ size * q <= N + size - 1
    <2> DEFINE m == N + size - 1
    <2>1. m \in Int
        BY <1>1
    <2> HIDE DEF m, N
    <2>2. m \div size \in Int /\ size * (m \div size) <= m
        BY <1>1, <2>1
    <2>3. QED
        BY <2>2 DEF m
<1>3. n \in 1 .. q
    OBVIOUS
<1> HIDE DEF q
<1>4. n \in Int /\ n >= 1 /\ n <= q
    BY <1>2, <1>3
<1>5. n * size \in Int /\ (n - 1) * size = n * size - size /\ (n - 1) * size >= 0
    <2> HIDE DEF N
    <2>1. n - 1 \in Nat /\ n * size \in Int
        BY <1>1, <1>4
    <2>2. (n - 1) * size = n * size - size
        BY <1>1, <1>4
    <2>3. (n - 1) * size \in Nat
        BY <1>1, <2>1
    <2>4. QED
        BY <2>1, <2>2, <2>3
<1>6. n * size <= size * q
    <2>1. (q - n) * size >= 0
        <3>1. q - n \in Nat
            BY <1>2, <1>4
        <3> HIDE DEF N
        <3>2. (q - n) * size \in Nat
            BY <1>1, <3>1
        <3>3. QED
            BY <3>2
    <2> HIDE DEF N
    <2>2. (q - n) * size = size * q - n * size /\ size * q \in Int
        BY <1>1, <1>2, <1>4
    <2>3. QED
        BY <1>5, <2>1, <2>2
<1> DEFINE x == n * size
           y == size * q
<1>7. x \in Int /\ y \in Int /\ x <= y /\ y <= N + size - 1 /\ from = x - size + 1 /\ from >= 1
    BY <1>1, <1>2, <1>5, <1>6
<1> HIDE DEF x, y, from
<1>8. to = (IF x <= N THEN x ELSE N) /\ to \in Int
    BY <1>1, <1>7, ExtremesOfPair DEF x
<1> HIDE DEF to
<1>9. from \in Int /\ 1 <= from /\ from <= to /\ to <= N
    BY <1>1, <1>7, <1>8
<1>10. Chunk(seq, n, size) = SubSeq(seq, from, to)
    BY DEF Chunk, from, to
<1> HIDE DEF N
<1>11. SubSeq(seq, from, to) \in Seq(R) /\ SubSeq(seq, from, to) # <<>>
    <2>1. to <= Len(seq)
        BY <1>9 DEF N
    <2>2. from \in Int /\ to \in Int /\ 1 <= from /\ from <= to
        BY <1>8, <1>9
    <2>3. seq \in Seq(R)
        OBVIOUS
    <2>4. QED
        BY ONLY <2>1, <2>2, <2>3, PartOf
<1>12. QED
    BY <1>10, <1>11

(* The points of buckets of some runs.                                     *)
PointsOf(R) == {BucketPoint(seq) : seq \in Seq(R) \ {<<>>}}

(* The curve is made of points of buckets that have runs.                  *)
LEMMA PointsAre ==
    ASSUME NEW R, Countable(R), NEW size \in Positive
    PROVE  BucketPoints(R, size) \in Seq(PointsOf(R))
<1> DEFINE OfLevel(l) == SortedBy({r \in R : r.level = l}, "at")
           Count(l) == (Len(OfLevel(l)) + size - 1) \div size
           Buckets(l) == {BucketPoint(Chunk(OfLevel(l), n, size)) : n \in 1 .. Count(l)}
           U == UNION {Buckets(r.level) : r \in R}
<1>1. /\ IsFiniteSet(R)
      /\ \A r \in R : r["at"] \in Int /\ r["correct"] \in Int /\ r["wrong"] \in Int
    BY DEF Countable, Measured
<1>2. ASSUME NEW l
      PROVE  OfLevel(l) \in Seq(R)
    <2> DEFINE S == {r \in R : r.level = l}
    <2>1. S \subseteq R /\ IsFiniteSet(S) /\ \A r \in S : r["at"] \in Int
        BY <1>1, FS_Subset
    <2> HIDE DEF S
    <2>2. SortedBy(S, "at") \in Seq(S)
        BY <2>1, SortedByIs
    <2>3. SortedBy(S, "at") \in Seq(R)
        BY <2>1, <2>2
    <2>4. QED
        BY <2>3 DEF S
<1>3. BucketPoints(R, size) = SortedBy(U, "first")
    BY Zenon DEF BucketPoints
<1> HIDE DEF OfLevel
<1>4. ASSUME NEW l
      PROVE  Buckets(l) \subseteq PointsOf(R) /\ IsFiniteSet(Buckets(l))
    <2> DEFINE seq == OfLevel(l)
               N == 1 .. Count(l)
               g == [n \in N |-> BucketPoint(Chunk(seq, n, size))]
    <2>1. Count(l) \in Int
        BY <1>2 DEF Positive
    <2>2. IsFiniteSet(N)
        <3> HIDE DEF Count
        <3>1. QED
            BY <2>1, FS_Interval
    <2>3. ASSUME NEW n \in N
          PROVE  BucketPoint(Chunk(seq, n, size)) \in PointsOf(R)
        <3>1. Chunk(seq, n, size) \in Seq(R) /\ Chunk(seq, n, size) # <<>>
            BY <1>2, ChunkIs
        <3>2. QED
            BY <3>1 DEF PointsOf
    <2>4. Buckets(l) = {g[n] : n \in N}
        <3> HIDE DEF Count
        <3>1. QED
            OBVIOUS
    <2>5. IsFiniteSet({g[n] : n \in N})
        <3>1. g \in [N -> PointsOf(R)]
            BY <2>3
        <3> HIDE DEF g, N
        <3>2. QED
            BY <2>2, <3>1, ImageIsFinite, Zenon
    <2>6. Buckets(l) \subseteq PointsOf(R)
        <3> HIDE DEF Count
        <3>1. QED
            BY <2>3
    <2>7. IsFiniteSet(Buckets(l))
        BY <2>4, <2>5, Zenon
    <2>8. QED
        BY <2>6, <2>7
<1> HIDE DEF Buckets
<1>5. U \subseteq PointsOf(R)
    BY <1>4
<1>6. IsFiniteSet(U)
    <2> DEFINE B == {Buckets(r.level) : r \in R}
               g == [r \in R |-> Buckets(r.level)]
    <2>1. g \in [R -> B]
        OBVIOUS
    <2>2. B = {g[r] : r \in R}
        OBVIOUS
    <2>3. \A b \in B : IsFiniteSet(b)
        BY <1>4
    <2>4. IsFiniteSet(R)
        BY <1>1
    <2> HIDE DEF g, B
    <2>5. IsFiniteSet({g[r] : r \in R})
        BY ONLY <2>1, <2>4, ImageIsFinite, Zenon
    <2>6. IsFiniteSet(B)
        BY <2>2, <2>5, Zenon
    <2>7. IsFiniteSet(UNION B)
        BY ONLY <2>3, <2>6, FS_UNION
    <2>8. QED
        BY <2>7 DEF B
<1> HIDE DEF U
<1>7. \A point \in U : point["first"] \in Int
    BY <1>1, <1>5, PointIs DEF PointsOf
<1>8. SortedBy(U, "first") \in Seq(U)
    BY <1>6, <1>7, SortedByIs
<1>9. QED
    BY <1>3, <1>5, <1>8

(* The curve through the points of some runs.                              *)
LEMMA CurveIs ==
    ASSUME NEW R, Countable(R), NEW size \in Positive, NEW curve,
           curve = Each(LAMBDA point : point.accuracy, BucketPoints(R, size))
    PROVE  curve \in Seq(Fractions) /\ Len(curve) = Len(BucketPoints(R, size))
<1> DEFINE points == BucketPoints(R, size)
<1>1. points \in Seq(PointsOf(R))
    BY PointsAre
<1>2. \A point \in PointsOf(R) : point.accuracy \in Fractions
    BY PointIs DEF PointsOf, Countable, Measured
<1>3. curve = [i \in DOMAIN points |-> points[i].accuracy]
    BY Zenon DEF Each
<1> HIDE DEF points
<1>4. QED
    BY <1>1, <1>2, <1>3 DEF points

(* What a page says of the curve.                                          *)
LEMMA InfoFits ==
    ASSUME NEW rows, NEW points, NEW ages, Len(points) >= 3
    PROVE  StudentInfo(rows, points, ages).slope
              = Slope(Each(LAMBDA point : point.accuracy, points))
BY Zenon DEF StudentInfo

(* A pupil's curve on the dashboard has the slope of its least squares,    *)
(* for any history and any size of the buckets: taking the means first     *)
(* loses nothing.  (views.py:1313 calculate_learning_curve_slope over      *)
(* the points of run_bucket_trends.py:185)                                 *)
THEOREM CurvesAreFittedTheorem == Spec => []CurvesAreFitted
<1>1. ASSUME BaseInv
      PROVE  CurvesAreFitted
    <2>1. BucketSize \in Positive
        BY StatisticsAssumption DEF Positive
    <2>2. ASSUME NEW c \in Rooms,
                 NEW p \in DOMAIN PageOf(c, studentWeek, roomWeek).infos,
                 NEW curve,
                 curve = Each(LAMBDA point : point.accuracy,
                              BucketPoints(RunsOf({p}), BucketSize)),
                 Len(curve) >= 3
          PROVE  LET x == [i \in DOMAIN curve |-> Whole(i - 1)]
                 IN  PageOf(c, studentWeek, roomWeek).infos[p].slope
                        = Over(Moment(x, curve), Moment(x, x))
        <3> DEFINE R == RunsOf({p})
                   points == BucketPoints(R, BucketSize)
                   ages == [i \in DOMAIN points |-> Age(points[i])]
                   x == [i \in DOMAIN curve |-> Whole(i - 1)]
                   shown == {q \in Pupils : home[q] = c /\ DOMAIN RowsUnder(studentWeek, q) # {}}
        <3>1. Countable(R)
            BY <1>1, RunsCountable, PartCountable DEF RunsOf
        <3>2. PageOf(c, studentWeek, roomWeek).infos
                  = [q \in shown |-> InfoOf(q, studentWeek)]
            BY PageIs, Zenon
        <3>3. p \in shown
            BY <2>2, <3>2, Zenon
        <3>4. PageOf(c, studentWeek, roomWeek).infos[p] = InfoOf(p, studentWeek)
            BY <3>2, <3>3, Zenon
        <3>5. InfoOf(p, studentWeek) = StudentInfo(RowsUnder(studentWeek, p), points, ages)
            BY Zenon DEF InfoOf
        <3>6. curve \in Seq(Fractions) /\ Len(curve) = Len(points)
            BY <2>1, <2>2, <3>1, CurveIs
        <3>7. Len(points) >= 3
            BY <2>2, <3>6
        <3>8. StudentInfo(RowsUnder(studentWeek, p), points, ages).slope = Slope(curve)
            <4> HIDE DEF points, ages
            <4>1. curve = Each(LAMBDA point : point.accuracy, points)
                BY <2>2, Zenon DEF points
            <4>2. QED
                BY <3>7, <4>1, InfoFits, Zenon
        <3>9. Slope(curve) = Over(Moment(x, curve), Moment(x, x))
            <4>1. Len(curve) >= 2
                BY <2>2, <3>6
            <4>2. QED
                BY <3>6, <4>1, SlopeIs
        <3>10. QED
            BY <3>4, <3>5, <3>8, <3>9, Zenon
    <2>3. QED
        BY <2>2, Zenon DEF CurvesAreFitted
<1>2. QED
    BY <1>1, BaseHolds, PTL
===============================================================================
