--------------------------- MODULE WeeklyStatistics ---------------------------
(***************************************************************************)
(* The numbers a teacher sees, from the payload on: runs are stored by two *)
(* flushers and folded into the weekly tables as they commit, weeks go by, *)
(* pupils change rooms, a closed week's tables are made anew, teacher by   *)
(* teacher, from the runs and turns, and the turns are deleted.            *)
(*                                                                         *)
(* IngestPipeline has the way of a payload to the flusher, with what may   *)
(* fail on it, and WeeklyCompaction the steps of a compaction and theirs;  *)
(* here both succeed or leave nothing, and the tables have their contents. *)
(***************************************************************************)
EXTENDS RollupVerification, RunAnalytics, DashboardMetrics

CONSTANTS
    Payloads,     \* what the game sends, by run id
    Arrivals,     \* the order in which it is sent
    Home,         \* the room each pupil is in at first
    TeacherOf,    \* of each room
    LastWeek,     \* bound on the weeks of a behaviour
    MaxMoves,     \* bound on the pupils that change rooms
    MaxFailures,  \* bound on the transactions that fail by themselves
    Flushers, BatchSize,
    BucketSize,   \* RUN_BUCKET_SIZE
    DaysApart     \* days from one week here to the next: there may be others between

Pupils   == DOMAIN Home
Rooms    == DOMAIN TeacherOf
Teachers == {TeacherOf[c] : c \in Rooms}
Weeks    == 1 .. LastWeek

Accepted == {id \in DOMAIN Payloads : Valid(Payloads[id])}
Stored   == [id \in Accepted |-> StoredRun(id, Payloads[id])]

ASSUME StatisticsAssumption ==
    /\ \A id \in DOMAIN Payloads :
          WellFormed(Payloads[id]) /\ Payloads[id].student \in Pupils
    /\ Arrivals \in Seq(DOMAIN Payloads) /\ Accepted \subseteq ToSet(Arrivals)
    /\ \A i, j \in DOMAIN Arrivals : Arrivals[i] = Arrivals[j] => i = j
    /\ Home \in [Pupils -> Rooms] /\ TeacherOf \in [Rooms -> Teachers]
    /\ LastWeek \in Nat \ {0} /\ MaxMoves \in Nat /\ MaxFailures \in Nat
    /\ IsFiniteSet(Flushers) /\ BatchSize \in Nat \ {0} /\ BucketSize \in Nat \ {0}
    /\ LongestGame \in Nat /\ ClipCeiling \in Nat /\ None \notin Int

VARIABLES
    home, moves,
    week,          \* the current one
    buffer,        \* of the ids of accepted runs
    batch,         \* per flusher: those it popped
    stamps,        \* per flusher: created_at of the runs in its transaction
    runs,          \* the same of the committed ones
    failures,
    compacted,     \* those whose turns are deleted
    studentWeek, studentLevel, roomWeek, details,   \* the tables
    compaction,    \* the week being compacted and the teachers to come
    done,          \* weeks that are COMPACTED
    disturbed      \* weeks a pupil moved in, or before they were done

people == <<home, moves>>
queue  == <<buffer, batch, stamps, failures>>
tables == <<studentWeek, studentLevel, roomWeek, details>>
vars   == <<people, week, queue, runs, compacted, tables, compaction, done, disturbed>>

-------------------------------------------------------------------------------
(* created_at is a place in time and the week it lies in.                  *)
Now ==
    LET times(rows) == {rows[id].at : id \in DOMAIN rows}
    IN  Max({0} \union times(runs) \union UNION {times(stamps[f]) : f \in Flushers})

RunOf(id)  == Stored[id] ++ runs[id]
AllRuns    == {RunOf(id) : id \in DOMAIN runs}
TeacherNow(r) == TeacherOf[home[r.student]]

(* A run as the statistics find it: deleted turns are not there.           *)
Left(r) == IF r.id \in compacted THEN [r EXCEPT !.turns = <<>>] ELSE r

Nothing == [k \in {} |-> k]
Without(table, gone(_)) == [k \in {k \in DOMAIN table : ~gone(k)} |-> table[k]]

Init ==
    /\ home = Home /\ moves = 0 /\ week = 1
    /\ buffer = Keep(Arrivals, Accepted) /\ failures = 0
    /\ batch = [f \in Flushers |-> <<>>] /\ stamps = [f \in Flushers |-> Nothing]
    /\ runs = Nothing
    /\ compacted = {} /\ done = {} /\ disturbed = {}
    /\ studentWeek = Nothing /\ studentLevel = Nothing /\ roomWeek = Nothing
    /\ details = Details({})
    /\ compaction = [week |-> None, todo |-> {}]

-------------------------------------------------------------------------------
(* The flusher.                                                            *)

(* What has arrived by now, a batch at the most, is popped and inserted:   *)
(* created_at is given to the runs then, and with it the week they count   *)
(* in.  Until then a popped batch is no different from a buffered one.     *)
Insert(f, n) ==
    /\ batch[f] = <<>> /\ n \in 1 .. Min({BatchSize, Len(buffer)})
    /\ batch' = [batch EXCEPT ![f] = SubSeq(buffer, 1, n)]
    /\ buffer' = SubSeq(buffer, n + 1, Len(buffer))
    /\ stamps' = [stamps EXCEPT ![f] =
           [id \in ToSet(batch'[f]) |->
               [at |-> Now + (CHOOSE i \in 1 .. n : batch'[f][i] = id), week |-> week]]]
    /\ UNCHANGED <<people, week, failures, runs, compacted, tables, compaction, done, disturbed>>

(* INSERT ... ON CONFLICT: a row that is there keeps its room and teacher. *)
Upserted(table, new, merged(_, _)) ==
    [k \in DOMAIN table \union DOMAIN new |->
        CASE k \notin DOMAIN new   -> table[k]
          [] k \notin DOMAIN table -> new[k]
          [] OTHER                 -> merged(table[k], new[k])]

OfPupil(table) ==
    [k \in DOMAIN table |-> table[k] ++ [room |-> home[k[1]], teacher |-> TeacherOf[home[k[1]]]]]

(* The pupils of a room are counted when its row is inserted.              *)
RoomWeeks(S) ==
    Grouped(S, LAMBDA r : <<home[r.student], r.week>>,
        LAMBDA R : LET c == home[(CHOOSE r \in R : TRUE).student]
                   IN  RoomCounters(R) ++
                       [teacher |-> TeacherOf[c],
                        pupils  |-> Cardinality({p \in Pupils : home[p] = c})])

Unstored(f) == {id \in ToSet(batch[f]) : ~Insertable(Stored[id])}

Commit(f) ==
    LET new == {Stored[id] ++ stamps[f][id] : id \in DOMAIN stamps[f]}
    IN  /\ stamps[f] # Nothing /\ Unstored(f) = {}
        /\ runs' = runs ++ stamps[f]
        /\ batch' = [batch EXCEPT ![f] = <<>>] /\ stamps' = [stamps EXCEPT ![f] = Nothing]
        /\ studentWeek'  = Upserted(studentWeek, OfPupil(StudentWeeks(new)), MergedWeek)
        /\ studentLevel' = Upserted(studentLevel, OfPupil(StudentLevels(new)), MergedLevel)
        /\ roomWeek'     = Upserted(roomWeek, RoomWeeks(new), MergedRoom)
        /\ UNCHANGED <<people, week, buffer, failures, compacted, details, compaction, done,
                       disturbed>>

(* All of the batch goes back to the tail of the buffer.                   *)
Rollback(f) ==
    /\ stamps[f] # Nothing
    /\ \/ Unstored(f) # {} /\ UNCHANGED failures
       \/ failures < MaxFailures /\ failures' = failures + 1
    /\ buffer' = buffer \o batch[f]
    /\ batch' = [batch EXCEPT ![f] = <<>>] /\ stamps' = [stamps EXCEPT ![f] = Nothing]
    /\ UNCHANGED <<people, week, runs, compacted, tables, compaction, done, disturbed>>

-------------------------------------------------------------------------------
NextWeek ==
    /\ week < LastWeek
    /\ week' = week + 1
    /\ UNCHANGED <<people, queue, runs, compacted, tables, compaction, done, disturbed>>

(* A teacher or the administrator gives a pupil another room.              *)
Move(p, c) ==
    /\ moves < MaxMoves /\ home[p] # c
    /\ home' = [home EXCEPT ![p] = c] /\ moves' = moves + 1
    /\ disturbed' = disturbed \union (1 .. week \ done)
    /\ UNCHANGED <<week, queue, runs, compacted, tables, compaction, done>>

-------------------------------------------------------------------------------
(* compact_weekly_runs --per-teacher.                                      *)

RunsIn(w)        == {r \in AllRuns : r.week = w}
RunsUnder(t, w)  == {r \in RunsIn(w) : TeacherNow(r) = t}

\* Mutant: the week that is running may be compacted.
HasBegun(w) == w <= week

(* _last_completed_week_start                                              *)
IsOver(w) == w < week

(* The transactions of a week are over long before anyone compacts it.     *)
StartCompaction(w) ==
    /\ compaction.week = None /\ IsOver(w) /\ w \notin done /\ RunsIn(w) # {}
    /\ \A f \in Flushers : \A id \in DOMAIN stamps[f] : stamps[f][id].week # w
    /\ compaction' = [week |-> w, todo |-> {TeacherNow(r) : r \in RunsIn(w)}]
    /\ UNCHANGED <<people, week, queue, runs, compacted, tables, done, disturbed>>

\* Mutant: the week's rows of every teacher.
TheirsAndOthers(table, k, t) == k[2] = compaction.week

(* _delete_existing_week_rollups: the rows that say they are the teacher's. *)
Theirs(table, k, t) == k[2] = compaction.week /\ table[k].teacher = t

(* A detail row is inserted with its pupil's row and has its teacher.      *)
TheirDetail(k, t) == Theirs(studentWeek, <<k[1], k[2]>>, t)

Rest(table, t) == Without(table, LAMBDA k : Theirs(table, k, t))

Clashes(t) ==
    LET mine == RunsUnder(t, compaction.week)
        keys(a, b) == DOMAIN a \intersect DOMAIN b
    IN  \/ keys(Rest(studentWeek, t), StudentWeeks(mine)) # {}
        \/ keys(Rest(studentLevel, t), StudentLevels(mine)) # {}

(* The tables as a slice leaves them.                                      *)
Remade(t) ==
    LET mine == RunsUnder(t, compaction.week)
        new  == Details(Steps({Left(r) : r \in mine}))
    IN  [weeks   |-> Rest(studentWeek, t) ++ OfPupil(StudentWeeks(mine)),
         levels  |-> Rest(studentLevel, t) ++ OfPupil(StudentLevels(mine)),
         rooms   |-> Rest(roomWeek, t) ++ RoomWeeks(mine),
         details |-> [table \in DOMAIN details |->
                         Without(details[table], LAMBDA k : TheirDetail(k, t)) ++ new[table]]]

(* A slice in which nothing fails: the tables anew, the turns deleted.  A  *)
(* pupil that moved away meanwhile may leave it without runs.              *)
Slice(t) ==
    LET mine == RunsUnder(t, compaction.week)
    IN  /\ t \in compaction.todo
        /\ ~Clashes(t)
        /\ compaction' = [compaction EXCEPT !.todo = @ \ {t}]
        /\ IF mine = {} THEN UNCHANGED <<tables, compacted>>
           ELSE /\ studentWeek'  = Remade(t).weeks
                /\ studentLevel' = Remade(t).levels
                /\ roomWeek'     = Remade(t).rooms
                /\ details'      = Remade(t).details
                /\ compacted' = compacted \union {r.id : r \in mine}
        /\ UNCHANGED <<people, week, queue, runs, done, disturbed>>

(* A row of the same pupil and week under another teacher is in the way:   *)
(* the transaction fails and with it the command.                          *)
SliceFails(t) ==
    /\ t \in compaction.todo
    /\ Clashes(t)
    /\ compaction' = [week |-> None, todo |-> {}]
    /\ UNCHANGED <<people, week, queue, runs, compacted, tables, done, disturbed>>

Finalize ==
    /\ compaction.week # None /\ compaction.todo = {}
    /\ done' = done \union {compaction.week}
    /\ compaction' = [week |-> None, todo |-> {}]
    /\ UNCHANGED <<people, week, queue, runs, compacted, tables, disturbed>>

Next ==
    \/ \E f \in Flushers :
        \/ \E n \in 1 .. BatchSize : Insert(f, n)
        \/ Commit(f)
        \/ Rollback(f)
    \/ NextWeek
    \/ \E p \in Pupils, c \in Rooms : Move(p, c)
    \/ \E w \in Weeks : StartCompaction(w)
    \/ \E t \in Teachers : Slice(t) \/ SliceFails(t)
    \/ Finalize

Spec == Init /\ [][Next]_vars

-------------------------------------------------------------------------------
(* Properties.                                                             *)

RunsOf(pupils)   == {r \in AllRuns : r.student \in pupils}
Scopes           == {Pupils} \union {{p} : p \in Pupils}

TypeOK ==
    /\ home \in [Pupils -> Rooms] /\ moves \in 0 .. MaxMoves /\ week \in Weeks
    /\ DOMAIN runs \subseteq Accepted /\ compacted \subseteq DOMAIN runs
    /\ \A f \in Flushers : /\ Len(batch[f]) <= BatchSize
                            /\ DOMAIN stamps[f] = ToSet(batch[f])
    /\ ToSet(buffer) \union UNION {ToSet(batch[f]) : f \in Flushers} = Accepted \ DOMAIN runs
    /\ failures \in 0 .. MaxFailures
    /\ \A r \in AllRuns : r.week \in Weeks /\ r.place # None
    /\ done \subseteq Weeks /\ disturbed \subseteq Weeks
    /\ compaction.week \in Weeks \union {None} /\ compaction.todo \subseteq Teachers
    /\ \A k \in DOMAIN studentWeek : studentWeek[k].latest >= studentWeek[k].first

(* A pupil's row of a week is what its runs of that week come to, in       *)
(* whatever batches and order they were committed and whether the row was  *)
(* upserted or made anew; it is missing only of a week somebody moved in.  *)
(* (rollup_incremental.py against weekly_aggregation.py)                   *)
SummariesExact ==
    LET agree(table, fresh) ==
            /\ \A k \in DOMAIN table :
                    k \in DOMAIN fresh /\ \A c \in DOMAIN fresh[k] : table[k][c] = fresh[k][c]
            /\ \A k \in DOMAIN fresh \ DOMAIN table : k[2] \in disturbed
    IN  /\ agree(studentWeek, StudentWeeks(AllRuns))
        /\ agree(studentLevel, StudentLevels(AllRuns))

(* A room's row of a week is the sum of its pupils' rows, in a week nobody *)
(* moved in: the three tables of one transaction stay together.            *)
RoomsAddUp ==
    \A k \in DOMAIN roomWeek :
        k[2] \notin disturbed =>
            LET rows == {j \in DOMAIN studentWeek : j[2] = k[2] /\ studentWeek[j].room = k[1]}
                levels == {j \in DOMAIN studentLevel : j[2] = k[2] /\ studentLevel[j].room = k[1]}
                adds(f(_)) == /\ f(roomWeek[k]) = SumRows(studentWeek, rows, f)
                              /\ f(roomWeek[k]) = SumRows(studentLevel, levels, f)
            IN  /\ adds(LAMBDA v : v.runs) /\ adds(LAMBDA v : v.wins)
                /\ adds(LAMBDA v : v.correct) /\ adds(LAMBDA v : v.wrong)
                /\ adds(LAMBDA v : v.score.sum) /\ adds(LAMBDA v : v.score.squares)
                /\ adds(LAMBDA v : v.elapsed.sum) /\ adds(LAMBDA v : v.elapsed.count)

OfWeek(table, w) == Without(table, LAMBDA k : k[2] # w)

(* What a closed week says of it never changes again: no run is counted    *)
(* in it after its turns are gone (run_ingestion.py admits a run by the    *)
(* time it ended, the flusher counts it by the time it is stored).         *)
ClosedWeeksStayClosed ==
    [][\A w \in done :
          /\ OfWeek(studentWeek', w) = OfWeek(studentWeek, w)
          /\ OfWeek(studentLevel', w) = OfWeek(studentLevel, w)
          /\ OfWeek(roomWeek', w) = OfWeek(roomWeek, w)
          /\ \A t \in DOMAIN details : OfWeek(details'[t], w) = OfWeek(details[t], w)]_vars

(* The columns of a row that say what its runs come to.                    *)
WeekColumns  == {"runs", "wins", "correct", "wrong", "score", "elapsed", "latest", "first"}
LevelColumns == WeekColumns \ {"first"}

(* What is made of the runs of a week ...                                  *)
Figures(R) ==
    [weeks |-> StudentWeeks(R), levels |-> StudentLevels(R), details |-> Details(Steps(R))]

(* ... and what the tables have of it, rooms and teachers left out.        *)
Recorded(w) ==
    LET rows(table, columns) ==
            [k \in DOMAIN OfWeek(table, w) |-> [c \in columns |-> table[k][c]]]
    IN  [weeks   |-> rows(studentWeek, WeekColumns),
         levels  |-> rows(studentLevel, LevelColumns),
         details |-> [t \in DOMAIN details |-> OfWeek(details[t], w)]]

Book  == [w \in done \ disturbed |-> Recorded(w)]
Books == INSTANCE ClosedBooks WITH counted <- AllRuns, book <- Book

(* Flushers, compaction and everyone around them keep the books of the     *)
(* weeks nobody moved in: a week closes with the figures of all the runs   *)
(* ever counted in it, turns that were deleted slice by slice before       *)
(* included, and neither its figures nor its runs change afterwards.       *)
BooksSpec == Books!Spec

(* Wherever the two sets of queries mean the same, the rollups answer what *)
(* the raw turns answered before they were deleted.                        *)
AnswersAgree ==
    \A pupils \in Scopes :
        LET closed  == {r \in RunsOf(pupils) : r.week \in done \ disturbed}
            S       == Steps(closed)
            weeksOf(table) == Without(table, LAMBDA k : k[2] \notin done \ disturbed)
            levels  == weeksOf(studentLevel)
            rollups == [t \in DOMAIN details |-> weeksOf(details[t])]
            same(a, b, part(_)) == /\ DOMAIN a = DOMAIN b
                                   /\ \A k \in DOMAIN a : part(a[k]) = part(b[k])
            chosen(table) == Without(table, LAMBDA k : table[k].total = 0)
        IN  /\ RollupWinRateByLevel(levels, pupils) = WinRateByLevel(closed)
            /\ same(RollupWrongMovesRateByLevel(levels, pupils), WrongMovesRateByLevel(closed),
                    LAMBDA v : <<v.correct, v.wrong, v.moves>>)
            /\ same(RollupTimeDistributionByLevel(levels, pupils), TimeDistributionByLevel(closed),
                    LAMBDA v : <<v.avg, v.min, v.max, v.runs>>)
            /\ RollupMistakeHotspotsByLevel(rollups, pupils) = MistakeHotspotsByLevel(S)
            /\ RollupSpecialTileBreakdown(rollups, pupils) = SpecialTileBreakdown(S)
            /\ RollupChainLengthsByLevel(rollups, pupils) = ChainLengthsByLevel(S)
            /\ RollupBackCardUsageByPlace(rollups, pupils) = BackCardUsageByPlace(S)
            /\ RollupForeachTileContextUsage(rollups, pupils) = ForeachTileContextUsage(S)
            /\ RollupNumberChoices(rollups, pupils) = NumberChoicesByLevel(S)
            /\ RollupTileConditionalAccuracy(rollups, pupils) = TileConditionalAccuracy(S)
            /\ same(RollupBagConditionalAccuracy(rollups, pupils).buckets,
                    BagConditionalAccuracy(S).buckets, LAMBDA v : <<v.total, v.correct>>)
            /\ chosen(RollupCardAccuracyByFamilyByLevel(rollups, pupils)) =
                   CardAccuracyByFamilyByLevel(S)
            /\ same(RollupDecisionTimeByCardType(rollups, pupils).summary,
                    DecisionTimeByCardType(S),
                    LAMBDA v : <<v.total, v.min, v.max>>)
            /\ same(chosen(RollupDecisionTimeByFamilyByLevel(rollups, pupils)),
                    DecisionTimeByFamilyByLevel(S),
                    LAMBDA v : <<v.total, v.avg, v.min, v.max>>)
            /\ LET rolled == RollupNumberDecisionTime(rollups, pupils)
                   raw    == NumberDecisionTime(S)
               IN  /\ same(rolled, raw, LAMBDA v : v.count)
                   /\ \A k \in DOMAIN raw :
                          raw[k].timed = raw[k].count => raw[k].avg = rolled[k].avg
            /\ LET rolled == RollupOfferChoiceShareByFamily(rollups, pupils)
                   raw    == OfferChoiceShareByFamily(S)
               IN  \A k \in DOMAIN raw :
                       IF k \in DOMAIN rolled THEN raw[k] = rolled[k]
                       ELSE raw[k].offered = 0 /\ raw[k].chosen = 0

(* Before a slice deletes its turns, the verifier finds in the rows it has *)
(* made what it counts in the turns, though the two count separately and   *)
(* the week may have been tried before ("raw turns and triggers are        *)
(* deleted only after verification succeeds").                             *)
VerificationPasses ==
    \A t \in compaction.todo :
        LET mine == RunsUnder(t, compaction.week)
            all  == Remade(t)
            of(table) == Without(table, LAMBDA k : k[2] # compaction.week \/ table[k].teacher # t)
            rows == of(all.weeks)
            pupils == {k[1] : k \in DOMAIN rows}
            their(table) == Without(table, LAMBDA k : k[1] \notin pupils \/ k[2] # compaction.week)
        IN  mine # {} /\ ~Clashes(t) =>
                Verified({Left(r) : r \in mine},
                         [weeks |-> rows, levels |-> of(all.levels), rooms |-> of(all.rooms),
                          details |-> [table \in DOMAIN details |-> their(all.details[table])]])

(* The tables of a closed week agree with each other: a level's mistakes   *)
(* by tile are its wrong moves, the cards chosen its turns, and a won run  *)
(* has a correct move more than its turns say, the one over the line.      *)
TablesAgree ==
    \A k \in DOMAIN studentLevel :
        k[2] \in done \ disturbed =>
            LET of(table) == {j \in DOMAIN table : <<j[1], j[2], j[3]>> = k}
                sum(table, f(_)) == SumRows(table, of(table), f)
                firsts == Cardinality({r \in AllRuns : /\ <<r.student, r.week, r.level>> = k
                                                       /\ r.place = 1})
                turns == sum(details.types, LAMBDA v : v.chosen)
            IN  /\ sum(details.hotspots, LAMBDA v : v) = studentLevel[k].wrong
                /\ sum(details.families, LAMBDA v : v.correct) + firsts = studentLevel[k].correct
                /\ sum(details.families, LAMBDA v : v.chosen) = turns
                /\ sum(details.chains, LAMBDA v : v) = turns

(* The card of a stored turn is the same card to the flusher that filled   *)
(* its columns, to the weekly aggregation and to the raw analytics.        *)
CardsReadAlike ==
    \A s \in Steps(AllRuns) :
        LET turn == Turn(s)
            read == ParseCard(turn.card)
            raw  == ExtractTurnCard(turn)
        IN  /\ <<turn.type, turn.family, turn.tile>> = <<read.type, read.family, read.tile>>
            /\ <<CardType(turn), CardFamily(turn), CardTile(turn)>> = <<raw.type, raw.family, raw.tile>>

Age(point) ==
    DaysApart * (week - (CHOOSE r \in AllRuns : r.at = point.last).week)

FitsHistory(info, history) ==
    LET sum(f(_)) == SumOf(history, f)
        moved     == sum(LAMBDA r : r.correct) + sum(LAMBDA r : r.wrong)
    IN  /\ info.runs = Cardinality(history)
        /\ info.accuracy = Ratio(100 * sum(LAMBDA r : r.correct), moved)
        /\ info.time = Ratio(sum(LAMBDA r : r.elapsed), 1000 * moved)
        /\ info.latest = Max({r.at : r \in history})

(* A room's page: its pupils that have rows, and the rows of the room.     *)
PageOf(c, weeks, rooms) ==
    LET of(p)  == Without(weeks, LAMBDA k : k[1] # p)
        infos  == [p \in {p \in Pupils : home[p] = c /\ DOMAIN of(p) # {}} |->
                      LET points == BucketPoints(RunsOf({p}), BucketSize)
                      IN  StudentInfo(of(p), points, Each(Age, points))]
    IN  [infos |-> infos, panels |-> Panels(infos),
         room  |-> ClassroomInfo(Without(rooms, LAMBDA k : k[1] # c),
                                 Cardinality({p \in Pupils : home[p] = c}))]

(* The dashboard's figures, taken from rollups, are those of the runs: a   *)
(* page is what the tables made anew would show, and a pupil's totals are  *)
(* its history's (views.py against weekly_aggregation.py).                 *)
DashboardFollowsHistory ==
    disturbed = {} =>
        \A c \in Rooms :
            LET page == PageOf(c, studentWeek, roomWeek)
            IN  /\ page = PageOf(c, StudentWeeks(AllRuns), RoomWeeks(AllRuns))
                /\ \A p \in DOMAIN page.infos : FitsHistory(page.infos[p], RunsOf({p}))

(* n * sum(x * y) - sum(x) * sum(y), x = 0 .. n - 1.                       *)
Moment(x, y) ==
    Minus(Times(Whole(Len(x)), Total([i \in DOMAIN x |-> Times(x[i], y[i])])),
          Times(Total(x), Total(y)))

(* A learning curve's slope is that of the least-squares line through its  *)
(* points, by the formula that takes no mean first.                        *)
CurvesAreFitted ==
    \A c \in Rooms :
        LET infos == PageOf(c, studentWeek, roomWeek).infos
        IN  \A p \in DOMAIN infos :
            \A curve \in {Each(LAMBDA point : point.accuracy, BucketPoints(RunsOf({p}), BucketSize))} :
               Len(curve) >= 3 =>
                   LET x == [i \in DOMAIN curve |-> Whole(i - 1)]
                   IN  infos[p].slope = Over(Moment(x, curve), Moment(x, x))

(* "It deletes the rolled-up rows and rebuilds them from raw"              *)
(* (rollup_incremental.py:9): no row is in a slice's way.                  *)
RowsGiveWay == \A t \in compaction.todo : ~Clashes(t)
===============================================================================
