--------------------------- MODULE WeeklyCompaction ---------------------------
(***************************************************************************)
(* Compaction of one week: the rollups are recomputed from the raw turns,  *)
(* every run's turns are written to a replay archive, the run-bucket       *)
(* trends are rebuilt, all of it is verified, and the raw turns are        *)
(* deleted.  The work is done in slices, the whole week or one teacher,    *)
(* one after the other or in a pool of worker processes.                   *)
(*                                                                         *)
(*   read -> write -> list -> archive* -> buckets -> verify -> delete      *)
(*                                                                         *)
(* Each arrow is a point where another process may run or this one die,    *)
(* and each of these steps queries the week's runs anew, by the teacher    *)
(* the pupil has by then: a superuser may move a pupil, or hand over a     *)
(* classroom, at any time.  The rollup rows name a teacher too.            *)
(*                                                                         *)
(* The other commands on the same tables, rebuild_weekly_rollups and       *)
(* archive_week_replays, are prefixes or parts of that path.  The flusher  *)
(* goes on inserting runs: of the open week always, of the compacted week  *)
(* only when somebody compacts a week that is not over (Late).             *)
(*                                                                         *)
(* A statistics table is the set of runs it counts; the rows of a pupil's  *)
(* week are deleted and created together and name one teacher.  Turns and  *)
(* triggers are deleted together and are one set, raw.  The chunked reads  *)
(* of one query are one step, and runs come from the flusher with their    *)
(* statistics.                                                             *)
(***************************************************************************)
EXTENDS Naturals, FiniteSets

CONSTANTS
    Runs,
    Week,         \* runs whose created_at lies in the week to compact
    Late,         \* those of them still in the ingest path; {} for a past week
    Teachers, Students,
    StudentOf,    \* [Runs -> Students]
    PairOf,       \* the (student, level) of a run
    Home,         \* [Students -> Teachers], when the flusher wrote the week
    Commands,     \* processes that may run a command at the same time
    Modes,        \* how commands are invoked, a subset of AllModes
    MaxWorkers,   \* --max-workers
    PipeHolds,    \* log lines about runs that the pipe of a pool worker takes
    Overwrite,    \* --overwrite-archives
    FaultKinds,   \* which of "archive", "slice", "command" may happen
    MaxFaults,    \* bound on the faults of a behaviour
    MaxCommands,  \* bound on the commands started in a behaviour
    MaxMoves      \* bound on the changes of teacher in a behaviour

ForWeek  == {"week", "sequential", "parallel"}  \* own the week's record
AllModes == ForWeek \union {"teacher", "rebuild", "archive"}

ASSUME CompactionAssumption ==
    /\ IsFiniteSet(Runs) /\ IsFiniteSet(Teachers)
    /\ Late \subseteq Week /\ Week \subseteq Runs
    /\ StudentOf \in [Runs -> Students] /\ Home \in [Students -> Teachers]
    /\ "week" \notin Teachers
    /\ \A q, r \in Runs : PairOf[q] = PairOf[r] => StudentOf[q] = StudentOf[r]
    /\ Modes \subseteq AllModes
    /\ MaxWorkers \in Nat \ {0} /\ PipeHolds \in Nat
    /\ Overwrite \in BOOLEAN
    /\ MaxFaults \in Nat /\ MaxCommands \in Nat /\ MaxMoves \in Nat

VARIABLES
    teacher,     \* of the classroom each pupil is in
    rows,        \* Run rows
    raw,         \* runs that have their TurnEvent rows
    stamped,     \* runs with raw_data_compacted_at
    archive,     \* per run: no ReplayArchive, READY with or without turns, bad
    runRollup,   \* runs counted in the week's run-level rollups
    turnRollup,  \* runs counted in the week's turn-level rollups
    named,       \* the teacher a pupil's rollup rows of the week name, if any
    trend,       \* runs counted in StudentRunBucketTrend
    status,      \* of the WeeklyCompactionRun row
    command,     \* per process: the command it runs
    slice,       \* per process and slice: where its work is
    faults, started, moves,
    moved,       \* history: pupils who have changed teachers
    astray       \* history: those who did while a command was at work

tables  == <<rows, raw, stamped>>
rollups == <<runRollup, turnRollup, named>>
reports == <<rollups, trend>>
budget  == <<faults, started>>
school  == <<teacher, moves, moved, astray>>
vars    == <<school, tables, archive, reports, status, command, slice, budget>>

Slices   == Teachers \union {"week"}
Statuses == {"absent", "pending", "aggregated", "failed", "compacted"}
Archives == {"none", "turns", "empty", "bad"}
Places   == {"off", "read", "write", "list", "archive", "build", "buckets",
             "verify", "delete", "stamp", "done", "failed"}

NoCommand == [phase |-> "idle", mode |-> "week", dry |-> FALSE,
              mark |-> "pending", waiting |-> {}]
NoSlice   == [at |-> "off", runs |-> {}, turns |-> {}, of |-> Home, listed |-> {},
              left |-> {}, run |-> {}, lines |-> 0]

TypeOK ==
    /\ teacher \in [Students -> Teachers] /\ named \in [Students -> Teachers]
    /\ moves \in 0..MaxMoves /\ astray \subseteq moved /\ moved \subseteq Students
    /\ rows \subseteq Runs /\ raw \subseteq rows /\ stamped \subseteq rows
    /\ archive \in [Runs -> Archives]
    /\ runRollup \subseteq Runs /\ turnRollup \subseteq Week /\ trend \subseteq Runs
    /\ status \in Statuses
    /\ command \in [Commands ->
           [phase : {"idle", "open", "run", "orphaned"}, mode : AllModes,
            dry : BOOLEAN, mark : {"pending", "aggregated"},
            waiting : SUBSET Slices]]
    /\ slice \in [Commands -> [Slices ->
           [at : Places, runs : SUBSET Week, turns : SUBSET Week,
            of : [Students -> Teachers], listed : SUBSET Week, left : SUBSET Week,
            run : SUBSET Week, lines : Nat]]]
    /\ \A c \in Commands, s \in Slices :
        /\ slice[c][s].at \in {"archive", "build"} <=> slice[c][s].left # {}
        /\ slice[c][s].at = "build" <=> slice[c][s].run # {}
        /\ slice[c][s].run \subseteq slice[c][s].left
        /\ slice[c][s].turns \subseteq slice[c][s].runs
        /\ slice[c][s].left \subseteq slice[c][s].listed
    /\ faults \in 0..MaxFaults /\ started \in 0..MaxCommands

\* The week as the flusher left it: counted run by run, turns untouched.
Init ==
    /\ teacher = Home /\ named = Home /\ moves = 0 /\ moved = {} /\ astray = {}
    /\ rows = Week \ Late /\ raw = Week \ Late /\ stamped = {}
    /\ archive = [r \in Runs |-> "none"]
    /\ runRollup = Week \ Late /\ turnRollup = {} /\ trend = Week \ Late
    /\ status = "absent"
    /\ command = [c \in Commands |-> NoCommand]
    /\ slice = [c \in Commands |-> [s \in Slices |-> NoSlice]]
    /\ faults = 0 /\ started = 0

\* The runs a slice's query selects, by the teacher the pupil has now ...
In(s, whose, r) == s = "week" \/ whose[StudentOf[r]] = s
InScope(s)      == {r \in rows \intersect Week : In(s, teacher, r)}

\* ... and the runs of a table whose rows its delete selects, by the name
\* they carry.
Named(s, table) == {r \in table \intersect Week : In(s, named, r)}

\* All runs, of whatever week, of the pairs that occur among runs S.
PairRuns(S) == {r \in Runs : \E q \in S : PairOf[r] = PairOf[q]}

At(c, s)    == slice[c][s].at
InFlight(c) == {s \in Slices : At(c, s) \notin {"off", "done"}}
Mode(c)     == command[c].mode
Busy        == \E c \in Commands : command[c].phase \in {"run", "orphaned"}

\* The log of a pool worker goes to a pipe that the command reads when the
\* worker has ended.  One that is full stops the worker, unless the command
\* is gone and nobody reads.
Blocked(c, s) ==
    /\ Mode(c) = "parallel" /\ command[c].phase = "run"
    /\ slice[c][s].lines > PipeHolds

Fault(kind) ==
    /\ kind \in FaultKinds
    /\ faults < MaxFaults
    /\ faults' = faults + 1
    /\ UNCHANGED started

-----------------------------------------------------------------------------
(* What goes on beside the commands.                                       *)

\* The flusher commits a run: row, turns, run-level rollups, trend.  A row
\* the pupil's week has keeps the teacher it names.
Insert(r) ==
    /\ r \in (Late \union (Runs \ Week)) \ rows
    /\ rows' = rows \union {r}
    /\ raw' = raw \union {r}
    /\ runRollup' = runRollup \union {r}
    /\ trend' = trend \union {r}
    /\ LET x == StudentOf[r]
       IN named' = IF r \in Week /\ \A q \in runRollup \intersect Week : StudentOf[q] # x
                   THEN [named EXCEPT ![x] = teacher[x]] ELSE named
    /\ UNCHANGED <<school, stamped, archive, turnRollup, status, command, slice, budget>>

\* Pupils X of teacher t come to u: moved, or handed over with their room.
Move(X, t, u) ==
    /\ moves < MaxMoves /\ moves' = moves + 1
    /\ t # u /\ X # {} /\ \A x \in X : teacher[x] = t
    /\ teacher' = [x \in Students |-> IF x \in X THEN u ELSE teacher[x]]
    /\ moved' = moved \union X
    /\ astray' = IF Busy THEN astray \union X ELSE astray
    /\ UNCHANGED <<tables, archive, reports, status, command, slice, budget>>

-----------------------------------------------------------------------------
(* The command around the slices.                                          *)

Start(c) ==
    /\ command[c] = NoCommand /\ started < MaxCommands
    /\ \E m \in Modes, d \in BOOLEAN :
        /\ d => m \notin {"rebuild", "archive"}
        /\ command' = [command EXCEPT ![c] =
                         [NoCommand EXCEPT !.phase = "open", !.mode = m, !.dry = d]]
    /\ started' = started + 1
    /\ UNCHANGED <<school, tables, archive, reports, status, slice, faults>>

Close(c) ==
    /\ command' = [command EXCEPT ![c] = NoCommand]
    /\ slice' = [slice EXCEPT ![c] = [s \in Slices |-> NoSlice]]

\* The slices of a command that owns the record: teachers that have runs.
Work(m) == IF m = "week" THEN {"week"} ELSE {teacher[StudentOf[r]] : r \in InScope("week")}

\* Nothing to do, or "Week is already compacted".
Decline(c) ==
    /\ command[c].phase = "open" /\ Mode(c) \in ForWeek
    /\ Work(Mode(c)) = {} \/ status = "compacted"
    /\ Close(c)
    /\ UNCHANGED <<school, tables, archive, reports, status, budget>>

\* One teacher is compacted without a pool, whatever --max-workers says.
Open(c) ==
    /\ command[c].phase = "open" /\ Mode(c) \in ForWeek
    /\ Work(Mode(c)) # {} /\ status # "compacted"
    /\ status' = "pending"
    /\ LET m == IF Mode(c) = "parallel" /\ Cardinality(Work("parallel")) = 1
                THEN "sequential" ELSE Mode(c)
       IN command' = [command EXCEPT ![c].phase = "run", ![c].mode = m,
                                     ![c].waiting = Work(m)]
    /\ UNCHANGED <<school, tables, archive, reports, slice, budget>>

\* --teacher-id alone, a rebuild, an archive run: no record is opened.
OpenAside(c) ==
    /\ command[c].phase = "open" /\ Mode(c) \notin ForWeek
    /\ \E s \in Slices :
        /\ s = "week" <=> Mode(c) # "teacher"
        /\ command' = [command EXCEPT ![c].phase = "run", ![c].waiting = {s}]
    /\ UNCHANGED <<school, tables, archive, reports, status, slice, budget>>

\* A slice of compact_weekly_runs counts its runs first, and is done if it
\* has none.
FirstPlace(c, s) ==
    CASE Mode(c) = "archive" -> "list"
      [] Mode(c) = "rebuild" -> "read"
      [] OTHER               -> IF InScope(s) = {} THEN "done" ELSE "read"

StartSlice(c, s) ==
    /\ command[c].phase = "run" /\ s \in command[c].waiting
    /\ Cardinality(InFlight(c)) < (IF Mode(c) = "parallel" THEN MaxWorkers ELSE 1)
    /\ command' = [command EXCEPT ![c].waiting = @ \ {s}]
    /\ slice' = [slice EXCEPT ![c][s].at = FirstPlace(c, s)]
    /\ UNCHANGED <<school, tables, archive, reports, status, budget>>

\* Mutant: a dry run is recorded like a real one.
FinalStatusIgnoringDryRun(c) ==
    IF Mode(c) \in ForWeek THEN {"compacted"}
    ELSE IF Mode(c) = "rebuild" THEN {status, "aggregated"}
    ELSE {status}

\* A dry run saves the record as it has it in memory; a rebuild is told by
\* --update-compaction to record itself.
FinalStatus(c) ==
    IF Mode(c) \in ForWeek THEN {IF command[c].dry THEN command[c].mark ELSE "compacted"}
    ELSE IF Mode(c) = "rebuild" THEN {status, "aggregated"}
    ELSE {status}

Finish(c) ==
    /\ command[c].phase = "run" /\ command[c].waiting = {} /\ InFlight(c) = {}
    /\ status' \in FinalStatus(c)
    /\ Close(c)
    /\ UNCHANGED <<school, tables, archive, reports, budget>>

\* Mutant: the pool is emptied before the exit codes are looked at.
AbortAtTheEnd(c) ==
    /\ command[c].phase = "run"
    /\ command[c].waiting = {}
    /\ InFlight(c) # {} /\ \A s \in Slices : At(c, s) \in {"off", "failed"}
    /\ Close(c)
    /\ UNCHANGED <<school, tables, archive, reports, status, budget>>

\* CommandError: nothing more is started, workers in flight are killed, and
\* the record stays as it is.
Abort(c) ==
    /\ command[c].phase = "run" /\ \E s \in Slices : At(c, s) = "failed"
    /\ Close(c)
    /\ UNCHANGED <<school, tables, archive, reports, status, budget>>

-----------------------------------------------------------------------------
(* A slice.                                                                *)

Leave(c, s, where) == slice' = [slice EXCEPT ![c][s] = [NoSlice EXCEPT !.at = where]]

\* Mutant: the turns are not narrowed to the teacher.
TurnsReadOfWeek(s) == InScope("week") \intersect raw

TurnsRead(s) == InScope(s) \intersect raw

\* aggregate_weekly_rollups reads, outside any transaction, the runs and
\* their pupils with the teachers they have.
ReadWeek(c, s) ==
    /\ At(c, s) = "read"
    /\ slice' = [slice EXCEPT ![c][s] = [NoSlice EXCEPT !.at = "write", !.runs = InScope(s),
                                                       !.turns = TurnsRead(s), !.of = teacher]]
    /\ UNCHANGED <<school, tables, archive, reports, status, command, budget>>

\* Mutant: the old rollups of the whole week are deleted, not the teacher's.
RecountedWholeWeek(old, s, counted) == (old \ Week) \union counted

\* Delete the rows that name the slice's teacher and create those of the
\* runs that were read ...
Recounted(old, s, counted) == (old \ Named(s, old)) \union counted

\* ... which a row of the pupil that names another teacher refuses.
InTheWay(s, counted) ==
    {q \in (runRollup \intersect Week) \ Named(s, runRollup) :
        \E r \in counted : StudentOf[r] = StudentOf[q]}

\* All of it in one transaction.
WriteRollups(c, s) ==
    /\ At(c, s) = "write" /\ InTheWay(s, slice[c][s].runs) = {}
    /\ runRollup' = Recounted(runRollup, s, slice[c][s].runs)
    /\ turnRollup' = Recounted(turnRollup, s, slice[c][s].turns)
    /\ named' = [x \in Students |->
                   IF \E r \in slice[c][s].runs : StudentOf[r] = x
                   THEN slice[c][s].of[x] ELSE named[x]]
    /\ Leave(c, s, "list") \/ (Mode(c) = "rebuild" /\ Leave(c, s, "done"))
    /\ UNCHANGED <<school, tables, archive, trend, status, command, budget>>

\* The transaction is rolled back and the slice fails with its error.
WriteCollides(c, s) ==
    /\ At(c, s) = "write" /\ InTheWay(s, slice[c][s].runs) # {}
    /\ Leave(c, s, "failed")
    /\ UNCHANGED <<school, tables, archive, reports, status, command, budget>>

AfterArchives(c) == IF Mode(c) = "archive" THEN "done" ELSE "buckets"

\* The runs are queried again.  Only the single-slice week records AGGREGATED.
List(c, s) ==
    /\ At(c, s) = "list"
    /\ slice' = [slice EXCEPT ![c][s] =
          IF InScope(s) # {} /\ Mode(c) # "rebuild"
          THEN [NoSlice EXCEPT !.at = "archive", !.listed = InScope(s), !.left = InScope(s)]
          ELSE [NoSlice EXCEPT !.at = AfterArchives(c), !.listed = InScope(s)]]
    /\ IF Mode(c) = "week"
       THEN status' = "aggregated" /\ command' = [command EXCEPT ![c].mark = "aggregated"]
       ELSE UNCHANGED <<status, command>>
    /\ UNCHANGED <<school, tables, archive, reports, budget>>

\* Mutant: no archive is kept.
KeptNever(r) == FALSE

\* A READY archive is kept unless the command overwrites.
Kept(r) == archive[r] \in {"turns", "empty"} /\ ~Overwrite

\* r has its archive and n lines are logged; the loop goes on.
NextRun(c, s, r, n) ==
    LET p    == slice[c][s]
        rest == [p EXCEPT !.run = {}, !.left = @ \ {r}, !.lines = @ + n]
    IN slice' = [slice EXCEPT ![c][s] =
                   [rest EXCEPT !.at = IF p.left = {r} THEN AfterArchives(c) ELSE "archive"]]

\* One line says that the archive verifies, and one that it was written.
KeepArchive(c, s, r) ==
    /\ At(c, s) = "archive" /\ r \in slice[c][s].left
    /\ Kept(r)
    /\ NextRun(c, s, r, 1)
    /\ UNCHANGED <<school, tables, archive, reports, status, command, budget>>

MissArchive(c, s, r) ==
    /\ At(c, s) = "archive" /\ r \in slice[c][s].left
    /\ ~Kept(r)
    /\ slice' = [slice EXCEPT ![c][s].at = "build", ![c][s].run = {r}]
    /\ UNCHANGED <<school, tables, archive, reports, status, command, budget>>

\* The payload holds the turns the run has by now, all of them or none.
BuildArchive(c, s, r) ==
    /\ At(c, s) = "build" /\ slice[c][s].run = {r}
    /\ archive' = [archive EXCEPT ![r] = IF r \in raw THEN "turns" ELSE "empty"]
    /\ NextRun(c, s, r, 2)
    /\ UNCHANGED <<school, tables, reports, status, command, budget>>

\* What was written does not verify: the slice fails, and says so in the
\* record if it has one, which a pool worker has not.
ArchiveFails(c, s, r) ==
    /\ At(c, s) = "build" /\ slice[c][s].run = {r}
    /\ Mode(c) # "archive" /\ r \in raw /\ Fault("archive")
    /\ archive' = [archive EXCEPT ![r] = "bad"]
    /\ status' = IF Mode(c) \in {"week", "sequential"} THEN "failed" ELSE status
    /\ Leave(c, s, "failed")
    /\ UNCHANGED <<school, tables, reports, command>>

AfterBuckets(c) ==
    IF Mode(c) = "rebuild" \/ command[c].dry THEN "done"
    ELSE IF Mode(c) = "parallel" THEN "delete"  \* --skip-verification
    ELSE "verify"

\* The trends of the slice's pairs are replaced by those of the compacted
\* runs and of the runs listed.
HistoricalTrend(listed) ==
    (trend \ PairRuns(listed))
        \union (PairRuns(listed) \intersect rows \intersect (stamped \union listed))

RebuildBuckets(c, s) ==
    /\ At(c, s) = "buckets"
    /\ trend' = HistoricalTrend(slice[c][s].listed)
    /\ Leave(c, s, AfterBuckets(c))
    /\ UNCHANGED <<school, tables, archive, rollups, status, command, budget>>

\* verify_weekly_rollups --require-archives --verify-run-buckets: counts by
\* the teacher of the pupil against totals of the rows that name the teacher.
Verified(s) ==
    LET S == InScope(s)
    IN /\ S # {}
       /\ Cardinality(Named(s, runRollup)) = Cardinality(S)
       /\ Cardinality(Named(s, turnRollup)) = Cardinality(raw \intersect S)
       /\ \A r \in S : archive[r] \in {"turns", "empty"}
       /\ trend \intersect PairRuns(S) =
              rows \intersect PairRuns(S) \intersect (stamped \union S)

\* The rows are those of the runs: no other total differs either.
Matching(s) ==
    Named(s, runRollup) = InScope(s) /\ Named(s, turnRollup) = raw \intersect InScope(s)

Verify(c, s) ==
    /\ At(c, s) = "verify"
    /\ \/ Verified(s) /\ Leave(c, s, "delete")
       \/ ~(Verified(s) /\ Matching(s)) /\ Leave(c, s, "failed")
    /\ UNCHANGED <<school, tables, archive, reports, status, command, budget>>

\* Mutant: a teacher's slice deletes the turns of the whole week.
DoomedWholeWeek(s) == InScope("week")

\* The delete evaluates the slice's query once more ...
Doomed(s) == InScope(s)

DeleteTurns(c, s) ==
    /\ At(c, s) = "delete"
    /\ slice' = [slice EXCEPT ![c][s] = [NoSlice EXCEPT !.at = "stamp", !.runs = Doomed(s)]]
    /\ UNCHANGED <<school, tables, archive, reports, status, command, budget>>

\* ... and so does the update that stamps the runs, before both commit.
StampRuns(c, s) ==
    /\ At(c, s) = "stamp"
    /\ raw' = raw \ slice[c][s].runs
    /\ stamped' = stamped \union InScope(s)
    /\ Leave(c, s, "done")
    /\ UNCHANGED <<school, rows, archive, reports, status, command, budget>>

-----------------------------------------------------------------------------
(* Processes die.                                                          *)

\* A pool worker is killed or raises.
WorkerDies(c, s) ==
    /\ Mode(c) = "parallel" /\ s \in InFlight(c) /\ At(c, s) # "failed"
    /\ Fault("slice")
    /\ Leave(c, s, "failed")
    /\ UNCHANGED <<school, tables, archive, reports, status, command>>

\* The command is killed where it stands; its pool workers live on.
CommandKilled(c) ==
    /\ command[c].phase \in {"open", "run"} /\ Fault("command")
    /\ IF Mode(c) = "parallel"
       THEN /\ command' = [command EXCEPT ![c].phase = "orphaned", ![c].waiting = {}]
            /\ UNCHANGED slice
       ELSE Close(c)
    /\ UNCHANGED <<school, tables, archive, reports, status>>

OrphansEnd(c) ==
    /\ command[c].phase = "orphaned"
    /\ \A s \in Slices : At(c, s) \in {"off", "done", "failed"}
    /\ Close(c)
    /\ UNCHANGED <<school, tables, archive, reports, status, budget>>

-----------------------------------------------------------------------------
SliceStep(c, s) ==
    \/ StartSlice(c, s)
    \/ /\ ~Blocked(c, s)
       /\ \/ ReadWeek(c, s) \/ WriteRollups(c, s) \/ WriteCollides(c, s) \/ List(c, s)
          \/ \E r \in Week : \/ KeepArchive(c, s, r) \/ MissArchive(c, s, r)
                            \/ BuildArchive(c, s, r)
          \/ RebuildBuckets(c, s) \/ Verify(c, s) \/ DeleteTurns(c, s) \/ StampRuns(c, s)

CommandStep(c) ==
    \/ Decline(c) \/ Open(c) \/ OpenAside(c)
    \/ Finish(c) \/ Abort(c) \/ OrphansEnd(c)
    \/ \E s \in Slices : SliceStep(c, s)

Failure(c) ==
    \/ CommandKilled(c)
    \/ \E s \in Slices : WorkerDies(c, s) \/ \E r \in Week : ArchiveFails(c, s, r)

Next ==
    \/ \E r \in Runs : Insert(r)
    \/ \E X \in SUBSET Students, t, u \in Teachers : Move(X, t, u)
    \/ \E c \in Commands : Start(c) \/ CommandStep(c) \/ Failure(c)

Spec == Init /\ [][Next]_vars

\* A command that runs goes on running; nobody has to start one.
FairSpec == Spec /\ \A c \in Commands : WF_vars(CommandStep(c))

-----------------------------------------------------------------------------
(* What a week's runs are owed.  Two kinds of runs are left out by name:   *)
(* those the flusher inserts into a week that is being compacted, and      *)
(* those of pupils who change teachers while a command is at work, since a *)
(* slice lists, counts, archives and deletes by queries of their own.      *)
Steady(r) == r \notin Late /\ StudentOf[r] \notin astray

\* Safety.  A stored run can be replayed: from its turns, or once it is
\* compacted and archived from an archive that contains them
\* (replay_archives.py get_replay_payload_for_run).  What
\* docs/decisions/weekly-rollup-prd.md:31 asks: "Keep replay available
\* indefinitely for every run."
Replayable(r) ==
    IF r \in stamped /\ archive[r] # "none" THEN archive[r] = "turns" ELSE r \in raw

ReplayAvailable == \A r \in rows : r \in Week => (Steady(r) => Replayable(r))

\* Safety.  However often slices delete and recreate the rollup rows, and
\* wherever they are stopped, the run-level totals of the week count every run
\* of the pupils who have kept their teacher, whoever else moves or is late.
RunRollupsComplete ==
    \A r \in Week \ Late : StudentOf[r] \notin moved => r \in runRollup

\* Safety.  A week recorded as COMPACTED has no run left to compact: the
\* teachers listed at the start have between them had every run, also of the
\* pupils who moved before or since.
CompactedIsDone ==
    status = "compacted" => \A r \in rows \intersect Week : Steady(r) => r \in stamped

\* Action property.  Turns are deleted only of runs that are counted in the
\* rollups and trends and whose archive holds the turns: what
\* docs/guides/rollup-runbook.md:32 puts as "raw turns and triggers are deleted
\* only after verification succeeds".
DeletedIsSafe ==
    [][\A r \in raw \ raw' :
          Steady(r) => /\ r \in runRollup /\ r \in turnRollup /\ r \in trend
                       /\ archive[r] = "turns"]_vars

\* Liveness.  A command ends, with a failed slice, dead workers and full pool,
\* or nothing is left in flight but workers that stand before a full pipe.
CommandEnds ==
    \A c \in Commands :
        command[c].phase # "idle" ~>
            \/ command[c].phase = "idle"
            \/ InFlight(c) # {} /\ \A s \in InFlight(c) : Blocked(c, s)

\* What docs/handoff/nfr6-investigation-2026-05-14-session2.md:195 says: "After
\* a compaction failure, retry is safe".  A compacted run stays counted in the
\* turn-level rollups, the only place left its turns are counted in.
TurnRollupsComplete == stamped \subseteq turnRollup
=============================================================================
