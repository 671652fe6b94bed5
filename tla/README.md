# DigitMile: specifications, model checking and proofs

DigitMile is a classroom game with a teacher panel. The browser game sends every
finished run to a Django service; the service buffers runs in Redis, a flusher
process moves them into PostgreSQL and keeps the dashboard's statistics current,
and once a week a compaction replaces the raw turns by rollups and replay
archives. Around that path stand the accounts of schools, teachers and pupils and
the dashboard with its cache. This directory holds TLA+ models of the parts where order,
failure, retry or arithmetic decide whether a pupil's run is kept, counted once, shown
correctly and shown to the right teacher.

All Python is under `src/DigitMilePanel/digitmileapi/`; paths below are relative to it.

## 1. Inventory

| Component | State | Operations | What is hard | What makes it correct |
|---|---|---|---|---|
| Ingest endpoint (`ingest_router.py`, `ingest_schemas.py`, `run_ingestion.py`) | none of its own; Redis list, `PendingIngest` | validate, check student, duplicate and recording window, LPUSH with retries, store in `PendingIngest`, answer 202/200/4xx/503 | checks long before the insert; a reply lost after LPUSH or INSERT was applied; outages of either service | an acknowledged run is never forgotten; nothing is acknowledged that is nowhere |
| Flusher (`management/commands/flush_ingest_buffer.py`) | what it has popped, in memory | drain `PendingIngest`, pop a batch, drop duplicates, insert and count in one transaction, push a failed batch back | death with a batch in hand; two flushers while one is replaced; a payload that always fails; duplicates from retries | each run is inserted and counted at most once, and at least once if no flusher dies with it |
| Incremental rollups (`rollup_incremental.py`) | `StudentWeek*`, `ClassroomWeekStats`, `StudentRunBucketTrend` | upserts inside the flusher's transaction | absolute updates of a bucket read earlier | totals equal the rows |
| Weekly compaction (`management/commands/compact_weekly_runs.py`, `weekly_aggregation.py`) | `WeeklyCompactionRun`, rollup tables, `TurnEvent` rows | open record, per slice: aggregate, archive, rebuild trends, verify, delete; finalise | several transactions per slice, each with a query of its own while pupils change teachers; a pool of processes whose logs nobody reads; retries after partial failure; a flusher that goes on inserting | no turn deleted that is not archived and counted; a retry does no harm; the record tells the truth |
| Replay archives (`replay_archives.py`, `management/commands/archive_week_replays.py`) | files and `ReplayArchive` rows | build, write, verify, keep or overwrite, load | check-then-write; building from turns that are already gone | every stored run can be replayed |
| Verification and rebuild (`verify_weekly_rollups.py`, `rebuild_weekly_rollups.py`) | none / rollup tables | compare tables; recompute a week | running on a compacted week, or while the flusher inserts | rollups agree with runs |
| Run-bucket trends (`run_bucket_trends.py`) | `StudentRunBucketTrend` | append in fives, rebuild, merge for display | a rebuild and a flush of the same pair, open-week runs, two flushers on one tail | each run in one bucket, buckets full but the last |
| Trigger and cron (`views_internal.py`, `src/compactor/entrypoint.sh`) | none | POST spawns a compaction unless COMPACTED | triggers that overlap | one compaction per week at a time |
| Payloads (`run_ingestion.py`, `ingest_schemas.py`, `weekly_aggregation.py`) | none | validate a payload, derive place, times, corrections and the columns of a turn | two forms of payload, absent and null fields, cards read at three places in three ways | a stored card means the same to all who read it |
| Rollup contents (`weekly_aggregation.py`, `rollup_incremental.py`, `weekly_rollups.py`, `rollup_analytics.py`) | the weekly tables' columns | aggregate a slice, merge a batch, add rows up into answers and figures | two writers of one row, rows that name a former teacher, deletion of what could correct them | rows are what the runs come to; answers do not change when the turns go |
| Dashboard and its cache (`views.py`) | Redis cache, 7 days | get, query by query compute, set; invalidation by the commands | a computation that is older than the invalidation it overtakes; a pupil who has left | who and what a page may show, and how old |
| Registration and approval (`views.py`, `admin.py`, `models.py`, `serializers.py`, `forms.py`) | `School`, `Teacher`, `TeacherSchoolAssignment`, users, `Classroom`, `Student` | register, approve, reject, cascade; panel and API pages | several saves without a transaction, of copies loaded before, by reviews and by teachers' edits; names that collide; cascades | who is rejected is out, who is in sees the own pupils, accounts are not shared |
| Legacy analytics (`analytics.py`) | none | the same answers from raw turns | other definitions of the same figure | the part the rollups replaced agrees with them |
| Seeding and benchmark tools, templates, Unity build, proxy, Kubernetes | - | - | - | see *Not modelled* |

The components meet in five places: the Redis list and `PendingIngest` (endpoint and
flusher), the flusher's transaction (rows and rollups), the week's `Run`/`TurnEvent`
rows (flusher and compaction), the rollup tables with their cache (flusher,
compaction and dashboard), and `Student.classroom`, which ingest reads to accept a run,
the slices of a compaction to find their runs and the dashboard to find its pupils, while
teachers change it.

## 2. Modules

| Module | Models | Lines of the program |
|---|---|---|
| `RunLedger` | what ingest promises: a run is unknown, held, recorded, lost or erased; acknowledged and totals with it | abstract |
| `IngestPipeline` | endpoint, Redis list, fallback table, flusher, incremental totals | `ingest_router.py`, `flush_ingest_buffer.py`, `PendingIngest`, `Run` |
| `IngestPipelineProofs` | theorems about the two modules above | |
| `WeeklyCompaction` | compaction of a week with its slices, pool, record, archives, trends; rebuild and archive commands | `compact_weekly_runs.py`, `weekly_aggregation.py`, `replay_archives.py`, `run_bucket_trends.py`, `verify_weekly_rollups.py`, `rebuild_weekly_rollups.py`, `archive_week_replays.py` |
| `WeeklyCompactionProofs` | theorems about it | |
| `RunBuckets` | the buckets of `StudentRunBucketTrend`: append by the flusher, rebuild, and the transactions around both | `rollup_incremental.py`, `run_bucket_trends.py`, the callers in `flush_ingest_buffer.py`, `compact_weekly_runs.py`, `rebuild_weekly_rollups.py` |
| `RunBucketsProofs` | theorems about it: chunks, types and counting, order and layout | |
| `Collections`, `DataInduction` | two operators of the libraries as definitions a proof can expand; lemmas on sequences, finite sets, sums and extremes that need an induction | |
| `Accounts` | registration, review, panel and API pages on schools, teachers, accounts, classrooms, pupils | `views.py`, `admin.py`, `models.py`, `apps.py`, `forms.py`, `serializers.py`, `clear_school_data.py` |
| `AccountsProofs` | theorems about it | |
| `DashboardCache` | requests for the dashboard and its sections, the cache, the deletions of a compaction | `views.py`, `rollup_analytics.py`, `compact_weekly_runs.py` |
| `DashboardCacheProofs` | theorems about it | |
| `Gameplay` | payloads, their validation, the run and turns stored of them, cards | `run_ingestion.py`, `ingest_schemas.py`, `ingest_router.py`, `weekly_aggregation.py`, `analytics.py` |
| `WeeklyTables` | each weekly table as a function of the runs it counts; the merges of the upserts | `weekly_aggregation.py`, `weekly_rollups.py`, `rollup_incremental.py` |
| `RollupAnalytics`, `RunAnalytics` | the analytics answered from the tables, and from raw turns | `rollup_analytics.py`; `analytics.py` |
| `DashboardMetrics` | accuracy, times, learning curve, stability, panels | `run_bucket_trends.py`, `views.py` |
| `RollupVerification` | the verifier's own count of the turns | `verify_weekly_rollups.py` |
| `WeeklyStatistics` | flushers, moves, weeks and compactions over the contents of all these tables; it composes the six modules above | `rollup_incremental.py`, `weekly_aggregation.py`, `compact_weekly_runs.py`, `flush_ingest_buffer.py` |
| `ClosedBooks` | what the weekly tables promise: runs are counted in open weeks, and a closed week keeps the figures of the runs it had | abstract |
| `WeeklyStatisticsProofs`, `WeeklyDetailsProofs` | theorems about `WeeklyStatistics`: the run-level tables, the dashboard and its curves; the turn-level tables, their verification, what is answered from them, and that it implements `ClosedBooks` | |
| `MC...` | small values for the constants | |

### IngestPipeline and RunLedger

One action per call the code makes to Redis or PostgreSQL, because between two such
calls anything else may happen. A worker's `stage` is where `_persist_run_payload`
stands: `push` with `tries` attempts left, then `fallback`. A flusher's `fstage` walks
the loop of `handle`: `drain` (query `PendingIngest`), `push` and `delete` per fallback
row, `pop` (LRANGE and LTRIM in one MULTI), `dedup`, `commit`, and `requeue` after a
failed transaction. `snapshot` is the list of rows the drain read, `batch` what was
popped, `fresh` the positions that passed the duplicate check. Exceptions that leave
`handle` are `Restart`: compose restarts the container, and what was in hand is gone
(`dropped`, a history variable). For each call to a service there is the action in which
it succeeds, the one in which it is refused, and the one in which it is applied but the
reply is lost.

A payload is its run id, with the student it names (`StudentOf`), whether it carries an
end time (`Dated`: only then is the recording window checked) and whether its id is
longer than `Run.id` (`Oversized`: the Unity schema sets no limit, the column holds 36,
and `PendingIngest.run_id` holds 64, so `Oversized` stands for lengths between the two).
The statistics are one counter per student; a transaction adds the runs it inserts.
Redis and PostgreSQL keep what they acknowledged: losing data inside them is outside the
model.

`RunLedger` has five states per run. `Ledger == INSTANCE RunLedger WITH status <- ...` is
the refinement mapping: a run is *held* while it is in the list, in the fallback table or
in a flusher's hands, *recorded* when it is a row, *lost* when only a dead flusher had it,
*erased* when its student is gone.

### WeeklyCompaction

A statistics table is the set of runs it counts: `runRollup` (the week's run-level
tables), `turnRollup` (the tables computed from turns) and `trend` (buckets). `raw` is
the set of runs that still have their `TurnEvent` rows, `stamped` those with
`raw_data_compacted_at`, `archive[r]` what the archive of a run contains. `teacher` is
whose classroom a pupil is in *now*, and `named` the teacher whose name the pupil's rollup
rows of the week bear: two things in the code, two variables here. `Move` changes the first
at any time, of one pupil (moved) or several of one teacher (a classroom handed over).

A slice (the week, or a teacher) goes through `read`, `write`, `list`, `archive`/`build` per
run, `buckets`, `verify`, `delete`, `stamp`. Every query of the code is evaluated where the
code evaluates it, by the teachers of that moment: the list of teachers (`Work`, once per
command), the count that decides whether there is anything to do (`FirstPlace`), the read of
the aggregation (`ReadWeek`), the archive loop's list (`List`), the verifier's counts
(`Verified`), the deletion (`Doomed`, `DeleteTurns`) and the update that stamps
(`StampRuns`). The transaction of `WriteRollups` deletes the rows that *name* the slice's
teacher (`Named`) and inserts those of the runs that were read with the teacher they were
read with; a pupil's row that names somebody else is in the way (`InTheWay`), and the slice
fails (`WriteCollides`).

A command is `open`, `run`, or `orphaned` when its orchestrator was killed and its pool workers
were not. Modes are the ways the code is
invoked: whole week, per teacher one after the other, per teacher in a pool (whose workers
get `--skip-verification` and no record), one teacher by hand, `rebuild_weekly_rollups`,
`archive_week_replays`. Teachers are taken in any order; the code takes them by id.

A pool worker's log goes to a pipe that its parent reads when the worker has ended
(`compact_weekly_runs.py:318`, `:374`). `lines` counts what a worker has logged of runs, two
lines for one that is archived and one for an archive that is kept; beyond `PipeHolds` the
worker is `Blocked` and has no step, while the orchestrator polls. An orphan's pipe has no
reader, so that it ends with an error or finishes; both are allowed.

Two history variables name whom a property leaves out. `moved` are the pupils who have ever
changed teachers, `astray` those who did while a command was at work (`Busy`); a run is
`Steady` if it is not `Late` and its pupil is not astray. What becomes of the others is in
section 4.

What the module merges: turns and triggers are one set and deleted by one selection; the
chunks of a streamed query are one read (the flusher inserts a run with its turns in one
transaction, so a chunk boundary shows nothing that the gap between `read` and `write` does
not); writing the archive file and its row is one step; so is the flusher's transaction; the
rows a pupil's week has in the run-level tables are one. A collision is with rows that are
committed; two transactions that insert the same row at the same time are not modelled. The
log lines of an archive that fails are taken to fit into the pipe. What a move does to the
room's and the level's rows is in `WeeklyStatistics`.

### RunBuckets

Where `WeeklyCompaction` has a set of counted runs, this module has the rows: a bucket is
its (student, level) pair, its index, the set of runs its sums add up, and a generation,
which tells a recreated row from the deleted one with the same key (in the code a new
random primary key does). `created` holds the runs in the order of `created_at`, which
`bulk_create` sets, so it includes runs whose transaction is still open.

A flusher's transaction is `FlushBegins` (insert), `FlushCounts` (the upserts of the weekly
statistics, whose row lock keeps a second flusher with the same student and week waiting,
then the query for the last buckets) and `FlushCommits` (UPDATE by id, INSERT, COMMIT). A
rebuild is `RebuildBegins` (runs and pairs of the week), `RebuildLists`, per pair
`RebuildScans` and `RebuildDeletes` (a DELETE acts on what was committed when the statement
began, and waits for other transactions' locks), and `RebuildCommits`. `FlushCollides` and
`RebuildCollides` are violations of the unique constraint. `RebuildEnds` stamps the runs
as compaction does, or not, as after a rebuild by hand.

`behind` and `raced` are history variables: the pairs whose buckets another transaction
rewrote under an open one, and those last written by a transaction in that position.

### Accounts

Registration (`views.py`) and review run without a transaction, so each of their writes is
an action; `signup[t].stage` and `review.stage` say which write comes next, and `SignupDies`
and `ReviewDies` end a request anywhere. A view that has loaded a row writes it back whole:
`review.copy` is the account the loaded instance names, and `LinkAccount`, which saves an
instance that says PENDING, undoes what happened to the row meanwhile. Django's admin wraps a
form page in a transaction, and the superuser's pages are one action each, side effects of `save()`
included.

A transaction locks nothing that was only read, and the API has none, so what a teacher does
to pupils and classrooms is two actions: a `Load...` takes the rows, checks that they are
the teacher's own and remembers them in `edit[t]`, and `SaveRoom`, `DeleteRoom`, `AddPupil`,
`SavePupil`, `DeletePupil` later write them whatever they are by then: the whole row, so
that a pupil returns to the classroom it was loaded with, a classroom to the teacher who had
it, and a deleted row is inserted again, as far as foreign keys and unique constraints
allow. `overruled` is a history variable: teachers whose loaded rows a page of the superuser
changed or deleted before they were written (`Withdrawn`), and those who lost theirs to such
a write in turn. Each teacher has one edit at a time; a new classroom, which nobody else can
have touched, is one action.

The constraints of the database are guards or failures: one active school per
identity, unique usernames (`create_user` fails and the request ends), unique pupil names in a
classroom; foreign keys cascade.

A school is its identity (address, mail and director), a teacher's username the front of the
mail, so two mails may give one name; an account is three flags. One superuser works, one
request at a time; any number of teachers register and work. `overtaken` is a history
variable: teachers whose registration wrote while a review held a copy of their row. For those
the code promises nothing (the copy may be of a teacher without an account), and the
properties except them by name.

### DashboardCache

A request is `Ask` (get), one action per query (`ReadPupils`, `ReadWeekly`, `ReadBuckets` or
`ReadTurns`), `Store` (set), `Answered`. A page is the pupils and runs it stands for. A
compaction is coarser than in `WeeklyCompaction`: a slice is one action, but the deletions
of the two key patterns are two, with `Interrupted` between any of them. `Day` lets the
pages age; a request is killed by Gunicorn after 30 seconds, so none is open over a day.
`outdated` (a page that was computed before a deletion and stored after it), `silent` (a
compaction that ended without its deletions), `since` and `settled` are history. The time
bounds are the claim: nothing deletes a page when runs are counted or pupils move, so what
can be promised is the lifetime.

### Gameplay to WeeklyStatistics

Payloads, stored runs and turns are records, cards have the four fields the code asks for.
`StoredRun` models what `_build_run_records` does: indexes, place, time, the columns of a
turn, the chain, `None` for a missing field. The tables are functions from the columns
of their unique constraint to counters. A summary of a column is its sum, count, sum of
squares, minimum and maximum, from which the code's mean and deviation come; floats are exact
fractions in `DashboardMetrics`, square roots stay under the root. Dates are weeks, a
point in time is the order of commits.

`WeeklyStatistics` moves them: `Insert` (pop and insert are one step here, what lies between
is in `IngestPipeline`), `Commit` with the upserts, `Rollback`, `NextWeek`, `Move` of a pupil,
`StartCompaction`, `Slice` (aggregate, verify, delete; its steps and faults are in
`WeeklyCompaction`), `SliceFails`, `Finalize`. It assumes that the transactions of a week are
over before that week is compacted (a guard of `StartCompaction`); what happens otherwise is
in `RunBuckets` and section 4.

`ClosedBooks` is its abstract specification: runs are counted, but none in a closed week,
and a week is closed once, with the figures of the runs that were counted in it, turns and
all. `Books == INSTANCE ClosedBooks WITH counted <- AllRuns, book <- Book` is the refinement
mapping. `Book` has the weeks that are done and in which nobody moved, and of each what the
eleven tables of pupils say of it (`Recorded`; the room's table follows by `RoomsAddUp`);
the figures it should have (`Figures`) are an aggregation of all turns the runs ever had,
which by then are deleted.

Where raw and rollup queries define a figure differently, no property says they agree, and
the model has both definitions:

- the deviation of elapsed time is of the population in one and of the sample in the other;
- median and quartiles of times are, from rollups, the mean and the extremes;
- the average decision time per card type is clipped from rollups only;
- a number that was chosen without a time counts as zero in the rollup's average and not at all
  in the raw one;
- the raw share of offers lists every family with every other, the rollup those that occurred;
- the else-branch of bag conditionals counts different turns;
- the raw rate of wrong moves divides by zero on a level without moves.

A tile sent without `tileType` (which the Unity schema allows) is stored without a type, and
the for-each statistics then never see its opponents (`docs/reference/ingestion-api.md:214` tells
which field stands for the type).

## 3. Runs

| Run | Question | Result |
|---|---|---|
| `ingest_safety` | Do acknowledged runs stay accounted for, do totals equal rows, does the pipeline implement the ledger, is a fallback row only deleted after it is handed over? Two flushers, two students one of whom may be deleted, two faults of any kind | holds, 328k states |
| `ingest_liveness` | Does an acknowledged run become a row, does the fallback table empty? | holds under fairness |
| `ingest_poison` | Does a payload PostgreSQL always refuses keep others waiting? Batches of one | holds |
| `ingest_loss` | "No item is lost" | violated: finding |
| `compaction` | Can runs be replayed, are they counted, is COMPACTED true, are turns only deleted when counted and archived, whoever moves meanwhile? Does every command end, or stand before a full pipe? Six modes, two commands one after the other, one fault, one change of teacher, a run that comes in late | holds, 882k states; the last under fairness |
| `compaction_retry` | "Retry is safe" | violated: finding |
| `buckets_safety` | Is a run in at most one bucket, do append and rebuild agree on the layout when neither overtakes the other, does a flush forget a run of its week? Two flushers, one rebuild, two weeks, one abort | holds, 1.3M states |
| `accounts` | Are the rejected locked out, accounts and schools unshared, does the cascade reach whom it should, do teachers' edits disturb nobody else unless the superuser changed what they had loaded? Registrations, reviews, edits that hold no lock, pages and deletions in every order | holds, 1.2M states |
| `accounts_access` | "Approved teachers are ... given scoped Django-admin access" | violated: finding |
| `dashboard` | Whose pupils does a page show, which runs may it lack, does it show a finished compaction? | holds, 1.8M states |
| `statistics` | Do upserts and aggregation give the same rows, do the tables agree with each other and with the rooms, does the verifier accept them, do answers and figures survive the deletion of the turns, does a learning curve's slope fit its points, does a closed week stay as it is, do flushers and compactions implement `ClosedBooks`? | holds, 5.2k states |
| `statistics_moves` | "It deletes the rolled-up rows and rebuilds them from raw" | violated: finding |

**Bounds.** Faults, requests and commands are counted and bounded (`MaxFaults`,
`MaxRequests`, `MaxCommands`); everything else is finite by itself. Two runs and two
requests give a duplicate of one run or two different runs; two flushers and a batch of two
give the race between dedup and insert, a batch with a duplicate, and a batch that mixes
students. Two faults give an outage during the recovery from another fault. For compaction,
three runs of two teachers' pupils, two of one (student, level) pair, give a slice with
several runs beside one that may fail; one of the two comes in late, before, between or
after any step. Two commands give a command and its retry, or a rebuild or an archive run
before or after it. One fault stops one of them. One move (`MaxMoves`) takes one pupil, or
none, or both of a teacher, to the other teacher at any point; one is enough to put a run in
two slices, in none, in the way of another row, or between a list and a deletion.
`PipeHolds` = 3 is the least with which a slice of one run fits into the pipe and a slice of
two fills it at the last line; the program's pipe takes some hundred runs. The run keeps
archives (`Overwrite` = FALSE) and has one command at a time; what holds otherwise is proved
(section 5). For the buckets, a size of two with three runs of a pair gives a last bucket
that is full, one that has room and a batch that spans both; two levels of one student give
a transaction over two pairs and a rebuild that deletes them one by one; two weeks give a
rebuild that leaves out the runs of the open one. Flushers are interchangeable, so
`buckets_safety` uses symmetry.

For the accounts, `MaxEvents = 2` counts pages the superuser saves in the panel and requests
that die; registrations, reviews by the views and everything teachers do are not counted,
but at most two requests, `MaxRequests`, are in progress at a time, and an edit counts for
two: it meets the superuser's pages, which are not counted, and not a registration or a
review of the same moment, with which it shares no row but the teacher's. Two schools have
one identity and two teachers one username; two classrooms and a pupil give a move, and a
hand-over under an edit. That an edit may surprise another teacher's edit is covered by the
theorem only. (The theorems have no bounds.) No two pupils of the run have one name; no
property depends on names. On the dashboard two days stand for the seven a page lives, two
rooms of two teachers and a pupil with a run in each of two weeks give a move, a page of a
pupil who left, and a compaction between two pages; one worker is enough because requests
share only the cache, and one request against the compaction, the flusher and the moves is
where the order matters. For the statistics six payloads give a card of every family, both
forms, one that validation refuses (its counts do not fit its turns) and one that PostgreSQL
refuses; they arrive in one order, as batch boundaries, flushers and weeks vary where each
lands. Two weeks, one move, buckets of one run, so that a curve has three points.

`CHECK_DEADLOCK FALSE` stands in the compaction, accounts and statistics configurations
because a system with no command running and nothing left to do is at rest (in `compaction`,
that a running command gets stuck nowhere but before a full pipe is `CommandEnds`). The
ingest, bucket and dashboard runs check deadlock.

`BatchSize = 1` in `ingest_poison` is the boundary where the requeue at the tail protects
the others. With larger batches a refused payload takes along whatever it is popped with;
if the queue holds less than a batch, that is everything, again and again. The team knows
(`OPTIMIZATION_AUDIT.md:43`), and no passing run claims otherwise: `AckedGetsRecorded` is
checked without oversized ids for `BatchSize = 2`.

**Fairness.** The flusher is an endless loop in a container with `restart: always`
(docker-compose.yml), so each flusher's next step is weakly fair; outages end
(`RedisReturns`, `DbReturns`). Requests, faults and deletions have no fairness. A started
command is a process that runs: its steps are weakly fair, starting one is not. A worker
whose log fills its pipe has no step to be fair to (`Blocked`); this is the one state in
which a command may stay.

## 4. Findings

1. `ingest_loss`: a database error in the duplicate lookup, which stands outside the `try`
   block, loses a popped batch (write-buffering-adr.md:57 says no item is lost).
2. `compaction_retry`: a retry recomputes the rollups of slices already compacted, from
   turns already deleted, and wipes their turn-level statistics (the handoff note calls the
   retry safe).
3. `accounts_access`: a teacher rejected before an account existed and approved again in the
   panel gets an account that is not staff and in no group (admin.py:225), so that neither the
   panel nor the API lets the teacher in; architecture.md:111 promises both.
4. `statistics_moves`: a slice deletes the week's rows that name its teacher and inserts those
   of the pupils the teacher has now. The row of a pupil who came from another teacher since
   the flusher wrote it names the former one, stays, and collides, at every attempt
   (weekly_aggregation.py:139 against rollup_incremental.py:9).

Seen while modelling and in the models, without a run of their own:

- rebuilding the trends of a past week drops the runs of the open week from the table the
  dashboard reads (`run_bucket_trends.py:175`), until their own week is compacted;
- a worker of the pool that fails leaves the record PENDING (`compact_weekly_runs.py:324`), and
  the trigger then starts another compaction (`views_internal.py:76`);
- a week that is not over may be compacted by hand; pool workers do not verify, and the
  deletion is by a fresh query (`compact_weekly_runs.py:365`; `docs/guides/rollup-runbook.md:32`);
- pool workers log to a pipe that the orchestrator reads only when they have ended
  (`compact_weekly_runs.py:374`, `:318`, two lines per run at `:571-590`), so that a slice
  of some hundred runs, in the default mode, stops its worker and leaves the orchestrator
  polling (`:343`) for ever. Without its second disjunct TLC finds `CommandEnds` violated: a
  slice of two runs and `PipeHolds` = 3;
- a pupil who changes teachers while the slices run. One who goes from a teacher still to
  come to one who is done is in no slice, and the week is recorded COMPACTED without the run
  (`compact_weekly_runs.py:210`, `:500`). One who comes to the slice's teacher between
  aggregation or archive loop and the deletion loses turns that are neither counted nor
  archived (`:648`; pool workers do not verify), and so does one who comes between the
  verification and the deletion. Between the deletion and the stamp, the stamp is on other
  runs than the deletion (`:654`). If the strict forms are checked, without `Steady` and
  `moved`, TLC finds `ReplayAvailable`, `RunRollupsComplete`, `CompactedIsDone` and
  `DeletedIsSafe` violated, each by one command, one move, no fault and no late run;
  `docs/decisions/weekly-rollup-prd.md:31` and `docs/guides/rollup-runbook.md:32` promise
  otherwise. What survives is that nobody else's runs are affected;
- a pupil who changed teachers before the compaction, whose row still names the former one:
  that teacher's slice deletes the row, and only the new teacher's makes it anew
  (`weekly_aggregation.py:139`); in between, or if the slice fails, the run is counted
  nowhere. This is why `RunRollupsComplete` excepts `moved` and not only `astray`;
- a run inserted into a week that is being compacted (a week that is not over) is treated
  like that of a pupil who comes: uncounted or unarchived, and its turns deleted, if it
  arrives between two queries;
- an edit of a teacher (`views.py:792-834`, `admin.py:424`, `:572`) writes what it loaded. A
  pupil the superuser has moved in between returns, a classroom that was handed over is
  taken back with all its pupils, and a deleted row is inserted again. Without the exception
  of `overruled` TLC finds `OwnPupilsOnly` violated within 16 states; `views.py:832-833` says
  that updates are scoped by the queryset, "ensuring teachers can only modify/delete
  students they have access to";
- triggers that overlap (`views_internal.py:121`) can replace a good archive by an empty
  one: the second command finds a run without an archive when it lists it
  (`compact_weekly_runs.py:559`) and builds its own from the turns that are left
  (`replay_archives.py:29`) after the first has archived the run and deleted them. With
  `Commands` of two values TLC finds `ReplayAvailable` violated, where
  `docs/decisions/weekly-rollup-prd.md:31` wants replay kept available; what survives is in
  section 5;
- the flusher and a rebuild of the same pair are ordered by no lock: a new bucket can survive
  beside the recomputed ones, and one in the middle stays half full until the next rebuild
  (`run_bucket_trends.py:110`; `docs/architecture.md:137` wants the two paths to converge). What
  survives the race is `CountedOnce`;
- a compaction interrupted after its record is marked is not repeated, so its stale pages stay
  for their lifetime (`silent` in `DashboardCache`);
- no code that takes in or counts runs deletes a cache key (`flush_ingest_buffer.py:118`), where
  `docs/architecture.md:89` says that the cache is invalidated on every ingest: a dashboard goes
  on without new runs until a compaction or its timeout. `PagesMissOnlyRecentRuns` is what holds;
- the speed-versus-accuracy chart reads `Run` directly and is not part of the dashboard model.

## 5. Proofs

`IngestPipelineProofs` holds for every set of runs, students,
workers and flushers and every bound, from `IngestAssumption` alone.

- `TypeCorrect`: `TypeOK` is inductive as it stands; it says, beside types, what a flusher's
  position implies about what it holds.
- `AckedRunsAreAccountedFor`, `AccountingHolds`: that an acknowledged run is somewhere is not
  inductive: a flusher about to delete a fallback row, or about to drop a batch after its
  commit, might hold the last copy. `Settled` adds that it does not: the row's run was pushed
  and whoever popped it still has it or finished with it; the items of a batch to be
  committed are the fresh ones, rows, or repeats of the fresh ones. The lemma `FreshCovers`
  (least position of an item in the batch) is the heart of the second part. `Settled` has to
  survive the steps of every *other* flusher, which is what `Secured` states once.
- `FallbackRowsAreHandedOver`: from `Accounting`, as an action property.
- `TotalsAreTheRows`: the insert adds as many rows per student as the totals grow; needs that
  fresh positions hold different runs and no existing row, which is what the primary key in
  `Committable` gives.
- `PipelineImplementsLedger`: refinement, one lemma per group of actions, over the case
  analysis of `StatusOf`.

`AccountsProofs` holds for every set of schools, teachers,
classrooms and pupils, every assignment of names and identities and every `MaxEvents`, from
`AccountsAssumption`.

- `TypeCorrect`: `Rows` adds to the types that assignments and accounts belong to existing
  teachers, and that a review is about teachers it has loaded. Without the first a deleted
  teacher's classroom would have no row to refer to.
- `OneActiveSchool`: inductive with `Rows`: each step activates at most one school.
- `OwnPupils`: `Holding` says that a teacher who is not overruled still owns what the edit
  has loaded. A load makes it so; a page of the superuser puts whoever loses a row among the
  overruled (`OverruleHolds`); and a write of another teacher who is not overruled takes
  nothing away, since it changes only that teacher's own classrooms (`HolderDisturbsNobody`,
  `UndisturbedIsHeld`), while one of an overruled teacher passes the flag on (`WriteHolds`).
  Then a write of a teacher who holds disturbs nobody.
- `OneOwner`: the property is not inductive, since a request between two writes is about to
  link an account that nobody has yet. `Owned` says of all who have a *claim* on an account (a
  row, a registration or approval under way, a loaded copy) that the account exists and the
  claim is the only one. New claims are only ever on accounts that did not exist
  (`ClaimsStep`).
- `LockedOutWhenRejected`: needs `Owned`, that a review's copies agree with rows nobody has
  overtaken (`Copies`), and that who is about to be marked is locked out already (`Closing`:
  the code disables the account first). `Kept` says that no step but an approval in the panel
  opens an account.
- `CascadeReaches`: `Cascading` says of each teacher the cascade found that it is still to do,
  being done, done, or has another school, by the lemma that a set with one element of which
  one is known is that singleton.

`DashboardCacheProofs` holds for every set of runs, pupils, rooms,
teachers, pages and workers, any number of weeks and any lifetime of a page, from
`DashboardAssumption`.

- `TypeCorrect`: `Types` adds that only a week that is over is compacted, without which a week
  could be marked before it ends.
- `OwnPages`: the property speaks of answers, `Own` of pages in the cache and in hand. In the
  cache a page's age is `Lifetime` less the days it has left, and a pupil on it who is not the
  teacher's moved no longer ago than that; in hand, today, since a request outlives no day.
- `CompactionIsShown`: `Showing` says the same of a page about to be stored as of one in the
  cache, and from the moment its own pattern has been deleted: sections are fresh before
  dashboards are (`SectionsDone`, `DashboardsDone`). Every other step makes nothing staler
  (`NothingStaler`), a deletion flags the requests it overtakes (`Overtaken`).
- `OnlyRecentRunsMissing`: `AllComplete`, again with the age of a page: pupils and runs there for
  longer than a page's age are on it. A dashboard in hand is complete once it has read its
  rows, and knows the pupils whose rows it will read before (`Listed`).

`WeeklyCompactionProofs` holds for every instance that satisfies `CompactionAssumption`: any
runs, teachers, moves, late runs, faults and length of the pipe, and any number of
overlapping commands. Two theorems assume `Alone`: archives are kept (no
`--overwrite-archives`) and one process runs commands, as `compaction` does; without the last part
`RunsStayReplayable` is false (section 4).

- `TypeCorrect`: `Unstarted` adds that a slice in the waiting list has nothing left of a command
  before, `Routes` which positions a mode comes to.
- `RunsStayCounted`, `CompactedWeeksAreDone`, `OverlappingDeletionsAreSafe`: the invariant,
  `Shared`, is about one run at a time (`Fine(r)`), since a run whose pupil moves ends what
  is known of it and of no other. `Known` survives anything: a run's row and trend stay.
  `Settled` says, of pupils who have kept their teacher, that the row names that teacher, so
  that the slice which deletes the row is the one that makes it anew, and no other can
  collide with it. `Held` is about steady runs: `Secured` says what each slice has achieved
  of a run that is *here* (`Here`: selected by its teacher now), and only while the run has
  its turns, because commands that overlap have the runs in common, and what one has counted
  another may recount. `Covered` says that each steady run belongs to a slice that is done
  or waiting. `Keeps` is what no step of anybody takes away, and `FineMove` reduces a step
  of a slice to its own position. A move puts the pupil astray if a command is at work; if
  none is, no slice has achieved anything that could be lost (`MoveFine`).
  `OverlappingDeletionsAreSafe` needs that archives verify (no "archive" among the faults):
  when verification of the archive one command wrote fails, the run of another one that has
  passed its own loses its turns without a good archive.
- `RunsStayReplayable`, `DeletionsAreSafe`, for `Alone`: `Sound`, over `Shared`. `Kempt`
  says that a run has its turns or, stamped, an archive of them; `Filed` what the archive
  loop has done, also if an archive may fail; `Apart` that a command works on the whole week
  or on teachers, so that a run is here in one slice.

`DataInduction` has the inductions over data that the other modules need. The library's
induction theorems take a predicate, which the provers cannot instantiate.
`IntervalInduction` states it with a *set* instead: a set that has 0, and with every number
below n the next one, has all of 0..n. It is proved without induction, from the pigeonhole
principle. `SequenceInduction` is the same for the prefixes of a sequence, `SubsetInduction` for
finite sets; what `Keep`, `ToSet` and the library's `SumFunction`, `Min` and `Max` compute
follows by taking the set of prefixes or subsets of which it holds (`SumWithout`,
`SumUnion`, `SumOfFibres`: the sum over keys of the sums under each key). What a recursion along
an interval of integers computes, and the running sums of a sequence, follow in the same way.

`RunBucketsProofs` holds for every set of runs, pairs, weeks and
flushers and every size of a bucket and a batch, from `BucketsAssumption`.

- What a rebuild makes of a list of runs (`Placed`) and what is left of a list (`Keep`) are
  recursive functions; what they compute is proved with `DataInduction`.
- `PlacedIsChunks`: a rebuild puts the i-th run of a pair into bucket (i - 1) \div size, i.e.
  its row k has the k-th chunk; `ChunkAppend`, `LayoutFill` and `LayoutAppend` say the same of what
  a flush appends. The two paths meet in these lemmas.
- `TypesHold`, `RunsAreCountedOnce`: one inductive invariant, `SafetyInv`. A flusher writes back a
  row it read earlier, and a rebuild recreates rows under their keys, so disjoint rows are not
  inductive: the invariant speaks of *versions*, the rows of the table and those a flusher read
  and will find again. `RunsInOnePlace`: a run is in the queue, one batch or the rows.
  `VersionsApart`: two versions that share a run are of one row. `RebuildsApart`: what a rebuild
  has listed of a pair it has looked up is in no version it will leave, or there is a new bucket 0
  in its way and its INSERT fails on the constraint. `TailsOK` and `RebuildsOK` say what an open
  transaction holds.
- `CurrentHolds`: `CurrentInv`, over `SafetyInv`. A flusher whose pair nobody has rewritten (it is
  not in `behind`) has read the last bucket there is (`TailsCurrent`), and a rebuild has seen every
  bucket of the pairs it has looked up (`AllSeen`).
- `OwnWeekIsKept`: `OwnWeekInv`: a batch is of one week, since it is inserted at one moment
  (`OneWeek`); flushers that have counted hold different students' weeks (`CountingExcludes`); a
  row to be written over holds no run of the writer's week that the writer has not read
  (`OwnWeekRead`).
- `BucketsAreCanonical`: `LayoutInv`. Of a pair that is not behind, a batch's runs come after the
  counted ones in `created` (`NewerThanCounted`), and a rebuild lists runs in that order
  (`ListedInOrder`). Then an append extends the chunks (`FlushExtends`), and a rebuild makes them
  anew (`RebuildLaysOut`).

An attempt at this proof showed that `OwnWeekKept` was too strong as it stood. It said of every
pair that a flush forgets no run of its week. With three flushers whose batches are of three
weeks that is false: one writes over a run of the second's week, the second restores it from
its earlier read, the third overwrites it again from its own. TLC confirms it (18 states with
three flushers and weeks; the run has two of each). The property now excepts the pairs that are
`raced` already, whose layout nobody promises.

`WeeklyStatisticsProofs` holds for every set of payloads that the schemas let through, every
set of rooms, teachers and flushers, any order of arrival, any number of weeks, moves and
failures and every batch size, from `StatisticsAssumption` (score and moves are integers, the
times of a Unity payload are there, lists in a payload are lists, the ceiling on a turn's time
is a number, run ids arrive once).

- `TypeOKTheorem`: `BaseInv`. A run is in the buffer, in one batch or a row (`RunsInOnePlace`), so
  that a commit adds runs nobody has counted; stamps lie in weeks that have begun (`Stamped`);
  a week that is done or under compaction has no open transaction in it (`Closed`).
- `ClosedWeeksStayClosedTheorem`: from `Closed`. A commit makes rows only of weeks with a stamp
  in them, a slice of the week under compaction.
- `SummariesExactTheorem`: `Summaries`. Every column of a row is that of the runs under its key:
  `RowsMerge` says that the upsert of the rows of two disjoint sets of runs is the row of their
  union (counts, sums, sums of squares, extremes, latest and first run), `FreshRows` that an
  aggregation gives the row of the same runs. The property alone is not inductive: that a slice
  removes and remakes the same rows needs to know whose they are, so `InStep` adds that a row
  names its pupil's room and teacher until the pupil moves or the week is done, and that a row
  that is missing is of a week in which nobody will be counted again.
- `RoomsAddUpTheorem`: `RoomRows`, over `Summaries`. A room's row is what the runs come to whose
  pupil's *row* names the room (`Under`), which is what survives a move after the week is done;
  rows by level name the same room. `RoomsCommit` and `RoomsSlice` show that the three tables
  take in the same runs, `RowsAddUp` that sums over rows are sums over runs.
- `DashboardFollowsHistoryTheorem`: `DashboardInv`, `RoomsInv` with `AtHome`: while no week is
  disturbed, every pupil's row names the room the pupil is in, and a room has rows of the weeks in
  which its pupils have runs. Any move ends that, for the week that runs is never done
  (`AtHomeStep`). So the tables have the keys and counters of those made anew; `SameInfo` and
  `SameRoom` say that a page reads nothing else of them, `RowsAreHistory` that a pupil's rows add
  up to its runs and the latest of their runs is the pupil's latest.
- `CurvesAreFittedTheorem`: the dashboard fits a line to the mean accuracies of a pupil's buckets by
  sums of products of deviations; the property says that its slope is the one the moments of least
  squares give. Fractions are in lowest terms, made with the least denominator that will
  do. The lemmas say first that adding, multiplying and dividing such fractions is what it
  is for the pairs of integers they stand for, and that a sum along the points can be brought
  to one common denominator; then both slopes are fractions of integers, equal because the
  deviations of the points' places from their middle add up to zero.
- `CardsReadAlikeTheorem`: from what is stored for a turn, whatever was sent.

`WeeklyDetailsProofs` is over the same assumptions and the invariant of `WeeklyStatisticsProofs`.

- `DetailsHold`: `DetailsInv`. The nine turn-level tables are written when a week's slice is
  made, and the turns they count may be deleted right after it. `Made(w)` is the set of runs
  of w whose slice has been made. `DetailRows` says that a table's rows of a week nobody
  moved in are those of all turns of `Made(w)`, deleted or not; it is inductive only with
  `TurnsThere`, that a run that has lost its turns is one of them. `DetailsOfParts` is the
  reason a slice may replace the rows of its own pupils alone: the tables of turns of
  different pupils have no row in common.
- `TablesAgreeTheorem`: regroups those rows. `HotspotRows`, `ChainRows`, `TypeRows` and
  `FamilyRows` say that the rows of a level add up to the number of its turns (or mistakes),
  however they are keyed; `MovesOfRuns` ties that number to the moves the validation let
  through, one less than stored for a run that was won.
- `VerificationPassesTheorem`: `RootedInv`, `RoomsInv` with `Rooted`: a detail row hangs on its
  pupil's row of the week. This is why the verifier sees no row of an earlier attempt: such a row
  of one of the slice's pupils that the slice does not delete would hang on a row of another
  teacher, and that row would have been in the way (`SliceDetails`). The rest compares two counts
  of the same turns: `FamiliesPass`, `TypesPass`, `NumbersPass` and `ConditionalsPass` regroup the
  rows, kept by pupil, week and level, by level alone, as the verifier does, and `SummaryPass` adds
  them up. `BagsAre` says that the verifier's walk over a run's turns finds in the bag what the
  aggregation's does; `Remaining...` that a slice that is made again after turns were deleted is
  counted by both sides without them.
- `AnswersAgreeTheorem`: from `SummariesInv` and `DetailsInv`. `AnswersFind` says what a query
  reads in settled weeks: the rows that the closed runs and their turns come to, though they were
  written week by week and slice by slice (`DetailsOfRoots`). The `...Through` lemmas say that rows
  joined by what a query asks for (a level, a mistake, a space) add up to the count of the turns
  that answer to it; one `...Answer` lemma per figure then compares that count with the one the
  legacy query makes of the raw turns. The two programs do not read a turn alike: `CardIs` and
  `ComparingCards` say that the columns the aggregation goes by hold what the legacy query takes
  out of the card.
- `BooksAreKept`: the refinement of `ClosedBooks`. `RecordedFits` says that the tables of a
  closed week nobody moved in are the figures of its runs, from `DetailsInv` and
  `SummariesInv`; `Closed` that no runs are added (`RunsOfClosedWeeks`). `Commit` maps to
  `Count`, `Finalize` to `Close` if nobody moved, and every other step to a stutter, because
  it leaves both the runs and the closed weeks as they are.

What is left to TLC is liveness (`AckedGetsRecorded`, `PendingGetsDrained`, `CommandEnds`):
fairness and ENABLED are out of the prover's reach. Every invariant and every action property that
a passing run checks is stated by a theorem.

## 6. Not modelled

- `seed_database`, `prepare_benchmark_dataset`, the load tests and reports under `benchmarks`
  and `docs`: they make or measure data outside the system's operation.
- Analytics that no longer feed the dashboard (in `analytics.py`: 314-378, 417-510, 544-585,
  709-744, 1347-1948): read-only computations without a counterpart in the rollups.
- `verify_replay_archives`: reads and reports.
- The replay page: `WeeklyCompaction` says that it can find a run's data, not what it draws.
- A classroom that changes its teacher, outside `Accounts` and `WeeklyCompaction`: in
  `DashboardCache` and `WeeklyStatistics` pupils move and rooms keep their teacher (`TeacherOf`).
- Formats of single fields, passwords, sessions, templates, translations.
- The Unity game, Caddy, Kubernetes, Docker: only what they imply for processes (restarts, time
  limits, one flusher replaced by another).

## 7. Plan

1. Done: ingest, compaction, accounts, dashboard cache and buckets (model, runs, proofs),
   statistics (model, runs, proofs of every safety property and of both refinements).
2. Composition: `RunBuckets` shown to implement the `trend` of `WeeklyCompaction` while no
   flush overlaps a rebuild; a compaction with the steps of `WeeklyCompaction` over the tables of
   `WeeklyStatistics`.
