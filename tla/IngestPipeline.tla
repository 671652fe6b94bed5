---------------------------- MODULE IngestPipeline ----------------------------
(***************************************************************************)
(* The way of a finished game run from the HTTP endpoint to the Run table: *)
(*                                                                         *)
(*   ingest_run -- LPUSH --> Redis list --pop--> flusher --txn--> Run rows *)
(*        \                     ^                   |            + totals  *)
(*         `--> PendingIngest --'<---- RPUSH -------'                      *)
(*                                                                         *)
(* Request handlers (gunicorn workers) and flushers interleave at every    *)
(* Redis or PostgreSQL call.  Redis and PostgreSQL go down and come back,  *)
(* a reply may be lost after the server applied the call, a process may be *)
(* killed between two calls, and a student may be deleted at any time.     *)
(*                                                                         *)
(* A payload is its run id; StudentOf is the student it names.  Calls that *)
(* change nothing (400, 409 and 500 answers, a flusher that restarts with  *)
(* empty hands because PostgreSQL is down) are stuttering steps.           *)
(***************************************************************************)
EXTENDS Naturals, Sequences, SequencesExt, FiniteSets

CONSTANTS
    Runs,         \* run ids
    Students,
    StudentOf,    \* [Runs -> Students], the student the payload names
    Dated,        \* runs whose payload carries run_ended_unix_ms
    Oversized,    \* runs whose client-chosen id is longer than Run.id allows
    Removable,    \* students an administrator may delete
    Workers,      \* web workers, one request each
    Flushers,     \* flush_ingest_buffer processes (two during a redeployment)
    NoRun,        \* a worker without a request
    BatchSize,    \* INGEST_BUFFER_BATCH_SIZE
    MaxRetries,   \* INGEST_REDIS_MAX_RETRIES
    FaultKinds,   \* which of "redis", "db", "reply", "crash" may happen
    MaxFaults,    \* bound on the faults of a behaviour
    MaxRequests   \* bound on the requests admitted in a behaviour

ASSUME IngestAssumption ==
    /\ IsFiniteSet(Runs)
    /\ StudentOf \in [Runs -> Students]
    /\ NoRun \notin Runs
    /\ BatchSize \in Nat \ {0}
    /\ MaxRetries \in Nat \ {0}
    /\ MaxFaults \in Nat
    /\ MaxRequests \in Nat

VARIABLES
    redisUp, dbUp,     \* reachable
    windowOpen,        \* before Friday 20:00 of the week the runs ended in
    faults, requests,  \* how much of the two bounds is used
    stage, job, tries, \* per worker: where it is, its run, attempts left
    acked,             \* runs answered 202, or 200 "already ingested"
    buffer,            \* the Redis list, head first
    pending,           \* PendingIngest rows, oldest first
    serial,            \* primary key of the next PendingIngest row
    students,          \* students that exist
    rows,              \* Run rows
    totals,            \* runs counted in the incremental rollups, per student
    fstage,            \* per flusher: where its loop is
    snapshot,          \* per flusher: fallback rows still to move
    batch,             \* per flusher: popped items, in nobody else's hands
    fresh,             \* per flusher: positions of batch that passed dedup
    dropped            \* runs a dying flusher had popped (history)

env     == <<redisUp, dbUp, windowOpen>>
handler == <<stage, job, tries, requests>>
flusher == <<fstage, snapshot, batch, fresh>>
tables  == <<students, rows, totals>>
parking == <<pending, serial>>
vars    == <<env, faults, handler, acked, buffer, parking, tables, flusher, dropped>>

Stages  == {"idle", "push", "fallback"}
PendingRow == [run : Runs, pk : Nat]
FStages == {"drain", "push", "delete", "pop", "dedup", "commit", "requeue"}

TypeOK ==
    /\ redisUp \in BOOLEAN /\ dbUp \in BOOLEAN /\ windowOpen \in BOOLEAN
    /\ faults \in 0..MaxFaults /\ requests \in 0..MaxRequests
    /\ stage \in [Workers -> Stages]
    /\ job \in [Workers -> Runs \union {NoRun}]
    /\ tries \in [Workers -> 0..MaxRetries]
    /\ \A w \in Workers :
        /\ stage[w] # "idle" => job[w] \in Runs
        /\ stage[w] = "push" => tries[w] > 0
    /\ acked \subseteq Runs /\ rows \subseteq Runs /\ dropped \subseteq Runs
    /\ students \subseteq Students
    /\ buffer \in Seq(Runs)
    /\ pending \in Seq(PendingRow) /\ serial \in Nat
    /\ totals \in [Students -> Nat]
    /\ fstage \in [Flushers -> FStages]
    /\ snapshot \in [Flushers -> Seq(PendingRow)]
    /\ batch \in [Flushers -> Seq(Runs)]
    /\ fresh \in [Flushers -> SUBSET Nat]
    /\ \A f \in Flushers :
        /\ fresh[f] \subseteq DOMAIN batch[f]
        /\ fstage[f] \in {"push", "delete"} => snapshot[f] # <<>>
        /\ fstage[f] \notin {"commit", "requeue"} => fresh[f] = {}
        /\ fstage[f] \notin {"dedup", "commit", "requeue"} => batch[f] = <<>>

Init ==
    /\ redisUp = TRUE /\ dbUp = TRUE /\ windowOpen = TRUE
    /\ faults = 0 /\ requests = 0
    /\ stage = [w \in Workers |-> "idle"]
    /\ job = [w \in Workers |-> NoRun]
    /\ tries = [w \in Workers |-> 0]
    /\ acked = {} /\ rows = {} /\ dropped = {}
    /\ students = Students
    /\ buffer = <<>> /\ pending = <<>> /\ serial = 0
    /\ totals = [s \in Students |-> 0]
    /\ fstage = [f \in Flushers |-> "drain"]
    /\ snapshot = [f \in Flushers |-> <<>>]
    /\ batch = [f \in Flushers |-> <<>>]
    /\ fresh = [f \in Flushers |-> {}]

-----------------------------------------------------------------------------
(* The environment.                                                        *)

Fault(kind) ==
    /\ kind \in FaultKinds
    /\ faults < MaxFaults
    /\ faults' = faults + 1

RedisFails ==
    /\ redisUp /\ Fault("redis")
    /\ redisUp' = FALSE
    /\ UNCHANGED <<dbUp, windowOpen, handler, acked, buffer, parking, tables, flusher, dropped>>

RedisReturns ==
    /\ ~redisUp
    /\ redisUp' = TRUE
    /\ UNCHANGED <<dbUp, windowOpen, faults, handler, acked, buffer, parking, tables, flusher, dropped>>

DbFails ==
    /\ dbUp /\ Fault("db")
    /\ dbUp' = FALSE
    /\ UNCHANGED <<redisUp, windowOpen, handler, acked, buffer, parking, tables, flusher, dropped>>

DbReturns ==
    /\ ~dbUp
    /\ dbUp' = TRUE
    /\ UNCHANGED <<redisUp, windowOpen, faults, handler, acked, buffer, parking, tables, flusher, dropped>>

CloseWindow ==
    /\ windowOpen
    /\ windowOpen' = FALSE
    /\ UNCHANGED <<redisUp, dbUp, faults, handler, acked, buffer, parking, tables, flusher, dropped>>

\* Deleting a student cascades to its Run rows and to its statistics; the
\* payloads still buffered keep naming it.
DeleteStudent(s) ==
    /\ s \in students /\ s \in Removable /\ dbUp
    /\ students' = students \ {s}
    /\ rows' = {r \in rows : StudentOf[r] # s}
    /\ totals' = [totals EXCEPT ![s] = 0]
    /\ UNCHANGED <<env, faults, handler, acked, buffer, parking, flusher, dropped>>

-----------------------------------------------------------------------------
(* A request: the checks, the LPUSH attempts, the durable fallback.        *)

Release(w) ==
    /\ stage' = [stage EXCEPT ![w] = "idle"]
    /\ job' = [job EXCEPT ![w] = NoRun]
    /\ tries' = [tries EXCEPT ![w] = 0]
    /\ UNCHANGED requests

\* The student exists, the run is not yet a row, its week is still open.
Admit(w, r) ==
    /\ stage[w] = "idle" /\ dbUp
    /\ requests < MaxRequests
    /\ StudentOf[r] \in students
    /\ r \notin rows
    /\ windowOpen \/ r \notin Dated
    /\ requests' = requests + 1
    /\ stage' = [stage EXCEPT ![w] = "push"]
    /\ job' = [job EXCEPT ![w] = r]
    /\ tries' = [tries EXCEPT ![w] = MaxRetries]
    /\ UNCHANGED <<env, faults, acked, buffer, parking, tables, flusher, dropped>>

\* 200 "Run already ingested".
AnswerDuplicate(w, r) ==
    /\ stage[w] = "idle" /\ dbUp
    /\ StudentOf[r] \in students
    /\ r \in rows
    /\ acked' = acked \union {r}
    /\ UNCHANGED <<env, faults, handler, buffer, parking, tables, flusher, dropped>>

Lpush(r) == buffer' = <<r>> \o buffer

\* LPUSH answered: 202.
Enqueue(w) ==
    /\ stage[w] = "push" /\ redisUp
    /\ Lpush(job[w])
    /\ acked' = acked \union {job[w]}
    /\ Release(w)
    /\ UNCHANGED <<env, faults, parking, tables, flusher, dropped>>

AttemptFailed(w) ==
    /\ tries' = [tries EXCEPT ![w] = @ - 1]
    /\ stage' = [stage EXCEPT ![w] = IF tries[w] > 1 THEN "push" ELSE "fallback"]
    /\ UNCHANGED <<job, requests>>

EnqueueRefused(w) ==
    /\ stage[w] = "push" /\ ~redisUp
    /\ AttemptFailed(w)
    /\ UNCHANGED <<env, faults, acked, buffer, parking, tables, flusher, dropped>>

\* Redis applied the LPUSH and the reply timed out: a RedisError as well.
EnqueueReplyLost(w) ==
    /\ stage[w] = "push" /\ redisUp /\ Fault("reply")
    /\ Lpush(job[w])
    /\ AttemptFailed(w)
    /\ UNCHANGED <<env, acked, parking, tables, flusher, dropped>>

\* PendingIngest.get_or_create: run_id is unique.
Parked == {pending[i].run : i \in DOMAIN pending}

StorePending(r) ==
    \/ r \in Parked /\ UNCHANGED parking
    \/ /\ r \notin Parked
       /\ pending' = Append(pending, [run |-> r, pk |-> serial])
       /\ serial' = serial + 1

Fallback(w) ==
    /\ stage[w] = "fallback" /\ dbUp
    /\ StorePending(job[w])
    /\ acked' = acked \union {job[w]}
    /\ Release(w)
    /\ UNCHANGED <<env, faults, buffer, tables, flusher, dropped>>

\* Mutant: the handler answers 202 although nothing was stored.
FallbackRefusedAnswers202(w) ==
    /\ stage[w] = "fallback" /\ ~dbUp
    /\ acked' = acked \union {job[w]}
    /\ Release(w)
    /\ UNCHANGED <<env, faults, buffer, parking, tables, flusher, dropped>>

\* 503: the client is told to retry.
FallbackRefused(w) ==
    /\ stage[w] = "fallback" /\ ~dbUp
    /\ Release(w)
    /\ UNCHANGED <<env, faults, acked, buffer, parking, tables, flusher, dropped>>

\* The INSERT committed and the connection broke: 503 for a stored run.
FallbackReplyLost(w) ==
    /\ stage[w] = "fallback" /\ dbUp /\ Fault("reply")
    /\ StorePending(job[w])
    /\ Release(w)
    /\ UNCHANGED <<env, acked, buffer, tables, flusher, dropped>>

\* The worker is killed before it answers.
WorkerKilled(w) ==
    /\ stage[w] # "idle" /\ Fault("crash")
    /\ Release(w)
    /\ UNCHANGED <<env, acked, buffer, parking, tables, flusher, dropped>>

-----------------------------------------------------------------------------
(* The flusher: _drain_db_fallback, then _flush_batch, forever.            *)

GoTo(f, where) == fstage' = [fstage EXCEPT ![f] = where]

\* An exception out of handle(), or a kill: the container restarts the
\* command, and what it had popped exists nowhere else.
Restart(f) ==
    /\ GoTo(f, "drain")
    /\ snapshot' = [snapshot EXCEPT ![f] = <<>>]
    /\ batch' = [batch EXCEPT ![f] = <<>>]
    /\ fresh' = [fresh EXCEPT ![f] = {}]
    /\ dropped' = dropped \union ToSet(batch[f])

\* Mutant: without the early return on an empty table.
LoadFallbackAlwaysPushes(f) ==
    /\ fstage[f] = "drain" /\ dbUp
    /\ snapshot' = [snapshot EXCEPT ![f] =
                      SubSeq(pending, 1, IF Len(pending) < BatchSize
                                         THEN Len(pending) ELSE BatchSize)]
    /\ GoTo(f, "push")
    /\ UNCHANGED <<env, faults, handler, acked, buffer, parking, tables, batch, fresh, dropped>>

LoadFallback(f) ==
    /\ fstage[f] = "drain" /\ dbUp
    /\ snapshot' = [snapshot EXCEPT ![f] =
                      SubSeq(pending, 1, IF Len(pending) < BatchSize
                                         THEN Len(pending) ELSE BatchSize)]
    /\ GoTo(f, IF pending = <<>> THEN "pop" ELSE "push")
    /\ UNCHANGED <<env, faults, handler, acked, buffer, parking, tables, batch, fresh, dropped>>

PushFallback(f) ==
    /\ fstage[f] = "push" /\ redisUp
    /\ Lpush(Head(snapshot[f]).run)
    /\ GoTo(f, "delete")
    /\ UNCHANGED <<env, faults, handler, acked, parking, tables, snapshot, batch, fresh, dropped>>

StopDraining(f) ==
    /\ snapshot' = [snapshot EXCEPT ![f] = <<>>]
    /\ GoTo(f, "pop")
    /\ UNCHANGED <<batch, fresh>>

\* Mutant: the refused LPUSH does not break the loop.
PushFallbackRefusedGoesOn(f) ==
    /\ fstage[f] = "push" /\ ~redisUp
    /\ GoTo(f, "delete")
    /\ UNCHANGED <<env, faults, handler, acked, buffer, parking, tables, snapshot, batch, fresh, dropped>>

PushFallbackRefused(f) ==
    /\ fstage[f] = "push" /\ ~redisUp
    /\ StopDraining(f)
    /\ UNCHANGED <<env, faults, handler, acked, buffer, parking, tables, dropped>>

PushFallbackReplyLost(f) ==
    /\ fstage[f] = "push" /\ redisUp /\ Fault("reply")
    /\ Lpush(Head(snapshot[f]).run)
    /\ StopDraining(f)
    /\ UNCHANGED <<env, handler, acked, parking, tables, dropped>>

\* A row another flusher deleted meanwhile is not there to delete.
Without(s, e) ==
    IF \E i \in DOMAIN s : s[i] = e
    THEN RemoveAt(s, CHOOSE i \in DOMAIN s : s[i] = e)
    ELSE s

\* Mutant: the row stays after it was enqueued.
DeleteFallbackKeepsRow(f) ==
    /\ fstage[f] = "delete" /\ dbUp
    /\ snapshot' = [snapshot EXCEPT ![f] = Tail(@)]
    /\ GoTo(f, IF Tail(snapshot[f]) = <<>> THEN "pop" ELSE "push")
    /\ UNCHANGED <<env, faults, handler, acked, buffer, parking, tables, batch, fresh, dropped>>

DeleteFallback(f) ==
    /\ fstage[f] = "delete" /\ dbUp
    /\ pending' = Without(pending, Head(snapshot[f]))
    /\ snapshot' = [snapshot EXCEPT ![f] = Tail(@)]
    /\ GoTo(f, IF Tail(snapshot[f]) = <<>> THEN "pop" ELSE "push")
    /\ UNCHANGED <<env, faults, handler, acked, buffer, serial, tables, batch, fresh, dropped>>

DeleteFallbackFails(f) ==
    /\ fstage[f] = "delete" /\ ~dbUp
    /\ Restart(f)
    /\ UNCHANGED <<env, faults, handler, acked, buffer, parking, tables>>

\* LRANGE and LTRIM in one MULTI: the items leave Redis.
PopCount == IF Len(buffer) < BatchSize THEN Len(buffer) ELSE BatchSize
Popped == SubSeq(buffer, 1, PopCount)
\* Mutant: LTRIM one further than LRANGE.
TrimmedTooFar == SubSeq(buffer, PopCount + 2, Len(buffer))
Trimmed == SubSeq(buffer, PopCount + 1, Len(buffer))

Pop(f) ==
    /\ fstage[f] = "pop" /\ redisUp
    /\ batch' = [batch EXCEPT ![f] = Popped]
    /\ buffer' = Trimmed
    /\ GoTo(f, IF buffer = <<>> THEN "drain" ELSE "dedup")
    /\ UNCHANGED <<env, faults, handler, acked, parking, tables, snapshot, fresh, dropped>>

PopRefused(f) ==
    /\ fstage[f] = "pop" /\ ~redisUp
    /\ Restart(f)
    /\ UNCHANGED <<env, faults, handler, acked, buffer, parking, tables>>

\* Redis trimmed the list and the reply never came: RedisError, restart.
PopReplyLost(f) ==
    /\ fstage[f] = "pop" /\ redisUp /\ Fault("reply")
    /\ buffer' = Trimmed
    /\ GoTo(f, "drain")
    /\ dropped' = dropped \union ToSet(Popped)
    /\ UNCHANGED <<env, handler, acked, parking, tables, snapshot, batch, fresh>>

\* Mutant: the lookup of existing rows without the set of ids seen.
FreshInWithRepeats(items) == {i \in DOMAIN items : items[i] \notin rows}

\* First occurrence in the batch, and not yet a row.
FreshIn(items) ==
    {i \in DOMAIN items :
        /\ items[i] \notin rows
        /\ \A j \in 1..(i - 1) : items[j] # items[i]}

Dedup(f) ==
    /\ fstage[f] = "dedup" /\ dbUp
    /\ LET new == FreshIn(batch[f])
       IN /\ fresh' = [fresh EXCEPT ![f] = new]
          /\ IF new = {}
             THEN GoTo(f, "drain") /\ batch' = [batch EXCEPT ![f] = <<>>]
             ELSE GoTo(f, "commit") /\ UNCHANGED batch
    /\ UNCHANGED <<env, faults, handler, acked, buffer, parking, tables, snapshot, dropped>>

\* The lookup is outside the try block: its failure ends the process.
DedupFails(f) ==
    /\ fstage[f] = "dedup" /\ ~dbUp
    /\ Restart(f)
    /\ UNCHANGED <<env, faults, handler, acked, buffer, parking, tables>>

FreshRuns(f) == {batch[f][i] : i \in fresh[f]}

FreshOf(f, s) == {i \in fresh[f] : StudentOf[batch[f][i]] = s}

\* Mutant: bulk_create(ignore_conflicts=True), the totals still added up.
CommittableIgnoringConflicts(f) ==
    /\ dbUp
    /\ \A i \in fresh[f] :
        /\ batch[f][i] \notin Oversized
        /\ StudentOf[batch[f][i]] \in students

\* The transaction commits only when PostgreSQL is there, every id fits its
\* column, every student exists (foreign key) and no id is inserted twice
\* (primary key).
Committable(f) ==
    /\ dbUp
    /\ \A i \in fresh[f] :
        /\ batch[f][i] \notin Oversized
        /\ StudentOf[batch[f][i]] \in students
        /\ batch[f][i] \notin rows
        /\ \A j \in fresh[f] : i # j => batch[f][i] # batch[f][j]

InsertBatch(f) ==
    /\ rows' = rows \union FreshRuns(f)
    /\ totals' = [s \in Students |-> totals[s] + Cardinality(FreshOf(f, s))]
    /\ UNCHANGED students

Commit(f) ==
    /\ fstage[f] = "commit" /\ Committable(f)
    /\ InsertBatch(f)
    /\ GoTo(f, "drain")
    /\ batch' = [batch EXCEPT ![f] = <<>>]
    /\ fresh' = [fresh EXCEPT ![f] = {}]
    /\ UNCHANGED <<env, faults, handler, acked, buffer, parking, snapshot, dropped>>

CommitFails(f) ==
    /\ fstage[f] = "commit" /\ ~Committable(f)
    /\ GoTo(f, "requeue")
    /\ UNCHANGED <<env, faults, handler, acked, buffer, parking, tables, snapshot, batch, fresh, dropped>>

\* Committed, but the flusher sees an exception.
CommitReplyLost(f) ==
    /\ fstage[f] = "commit" /\ Committable(f) /\ Fault("reply")
    /\ InsertBatch(f)
    /\ GoTo(f, "requeue")
    /\ UNCHANGED <<env, handler, acked, buffer, parking, snapshot, batch, fresh, dropped>>

\* Mutant: LPUSH instead of RPUSH.
RequeueAtHead(f) ==
    /\ fstage[f] = "requeue" /\ redisUp
    /\ buffer' = batch[f] \o buffer
    /\ GoTo(f, "drain")
    /\ batch' = [batch EXCEPT ![f] = <<>>]
    /\ fresh' = [fresh EXCEPT ![f] = {}]
    /\ UNCHANGED <<env, faults, handler, acked, parking, tables, snapshot, dropped>>

\* The whole popped batch goes back, at the tail.
Requeue(f) ==
    /\ fstage[f] = "requeue" /\ redisUp
    /\ buffer' = buffer \o batch[f]
    /\ GoTo(f, "drain")
    /\ batch' = [batch EXCEPT ![f] = <<>>]
    /\ fresh' = [fresh EXCEPT ![f] = {}]
    /\ UNCHANGED <<env, faults, handler, acked, parking, tables, snapshot, dropped>>

\* The RPUSH itself raises out of the except block.
RequeueFails(f) ==
    /\ fstage[f] = "requeue" /\ ~redisUp
    /\ Restart(f)
    /\ UNCHANGED <<env, faults, handler, acked, buffer, parking, tables>>

FlusherKilled(f) ==
    /\ fstage[f] # "drain" /\ Fault("crash")
    /\ Restart(f)
    /\ UNCHANGED <<env, handler, acked, buffer, parking, tables>>

-----------------------------------------------------------------------------
Environment ==
    \/ RedisFails \/ RedisReturns \/ DbFails \/ DbReturns \/ CloseWindow
    \/ \E s \in Students : DeleteStudent(s)

Request(w) ==
    \/ \E r \in Runs : Admit(w, r) \/ AnswerDuplicate(w, r)
    \/ Enqueue(w) \/ EnqueueRefused(w) \/ EnqueueReplyLost(w)
    \/ Fallback(w) \/ FallbackRefused(w) \/ FallbackReplyLost(w)
    \/ WorkerKilled(w)

\* The flusher's own next step, whatever the services answer.
FlusherStep(f) ==
    \/ LoadFallback(f)
    \/ PushFallback(f) \/ PushFallbackRefused(f)
    \/ DeleteFallback(f) \/ DeleteFallbackFails(f)
    \/ Pop(f) \/ PopRefused(f)
    \/ Dedup(f) \/ DedupFails(f)
    \/ Commit(f) \/ CommitFails(f)
    \/ Requeue(f) \/ RequeueFails(f)

FlusherFault(f) ==
    \/ PushFallbackReplyLost(f) \/ PopReplyLost(f)
    \/ CommitReplyLost(f) \/ FlusherKilled(f)

Next ==
    \/ Environment
    \/ \E w \in Workers : Request(w)
    \/ \E f \in Flushers : FlusherStep(f) \/ FlusherFault(f)

Spec == Init /\ [][Next]_vars

(***************************************************************************)
(* The flusher is a loop that restart: always keeps alive, and an outage   *)
(* ends.  Clients, faults and deletions owe nothing.                       *)
(***************************************************************************)
Fairness ==
    /\ WF_vars(RedisReturns) /\ WF_vars(DbReturns)
    /\ \A f \in Flushers : WF_vars(FlusherStep(f))

FairSpec == Spec /\ Fairness

-----------------------------------------------------------------------------
(* Where a run is.                                                         *)

Buffered == ToSet(buffer)
InHand   == UNION {ToSet(batch[f]) : f \in Flushers}
Held     == Buffered \union Parked \union InHand
Orphans  == {r \in Runs : StudentOf[r] \notin students}

\* Runs that need no PendingIngest row any more.
BeyondFallback == rows \union Buffered \union InHand \union dropped \union Orphans

\* Safety.  A run some client was told is accepted or already ingested is a
\* row, or still in Redis, in PendingIngest or in a flusher's hands, unless
\* its student was deleted or a flusher died holding it
\* (ingest_router.py: "so the run is never lost").
AckedAccountedFor == acked \subseteq Parked \union BeyondFallback

\* The row a flusher is about to delete has been pushed; the items of a batch
\* it is about to commit are rows already, or among those it inserts.
Settled(f) ==
    /\ fstage[f] = "delete" => Head(snapshot[f]).run \in BeyondFallback
    /\ fstage[f] = "commit" =>
           ToSet(batch[f]) \subseteq rows \union FreshRuns(f) \union Orphans

\* The same with what makes it inductive: every flusher's next deletion or
\* commit leaves nothing behind.
Accounting ==
    /\ AckedAccountedFor
    /\ \A f \in Flushers : Settled(f)

\* Safety.  The totals the flusher adds up run by run are exactly the Run
\* rows, whatever was pushed twice, popped twice, requeued after a commit or
\* raced by a second flusher (flush_ingest_buffer.py dedup and transaction).
RowsOf(s) == {r \in rows : StudentOf[r] = s}

TotalsMatchRows == \A s \in Students : totals[s] = Cardinality(RowsOf(s))

\* Action property.  A PendingIngest row disappears only once its run is in
\* Redis or further on, whoever popped it in between
\* (_drain_db_fallback: delete "once enqueued").
FallbackIsHandedOver == [][Parked \subseteq Parked' \union BeyondFallback']_vars

\* The ledger this module implements.
StatusOf(r) ==
    CASE r \in Orphans -> "erased"
      [] r \in rows \ Orphans -> "recorded"
      [] r \in Held \ (rows \union Orphans) -> "held"
      [] r \in dropped \ (rows \union Held \union Orphans) -> "lost"
      [] OTHER -> "unknown"

Ledger == INSTANCE RunLedger WITH status <- [r \in Runs |-> StatusOf(r)]

\* Refinement.  Every step of handlers, flushers and environment is a step of
\* the ledger or leaves it alone: recorded runs stay recorded, totals grow
\* with them in the same step, and nothing is acknowledged that is unknown.
LedgerSpec == Ledger!Spec

\* Liveness.  An acknowledged run becomes a row once the outages end, unless
\* a flusher died with it: duplicates in a batch, a row left in PendingIngest
\* or a batch that went back to the tail do not keep it waiting for ever.
\* (Only while no student is deleted, and for batches without an oversized id:
\* either makes every batch it is popped with fail.)
AckedGetsRecorded ==
    \A r \in Runs \ Oversized : r \in acked ~> r \in rows \union dropped

\* Liveness.  A row of PendingIngest does not stay there (_drain_db_fallback).
PendingGetsDrained ==
    \A r \in Runs : []<>(r \notin Parked)

\* What docs/decisions/write-buffering-adr.md:57 says of the flusher: "On any
\* exception, items are RPUSH-ed back to the queue tail to be retried on the
\* next iteration; no item is lost."
NoItemIsLost == acked \subseteq rows \union Held \union Orphans
=============================================================================
