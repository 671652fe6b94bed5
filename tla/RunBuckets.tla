------------------------------ MODULE RunBuckets ------------------------------
(***************************************************************************)
(* StudentRunBucketTrend: the runs of a (student, level) pair in buckets   *)
(* of RUN_BUCKET_SIZE, in the order of their created_at.                   *)
(*                                                                         *)
(* Two programs write the buckets.  The flusher appends: it reads the last *)
(* bucket of a pair, fills it with an UPDATE by id to absolute values, and *)
(* inserts further buckets.  A rebuild, run by compaction or by hand,      *)
(* lists runs, then deletes and recreates the buckets of the pairs.        *)
(*                                                                         *)
(* PostgreSQL runs both at READ COMMITTED: a statement sees what was       *)
(* committed when it began, an UPDATE or DELETE of a row that another      *)
(* transaction has changed waits for that transaction, and an INSERT of an *)
(* existing (student, level, bucket_index) fails.  A flusher's writes are  *)
(* the last thing before its COMMIT and are one step with it; a rebuild's  *)
(* deletes hold locks until its own COMMIT and are steps.                  *)
(*                                                                         *)
(* A bucket's count and sums are the set of runs they add up.  Duplicates  *)
(* and the death of a flusher are the subject of IngestPipeline.           *)
(***************************************************************************)
EXTENDS Naturals, FiniteSets, Sequences, SequencesExt, Collections

CONSTANTS
    Runs,
    Pairs,
    PairOf,       \* the (student, level) of a run
    StudentOf,    \* the student of a pair
    Arrivals,     \* the queue of runs, head first
    Flushers,
    Rebuilders,   \* processes that may rebuild at the same time
    BucketSize,   \* RUN_BUCKET_SIZE
    BatchSize,    \* INGEST_BUFFER_BATCH_SIZE
    MaxWeek,      \* bound on the weeks that begin
    MaxAborts     \* bound on the transactions aborted from outside

ASSUME BucketsAssumption ==
    /\ IsFiniteSet(Runs) /\ IsFiniteSet(Pairs)
    /\ IsFiniteSet(Flushers) /\ IsFiniteSet(Rebuilders)
    /\ Flushers \intersect Rebuilders = {}
    /\ PairOf \in [Runs -> Pairs]
    /\ Arrivals \in Seq(Runs)
    /\ \A i, j \in DOMAIN Arrivals : Arrivals[i] = Arrivals[j] => i = j
    /\ BucketSize \in Nat \ {0} /\ BatchSize \in Nat \ {0}
    /\ MaxWeek \in Nat \ {0} /\ MaxAborts \in Nat

VARIABLES
    queue,     \* runs in the ingest buffer
    week,      \* the current week
    created,   \* runs in the order of created_at, inserts in flight included
    bornIn,    \* the week of a run's created_at, 0 before it has one
    rows,      \* committed Run rows
    stamped,   \* those with raw_data_compacted_at
    buckets,   \* committed StudentRunBucketTrend rows
    flush,     \* per flusher: where its transaction is
    rebuild,   \* per rebuilder: where its rebuild is
    aborts,
    behind,    \* history: pairs rewritten by others under an open transaction
    raced      \* history: pairs last written by a transaction that was behind

vars == <<queue, week, created, bornIn, rows, stamped, buckets, flush, rebuild,
          aborts, behind, raced>>

(* A row is known by its key and, because rows are deleted and recreated   *)
(* under the same key with another primary key, by a generation.           *)
Gens == 0 .. Cardinality(Flushers) + Cardinality(Rebuilders)
Ids  == Pairs \X Nat \X Gens

Bucket == [pair : Pairs, index : Nat, gen : Gens, runs : SUBSET Runs]

NotFlushing   == [stage |-> "idle", batch |-> <<>>, tails |-> {}]
NotRebuilding == [stage |-> "idle", week |-> 0, pairs |-> {}, included |-> {},
                  listed |-> <<>>, todo |-> {}, doomed |-> {}, deleted |-> {}]

IdOf(b)    == <<b.pair, b.index, b.gen>>
IdsOf(set) == {IdOf(b) : b \in set}

RunsOf(p) == {r \in Runs : PairOf[r] = p}

(* Runs by created_at.                                                     *)
Sorted(set) == Keep(created, set)

BucketsOf(p) == {b \in buckets : b.pair = p}
Counted(p)   == UNION {b.runs : b \in BucketsOf(p)}

(* Rows some rebuild has deleted and not committed.                        *)
LockedBy(r) == rebuild[r].deleted
Locked      == UNION {LockedBy(r) : r \in Rebuilders}

(* The unique constraint on (student, level, bucket_index).                *)
SameKey(b, d) == b.pair = d.pair /\ b.index = d.index

(* New rows get a primary key that no other transaction remembers.         *)
Remembered(x) ==
    (UNION {IdsOf(flush[f].tails) : f \in Flushers \ {x}})
        \union UNION {rebuild[r].doomed \union LockedBy(r) : r \in Rebuilders \ {x}}

FreshGen(x, d) == CHOOSE g \in Gens : <<d.pair, d.index, g>> \notin Remembered(x)

WithIds(x, drafts) ==
    {[pair |-> d.pair, index |-> d.index, gen |-> FreshGen(x, d), runs |-> d.runs] :
        d \in drafts}

Init ==
    /\ queue = Arrivals
    /\ week = 1
    /\ created = <<>>
    /\ bornIn = [r \in Runs |-> 0]
    /\ rows = {} /\ stamped = {} /\ buckets = {}
    /\ flush = [f \in Flushers |-> NotFlushing]
    /\ rebuild = [r \in Rebuilders |-> NotRebuilding]
    /\ aborts = 0
    /\ behind = [x \in Flushers \union Rebuilders |-> {}]
    /\ raced = {}

-------------------------------------------------------------------------------
(* History.  A flusher depends on the buckets of its pairs from its insert *)
(* on, a rebuild on those whose rows it has looked up for deletion.        *)

PairsIn(batch) == {PairOf[r] : r \in ToSet(batch)}

Watched(x) ==
    IF x \in Flushers THEN PairsIn(flush[x].batch)
                      ELSE rebuild[x].pairs \ rebuild[x].todo

(* Transaction x wrote the buckets of the given pairs; a rebuild that was  *)
(* not overtaken repairs them.                                             *)
Wrote(x, pairs) ==
    /\ behind' = [y \in DOMAIN behind |->
                     IF y = x THEN {}
                              ELSE behind[y] \union (pairs \intersect Watched(y))]
    /\ raced' = IF x \in Rebuilders
                  THEN (raced \ pairs) \union behind[x]
                  ELSE raced \union behind[x]

Forgot(x) == behind' = [behind EXCEPT ![x] = {}] /\ UNCHANGED raced

-------------------------------------------------------------------------------
(* The flusher.                                                            *)

(* Pop a batch, open the transaction and insert the runs: bulk_create sets *)
(* created_at run by run.                                                  *)
FlushBegins(f) ==
    /\ flush[f].stage = "idle"
    /\ \E n \in 1 .. BatchSize :
          /\ n <= Len(queue)
          /\ queue' = SubSeq(queue, n + 1, Len(queue))
          /\ LET batch == SubSeq(queue, 1, n)
             IN  /\ created' = created \o batch
                 /\ bornIn' = [r \in Runs |->
                                  IF r \in ToSet(batch) THEN week ELSE bornIn[r]]
                 /\ flush' = [flush EXCEPT ![f] = [stage |-> "inserted",
                                                   batch |-> batch, tails |-> {}]]
    /\ UNCHANGED <<week, rows, stamped, buckets, rebuild, aborts, behind, raced>>

(* StudentWeekStats rows a flusher has upserted and so locked.             *)
StudentWeeks(batch) == {<<StudentOf[PairOf[r]], bornIn[r]>> : r \in ToSet(batch)}

HeldByOthers(f) ==
    UNION {StudentWeeks(flush[g].batch) :
              g \in {h \in Flushers \ {f} : flush[h].stage = "counted"}}

\* Mutant: the last buckets are read before the upserts.
FlushCountsUnlocked(f) ==
    /\ flush[f].stage = "inserted"
    /\ flush' = [flush EXCEPT
           ![f].stage = "counted",
           ![f].tails = {b \in buckets :
                            /\ b.pair \in PairsIn(flush[f].batch)
                            /\ \A c \in BucketsOf(b.pair) : c.index <= b.index}]
    /\ UNCHANGED <<queue, week, created, bornIn, rows, stamped, buckets, rebuild,
                   aborts, behind, raced>>

(* The upserts of the week's statistics come first and wait for any other  *)
(* flusher that counts a run of the same student and week; then one query  *)
(* reads the last bucket of each pair.                                     *)
FlushCounts(f) ==
    /\ flush[f].stage = "inserted"
    /\ StudentWeeks(flush[f].batch) \intersect HeldByOthers(f) = {}
    /\ flush' = [flush EXCEPT
           ![f].stage = "counted",
           ![f].tails = {b \in buckets :
                            /\ b.pair \in PairsIn(flush[f].batch)
                            /\ \A c \in BucketsOf(b.pair) : c.index <= b.index}]
    /\ UNCHANGED <<queue, week, created, bornIn, rows, stamped, buckets, rebuild,
                   aborts, behind, raced>>

NewRuns(f, p) == Keep(flush[f].batch, RunsOf(p))
TailOf(f, p)  == {b \in flush[f].tails : b.pair = p}

\* Mutant: a bucket counts as having room until it is over its size.
RoomOverSize(f, p) == IF TailOf(f, p) = {} THEN 0
    ELSE BucketSize + 1 - Cardinality((CHOOSE b \in TailOf(f, p) : TRUE).runs)

(* How many of a pair's new runs the last bucket has room for.             *)
Room(f, p) == IF TailOf(f, p) = {} THEN 0
              ELSE BucketSize - Cardinality((CHOOSE b \in TailOf(f, p) : TRUE).runs)

Absorbed(f, p) ==
    LET new == NewRuns(f, p)
    IN  {new[i] : i \in {j \in DOMAIN new : j <= Room(f, p)}}

(* Buckets to update: the last ones, with their new content.               *)
Filled(f) ==
    {[b EXCEPT !.runs = @ \union Absorbed(f, b.pair)] :
        b \in {c \in flush[f].tails : Absorbed(f, c.pair) # {}}}

\* Mutant: the chunks are cut from all new runs of the pair.
RemainingAll(f, p) == NewRuns(f, p)

(* Buckets to insert: the other runs in chunks, after the last index.      *)
Remaining(f, p) == Keep(NewRuns(f, p), Runs \ Absorbed(f, p))

NextIndex(f, p) == IF TailOf(f, p) = {} THEN 0
                   ELSE (CHOOSE b \in TailOf(f, p) : TRUE).index + 1

ChunksOf(f, p) ==
    LET rest     == Remaining(f, p)
        chunk(i) == (i - 1) \div BucketSize
    IN  {[pair  |-> p, index |-> NextIndex(f, p) + k,
          runs  |-> {rest[i] : i \in {j \in DOMAIN rest : chunk(j) = k}}] :
            k \in {chunk(i) : i \in DOMAIN rest}}

Chunks(f) == UNION {ChunksOf(f, p) : p \in PairsIn(flush[f].batch)}

(* UPDATE by id, INSERT, COMMIT.  The update waits for a rebuild that has  *)
(* deleted the row, and changes nothing if the row is gone.                *)
FlushCommits(f) ==
    /\ flush[f].stage = "counted"
    /\ IdsOf(Filled(f)) \intersect Locked = {}
    /\ \A d \in Chunks(f), b \in buckets : ~SameKey(b, d)
    /\ LET there == {b \in Filled(f) : IdOf(b) \in IdsOf(buckets)}
       IN  buckets' = {b \in buckets : IdOf(b) \notin IdsOf(there)}
                          \union there \union WithIds(f, Chunks(f))
    /\ rows' = rows \union ToSet(flush[f].batch)
    /\ flush' = [flush EXCEPT ![f] = NotFlushing]
    /\ Wrote(f, PairsIn(flush[f].batch))
    /\ UNCHANGED <<queue, week, created, bornIn, stamped, rebuild, aborts>>

(* A chunk's index is taken by a row nobody is deleting.                   *)
FlushCollides(f) ==
    /\ flush[f].stage = "counted"
    /\ \E d \in Chunks(f), b \in buckets : SameKey(b, d) /\ IdOf(b) \notin Locked

(* The transaction is rolled back, by the constraint or from outside       *)
(* (deadlock, lost connection), and the batch goes to the queue's tail.    *)
FlushFails(f) ==
    /\ flush[f].stage # "idle"
    /\ \/ FlushCollides(f) /\ UNCHANGED aborts
       \/ aborts < MaxAborts /\ aborts' = aborts + 1
    /\ LET batch == ToSet(flush[f].batch)
       IN  /\ created' = Keep(created, Runs \ batch)
           /\ bornIn' = [r \in Runs |-> IF r \in batch THEN 0 ELSE bornIn[r]]
    /\ queue' = queue \o flush[f].batch
    /\ flush' = [flush EXCEPT ![f] = NotFlushing]
    /\ Forgot(f)
    /\ UNCHANGED <<week, rows, stamped, buckets, rebuild>>

-------------------------------------------------------------------------------
(* The rebuild of the pairs that have a run in a week.                     *)

(* The command reads the runs of the week and the pairs they touch.        *)
RebuildBegins(r, w) ==
    /\ rebuild[r].stage = "idle"
    /\ LET runs == {x \in rows : bornIn[x] = w}
       IN  /\ runs # {}
           /\ rebuild' = [rebuild EXCEPT ![r] =
                  [NotRebuilding EXCEPT !.stage = "begun", !.week = w, !.included = runs,
                                        !.pairs = {PairOf[x] : x \in runs},
                                        !.todo = {PairOf[x] : x \in runs}]]
    /\ UNCHANGED <<queue, week, created, bornIn, rows, stamped, buckets, flush,
                   aborts, behind, raced>>

\* Mutant: without its order_by the query has the model's, newest first.
RebuildListsNewestFirst(r) ==
    /\ rebuild[r].stage = "begun"
    /\ rebuild' = [rebuild EXCEPT
           ![r].stage = "scan",
           ![r].listed = Reverse(Sorted({x \in rows :
                             /\ PairOf[x] \in rebuild[r].pairs
                             /\ x \in stamped \union rebuild[r].included}))]
    /\ UNCHANGED <<queue, week, created, bornIn, rows, stamped, buckets, flush,
                   aborts, behind, raced>>

(* One query lists the pairs' runs that are compacted or of this week.     *)
RebuildLists(r) ==
    /\ rebuild[r].stage = "begun"
    /\ rebuild' = [rebuild EXCEPT
           ![r].stage = "scan",
           ![r].listed = Sorted({x \in rows : /\ PairOf[x] \in rebuild[r].pairs
                                              /\ x \in stamped \union rebuild[r].included})]
    /\ UNCHANGED <<queue, week, created, bornIn, rows, stamped, buckets, flush,
                   aborts, behind, raced>>

(* DELETE of a pair's rows, pair by pair: the statement sees the rows      *)
(* committed when it begins ...                                            *)
RebuildScans(r) ==
    /\ rebuild[r].stage = "scan"
    /\ \E p \in rebuild[r].todo :
          rebuild' = [rebuild EXCEPT ![r].stage = "delete",
                                     ![r].todo = @ \ {p},
                                     ![r].doomed = IdsOf(BucketsOf(p))]
    /\ UNCHANGED <<queue, week, created, bornIn, rows, stamped, buckets, flush,
                   aborts, behind, raced>>

(* ... and ends when nobody else has a lock on them.                       *)
RebuildDeletes(r) ==
    /\ rebuild[r].stage = "delete"
    /\ \A q \in Rebuilders \ {r} : rebuild[r].doomed \intersect LockedBy(q) = {}
    /\ rebuild' = [rebuild EXCEPT ![r].stage = "scan",
                                  ![r].deleted = @ \union rebuild[r].doomed,
                                  ![r].doomed = {}]
    /\ UNCHANGED <<queue, week, created, bornIn, rows, stamped, buckets, flush,
                   aborts, behind, raced>>

(* Put a run in the current bucket, or in a new one when that is full.     *)
Place(contents, x) ==
    IF contents = <<>> \/ Cardinality(Last(contents)) >= BucketSize
      THEN Append(contents, {x})
      ELSE [contents EXCEPT ![Len(contents)] = @ \union {x}]

(* The contents of the buckets of a pair, from its runs by created_at.     *)
Placed(runs) ==
    LET placed[i \in 0 .. Len(runs)] ==
            IF i = 0 THEN <<>> ELSE Place(placed[i - 1], runs[i])
    IN  placed[Len(runs)]

RebuiltOf(r, p) ==
    LET contents == Placed(Keep(rebuild[r].listed, RunsOf(p)))
    IN  {[pair |-> p, index |-> i - 1, runs |-> contents[i]] : i \in DOMAIN contents}

Rebuilt(r) == UNION {RebuiltOf(r, p) : p \in rebuild[r].pairs}

(* What the INSERT of a finished DELETE sees of the table.                 *)
Undeleted(r) == {b \in buckets : IdOf(b) \notin LockedBy(r)}

(* INSERT of the recomputed rows and COMMIT.                               *)
RebuildCommits(r) ==
    /\ rebuild[r].stage = "scan" /\ rebuild[r].todo = {}
    /\ \A d \in Rebuilt(r), b \in Undeleted(r) : ~SameKey(b, d)
    /\ buckets' = Undeleted(r) \union WithIds(r, Rebuilt(r))
    /\ rebuild' = [rebuild EXCEPT ![r] =
                      [NotRebuilding EXCEPT !.stage = "done", !.week = rebuild[r].week]]
    /\ Wrote(r, rebuild[r].pairs)
    /\ UNCHANGED <<queue, week, created, bornIn, rows, stamped, flush, aborts>>

RebuildCollides(r) ==
    /\ rebuild[r].stage = "scan" /\ rebuild[r].todo = {}
    /\ \E d \in Rebuilt(r), b \in Undeleted(r) : SameKey(b, d) /\ IdOf(b) \notin Locked

(* Rolled back; the command fails.                                         *)
RebuildFails(r) ==
    /\ rebuild[r].stage \in {"begun", "scan", "delete"}
    /\ \/ RebuildCollides(r) /\ UNCHANGED aborts
       \/ aborts < MaxAborts /\ aborts' = aborts + 1
    /\ rebuild' = [rebuild EXCEPT ![r] = NotRebuilding]
    /\ Forgot(r)
    /\ UNCHANGED <<queue, week, created, bornIn, rows, stamped, buckets, flush>>

(* Compaction goes on to delete the turns and stamps the runs of the week  *)
(* there are by then; a rebuild by hand, or a failed verification, ends.   *)
RebuildEnds(r) ==
    /\ rebuild[r].stage = "done"
    /\ rebuild' = [rebuild EXCEPT ![r] = NotRebuilding]
    /\ \/ stamped' = stamped \union {x \in rows : bornIn[x] = rebuild[r].week}
       \/ UNCHANGED stamped
    /\ UNCHANGED <<queue, week, created, bornIn, rows, buckets, flush, aborts,
                   behind, raced>>

WeekTurns ==
    /\ week < MaxWeek
    /\ week' = week + 1
    /\ UNCHANGED <<queue, created, bornIn, rows, stamped, buckets, flush, rebuild,
                   aborts, behind, raced>>

Next ==
    \/ \E f \in Flushers :
          FlushBegins(f) \/ FlushCounts(f) \/ FlushCommits(f) \/ FlushFails(f)
    \/ \E r \in Rebuilders :
          \/ \E w \in 1 .. week : RebuildBegins(r, w)
          \/ RebuildLists(r) \/ RebuildScans(r) \/ RebuildDeletes(r)
          \/ RebuildCommits(r) \/ RebuildFails(r) \/ RebuildEnds(r)
    \/ WeekTurns

Spec == Init /\ [][Next]_vars

-------------------------------------------------------------------------------
(* Properties.                                                             *)

(* Types; no bucket holds more than RUN_BUCKET_SIZE runs, and no two have  *)
(* the same student, level and index.                                      *)
TypeOK ==
    /\ queue \in Seq(Runs)
    /\ week \in 1 .. MaxWeek
    /\ created \in Seq(Runs)
    /\ bornIn \in [Runs -> 0 .. MaxWeek]
    /\ stamped \subseteq rows /\ rows \subseteq Runs
    /\ buckets \subseteq Bucket
    /\ \A b \in buckets : Cardinality(b.runs) \in 1 .. BucketSize
    /\ \A b, c \in buckets : SameKey(b, c) => b = c
    /\ flush \in [Flushers -> [stage : {"idle", "inserted", "counted"},
                               batch : Seq(Runs), tails : SUBSET Bucket]]
    /\ rebuild \in [Rebuilders ->
                       [stage : {"idle", "begun", "scan", "delete", "done"},
                        week : 0 .. MaxWeek, pairs : SUBSET Pairs,
                        included : SUBSET Runs, listed : Seq(Runs),
                        todo : SUBSET Pairs, doomed : SUBSET Ids,
                        deleted : SUBSET Ids]]
    /\ aborts \in 0 .. MaxAborts
    /\ behind \in [Flushers \union Rebuilders -> SUBSET Pairs]
    /\ raced \subseteq Pairs

(* However flushers and rebuilds interleave, a run is in at most one       *)
(* bucket, one of its own pair, and only if its row is committed: no       *)
(* learning curve shows a run twice.                                       *)
CountedOnce ==
    /\ \A b \in buckets : b.runs \subseteq {r \in rows : PairOf[r] = b.pair}
    /\ \A b, c \in buckets : b.runs \intersect c.runs # {} => b = c

(* The layout the buckets of a pair should have: the k-th run by           *)
(* created_at is in bucket k \div RUN_BUCKET_SIZE.                         *)
Canonical(p) ==
    LET runs  == Sorted(Counted(p))
        at(i) == (i - 1) \div BucketSize
    IN  {<<b.index, b.runs>> : b \in BucketsOf(p)}
            = {<<k, {runs[i] : i \in {j \in DOMAIN runs : at(j) = k}}>> :
                  k \in {at(i) : i \in DOMAIN runs}}

(* Appending and rebuilding, in any mixture, give the same layout as long  *)
(* as the last transaction to write a pair's buckets was not overtaken by  *)
(* another between its reads and its writes.  Full buckets but the last,   *)
(* no gap in the indices, runs in order.                                   *)
CanonicalUnlessRaced == \A p \in Pairs \ raced : Canonical(p)

(* A flusher's transaction forgets no run of its own week, not even when   *)
(* it was overtaken: the lock on the student's weekly statistics orders    *)
(* the flushers before they read the last bucket, and an update by id      *)
(* cannot hit a rebuilt row.  Pairs an earlier overtaken transaction has   *)
(* written are left out: with flushes of three weeks open at once, one may *)
(* have written over a run, a second brought it back from what it had read *)
(* before, and the third lose it again.                                    *)
OwnWeekKept ==
    [][\A f \in Flushers :
          FlushCommits(f) =>
              \A r \in rows :
                  /\ PairOf[r] \notin raced
                  /\ r \in Counted(PairOf[r])
                  /\ bornIn[r] \in {bornIn[x] : x \in ToSet(flush[f].batch)}
                  => r \in Counted(PairOf[r])']_vars
===============================================================================
