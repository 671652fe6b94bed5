------------------------- MODULE IngestPipelineProofs -------------------------
(***************************************************************************)
(* Theorems of IngestPipeline, for every number of runs, students, workers *)
(* and flushers, every batch size and every bound on faults and requests,  *)
(* and that it implements RunLedger.                                       *)
(***************************************************************************)
EXTENDS IngestPipeline, SequenceTheorems, FiniteSetTheorems, WellFoundedInduction, TLAPS

-----------------------------------------------------------------------------
(* Sequences and the sets of their elements.                               *)

\* LPUSH: the list keeps its elements and gains the pushed one.
LEMMA PrependElements ==
    ASSUME NEW S, NEW s \in Seq(S), NEW e \in S
    PROVE  /\ <<e>> \o s \in Seq(S)
           /\ ToSet(<<e>> \o s) = {e} \union ToSet(s)
<1>1. <<e>> \in Seq(S) /\ Len(<<e>>) = 1 /\ <<e>>[1] = e
  OBVIOUS
<1>2. <<e>> \o s \in Seq(S) /\ Len(<<e>> \o s) = 1 + Len(s)
  BY <1>1, ConcatProperties
<1>3. \A i \in 1..(1 + Len(s)) :
        (<<e>> \o s)[i] = IF i <= 1 THEN <<e>>[i] ELSE s[i - 1]
  BY <1>1, ConcatProperties
<1>4. DOMAIN (<<e>> \o s) = 1..(1 + Len(s)) /\ DOMAIN s = 1..Len(s) /\ Len(s) \in Nat
  BY <1>2, LenProperties
<1>5. ASSUME NEW x \in ToSet(s) PROVE x \in ToSet(<<e>> \o s)
  <2>1. PICK j \in 1..Len(s) : x = s[j]
    BY <1>4 DEF ToSet
  <2>2. j + 1 \in 1..(1 + Len(s)) /\ (<<e>> \o s)[j + 1] = s[j]
    BY <1>3, <1>4
  <2>3. QED
    BY <1>4, <2>1, <2>2 DEF ToSet
<1>6. e \in ToSet(<<e>> \o s)
  BY <1>1, <1>3, <1>4 DEF ToSet
<1>7. ASSUME NEW x \in ToSet(<<e>> \o s) PROVE x \in {e} \union ToSet(s)
  <2>1. PICK j \in 1..(1 + Len(s)) : x = (<<e>> \o s)[j]
    BY <1>4 DEF ToSet
  <2>2. CASE j <= 1
    BY <1>1, <1>3, <2>1, <2>2
  <2>3. CASE j > 1
    BY <1>3, <1>4, <2>1, <2>3 DEF ToSet
  <2>4. QED
    BY <1>4, <2>1, <2>2, <2>3
<1>8. QED
  BY <1>2, <1>5, <1>6, <1>7

\* RPUSH of a batch: nothing is lost, nothing appears.
LEMMA ConcatElements ==
    ASSUME NEW S, NEW s \in Seq(S), NEW t \in Seq(S)
    PROVE  /\ s \o t \in Seq(S)
           /\ ToSet(s \o t) = ToSet(s) \union ToSet(t)
<1>1. /\ s \o t \in Seq(S)
      /\ Len(s \o t) = Len(s) + Len(t)
      /\ \A i \in 1..(Len(s) + Len(t)) :
            (s \o t)[i] = IF i <= Len(s) THEN s[i] ELSE t[i - Len(s)]
  BY ConcatProperties
<1>2. /\ DOMAIN (s \o t) = 1..(Len(s) + Len(t))
      /\ DOMAIN s = 1..Len(s) /\ Len(s) \in Nat
      /\ DOMAIN t = 1..Len(t) /\ Len(t) \in Nat
  BY <1>1, LenProperties
<1>3. ASSUME NEW x \in ToSet(s) PROVE x \in ToSet(s \o t)
  <2>1. PICK j \in 1..Len(s) : x = s[j]
    BY <1>2 DEF ToSet
  <2>2. j \in 1..(Len(s) + Len(t)) /\ (s \o t)[j] = s[j]
    BY <1>1, <1>2
  <2>3. QED
    BY <1>2, <2>1, <2>2 DEF ToSet
<1>4. ASSUME NEW x \in ToSet(t) PROVE x \in ToSet(s \o t)
  <2>1. PICK j \in 1..Len(t) : x = t[j]
    BY <1>2 DEF ToSet
  <2>2. j + Len(s) \in 1..(Len(s) + Len(t)) /\ (s \o t)[j + Len(s)] = t[j]
    BY <1>1, <1>2
  <2>3. QED
    BY <1>2, <2>1, <2>2 DEF ToSet
<1>5. ASSUME NEW x \in ToSet(s \o t) PROVE x \in ToSet(s) \union ToSet(t)
  <2>1. PICK j \in 1..(Len(s) + Len(t)) : x = (s \o t)[j]
    BY <1>2 DEF ToSet
  <2>2. CASE j <= Len(s)
    BY <1>1, <1>2, <2>1, <2>2 DEF ToSet
  <2>3. CASE j > Len(s)
    <3>1. j - Len(s) \in 1..Len(t) /\ x = t[j - Len(s)]
      BY <1>1, <1>2, <2>1, <2>3
    <3>2. QED
      BY <1>2, <3>1 DEF ToSet
  <2>4. QED
    BY <1>2, <2>1, <2>2, <2>3
<1>6. QED
  BY <1>1, <1>3, <1>4, <1>5

\* LRANGE with LTRIM: the two parts are the list.
LEMMA SplitElements ==
    ASSUME NEW S, NEW s \in Seq(S), NEW n \in 0..Len(s)
    PROVE  /\ SubSeq(s, 1, n) \in Seq(S)
           /\ SubSeq(s, n + 1, Len(s)) \in Seq(S)
           /\ Len(SubSeq(s, 1, n)) = n
           /\ ToSet(s) = ToSet(SubSeq(s, 1, n)) \union ToSet(SubSeq(s, n + 1, Len(s)))
<1>1. Len(s) \in Nat /\ \A i \in 1..Len(s) : s[i] \in S
  BY LenProperties, ElementOfSeq
<1>2. /\ SubSeq(s, 1, n) \in Seq(S)
      /\ Len(SubSeq(s, 1, n)) = IF 1 <= n THEN n - 1 + 1 ELSE 0
  <2>1. \A i \in 1..n : s[i] \in S
    BY <1>1
  <2>2. 1 \in Int /\ n \in Int
    BY <1>1
  <2>3. QED
    BY ONLY <2>1, <2>2, SubSeqProperties
<1>3. SubSeq(s, n + 1, Len(s)) \in Seq(S)
  <2>1. \A i \in (n + 1)..Len(s) : s[i] \in S
    BY <1>1
  <2>2. n + 1 \in Int /\ Len(s) \in Int
    BY <1>1
  <2>3. QED
    BY ONLY <2>1, <2>2, SubSeqProperties
<1>4. s = SubSeq(s, 1, n) \o SubSeq(s, n + 1, Len(s))
  <2>1. 1 \in 1..(Len(s) + 1) /\ n \in (1 - 1)..Len(s) /\ Len(s) \in n..Len(s)
    BY <1>1
  <2>2. SubSeq(s, 1, n) \o SubSeq(s, n + 1, Len(s)) = SubSeq(s, 1, Len(s))
    BY <2>1, ConcatAdjacentSubSeq
  <2>3. QED
    BY <2>2, SubSeqFull
<1>5. ToSet(s) = ToSet(SubSeq(s, 1, n)) \union ToSet(SubSeq(s, n + 1, Len(s)))
  <2> DEFINE front == SubSeq(s, 1, n)
             back == SubSeq(s, n + 1, Len(s))
  <2>1. front \in Seq(S) /\ back \in Seq(S) /\ s = front \o back
    BY <1>2, <1>3, <1>4
  <2> HIDE DEF front, back
  <2>2. ToSet(front \o back) = ToSet(front) \union ToSet(back)
    BY ONLY <2>1, ConcatElements
  <2>3. ToSet(s) = ToSet(front) \union ToSet(back)
    BY ONLY <2>1, <2>2
  <2>4. QED
    BY ONLY <2>3 DEF front, back
<1>6. Len(SubSeq(s, 1, n)) = n
  <2>1. n \in Nat
    BY <1>1
  <2>2. QED
    BY ONLY <1>2, <2>1
<1>7. QED
  BY ONLY <1>2, <1>3, <1>5, <1>6

\* Deleting one row of a list keeps every other row.
LEMMA WithoutElements ==
    ASSUME NEW S, NEW s \in Seq(S), NEW e
    PROVE  /\ Without(s, e) \in Seq(S)
           /\ ToSet(s) \subseteq {e} \union ToSet(Without(s, e))
           /\ ToSet(Without(s, e)) \subseteq ToSet(s)
<1>1. CASE ~ \E i \in DOMAIN s : s[i] = e
  BY <1>1 DEF Without
<1>2. CASE \E i \in DOMAIN s : s[i] = e
  <2> DEFINE k == CHOOSE i \in DOMAIN s : s[i] = e
             front == SubSeq(s, 1, k - 1)
             back == SubSeq(s, k + 1, Len(s))
  <2>1. Without(s, e) = front \o back
    BY <1>2 DEF Without, RemoveAt
  <2>2. k \in 1..Len(s) /\ s[k] = e /\ Len(s) \in Nat
    BY <1>2, LenProperties
  <2> HIDE DEF k
  <2>3. k - 1 \in 0..Len(s) /\ k \in 0..Len(s) /\ (k - 1) + 1 = k
    BY <2>2
  <2>4. /\ front \in Seq(S)
        /\ SubSeq(s, k, Len(s)) \in Seq(S)
        /\ ToSet(s) = ToSet(front) \union ToSet(SubSeq(s, k, Len(s)))
    BY <2>3, SplitElements
  <2>5. back \in Seq(S)
    BY <2>3, SplitElements
  <2>6. SubSeq(s, k, Len(s)) = <<s[k]>> \o back
    BY <2>2, SubSeqRecursiveFirst
  <2>7. ToSet(SubSeq(s, k, Len(s))) = {e} \union ToSet(back)
    <3>1. s[k] \in S
      BY <2>2, ElementOfSeq
    <3>2. QED
      BY <2>2, <2>5, <2>6, <3>1, PrependElements
  <2> HIDE DEF front, back
  <2>8. ToSet(front \o back) = ToSet(front) \union ToSet(back) /\ front \o back \in Seq(S)
    BY <2>4, <2>5, ConcatElements
  <2>9. QED
    BY <2>1, <2>4, <2>7, <2>8
<1>3. QED
  BY <1>1, <1>2
-----------------------------------------------------------------------------
(* Type correctness.                                                       *)

\* What TypeOK says of the queues and of one flusher, in the shape the
\* sequence lemmas take.
LEMMA QueueTypes ==
    ASSUME TypeOK
    PROVE  /\ buffer \in Seq(Runs) /\ Len(buffer) \in Nat
           /\ PopCount \in 0..Len(buffer)
           /\ Popped \in Seq(Runs) /\ Trimmed \in Seq(Runs)
           /\ ToSet(buffer) = ToSet(Popped) \union ToSet(Trimmed)
<1>1. buffer \in Seq(Runs) /\ Len(buffer) \in Nat
  BY LenProperties DEF TypeOK
<1>2. PopCount \in 0..Len(buffer)
  BY <1>1, IngestAssumption DEF PopCount
<1>3. QED
  BY <1>1, <1>2, SplitElements DEF Popped, Trimmed

\* The batch a flusher would insert is finite and names only runs.
LEMMA FreshTypes ==
    ASSUME TypeOK, NEW f \in Flushers
    PROVE  /\ batch[f] \in Seq(Runs) /\ DOMAIN batch[f] = 1..Len(batch[f])
           /\ Len(batch[f]) \in Nat
           /\ fresh[f] \subseteq 1..Len(batch[f]) /\ IsFiniteSet(fresh[f])
           /\ FreshRuns(f) \subseteq Runs
           /\ \A s : Cardinality(FreshOf(f, s)) \in Nat
           /\ ToSet(batch[f]) \subseteq Runs
<1>1. batch[f] \in Seq(Runs)
  BY DEF TypeOK
<1>2. Len(batch[f]) \in Nat /\ DOMAIN batch[f] = 1..Len(batch[f])
  BY <1>1, LenProperties
<1>3. \A i \in 1..Len(batch[f]) : batch[f][i] \in Runs
  BY <1>1, ElementOfSeq
<1>4. fresh[f] \subseteq 1..Len(batch[f])
  BY <1>2 DEF TypeOK
<1>5. IsFiniteSet(1..Len(batch[f]))
  BY <1>2, FS_Interval
<1>6. IsFiniteSet(fresh[f])
  BY <1>4, <1>5, FS_Subset
<1>7. ASSUME NEW s PROVE Cardinality(FreshOf(f, s)) \in Nat
  <2>1. FreshOf(f, s) \in SUBSET fresh[f]
    BY DEF FreshOf
  <2>2. QED
    BY <1>6, <2>1, FS_Subset, FS_CardinalityType
<1>8. FreshRuns(f) \subseteq Runs /\ ToSet(batch[f]) \subseteq Runs
  BY <1>2, <1>3, <1>4 DEF FreshRuns, ToSet
<1>9. QED
  BY <1>1, <1>2, <1>4, <1>6, <1>7, <1>8

\* Every step keeps the types: the environment and the requests first.
LEMMA TypeStepRequest ==
    ASSUME TypeOK, Environment \/ \E w \in Workers : Request(w)
    PROVE  TypeOK'
<1> USE IngestAssumption DEF vars, env, handler, flusher, tables, parking
<1>1. CASE RedisFails \/ RedisReturns \/ DbFails \/ DbReturns \/ CloseWindow
  <2>1. faults' \in 0..MaxFaults
    BY <1>1 DEF TypeOK, RedisFails, RedisReturns, DbFails, DbReturns, CloseWindow, Fault
  <2>. redisUp' \in BOOLEAN /\ dbUp' \in BOOLEAN /\ windowOpen' \in BOOLEAN
    BY <1>1, Zenon DEF TypeOK, RedisFails, RedisReturns, DbFails, DbReturns, CloseWindow
  <2>2. UNCHANGED <<handler, acked, buffer, parking, tables, flusher, dropped>>
    BY <1>1 DEF RedisFails, RedisReturns, DbFails, DbReturns, CloseWindow
  <2>3. QED
    BY <2>1, <2>2 DEF TypeOK
<1>2. ASSUME NEW s \in Students, DeleteStudent(s) PROVE TypeOK'
  <2>1. students' \subseteq Students /\ rows' \subseteq Runs /\ totals' \in [Students -> Nat]
    BY <1>2 DEF TypeOK, DeleteStudent
  <2>2. UNCHANGED <<env, faults, handler, acked, buffer, parking, flusher, dropped>>
    BY <1>2 DEF DeleteStudent
  <2>3. QED
    BY <2>1, <2>2 DEF TypeOK
<1>3. ASSUME NEW w \in Workers, Request(w) PROVE TypeOK'
  <2>1. ASSUME NEW r \in Runs, Admit(w, r) PROVE TypeOK'
    BY <2>1 DEF TypeOK, Admit, Stages
  <2>2. ASSUME NEW r \in Runs, AnswerDuplicate(w, r) PROVE TypeOK'
    BY <2>2 DEF TypeOK, AnswerDuplicate
  <2>3. CASE Enqueue(w)
    <3>1. job[w] \in Runs
      BY <2>3 DEF Enqueue, TypeOK
    <3>2. buffer' \in Seq(Runs)
      BY <2>3, <3>1, PrependElements DEF Enqueue, Lpush, TypeOK
    <3>3. QED
      BY <2>3, <3>1, <3>2 DEF TypeOK, Enqueue, Release, Stages
  <2>4. CASE EnqueueRefused(w)
    BY <2>4 DEF TypeOK, EnqueueRefused, AttemptFailed, Stages
  <2>5. CASE EnqueueReplyLost(w)
    <3>1. job[w] \in Runs
      BY <2>5 DEF EnqueueReplyLost, TypeOK
    <3>2. buffer' \in Seq(Runs)
      BY <2>5, <3>1, PrependElements DEF EnqueueReplyLost, Lpush, TypeOK
    <3>3. QED
      BY <2>5, <3>1, <3>2 DEF TypeOK, EnqueueReplyLost, AttemptFailed, Stages, Fault
  <2>6. ASSUME stage[w] # "idle", StorePending(job[w])
        PROVE  pending' \in Seq(PendingRow) /\ serial' \in Nat
    <3>1. pending \in Seq(PendingRow) /\ serial \in Nat /\ job[w] \in Runs
      BY <2>6 DEF TypeOK
    <3>2. [run |-> job[w], pk |-> serial] \in PendingRow
      BY <3>1 DEF PendingRow
    <3>3. Append(pending, [run |-> job[w], pk |-> serial]) \in Seq(PendingRow)
      BY <3>1, <3>2, AppendProperties
    <3>4. QED
      BY <2>6, <3>1, <3>3 DEF StorePending
  <2>7. CASE Fallback(w)
    <3>1. job[w] \in Runs /\ pending' \in Seq(PendingRow) /\ serial' \in Nat
      BY <2>6, <2>7 DEF Fallback, TypeOK
    <3>2. QED
      BY <2>7, <3>1 DEF TypeOK, Fallback, Release, Stages
  <2>8. CASE FallbackRefused(w)
    BY <2>8 DEF TypeOK, FallbackRefused, Release, Stages
  <2>9. CASE FallbackReplyLost(w)
    <3>1. pending' \in Seq(PendingRow) /\ serial' \in Nat
      BY <2>6, <2>9 DEF FallbackReplyLost
    <3>2. QED
      BY <2>9, <3>1 DEF TypeOK, FallbackReplyLost, Release, Stages, Fault
  <2>10. CASE WorkerKilled(w)
    BY <2>10 DEF TypeOK, WorkerKilled, Release, Stages, Fault
  <2>11. QED
    BY <1>3, <2>1, <2>2, <2>3, <2>4, <2>5, <2>7, <2>8, <2>9, <2>10 DEF Request
<1>4. QED
  BY <1>1, <1>2, <1>3 DEF Environment

\* Then the flusher.  Its restart is the common part of every failure.
LEMMA TypeRestart ==
    ASSUME TypeOK, NEW f \in Flushers, Restart(f),
           UNCHANGED <<env, handler, acked, buffer, parking, tables>>,
           faults' \in 0..MaxFaults
    PROVE  TypeOK'
<1>1. dropped' \subseteq Runs
  BY FreshTypes DEF TypeOK, Restart
<1>2. /\ fstage' = [fstage EXCEPT ![f] = "drain"]
      /\ snapshot' = [snapshot EXCEPT ![f] = <<>>]
      /\ batch' = [batch EXCEPT ![f] = <<>>]
      /\ fresh' = [fresh EXCEPT ![f] = {}]
  BY DEF Restart, GoTo
<1>3. QED
  BY <1>1, <1>2 DEF TypeOK, FStages, env, handler, parking, tables

LEMMA TypeStepDrain ==
    ASSUME TypeOK, NEW f \in Flushers,
           \/ LoadFallback(f) \/ PushFallback(f) \/ PushFallbackRefused(f)
           \/ PushFallbackReplyLost(f) \/ DeleteFallback(f) \/ DeleteFallbackFails(f)
    PROVE  TypeOK'
<1> USE IngestAssumption DEF env, handler, flusher, tables, parking
<1>1. CASE LoadFallback(f)
  <2> DEFINE n == IF Len(pending) < BatchSize THEN Len(pending) ELSE BatchSize
  <2>1. pending \in Seq(PendingRow) /\ Len(pending) \in Nat
    BY LenProperties DEF TypeOK
  <2>2. n \in 0..Len(pending) /\ (pending # <<>> => n > 0)
    BY <2>1, EmptySeq
  <2>3. /\ SubSeq(pending, 1, n) \in Seq(PendingRow)
        /\ Len(SubSeq(pending, 1, n)) = n
    BY <2>1, <2>2, SplitElements
  <2>4. pending # <<>> => SubSeq(pending, 1, n) # <<>>
    BY <2>2, <2>3
  <2>5. snapshot' = [snapshot EXCEPT ![f] = SubSeq(pending, 1, n)]
    BY <1>1 DEF LoadFallback
  <2>6. PICK where \in {"pop", "push"} :
          /\ fstage' = [fstage EXCEPT ![f] = where]
          /\ where = "push" => pending # <<>>
    BY <1>1 DEF LoadFallback, GoTo
  <2>7. /\ fstage[f] = "drain"
        /\ UNCHANGED <<env, faults, handler, acked, buffer, parking, tables,
                       batch, fresh, dropped>>
    BY <1>1 DEF LoadFallback
  <2>8. batch[f] = <<>> /\ fresh[f] = {}
    BY <2>7 DEF TypeOK
  <2>9. /\ fstage' \in [Flushers -> FStages]
        /\ snapshot' \in [Flushers -> Seq(PendingRow)]
    BY <2>3, <2>5, <2>6 DEF TypeOK, FStages
  <2>10. \A g \in Flushers :
          /\ fresh'[g] \subseteq DOMAIN batch'[g]
          /\ fstage'[g] \in {"push", "delete"} => snapshot'[g] # <<>>
          /\ fstage'[g] \notin {"commit", "requeue"} => fresh'[g] = {}
          /\ fstage'[g] \notin {"dedup", "commit", "requeue"} => batch'[g] = <<>>
    <3>1. UNCHANGED <<batch, fresh>>
      BY <2>7
    <3>2. fstage \in [Flushers -> FStages] /\ snapshot \in [Flushers -> Seq(PendingRow)]
      BY DEF TypeOK
    <3>3. QED
      BY <2>4, <2>5, <2>6, <2>8, <3>1, <3>2 DEF TypeOK
  <2>11. QED
    BY <2>7, <2>9, <2>10 DEF TypeOK
<1>2. ASSUME fstage[f] = "push"
      PROVE  Head(snapshot[f]).run \in Runs
  <2>1. snapshot[f] \in Seq(PendingRow) /\ snapshot[f] # <<>>
    BY <1>2 DEF TypeOK
  <2>2. Head(snapshot[f]) \in PendingRow
    BY <2>1, HeadTailProperties
  <2>3. QED
    BY <2>2 DEF PendingRow
<1>3. CASE PushFallback(f)
  <2>1. buffer' \in Seq(Runs)
    BY <1>2, <1>3, PrependElements DEF PushFallback, Lpush, TypeOK
  <2>2. QED
    BY <1>3, <2>1 DEF TypeOK, PushFallback, GoTo, FStages
<1>4. CASE PushFallbackRefused(f)
  BY <1>4 DEF TypeOK, PushFallbackRefused, StopDraining, GoTo, FStages
<1>5. CASE PushFallbackReplyLost(f)
  <2>1. buffer' \in Seq(Runs)
    BY <1>2, <1>5, PrependElements DEF PushFallbackReplyLost, Lpush, TypeOK
  <2>2. QED
    BY <1>5, <2>1 DEF TypeOK, PushFallbackReplyLost, StopDraining, GoTo, FStages, Fault
<1>6. CASE DeleteFallback(f)
  <2>1. pending' \in Seq(PendingRow)
    BY <1>6, WithoutElements DEF DeleteFallback, TypeOK
  <2>2. Tail(snapshot[f]) \in Seq(PendingRow)
    BY <1>6, HeadTailProperties DEF DeleteFallback, TypeOK
  <2>3. QED
    BY <1>6, <2>1, <2>2 DEF TypeOK, DeleteFallback, GoTo, FStages
<1>7. CASE DeleteFallbackFails(f)
  BY <1>7, TypeRestart DEF DeleteFallbackFails, TypeOK
<1>8. QED
  BY <1>1, <1>3, <1>4, <1>5, <1>6, <1>7

LEMMA TypeStepFlush ==
    ASSUME TypeOK, NEW f \in Flushers,
           \/ Pop(f) \/ PopRefused(f) \/ PopReplyLost(f)
           \/ Dedup(f) \/ DedupFails(f)
           \/ Commit(f) \/ CommitFails(f) \/ CommitReplyLost(f)
           \/ Requeue(f) \/ RequeueFails(f) \/ FlusherKilled(f)
    PROVE  TypeOK'
<1> USE IngestAssumption DEF env, handler, flusher, tables, parking
<1>1. CASE Pop(f)
  <2>1. buffer = <<>> => Popped = <<>>
    BY QueueTypes, SubSeqEmpty, EmptySeq DEF Popped
  <2>2. fresh[f] = {}
    BY <1>1 DEF Pop, TypeOK
  <2>3. CASE buffer = <<>>
    BY <1>1, <2>1, <2>2, <2>3, QueueTypes DEF TypeOK, Pop, GoTo, FStages
  <2>4. CASE buffer # <<>>
    BY <1>1, <2>2, <2>4, QueueTypes DEF TypeOK, Pop, GoTo, FStages
  <2>5. QED
    BY <2>3, <2>4
<1>2. CASE PopRefused(f) \/ DedupFails(f) \/ RequeueFails(f) \/ FlusherKilled(f)
  <2>1. faults' \in 0..MaxFaults
    BY <1>2 DEF TypeOK, PopRefused, DedupFails, RequeueFails, FlusherKilled, Fault
  <2>2. QED
    BY <1>2, <2>1, TypeRestart DEF PopRefused, DedupFails, RequeueFails, FlusherKilled
<1>3. CASE PopReplyLost(f)
  <2>1. dropped' \subseteq Runs
    <3>1. ToSet(Popped) \subseteq Runs
      BY QueueTypes, LenProperties, ElementOfSeq DEF ToSet
    <3>2. QED
      BY <1>3, <3>1 DEF PopReplyLost, TypeOK
  <2>2. buffer' \in Seq(Runs)
    BY <1>3, QueueTypes DEF PopReplyLost
  <2>3. faults' \in 0..MaxFaults
    BY <1>3 DEF PopReplyLost, Fault, TypeOK
  <2>4. /\ fstage' = [fstage EXCEPT ![f] = "drain"] /\ fstage[f] = "pop"
        /\ UNCHANGED <<env, handler, acked, parking, tables, snapshot, batch, fresh>>
    BY <1>3 DEF PopReplyLost, GoTo
  <2>5. batch[f] = <<>> /\ fresh[f] = {}
    BY <2>4 DEF TypeOK
  <2>6. \A g \in Flushers :
          /\ fresh'[g] \subseteq DOMAIN batch'[g]
          /\ fstage'[g] \in {"push", "delete"} => snapshot'[g] # <<>>
          /\ fstage'[g] \notin {"commit", "requeue"} => fresh'[g] = {}
          /\ fstage'[g] \notin {"dedup", "commit", "requeue"} => batch'[g] = <<>>
    BY <2>4, <2>5 DEF TypeOK
  <2>7. fstage' \in [Flushers -> FStages]
    BY <2>4 DEF TypeOK, FStages
  <2>8. QED
    BY <2>1, <2>2, <2>3, <2>4, <2>6, <2>7 DEF TypeOK
<1>4. CASE Dedup(f)
  <2>1. FreshIn(batch[f]) \subseteq DOMAIN batch[f] /\ FreshIn(batch[f]) \subseteq Nat
    BY FreshTypes DEF FreshIn
  <2>2. CASE FreshIn(batch[f]) = {}
    <3>1. /\ fresh' = [fresh EXCEPT ![f] = {}]
          /\ batch' = [batch EXCEPT ![f] = <<>>]
          /\ fstage' = [fstage EXCEPT ![f] = "drain"]
          /\ UNCHANGED <<env, faults, handler, acked, buffer, parking, tables, snapshot, dropped>>
      BY <1>4, <2>2 DEF Dedup, GoTo
    <3>2. QED
      BY <3>1 DEF TypeOK, FStages
  <2>3. CASE FreshIn(batch[f]) # {}
    BY <1>4, <2>1, <2>3 DEF TypeOK, Dedup, GoTo, FStages
  <2>4. QED
    BY <2>2, <2>3
<1>5. ASSUME InsertBatch(f)
      PROVE  /\ rows' \subseteq Runs /\ totals' \in [Students -> Nat]
             /\ students' \subseteq Students
  <2>1. \A s \in Students : totals[s] + Cardinality(FreshOf(f, s)) \in Nat
    BY FreshTypes DEF TypeOK
  <2>2. QED
    BY <1>5, <2>1, FreshTypes DEF TypeOK, InsertBatch
<1>6. CASE Commit(f)
  <2>1. rows' \subseteq Runs /\ totals' \in [Students -> Nat] /\ students' \subseteq Students
    BY <1>5, <1>6 DEF Commit
  <2>2. QED
    BY <1>6, <2>1 DEF TypeOK, Commit, GoTo, FStages
<1>7. CASE CommitFails(f)
  BY <1>7 DEF TypeOK, CommitFails, GoTo, FStages
<1>8. CASE CommitReplyLost(f)
  <2>1. rows' \subseteq Runs /\ totals' \in [Students -> Nat] /\ students' \subseteq Students
    BY <1>5, <1>8 DEF CommitReplyLost
  <2>2. QED
    BY <1>8, <2>1 DEF TypeOK, CommitReplyLost, GoTo, FStages, Fault
<1>9. CASE Requeue(f)
  <2>1. buffer' \in Seq(Runs)
    BY <1>9, ConcatElements DEF Requeue, TypeOK
  <2>2. QED
    BY <1>9, <2>1 DEF TypeOK, Requeue, GoTo, FStages
<1>10. QED
  BY <1>1, <1>2, <1>3, <1>4, <1>6, <1>7, <1>8, <1>9

\* The variables have their types in every reachable state.
THEOREM TypeCorrect == Spec => []TypeOK
<1>1. Init => TypeOK
  BY IngestAssumption DEF Init, TypeOK, Stages, FStages, IngestAssumption
<1>2. TypeOK /\ [Next]_vars => TypeOK'
  <2> SUFFICES ASSUME TypeOK, [Next]_vars PROVE TypeOK'
    OBVIOUS
  <2>1. CASE Environment \/ \E w \in Workers : Request(w)
    BY <2>1, TypeStepRequest
  <2>2. ASSUME NEW f \in Flushers, FlusherStep(f) \/ FlusherFault(f) PROVE TypeOK'
    BY <2>2, TypeStepDrain, TypeStepFlush DEF FlusherStep, FlusherFault
  <2>3. CASE UNCHANGED vars
    BY <2>3 DEF TypeOK, vars, env, handler, flusher, tables, parking
  <2>4. QED
    BY <2>1, <2>2, <2>3 DEF Next
<1>3. QED
  BY <1>1, <1>2, PTL DEF Spec

-----------------------------------------------------------------------------
(* Accounting: no run that was acknowledged goes unaccounted for.          *)

\* Every nonempty set of numbers has a least one.
LEMMA LeastElement ==
    ASSUME NEW S, S \subseteq Nat, S # {}
    PROVE  \E m \in S : \A n \in S : m <= n
<1> DEFINE R == {ss \in Nat \X Nat : ss[1] < ss[2]}
<1>1. R = OpToRel(<, Nat)
  BY DEF OpToRel
<1>2. IsWellFoundedOn(R, Nat)
  BY <1>1, NatLessThanWellFounded
<1>3. PICK m \in S : \A n \in S : ~ (<<n, m>> \in R)
  <2> HIDE DEF R
  <2>1. QED
    BY <1>2, WFMin
<1>4. ASSUME NEW n \in S PROVE m <= n
  <2>1. <<n, m>> \in Nat \X Nat /\ <<n, m>>[1] = n /\ <<n, m>>[2] = m
    OBVIOUS
  <2>2. ~ (<<n, m>>[1] < <<n, m>>[2])
    BY <1>3, <2>1
  <2>3. QED
    BY <2>1, <2>2
<1>5. QED
  BY <1>4

\* What the dedup drops from a batch is a row, or stays in it as an earlier
\* occurrence.
LEMMA FreshCovers ==
    ASSUME NEW items \in Seq(Runs)
    PROVE  ToSet(items) \subseteq rows \union {items[i] : i \in FreshIn(items)}
<1>1. DOMAIN items = 1..Len(items) /\ Len(items) \in Nat
  BY LenProperties
<1> SUFFICES ASSUME NEW x \in ToSet(items), x \notin rows
             PROVE  \E i \in FreshIn(items) : x = items[i]
  OBVIOUS
<1> DEFINE Places == {i \in 1..Len(items) : items[i] = x}
<1>2. Places # {} /\ Places \subseteq Nat
  BY <1>1 DEF ToSet
<1>3. PICK m \in Places : \A n \in Places : m <= n
  <2> HIDE DEF Places
  <2>1. QED
    BY <1>2, LeastElement
<1>4. \A j \in 1..(m - 1) : items[j] # items[m]
  BY <1>1, <1>3
<1>5. m \in FreshIn(items)
  BY <1>1, <1>3, <1>4 DEF FreshIn
<1>6. QED
  BY <1>3, <1>5

\* One flusher's batch changes: everybody else's stays in hand.
LEMMA HandChanges ==
    ASSUME TypeOK, NEW f \in Flushers, NEW items,
           batch' = [batch EXCEPT ![f] = items]
    PROVE  /\ InHand \subseteq InHand' \union ToSet(batch[f])
           /\ InHand' \subseteq InHand \union ToSet(items)
           /\ ToSet(batch[f]) \subseteq InHand
           /\ ToSet(items) \subseteq InHand'
           /\ \A g \in Flushers : g # f => batch'[g] = batch[g]
<1>1. DOMAIN batch = Flushers
  BY DEF TypeOK
<1>2. batch'[f] = items /\ \A g \in Flushers : g # f => batch'[g] = batch[g]
  BY <1>1
<1>3. QED
  BY <1>2 DEF InHand

LEMMA HandStays ==
    ASSUME UNCHANGED batch
    PROVE  InHand' = InHand
BY DEF InHand

\* Parked, as the set of the rows' runs.
LEMMA ParkedRows ==
    ASSUME NEW S, pending \in Seq(S)
    PROVE  Parked = {e.run : e \in ToSet(pending)}
BY LenProperties DEF Parked, ToSet

\* What a step may do to the runs the server answers for.
Secured ==
    /\ BeyondFallback \subseteq BeyondFallback'
    /\ rows \union Orphans \subseteq rows' \union Orphans'
    /\ Parked \subseteq Parked' \union BeyondFallback'
    /\ acked' \subseteq acked \union Parked' \union BeyondFallback'

\* Storing a row adds this one run and nothing else.
LEMMA StoringParks ==
    ASSUME TypeOK, NEW r \in Runs, StorePending(r)
    PROVE  Parked' = Parked \union {r}
<1>1. CASE r \in Parked /\ UNCHANGED parking
  BY <1>1 DEF Parked, parking
<1>2. CASE pending' = Append(pending, [run |-> r, pk |-> serial])
  <2> DEFINE e == [run |-> r, pk |-> serial]
  <2>1. pending \in Seq(PendingRow) /\ e \in PendingRow /\ Len(pending) \in Nat
    BY LenProperties DEF TypeOK, PendingRow
  <2>2. /\ Len(pending') = Len(pending) + 1
        /\ pending' \in Seq(PendingRow)
        /\ \A i \in 1..Len(pending) : pending'[i] = pending[i]
        /\ pending'[Len(pending) + 1] = e
    BY <1>2, <2>1, AppendProperties
  <2>3. DOMAIN pending = 1..Len(pending) /\ DOMAIN pending' = 1..(Len(pending) + 1)
    BY <2>1, <2>2, LenProperties
  <2>4. ASSUME NEW i \in DOMAIN pending' PROVE pending'[i].run \in Parked \union {r}
    <3>1. CASE i = Len(pending) + 1
      BY <2>2, <3>1
    <3>2. CASE i \in DOMAIN pending
      BY <2>2, <2>3, <3>2 DEF Parked
    <3>3. QED
      BY <2>1, <2>3, <3>1, <3>2
  <2>5. Parked \subseteq Parked'
    BY <2>1, <2>2, <2>3 DEF Parked
  <2>6. e.run = r /\ Len(pending) + 1 \in DOMAIN pending'
    BY <2>1, <2>3
  <2>7. r \in Parked'
    BY <2>2, <2>6 DEF Parked
  <2>8. QED
    BY <2>4, <2>5, <2>7 DEF Parked
<1>3. QED
  BY <1>1, <1>2 DEF StorePending

\* The environment and the requests secure every run.
LEMMA SecuredRequest ==
    ASSUME TypeOK, Environment \/ \E w \in Workers : Request(w)
    PROVE  Secured
<1> USE DEF env, handler, flusher, tables, parking
<1>1. ASSUME UNCHANGED <<batch, dropped, pending>>, buffer' = buffer, rows' = rows,
             students' = students, acked' = acked
      PROVE  Secured
  BY <1>1, HandStays DEF Secured, BeyondFallback, Buffered, Parked, Orphans
<1>2. CASE RedisFails \/ RedisReturns \/ DbFails \/ DbReturns \/ CloseWindow
  BY <1>1, <1>2 DEF RedisFails, RedisReturns, DbFails, DbReturns, CloseWindow
<1>3. ASSUME NEW s \in Students, DeleteStudent(s) PROVE Secured
  <2>1. UNCHANGED <<batch, dropped, pending, buffer, acked>>
    BY <1>3 DEF DeleteStudent
  <2>2. Orphans \subseteq Orphans'
    BY <1>3 DEF DeleteStudent, Orphans
  <2>3. rows \subseteq rows' \union Orphans'
    BY <1>3 DEF DeleteStudent, Orphans, TypeOK
  <2>4. QED
    BY <2>1, <2>2, <2>3, HandStays DEF Secured, BeyondFallback, Buffered, Parked
<1>4. ASSUME NEW w \in Workers, Request(w) PROVE Secured
  <2>1. ASSUME NEW r \in Runs, Admit(w, r) PROVE Secured
    BY <1>1, <2>1 DEF Admit
  <2>2. ASSUME NEW r \in Runs, AnswerDuplicate(w, r) PROVE Secured
    <3>1. UNCHANGED <<batch, dropped, pending, buffer, rows, students>>
      BY <2>2 DEF AnswerDuplicate
    <3>2. acked' = acked \union {r} /\ r \in rows
      BY <2>2 DEF AnswerDuplicate
    <3>3. QED
      BY <3>1, <3>2, HandStays DEF Secured, BeyondFallback, Buffered, Parked, Orphans
  <2>3. CASE Enqueue(w) \/ EnqueueReplyLost(w)
    <3>1. job[w] \in Runs
      BY <2>3 DEF Enqueue, EnqueueReplyLost, TypeOK
    <3>2. Buffered' = {job[w]} \union Buffered
      BY <2>3, <3>1, PrependElements DEF Enqueue, EnqueueReplyLost, Lpush, Buffered, TypeOK
    <3>3. UNCHANGED <<batch, dropped, pending, rows, students>>
      BY <2>3 DEF Enqueue, EnqueueReplyLost
    <3>4. acked' \subseteq acked \union {job[w]}
      BY <2>3 DEF Enqueue, EnqueueReplyLost
    <3>5. QED
      BY <3>2, <3>3, <3>4, HandStays DEF Secured, BeyondFallback, Parked, Orphans
  <2>4. CASE Fallback(w) \/ FallbackReplyLost(w)
    <3>1. job[w] \in Runs /\ StorePending(job[w])
      BY <2>4 DEF Fallback, FallbackReplyLost, TypeOK
    <3>2. Parked' = Parked \union {job[w]}
      BY <3>1, StoringParks
    <3>3. UNCHANGED <<batch, dropped, buffer, rows, students>>
      BY <2>4 DEF Fallback, FallbackReplyLost
    <3>4. acked' \subseteq acked \union {job[w]}
      BY <2>4 DEF Fallback, FallbackReplyLost
    <3>5. QED
      BY <3>2, <3>3, <3>4, HandStays DEF Secured, BeyondFallback, Buffered, Orphans
  <2>5. CASE EnqueueRefused(w) \/ FallbackRefused(w) \/ WorkerKilled(w)
    BY <1>1, <2>5 DEF EnqueueRefused, FallbackRefused, WorkerKilled
  <2>6. QED
    BY <1>4, <2>1, <2>2, <2>3, <2>4, <2>5 DEF Request
<1>5. QED
  BY <1>2, <1>3, <1>4 DEF Environment

\* Whoever does not move stays settled when the runs are secured.
LEMMA StaysSettled ==
    ASSUME Secured, NEW f \in Flushers, Settled(f),
           fstage'[f] = fstage[f], snapshot'[f] = snapshot[f],
           batch'[f] = batch[f], fresh'[f] = fresh[f]
    PROVE  Settled(f)'
BY DEF Secured, Settled, FreshRuns

\* A flusher that restarts gives up only what dropped remembers.
LEMMA SecuredRestart ==
    ASSUME TypeOK, NEW f \in Flushers, Restart(f),
           UNCHANGED <<acked, buffer, parking, tables>>
    PROVE  Secured /\ Settled(f)'
<1>1. InHand \subseteq InHand' \union ToSet(batch[f])
  BY HandChanges DEF Restart
<1>2. dropped' = dropped \union ToSet(batch[f])
  BY DEF Restart
<1>3. UNCHANGED <<acked, buffer, pending, rows, students>>
  BY DEF parking, tables
<1>4. Secured
  BY <1>1, <1>2, <1>3 DEF Secured, BeyondFallback, Buffered, Parked, Orphans
<1>5. fstage'[f] = "drain"
  BY DEF Restart, GoTo, TypeOK
<1>6. QED
  BY <1>4, <1>5 DEF Settled

\* Moving rows from PendingIngest to Redis.
LEMMA SecuredDrain ==
    ASSUME TypeOK, NEW f \in Flushers, Settled(f),
           \/ LoadFallback(f) \/ PushFallback(f) \/ PushFallbackRefused(f)
           \/ PushFallbackReplyLost(f) \/ DeleteFallback(f) \/ DeleteFallbackFails(f)
    PROVE  Secured /\ Settled(f)'
<1> USE DEF handler, flusher, tables, parking
<1>1. CASE LoadFallback(f) \/ PushFallbackRefused(f)
  <2>1. UNCHANGED <<batch, dropped, pending, buffer, rows, students, acked>>
    BY <1>1 DEF LoadFallback, PushFallbackRefused, StopDraining
  <2>2. fstage'[f] \in {"push", "pop"}
    BY <1>1 DEF LoadFallback, PushFallbackRefused, StopDraining, GoTo, TypeOK
  <2>3. QED
    BY <2>1, <2>2, HandStays
    DEF Secured, Settled, BeyondFallback, Buffered, Parked, Orphans
<1>2. CASE PushFallback(f) \/ PushFallbackReplyLost(f)
  <2> DEFINE r == Head(snapshot[f]).run
  <2>1. r \in Runs
    <3>1. snapshot[f] \in Seq(PendingRow) /\ snapshot[f] # <<>>
      BY <1>2 DEF TypeOK, PushFallback, PushFallbackReplyLost
    <3>2. Head(snapshot[f]) \in PendingRow
      BY <3>1, HeadTailProperties
    <3>3. QED
      BY <3>2 DEF PendingRow
  <2>2. Buffered' = {r} \union Buffered
    BY <1>2, <2>1, PrependElements
    DEF PushFallback, PushFallbackReplyLost, Lpush, Buffered, TypeOK
  <2>3. UNCHANGED <<batch, dropped, pending, rows, students, acked>>
    BY <1>2 DEF PushFallback, PushFallbackReplyLost, StopDraining
  <2>4. Secured
    BY <2>2, <2>3, HandStays DEF Secured, BeyondFallback, Parked, Orphans
  <2>5. r \in BeyondFallback'
    BY <2>2 DEF BeyondFallback
  <2>6. \/ fstage'[f] = "delete" /\ snapshot' = snapshot
        \/ fstage'[f] = "pop"
    BY <1>2 DEF PushFallback, PushFallbackReplyLost, StopDraining, GoTo, TypeOK
  <2>7. QED
    BY <2>4, <2>5, <2>6 DEF Settled
<1>3. CASE DeleteFallback(f)
  <2> DEFINE e == Head(snapshot[f])
  <2>1. e.run \in BeyondFallback
    BY <1>3 DEF DeleteFallback, Settled
  <2>2. /\ pending \in Seq(PendingRow) /\ pending' \in Seq(PendingRow)
        /\ ToSet(pending) \subseteq {e} \union ToSet(pending')
    BY <1>3, WithoutElements DEF DeleteFallback, TypeOK
  <2>3. Parked = {x.run : x \in ToSet(pending)}
    BY <2>2, ParkedRows
  <2>4. Parked' = {x.run : x \in ToSet(pending')}
    <3>1. DOMAIN pending' = 1..Len(pending')
      BY <2>2, LenProperties
    <3>2. QED
      BY <3>1 DEF Parked, ToSet
  <2>5. Parked \subseteq Parked' \union {e.run}
    BY <2>2, <2>3, <2>4
  <2>6. UNCHANGED <<batch, dropped, buffer, rows, students, acked>>
    BY <1>3 DEF DeleteFallback
  <2>7. BeyondFallback' = BeyondFallback
    BY <2>6, HandStays DEF BeyondFallback, Buffered, Orphans
  <2>8. Secured
    BY <2>1, <2>5, <2>6, <2>7 DEF Secured, Orphans
  <2>9. fstage'[f] \in {"push", "pop"}
    BY <1>3 DEF DeleteFallback, GoTo, TypeOK
  <2>10. QED
    BY <2>8, <2>9 DEF Settled
<1>4. CASE DeleteFallbackFails(f)
  BY <1>4, SecuredRestart DEF DeleteFallbackFails
<1>5. QED
  BY <1>1, <1>2, <1>3, <1>4

\* Popping a batch, committing it, putting it back.
LEMMA SecuredFlush ==
    ASSUME TypeOK, NEW f \in Flushers, Settled(f),
           \/ Pop(f) \/ PopRefused(f) \/ PopReplyLost(f)
           \/ Dedup(f) \/ DedupFails(f)
           \/ Commit(f) \/ CommitFails(f) \/ CommitReplyLost(f)
           \/ Requeue(f) \/ RequeueFails(f) \/ FlusherKilled(f)
    PROVE  Secured /\ Settled(f)'
<1> USE DEF handler, flusher, tables, parking
<1>1. CASE Pop(f)
  <2>1. batch[f] = <<>> /\ ToSet(batch[f]) = {}
    <3>1. batch[f] = <<>>
      BY <1>1 DEF Pop, TypeOK
    <3>2. QED
      BY <3>1 DEF ToSet
  <2>2. InHand \subseteq InHand' /\ ToSet(Popped) \subseteq InHand'
    BY <1>1, <2>1, HandChanges DEF Pop
  <2>3. Buffered \subseteq Buffered' \union InHand'
    BY <1>1, <2>2, QueueTypes DEF Pop, Buffered
  <2>4. UNCHANGED <<dropped, pending, rows, students, acked>>
    BY <1>1 DEF Pop
  <2>5. Secured
    BY <2>2, <2>3, <2>4 DEF Secured, BeyondFallback, Parked, Orphans
  <2>6. fstage'[f] \in {"drain", "dedup"}
    BY <1>1 DEF Pop, GoTo, TypeOK
  <2>7. QED
    BY <2>5, <2>6 DEF Settled
<1>2. CASE PopRefused(f) \/ DedupFails(f) \/ RequeueFails(f) \/ FlusherKilled(f)
  BY <1>2, SecuredRestart DEF PopRefused, DedupFails, RequeueFails, FlusherKilled
<1>3. CASE PopReplyLost(f)
  <2>1. Buffered \subseteq Buffered' \union dropped'
    BY <1>3, QueueTypes DEF PopReplyLost, Buffered
  <2>2. dropped \subseteq dropped' /\ UNCHANGED <<batch, pending, rows, students, acked>>
    BY <1>3 DEF PopReplyLost
  <2>3. Secured
    BY <2>1, <2>2, HandStays DEF Secured, BeyondFallback, Parked, Orphans
  <2>4. fstage'[f] = "drain"
    BY <1>3 DEF PopReplyLost, GoTo, TypeOK
  <2>5. QED
    BY <2>3, <2>4 DEF Settled
<1>4. CASE Dedup(f)
  <2> DEFINE new == FreshIn(batch[f])
  <2>1. ToSet(batch[f]) \subseteq rows \union {batch[f][i] : i \in new}
    BY FreshCovers DEF TypeOK
  <2>2. UNCHANGED <<buffer, dropped, pending, rows, students, acked>>
    BY <1>4 DEF Dedup
  <2>3. fresh' = [fresh EXCEPT ![f] = new]
    BY <1>4 DEF Dedup
  <2>4. CASE new = {}
    <3>1. batch' = [batch EXCEPT ![f] = <<>>] /\ fstage'[f] = "drain"
      BY <1>4, <2>4 DEF Dedup, GoTo, TypeOK
    <3>2. InHand \subseteq InHand' \union ToSet(batch[f])
      BY <3>1, HandChanges
    <3>3. ToSet(batch[f]) \subseteq rows
      BY <2>1, <2>4
    <3>4. Secured
      BY <2>2, <3>2, <3>3 DEF Secured, BeyondFallback, Buffered, Parked, Orphans
    <3>5. QED
      BY <3>1, <3>4 DEF Settled
  <2>5. CASE new # {}
    <3>1. batch' = batch /\ fstage'[f] = "commit"
      BY <1>4, <2>5 DEF Dedup, GoTo, TypeOK
    <3>2. Secured
      BY <2>2, <3>1, HandStays DEF Secured, BeyondFallback, Buffered, Parked, Orphans
    <3>3. fresh'[f] = new
      BY <2>3 DEF TypeOK
    <3>4. FreshRuns(f)' = {batch[f][i] : i \in new}
      BY <3>1, <3>3 DEF FreshRuns
    <3>5. QED
      BY <2>1, <2>2, <3>1, <3>2, <3>4 DEF Settled
  <2>6. QED
    BY <2>4, <2>5
<1>5. CASE Commit(f)
  <2>1. rows' = rows \union FreshRuns(f) /\ students' = students
    BY <1>5 DEF Commit, InsertBatch
  <2>2. ToSet(batch[f]) \subseteq rows \union FreshRuns(f) \union Orphans
    BY <1>5 DEF Commit, Settled
  <2>3. InHand \subseteq InHand' \union ToSet(batch[f])
    BY <1>5, HandChanges DEF Commit
  <2>4. UNCHANGED <<buffer, dropped, pending, acked>>
    BY <1>5 DEF Commit
  <2>5. Secured
    BY <2>1, <2>2, <2>3, <2>4 DEF Secured, BeyondFallback, Buffered, Parked, Orphans
  <2>6. fstage'[f] = "drain"
    BY <1>5 DEF Commit, GoTo, TypeOK
  <2>7. QED
    BY <2>5, <2>6 DEF Settled
<1>6. CASE CommitFails(f) \/ CommitReplyLost(f)
  <2>1. rows \subseteq rows' /\ students' = students
    BY <1>6 DEF CommitFails, CommitReplyLost, InsertBatch
  <2>2. UNCHANGED <<buffer, dropped, pending, acked, batch>>
    BY <1>6 DEF CommitFails, CommitReplyLost
  <2>3. Secured
    BY <2>1, <2>2, HandStays DEF Secured, BeyondFallback, Buffered, Parked, Orphans
  <2>4. fstage'[f] = "requeue"
    BY <1>6 DEF CommitFails, CommitReplyLost, GoTo, TypeOK
  <2>5. QED
    BY <2>3, <2>4 DEF Settled
<1>7. CASE Requeue(f)
  <2>1. Buffered' = Buffered \union ToSet(batch[f])
    BY <1>7, ConcatElements DEF Requeue, Buffered, TypeOK
  <2>2. InHand \subseteq InHand' \union ToSet(batch[f])
    BY <1>7, HandChanges DEF Requeue
  <2>3. UNCHANGED <<dropped, pending, rows, students, acked>>
    BY <1>7 DEF Requeue
  <2>4. Secured
    BY <2>1, <2>2, <2>3 DEF Secured, BeyondFallback, Parked, Orphans
  <2>5. fstage'[f] = "drain"
    BY <1>7 DEF Requeue, GoTo, TypeOK
  <2>6. QED
    BY <2>4, <2>5 DEF Settled
<1>8. QED
  BY <1>1, <1>2, <1>3, <1>4, <1>5, <1>6, <1>7

\* A flusher moves alone.
LEMMA OthersWait ==
    ASSUME TypeOK, NEW f \in Flushers, FlusherStep(f) \/ FlusherFault(f),
           NEW g \in Flushers, g # f
    PROVE  /\ fstage'[g] = fstage[g] /\ snapshot'[g] = snapshot[g]
           /\ batch'[g] = batch[g] /\ fresh'[g] = fresh[g]
<1>1. /\ DOMAIN fstage = Flushers /\ DOMAIN snapshot = Flushers
      /\ DOMAIN batch = Flushers /\ DOMAIN fresh = Flushers
  BY DEF TypeOK
<1> USE <1>1 DEF GoTo
<1>2. CASE \/ LoadFallback(f) \/ PushFallback(f) \/ PushFallbackRefused(f)
           \/ PushFallbackReplyLost(f) \/ DeleteFallback(f) \/ DeleteFallbackFails(f)
  BY <1>2 DEF LoadFallback, PushFallback, PushFallbackRefused, PushFallbackReplyLost,
              DeleteFallback, DeleteFallbackFails, StopDraining, Restart
<1>3. CASE Pop(f) \/ PopRefused(f) \/ PopReplyLost(f) \/ Dedup(f) \/ DedupFails(f)
  BY <1>3 DEF Pop, PopRefused, PopReplyLost, Dedup, DedupFails, Restart
<1>4. CASE \/ Commit(f) \/ CommitFails(f) \/ CommitReplyLost(f)
           \/ Requeue(f) \/ RequeueFails(f) \/ FlusherKilled(f)
  BY <1>4 DEF Commit, CommitFails, CommitReplyLost, Requeue, RequeueFails,
              FlusherKilled, Restart
<1>5. QED
  BY <1>2, <1>3, <1>4 DEF FlusherStep, FlusherFault

\* Every step secures every run and keeps every flusher settled.
LEMMA AccountingStep ==
    ASSUME TypeOK, Accounting, [Next]_vars
    PROVE  Secured /\ Accounting'
<1>1. ASSUME Secured, \A f \in Flushers : Settled(f)' PROVE Secured /\ Accounting'
  BY <1>1 DEF Secured, Accounting, AckedAccountedFor
<1>2. CASE Environment \/ \E w \in Workers : Request(w)
  <2>1. Secured
    BY <1>2, SecuredRequest
  <2>2. UNCHANGED flusher
    <3>1. CASE Environment
      BY <3>1 DEF Environment, RedisFails, RedisReturns, DbFails, DbReturns,
                  CloseWindow, DeleteStudent
    <3>2. ASSUME NEW w \in Workers, Request(w) PROVE UNCHANGED flusher
      BY <3>2 DEF Request, Admit, AnswerDuplicate, Enqueue, EnqueueRefused,
                  EnqueueReplyLost, Fallback, FallbackRefused, FallbackReplyLost,
                  WorkerKilled
    <3>3. QED
      BY <1>2, <3>1, <3>2
  <2>3. \A f \in Flushers : Settled(f)'
    BY <2>1, <2>2, StaysSettled DEF flusher, Accounting
  <2>4. QED
    BY <1>1, <2>1, <2>3
<1>3. ASSUME NEW f \in Flushers, FlusherStep(f) \/ FlusherFault(f)
      PROVE  Secured /\ Accounting'
  <2>1. Settled(f)
    BY DEF Accounting
  <2>2. Secured /\ Settled(f)'
    BY <1>3, <2>1, SecuredDrain, SecuredFlush DEF FlusherStep, FlusherFault
  <2>3. ASSUME NEW g \in Flushers, g # f PROVE Settled(g)'
    BY <1>3, <2>2, <2>3, OthersWait, StaysSettled DEF Accounting
  <2>4. QED
    BY <1>1, <2>2, <2>3
<1>4. CASE UNCHANGED vars
  <2>1. UNCHANGED <<batch, dropped, pending, buffer, rows, students, acked, fstage, snapshot, fresh>>
    BY <1>4 DEF vars, flusher, tables, parking
  <2>2. Secured
    BY <2>1, HandStays DEF Secured, BeyondFallback, Buffered, Parked, Orphans
  <2>3. \A f \in Flushers : Settled(f)'
    BY <2>1, <2>2, StaysSettled DEF Accounting
  <2>4. QED
    BY <1>1, <2>2, <2>3
<1>5. QED
  BY <1>2, <1>3, <1>4 DEF Next

\* No run is acknowledged and then forgotten: in every reachable state it is a
\* row, in Redis, in PendingIngest or in a flusher's hands, unless its student
\* was deleted or a flusher died with it.
THEOREM AckedRunsAreAccountedFor == Spec => []AckedAccountedFor
<1>1. Init => Accounting
  BY DEF Init, Accounting, AckedAccountedFor, Settled
<1>2. TypeOK /\ Accounting /\ [Next]_vars => Accounting'
  BY AccountingStep
<1>3. Accounting => AckedAccountedFor
  BY DEF Accounting
<1>4. QED
  BY <1>1, <1>2, <1>3, TypeCorrect, PTL DEF Spec

\* The inductive invariant itself, which the safety run checks.
THEOREM AccountingHolds == Spec => []Accounting
<1>1. Init => Accounting
  BY DEF Init, Accounting, AckedAccountedFor, Settled
<1>2. TypeOK /\ Accounting /\ [Next]_vars => Accounting'
  BY AccountingStep
<1>3. QED
  BY <1>1, <1>2, TypeCorrect, PTL DEF Spec

\* No step deletes a PendingIngest row whose run is not in Redis or beyond.
THEOREM FallbackRowsAreHandedOver == Spec => FallbackIsHandedOver
<1>1. TypeOK /\ Accounting /\ [Next]_vars
        => [Parked \subseteq Parked' \union BeyondFallback']_vars
  BY AccountingStep DEF Secured
<1>2. QED
  BY <1>1, TypeCorrect, AccountingHolds, PTL DEF Spec, FallbackIsHandedOver

-----------------------------------------------------------------------------
(* Totals: what the flusher adds up is what it inserts.                    *)

\* The primary key makes positions of a batch and inserted runs one to one.
LEMMA InsertedRuns ==
    ASSUME TypeOK, NEW f \in Flushers, Committable(f), NEW s \in Students
    PROVE  LET S == {r \in FreshRuns(f) : StudentOf[r] = s}
           IN  /\ IsFiniteSet(S)
               /\ Cardinality(S) = Cardinality(FreshOf(f, s))
<1> DEFINE S == {r \in FreshRuns(f) : StudentOf[r] = s}
           at == [i \in FreshOf(f, s) |-> batch[f][i]]
<1>1. IsFiniteSet(FreshOf(f, s))
  <2>1. FreshOf(f, s) \in SUBSET fresh[f]
    BY DEF FreshOf
  <2>2. QED
    BY <2>1, FreshTypes, FS_Subset
<1>2. at \in [FreshOf(f, s) -> S]
  BY DEF FreshOf, FreshRuns
<1>3. \A i, j \in FreshOf(f, s) : at[i] = at[j] => i = j
  BY DEF FreshOf, Committable
<1>4. \A r \in S : \E i \in FreshOf(f, s) : at[i] = r
  BY DEF FreshOf, FreshRuns
<1>5. at \in Bijection(FreshOf(f, s), S)
  <2> HIDE DEF at, S
  <2>1. QED
    BY <1>2, <1>3, <1>4 DEF Bijection, Injection, Surjection, IsInjective
<1>6. QED
  BY <1>1, <1>5, FS_Bijection DEF ExistsBijection

\* A transaction keeps the totals equal to the rows.
LEMMA InsertKeepsTotals ==
    ASSUME TypeOK, TotalsMatchRows, NEW f \in Flushers, Committable(f), InsertBatch(f)
    PROVE  TotalsMatchRows'
<1> SUFFICES ASSUME NEW s \in Students PROVE totals'[s] = Cardinality(RowsOf(s)')
  BY DEF TotalsMatchRows
<1> DEFINE S == {r \in FreshRuns(f) : StudentOf[r] = s}
<1>1. IsFiniteSet(S) /\ Cardinality(S) = Cardinality(FreshOf(f, s))
  BY InsertedRuns
<1>2. IsFiniteSet(RowsOf(s)) /\ Cardinality(RowsOf(s)) \in Nat
  <2>1. RowsOf(s) \in SUBSET Runs
    BY DEF RowsOf, TypeOK
  <2>2. QED
    BY <2>1, FS_Subset, FS_CardinalityType, IngestAssumption
<1>3. RowsOf(s)' = RowsOf(s) \union S
  BY DEF RowsOf, InsertBatch
<1>4. RowsOf(s) \intersect S = {}
  BY DEF RowsOf, FreshRuns, Committable
<1>5. Cardinality(S) \in Nat
  BY <1>1, FS_CardinalityType
<1>6. Cardinality(RowsOf(s) \union S) = Cardinality(RowsOf(s)) + Cardinality(S)
  <2> HIDE DEF S
  <2>1. Cardinality(RowsOf(s) \union S)
          = Cardinality(RowsOf(s)) + Cardinality(S) - Cardinality({})
    BY <1>1, <1>2, <1>4, FS_Union
  <2>2. QED
    BY <1>2, <1>5, <2>1, FS_EmptySet
<1>7. totals'[s] = totals[s] + Cardinality(FreshOf(f, s))
  BY DEF InsertBatch
<1>8. QED
  BY <1>1, <1>3, <1>6, <1>7 DEF TotalsMatchRows

\* Every step that is neither a transaction nor a deletion leaves the tables.
LEMMA TablesChange ==
    ASSUME [Next]_vars
    PROVE  \/ UNCHANGED tables
           \/ \E f \in Flushers : Committable(f) /\ InsertBatch(f)
           \/ \E s \in Students : DeleteStudent(s)
<1>1. CASE Environment
  BY <1>1 DEF Environment, RedisFails, RedisReturns, DbFails, DbReturns, CloseWindow
<1>2. ASSUME NEW w \in Workers, Request(w) PROVE UNCHANGED tables
  BY <1>2 DEF Request, Admit, AnswerDuplicate, Enqueue, EnqueueRefused,
              EnqueueReplyLost, Fallback, FallbackRefused, FallbackReplyLost,
              WorkerKilled
<1>3. ASSUME NEW f \in Flushers, FlusherStep(f) \/ FlusherFault(f)
      PROVE  UNCHANGED tables \/ (Committable(f) /\ InsertBatch(f))
  BY <1>3 DEF FlusherStep, FlusherFault, LoadFallback, PushFallback, PushFallbackRefused,
              PushFallbackReplyLost, DeleteFallback, DeleteFallbackFails, Pop,
              PopRefused, PopReplyLost, Dedup, DedupFails, Commit, CommitFails,
              CommitReplyLost, Requeue, RequeueFails, FlusherKilled
<1>4. CASE UNCHANGED vars
  BY <1>4 DEF vars
<1>5. QED
  BY <1>1, <1>2, <1>3, <1>4 DEF Next

\* The incremental totals are the Run rows, in every reachable state.
THEOREM TotalsAreTheRows == Spec => []TotalsMatchRows
<1>1. Init => TotalsMatchRows
  <2> SUFFICES ASSUME Init, NEW s \in Students PROVE totals[s] = Cardinality(RowsOf(s))
    BY DEF TotalsMatchRows
  <2>1. RowsOf(s) = {}
    BY DEF Init, RowsOf
  <2>2. QED
    BY <2>1, FS_EmptySet DEF Init
<1>2. TypeOK /\ TotalsMatchRows /\ [Next]_vars => TotalsMatchRows'
  <2> SUFFICES ASSUME TypeOK, TotalsMatchRows, [Next]_vars PROVE TotalsMatchRows'
    OBVIOUS
  <2>1. CASE UNCHANGED tables
    BY <2>1 DEF TotalsMatchRows, RowsOf, tables
  <2>2. ASSUME NEW f \in Flushers, Committable(f), InsertBatch(f) PROVE TotalsMatchRows'
    BY <2>2, InsertKeepsTotals
  <2>3. ASSUME NEW s \in Students, DeleteStudent(s) PROVE TotalsMatchRows'
    <3> SUFFICES ASSUME NEW t \in Students PROVE totals'[t] = Cardinality(RowsOf(t)')
      BY DEF TotalsMatchRows
    <3>1. CASE t = s
      <4>1. RowsOf(t)' = {} /\ totals'[t] = 0
        BY <2>3, <3>1 DEF DeleteStudent, RowsOf, TypeOK
      <4>2. QED
        BY <4>1, FS_EmptySet
    <3>2. CASE t # s
      <4>1. RowsOf(t)' = RowsOf(t) /\ totals'[t] = totals[t]
        BY <2>3, <3>2 DEF DeleteStudent, RowsOf, TypeOK
      <4>2. QED
        BY <4>1 DEF TotalsMatchRows
    <3>3. QED
      BY <3>1, <3>2
  <2>4. QED
    BY <2>1, <2>2, <2>3, TablesChange
<1>3. QED
  BY <1>1, <1>2, TypeCorrect, PTL DEF Spec

-----------------------------------------------------------------------------
(* IngestPipeline implements RunLedger, for every value of the constants:  *)
(* each step of a handler, a flusher or the environment maps to a step of  *)
(* the ledger or leaves it alone.                                          *)

\* The status of every run, as the refinement maps it.
Statuses == [r \in Runs |-> StatusOf(r)]

\* StatusOf case by case.
LEMMA StatusCases ==
    ASSUME NEW r
    PROVE  /\ StatusOf(r) = "erased" <=> r \in Orphans
           /\ StatusOf(r) = "recorded" <=> r \in rows /\ r \notin Orphans
           /\ StatusOf(r) = "held" <=> r \in Held /\ r \notin rows /\ r \notin Orphans
           /\ StatusOf(r) = "lost" <=>
                r \in dropped /\ r \notin rows /\ r \notin Held /\ r \notin Orphans
           /\ StatusOf(r) = "unknown" <=>
                r \notin dropped /\ r \notin rows /\ r \notin Held /\ r \notin Orphans
           /\ StatusOf(r) \in {"erased", "recorded", "held", "lost", "unknown"}
<1>1. CASE r \in Orphans
  BY <1>1 DEF StatusOf
<1>2. CASE r \in rows /\ r \notin Orphans
  BY <1>2 DEF StatusOf
<1>3. CASE r \in Held /\ r \notin rows /\ r \notin Orphans
  BY <1>3 DEF StatusOf
<1>4. CASE r \in dropped /\ r \notin rows /\ r \notin Held /\ r \notin Orphans
  BY <1>4 DEF StatusOf
<1>5. CASE r \notin dropped /\ r \notin rows /\ r \notin Held /\ r \notin Orphans
  BY <1>5 DEF StatusOf
<1>6. QED
  BY <1>1, <1>2, <1>3, <1>4, <1>5

\* The same of the next state.
LEMMA StatusCasesNext ==
    ASSUME NEW r
    PROVE  /\ StatusOf(r)' = "erased" <=> r \in Orphans'
           /\ StatusOf(r)' = "recorded" <=> r \in rows' /\ r \notin Orphans'
           /\ StatusOf(r)' = "held" <=> r \in Held' /\ r \notin rows' /\ r \notin Orphans'
           /\ StatusOf(r)' = "lost" <=>
                r \in dropped' /\ r \notin rows' /\ r \notin Held' /\ r \notin Orphans'
           /\ StatusOf(r)' = "unknown" <=>
                r \notin dropped' /\ r \notin rows' /\ r \notin Held' /\ r \notin Orphans'
           /\ StatusOf(r)' \in {"erased", "recorded", "held", "lost", "unknown"}
<1>1. CASE r \in Orphans'
  BY <1>1 DEF StatusOf
<1>2. CASE r \in rows' /\ r \notin Orphans'
  BY <1>2 DEF StatusOf
<1>3. CASE r \in Held' /\ r \notin rows' /\ r \notin Orphans'
  BY <1>3 DEF StatusOf
<1>4. CASE r \in dropped' /\ r \notin rows' /\ r \notin Held' /\ r \notin Orphans'
  BY <1>4 DEF StatusOf
<1>5. CASE r \notin dropped' /\ r \notin rows' /\ r \notin Held' /\ r \notin Orphans'
  BY <1>5 DEF StatusOf
<1>6. QED
  BY <1>1, <1>2, <1>3, <1>4, <1>5

\* A copy more: the ledger takes the run.
LEMMA GainIsTake ==
    ASSUME NEW r \in Runs, UNCHANGED <<rows, students, dropped>>,
           Held' = Held \union {r}
    PROVE  Ledger!Take(r)
<1>1. Orphans' = Orphans
  BY DEF Orphans
<1>2. ASSUME NEW q \in Runs
      PROVE  StatusOf(q)' = IF q = r /\ StatusOf(q) \in {"unknown", "lost"}
                            THEN "held" ELSE StatusOf(q)
  BY <1>1, StatusCases, StatusCasesNext
<1>3. QED
  BY <1>2 DEF Ledger!Take

\* Copies fewer, of runs that are rows or remembered as dropped: the ledger
\* loses what was held and is not any more.
LEMMA ShedIsLose ==
    ASSUME UNCHANGED <<rows, students, acked, totals>>,
           Held' \subseteq Held, dropped \subseteq dropped',
           dropped' \subseteq dropped \union Held,
           Held \subseteq Held' \union rows \union Orphans \union dropped'
    PROVE  Ledger!Next
<1> DEFINE S == {r \in Runs : StatusOf(r) = "held" /\ StatusOf(r)' # "held"}
<1>1. Orphans' = Orphans
  BY DEF Orphans
<1>2. ASSUME NEW q \in Runs
      PROVE  StatusOf(q)' = IF q \in S THEN "lost" ELSE StatusOf(q)
  BY <1>1, StatusCases, StatusCasesNext
<1>3. Ledger!Lose(S)
  BY <1>2 DEF Ledger!Lose
<1>4. QED
  BY <1>3 DEF Ledger!Next

\* The ledger's copy of Cardinality is Cardinality.
LEMMA LedgerCardinality ==
    ASSUME NEW S
    PROVE  Ledger!Cardinality(S) = Cardinality(S)
BY DEF Ledger!Cardinality, Cardinality

\* A transaction: the ledger records what it inserts.
LEMMA InsertIsRecord ==
    ASSUME TypeOK, NEW f \in Flushers, Committable(f), InsertBatch(f),
           UNCHANGED <<dropped, acked>>, Held' \subseteq Held,
           Held \subseteq Held' \union rows' \union Orphans
    PROVE  Ledger!Next
<1> DEFINE S == FreshRuns(f)
<1>1. Orphans' = Orphans /\ rows' = rows \union S
  BY DEF Orphans, InsertBatch
<1>2. S \subseteq Runs /\ S \subseteq Held /\ S \intersect (rows \union Orphans) = {}
  <2>1. S \subseteq ToSet(batch[f])
    BY FreshTypes DEF FreshRuns, ToSet
  <2>2. S \subseteq Held
    BY <2>1 DEF Held, InHand
  <2>3. QED
    BY <2>2, FreshTypes DEF FreshRuns, Committable, Orphans
<1> HIDE DEF S
<1>3. ASSUME NEW q \in Runs
      PROVE  StatusOf(q)' = IF q \in S THEN "recorded" ELSE StatusOf(q)
  BY <1>1, <1>2, StatusCases, StatusCasesNext
<1>4. \A r \in S : StatusOf(r) = "held"
  BY <1>2, StatusCases
<1>5. ASSUME NEW s \in Students
      PROVE  Cardinality(FreshOf(f, s)) = Cardinality(S \intersect Ledger!RunsOf(s))
  <2>1. S \intersect Ledger!RunsOf(s) = {r \in FreshRuns(f) : StudentOf[r] = s}
    BY <1>2 DEF Ledger!RunsOf, S
  <2>2. QED
    BY <2>1, InsertedRuns
<1>6. totals' = [s \in Students |-> totals[s] + Cardinality(S \intersect Ledger!RunsOf(s))]
  BY <1>5 DEF InsertBatch
<1>7. Ledger!Record(S)
  <2>1. \A r \in S : [q \in Runs |-> StatusOf(q)][r] = "held"
    BY <1>2, <1>4
  <2>2. [q \in Runs |-> StatusOf(q)']
          = [q \in Runs |-> IF q \in S THEN "recorded" ELSE [x \in Runs |-> StatusOf(x)][q]]
    BY <1>3
  <2>3. QED
    BY <1>6, <2>1, <2>2, LedgerCardinality DEF Ledger!Record
<1>8. QED
  BY <1>2, <1>7 DEF Ledger!Next

\* What a run has, it has in one of three places.
LEMMA HeldParts ==
    /\ Held = Buffered \union Parked \union InHand
    /\ Held' = Buffered' \union Parked' \union InHand'
BY DEF Held

\* The environment and the requests.
LEMMA RefineRequest ==
    ASSUME TypeOK, Environment \/ \E w \in Workers : Request(w)
    PROVE  Ledger!Next \/ UNCHANGED <<Statuses, acked, totals>>
<1> USE DEF env, handler, flusher, tables, parking
<1>1. ASSUME UNCHANGED <<batch, pending, buffer, rows, students, dropped>>
      PROVE  UNCHANGED Statuses
  BY <1>1, HandStays
  DEF Statuses, StatusOf, Held, Buffered, Parked, Orphans
<1>2. CASE RedisFails \/ RedisReturns \/ DbFails \/ DbReturns \/ CloseWindow
  BY <1>1, <1>2 DEF RedisFails, RedisReturns, DbFails, DbReturns, CloseWindow
<1>3. ASSUME NEW s \in Students, DeleteStudent(s) PROVE Ledger!Next
  <2>1. /\ Held' = Held
        /\ Orphans' = Orphans \union {r \in Runs : StudentOf[r] = s}
        /\ rows' = {r \in rows : StudentOf[r] # s}
        /\ UNCHANGED <<dropped, acked>>
        /\ totals' = [totals EXCEPT ![s] = 0]
    BY <1>3, HandStays DEF DeleteStudent, Held, Buffered, Parked, Orphans
  <2>2. ASSUME NEW q \in Runs
        PROVE  StatusOf(q)' = IF q \in Ledger!RunsOf(s) THEN "erased" ELSE StatusOf(q)
    BY <2>1, StatusCases, StatusCasesNext DEF Ledger!RunsOf
  <2>3. [q \in Runs |-> StatusOf(q)']
          = [q \in Runs |-> IF q \in Ledger!RunsOf(s) THEN "erased"
                            ELSE [x \in Runs |-> StatusOf(x)][q]]
    BY <2>2
  <2>4. Ledger!Erase(s)
    BY <2>1, <2>3 DEF Ledger!Erase
  <2>5. QED
    BY <2>4 DEF Ledger!Next
<1>4. ASSUME NEW w \in Workers, Request(w)
      PROVE  Ledger!Next \/ UNCHANGED <<Statuses, acked, totals>>
  <2>1. ASSUME NEW r \in Runs, Admit(w, r) PROVE UNCHANGED <<Statuses, acked, totals>>
    BY <1>1, <2>1 DEF Admit
  <2>2. ASSUME NEW r \in Runs, AnswerDuplicate(w, r) PROVE Ledger!Next
    <3>1. UNCHANGED Statuses
      BY <1>1, <2>2 DEF AnswerDuplicate
    <3>2. StatusOf(r) = "recorded"
      BY <2>2, StatusCases DEF AnswerDuplicate, Orphans
    <3>3. acked' = acked \union {r} /\ UNCHANGED totals
      BY <2>2 DEF AnswerDuplicate
    <3>4. Ledger!Confirm(r)
      BY <3>1, <3>2, <3>3 DEF Ledger!Confirm, Statuses
    <3>5. QED
      BY <3>4 DEF Ledger!Next
  <2>3. CASE Enqueue(w) \/ EnqueueReplyLost(w)
    <3>1. job[w] \in Runs
      BY <2>3 DEF Enqueue, EnqueueReplyLost, TypeOK
    <3>2. Buffered' = {job[w]} \union Buffered
      BY <2>3, <3>1, PrependElements DEF Enqueue, EnqueueReplyLost, Lpush, Buffered, TypeOK
    <3>3. UNCHANGED <<batch, dropped, pending, rows, students, totals>>
      BY <2>3 DEF Enqueue, EnqueueReplyLost
    <3>4. Held' = Held \union {job[w]}
      BY <3>2, <3>3, HandStays, HeldParts DEF Parked
    <3>5. Ledger!Take(job[w])
      BY <3>1, <3>3, <3>4, GainIsTake
    <3>6. acked' = acked \union {job[w]} \/ UNCHANGED acked
      BY <2>3 DEF Enqueue, EnqueueReplyLost
    <3>7. Ledger!Accept(job[w]) \/ Ledger!Store(job[w])
      BY <3>3, <3>5, <3>6 DEF Ledger!Accept, Ledger!Store
    <3>8. QED
      BY <3>1, <3>7 DEF Ledger!Next
  <2>4. CASE Fallback(w) \/ FallbackReplyLost(w)
    <3>1. job[w] \in Runs /\ StorePending(job[w])
      BY <2>4 DEF Fallback, FallbackReplyLost, TypeOK
    <3>2. Parked' = Parked \union {job[w]}
      BY <3>1, StoringParks
    <3>3. UNCHANGED <<batch, dropped, buffer, rows, students, totals>>
      BY <2>4 DEF Fallback, FallbackReplyLost
    <3>4. Held' = Held \union {job[w]}
      BY <3>2, <3>3, HandStays, HeldParts DEF Buffered
    <3>5. Ledger!Take(job[w])
      BY <3>1, <3>3, <3>4, GainIsTake
    <3>6. acked' = acked \union {job[w]} \/ UNCHANGED acked
      BY <2>4 DEF Fallback, FallbackReplyLost
    <3>7. Ledger!Accept(job[w]) \/ Ledger!Store(job[w])
      BY <3>3, <3>5, <3>6 DEF Ledger!Accept, Ledger!Store
    <3>8. QED
      BY <3>1, <3>7 DEF Ledger!Next
  <2>5. CASE EnqueueRefused(w) \/ FallbackRefused(w) \/ WorkerKilled(w)
    BY <1>1, <2>5 DEF EnqueueRefused, FallbackRefused, WorkerKilled
  <2>6. QED
    BY <1>4, <2>1, <2>2, <2>3, <2>4, <2>5 DEF Request
<1>5. QED
  BY <1>2, <1>3, <1>4 DEF Environment

\* A flusher that restarts loses what it had popped.
LEMMA RefineRestart ==
    ASSUME TypeOK, NEW f \in Flushers, Restart(f),
           UNCHANGED <<acked, buffer, parking, tables>>
    PROVE  Ledger!Next
<1>1. batch' = [batch EXCEPT ![f] = <<>>]
  BY DEF Restart
<1>2. /\ InHand \subseteq InHand' \union ToSet(batch[f])
      /\ InHand' \subseteq InHand \union ToSet(<<>>)
      /\ ToSet(batch[f]) \subseteq InHand
  BY <1>1, HandChanges
<1>3. ToSet(<<>>) = {}
  BY DEF ToSet
<1>4. UNCHANGED <<rows, students, totals, acked>> /\ Buffered' = Buffered /\ Parked' = Parked
  BY DEF parking, tables, Buffered, Parked
<1>5. dropped' = dropped \union ToSet(batch[f])
  BY DEF Restart
<1>6. QED
  BY <1>2, <1>3, <1>4, <1>5, HeldParts, ShedIsLose

\* Moving rows from PendingIngest to Redis.  The row a second flusher deleted
\* and whose run was lost since is taken again.
LEMMA RefineDrain ==
    ASSUME TypeOK, NEW f \in Flushers, Settled(f),
           \/ LoadFallback(f) \/ PushFallback(f) \/ PushFallbackRefused(f)
           \/ PushFallbackReplyLost(f) \/ DeleteFallback(f) \/ DeleteFallbackFails(f)
    PROVE  Ledger!Next
<1> USE DEF handler, flusher, tables, parking
<1>1. CASE LoadFallback(f) \/ PushFallbackRefused(f)
  <2>1. UNCHANGED <<batch, dropped, pending, buffer, rows, students, acked, totals>>
    BY <1>1 DEF LoadFallback, PushFallbackRefused, StopDraining
  <2>2. Held' = Held
    BY <2>1, HandStays, HeldParts DEF Buffered, Parked
  <2>3. QED
    BY <2>1, <2>2, ShedIsLose
<1>2. CASE PushFallback(f) \/ PushFallbackReplyLost(f)
  <2> DEFINE r == Head(snapshot[f]).run
  <2>1. r \in Runs
    <3>1. snapshot[f] \in Seq(PendingRow) /\ snapshot[f] # <<>>
      BY <1>2 DEF TypeOK, PushFallback, PushFallbackReplyLost
    <3>2. Head(snapshot[f]) \in PendingRow
      BY <3>1, HeadTailProperties
    <3>3. QED
      BY <3>2 DEF PendingRow
  <2>2. Buffered' = {r} \union Buffered
    BY <1>2, <2>1, PrependElements
    DEF PushFallback, PushFallbackReplyLost, Lpush, Buffered, TypeOK
  <2>3. UNCHANGED <<batch, dropped, pending, rows, students, acked, totals>>
    BY <1>2 DEF PushFallback, PushFallbackReplyLost, StopDraining
  <2>4. Held' = Held \union {r}
    BY <2>2, <2>3, HandStays, HeldParts DEF Parked
  <2> HIDE DEF r
  <2>5. Ledger!Take(r)
    BY <2>1, <2>3, <2>4, GainIsTake
  <2>6. QED
    BY <2>1, <2>3, <2>5 DEF Ledger!Next, Ledger!Store
<1>3. CASE DeleteFallback(f)
  <2> DEFINE e == Head(snapshot[f])
  <2>1. e.run \in BeyondFallback
    BY <1>3 DEF DeleteFallback, Settled
  <2>2. /\ pending \in Seq(PendingRow) /\ pending' \in Seq(PendingRow)
        /\ ToSet(pending) \subseteq {e} \union ToSet(pending')
        /\ ToSet(pending') \subseteq ToSet(pending)
    BY <1>3, WithoutElements DEF DeleteFallback, TypeOK
  <2>3. Parked = {x.run : x \in ToSet(pending)}
    BY <2>2, ParkedRows
  <2>4. Parked' = {x.run : x \in ToSet(pending')}
    <3>1. DOMAIN pending' = 1..Len(pending')
      BY <2>2, LenProperties
    <3>2. QED
      BY <3>1 DEF Parked, ToSet
  <2>5. Parked \subseteq Parked' \union {e.run} /\ Parked' \subseteq Parked
    BY <2>2, <2>3, <2>4
  <2>6. /\ UNCHANGED <<batch, dropped, buffer, rows, students, acked, totals>>
        /\ InHand' = InHand /\ Buffered' = Buffered
    BY <1>3, HandStays DEF DeleteFallback, Buffered
  <2>7. /\ Held' \subseteq Held
        /\ Held \subseteq Held' \union rows \union Orphans \union dropped'
    BY <2>1, <2>5, <2>6, HeldParts DEF BeyondFallback
  <2>8. QED
    BY <2>6, <2>7, ShedIsLose
<1>4. CASE DeleteFallbackFails(f)
  BY <1>4, RefineRestart DEF DeleteFallbackFails
<1>5. QED
  BY <1>1, <1>2, <1>3, <1>4

\* Popping a batch, committing it, putting it back.
LEMMA RefineFlush ==
    ASSUME TypeOK, NEW f \in Flushers, Settled(f),
           \/ Pop(f) \/ PopRefused(f) \/ PopReplyLost(f)
           \/ Dedup(f) \/ DedupFails(f)
           \/ Commit(f) \/ CommitFails(f) \/ CommitReplyLost(f)
           \/ Requeue(f) \/ RequeueFails(f) \/ FlusherKilled(f)
    PROVE  Ledger!Next
<1> USE DEF handler, flusher, tables, parking
<1>1. ToSet(<<>>) = {}
  BY DEF ToSet
<1>2. CASE Pop(f)
  <2>1. batch[f] = <<>>
    BY <1>2 DEF Pop, TypeOK
  <2>2. /\ InHand \subseteq InHand' /\ ToSet(Popped) \subseteq InHand'
        /\ InHand' \subseteq InHand \union ToSet(Popped)
    BY <1>1, <1>2, <2>1, HandChanges DEF Pop
  <2>3. Buffered = Buffered' \union ToSet(Popped)
    BY <1>2, QueueTypes DEF Pop, Buffered
  <2>4. UNCHANGED <<dropped, pending, rows, students, acked, totals>> /\ Parked' = Parked
    BY <1>2 DEF Pop, Parked
  <2>5. Held' = Held
    BY <2>2, <2>3, <2>4, HeldParts
  <2>6. QED
    BY <2>4, <2>5, ShedIsLose
<1>3. CASE PopRefused(f) \/ DedupFails(f) \/ RequeueFails(f) \/ FlusherKilled(f)
  BY <1>3, RefineRestart DEF PopRefused, DedupFails, RequeueFails, FlusherKilled
<1>4. CASE PopReplyLost(f)
  <2>1. Buffered = Buffered' \union ToSet(Popped)
    BY <1>4, QueueTypes DEF PopReplyLost, Buffered
  <2>2. /\ dropped' = dropped \union ToSet(Popped)
        /\ UNCHANGED <<batch, pending, rows, students, acked, totals>>
        /\ Parked' = Parked /\ InHand' = InHand
    BY <1>4, HandStays DEF PopReplyLost, Parked
  <2>3. QED
    BY <2>1, <2>2, HeldParts, ShedIsLose
<1>5. CASE Dedup(f)
  <2> DEFINE new == FreshIn(batch[f])
  <2>1. /\ UNCHANGED <<buffer, dropped, pending, rows, students, acked, totals>>
        /\ Parked' = Parked /\ Buffered' = Buffered
    BY <1>5 DEF Dedup, Parked, Buffered
  <2>2. CASE new = {}
    <3>1. ToSet(batch[f]) \subseteq rows
      BY <2>2, FreshCovers DEF TypeOK
    <3>2. batch' = [batch EXCEPT ![f] = <<>>]
      BY <1>5, <2>2 DEF Dedup
    <3>3. InHand \subseteq InHand' \union ToSet(batch[f]) /\ InHand' \subseteq InHand
      BY <1>1, <3>2, HandChanges
    <3>4. QED
      BY <2>1, <3>1, <3>3, HeldParts, ShedIsLose
  <2>3. CASE new # {}
    <3>1. InHand' = InHand
      BY <1>5, <2>3, HandStays DEF Dedup
    <3>2. QED
      BY <2>1, <3>1, HeldParts, ShedIsLose
  <2>4. QED
    BY <2>2, <2>3
<1>6. CASE Commit(f)
  <2>1. Committable(f) /\ InsertBatch(f) /\ UNCHANGED <<dropped, acked>>
    BY <1>6 DEF Commit
  <2>2. ToSet(batch[f]) \subseteq rows' \union Orphans
    BY <1>6 DEF Commit, Settled, InsertBatch
  <2>3. InHand \subseteq InHand' \union ToSet(batch[f]) /\ InHand' \subseteq InHand
    BY <1>1, <1>6, HandChanges DEF Commit
  <2>4. Parked' = Parked /\ Buffered' = Buffered
    BY <1>6 DEF Commit, Parked, Buffered
  <2>5. Held' \subseteq Held /\ Held \subseteq Held' \union rows' \union Orphans
    BY <2>2, <2>3, <2>4, HeldParts
  <2>6. QED
    BY <2>1, <2>5, InsertIsRecord
<1>7. CASE CommitFails(f)
  <2>1. UNCHANGED <<batch, buffer, dropped, pending, rows, students, acked, totals>>
    BY <1>7 DEF CommitFails
  <2>2. Held' = Held
    BY <2>1, HandStays, HeldParts DEF Buffered, Parked
  <2>3. QED
    BY <2>1, <2>2, ShedIsLose
<1>8. CASE CommitReplyLost(f)
  <2>1. Committable(f) /\ InsertBatch(f) /\ UNCHANGED <<dropped, acked>>
    BY <1>8 DEF CommitReplyLost
  <2>2. Held' = Held
    BY <1>8, HandStays, HeldParts DEF CommitReplyLost, Buffered, Parked
  <2>3. QED
    BY <2>1, <2>2, InsertIsRecord
<1>9. CASE Requeue(f)
  <2>1. Buffered' = Buffered \union ToSet(batch[f])
    BY <1>9, ConcatElements DEF Requeue, Buffered, TypeOK
  <2>2. /\ InHand \subseteq InHand' \union ToSet(batch[f])
        /\ InHand' \subseteq InHand /\ ToSet(batch[f]) \subseteq InHand
    BY <1>1, <1>9, HandChanges DEF Requeue
  <2>3. UNCHANGED <<dropped, pending, rows, students, acked, totals>> /\ Parked' = Parked
    BY <1>9 DEF Requeue, Parked
  <2>4. Held' = Held
    BY <2>1, <2>2, <2>3, HeldParts
  <2>5. QED
    BY <2>3, <2>4, ShedIsLose
<1>10. QED
  BY <1>2, <1>3, <1>4, <1>5, <1>6, <1>7, <1>8, <1>9

\* The pipeline implements the ledger: nothing is acknowledged that the server
\* does not know, a recorded run is recorded once and for all, and the totals
\* grow by it in the same step, whatever fails in between.
THEOREM PipelineImplementsLedger == Spec => LedgerSpec
<1>1. Init => Ledger!Init
  <2> SUFFICES ASSUME Init PROVE Ledger!Init
    OBVIOUS
  <2>1. Orphans = {}
    BY IngestAssumption DEF Init, Orphans
  <2>2. Buffered = {} /\ Parked = {} /\ InHand = {}
    BY DEF Init, Buffered, Parked, InHand, ToSet
  <2>3. \A r \in Runs : StatusOf(r) = "unknown"
    BY <2>1, <2>2, HeldParts, StatusCases DEF Init
  <2>4. QED
    BY <2>3 DEF Init, Ledger!Init
<1>2. TypeOK /\ Accounting /\ [Next]_vars
        => [Ledger!Next]_<<Statuses, acked, totals>>
  <2> SUFFICES ASSUME TypeOK, Accounting, [Next]_vars
               PROVE  Ledger!Next \/ UNCHANGED <<Statuses, acked, totals>>
    OBVIOUS
  <2>1. CASE Environment \/ \E w \in Workers : Request(w)
    BY <2>1, RefineRequest
  <2>2. ASSUME NEW f \in Flushers, FlusherStep(f) \/ FlusherFault(f) PROVE Ledger!Next
    <3>1. Settled(f)
      BY DEF Accounting
    <3>2. QED
      BY <2>2, <3>1, RefineDrain, RefineFlush DEF FlusherStep, FlusherFault
  <2>3. CASE UNCHANGED vars
    <3>1. UNCHANGED <<batch, pending, buffer, rows, students, dropped, acked, totals>>
      BY <2>3 DEF vars, flusher, tables, parking
    <3>2. QED
      BY <3>1, HandStays DEF Statuses, StatusOf, Held, Buffered, Parked, Orphans
  <2>4. QED
    BY <2>1, <2>2, <2>3 DEF Next
<1>3. TypeOK /\ Accounting /\ [Next]_vars => [Ledger!Next]_(Ledger!ledgerVars)
  BY <1>2 DEF Statuses, Ledger!ledgerVars
<1>4. QED
  BY <1>1, <1>3, TypeCorrect, AccountingHolds, PTL DEF Spec, LedgerSpec, Ledger!Spec
=============================================================================
