----------------------------- MODULE DataInduction -----------------------------
(***************************************************************************)
(* Induction over data, and what follows from it: sequences and the sets   *)
(* of their elements, finite sets, sums, the least and the greatest of     *)
(* numbers. The induction is stated with a set in the place of a           *)
(* predicate, over an interval, and proved from the pigeonhole principle;  *)
(* the other forms follow from that one.                                   *)
(***************************************************************************)
EXTENDS Integers, SequencesExt, Collections, TLAPS, FiniteSetTheorems, SequenceTheorems

(* A set with 0, and with n + 1 whenever it has n, has every number up to  *)
(* N.                                                                      *)
LEMMA IntervalInduction ==
    ASSUME NEW N \in Nat, NEW T, 0 \in T,
           \A n \in 0 .. N : n < N /\ n \in T => n + 1 \in T
    PROVE  \A n \in 0 .. N : n \in T
<1> SUFFICES ASSUME NEW m \in 0 .. N, m \notin T
             PROVE  FALSE
    OBVIOUS
<1> DEFINE A == {n \in 0 .. m : n \in T}
<1>1. IsFiniteSet(A)
    <2>1. A \in SUBSET (0 .. m)
        OBVIOUS
    <2>2. IsFiniteSet(0 .. m)
        BY FS_Interval
    <2>3. QED
        BY <2>1, <2>2, FS_Subset
<1>2. 0 \in A
    OBVIOUS
<1>3. /\ IsFiniteSet(A \ {0})
      /\ Cardinality(A \ {0}) = Cardinality(A) - 1
    BY <1>1, <1>2, FS_RemoveElement
<1>4. Cardinality(A) \in Nat
    BY <1>1, FS_CardinalityType
<1> DEFINE next == [n \in A |-> n + 1]
<1>5. next \in [A -> A \ {0}]
    <2>1. ASSUME NEW n \in A
          PROVE  n + 1 \in A \ {0}
        <3>1. n < m
            OBVIOUS
        <3>2. QED
            BY <3>1
    <2>2. QED
        BY <2>1
<1>6. \E x, y \in A : x # y /\ next[x] = next[y]
    <2> HIDE DEF A, next
    <2>1. Cardinality(A \ {0}) < Cardinality(A)
        BY <1>3, <1>4
    <2>2. QED
        BY <1>1, <1>3, <1>5, <2>1, FS_PigeonHole
<1>7. QED
    BY <1>6

(* A set with the empty sequence, and with Append(seq, x) whenever it has  *)
(* seq, has every sequence.                                                *)
LEMMA SequenceInduction ==
    ASSUME NEW S, NEW T, <<>> \in T,
           \A seq \in Seq(S), x \in S : seq \in T => Append(seq, x) \in T
    PROVE  \A seq \in Seq(S) : seq \in T
<1> SUFFICES ASSUME NEW seq \in Seq(S)
             PROVE  seq \in T
    OBVIOUS
<1> DEFINE N == Len(seq)
           P == {n \in 0 .. N : SubSeq(seq, 1, n) \in T}
<1>1. N \in Nat
    OBVIOUS
<1>2. 0 \in P
    <2>1. SubSeq(seq, 1, 0) = <<>>
        BY SubSeqEmpty
    <2>2. 0 \in 0 .. N
        BY <1>1
    <2>3. QED
        BY <2>1, <2>2, Zenon
<1>3. ASSUME NEW n \in 0 .. N, n < N, n \in P
      PROVE  n + 1 \in P
    <2>1. /\ SubSeq(seq, 1, n) \in Seq(S) /\ seq[n + 1] \in S
          /\ SubSeq(seq, 1, n + 1) = Append(SubSeq(seq, 1, n), seq[n + 1])
        BY <1>1, <1>3
    <2>2. SubSeq(seq, 1, n) \in T
        BY <1>3
    <2>3. SubSeq(seq, 1, n + 1) \in T
        BY <2>1, <2>2
    <2>4. QED
        BY <1>1, <1>3, <2>3
<1>4. N \in P
    <2> HIDE DEF P, N
    <2>1. \A n \in 0 .. N : n \in P
        BY <1>1, <1>2, <1>3, IntervalInduction
    <2>2. QED
        BY <1>1, <2>1
<1>5. SubSeq(seq, 1, N) = seq
    OBVIOUS
<1>6. QED
    BY <1>4, <1>5

-------------------------------------------------------------------------------
(* Sequences and the sets of their elements.                               *)

LEMMA ToSetEmpty == ToSet(<<>>) = {}
BY DEF ToSet

(* The elements of a sequence.                                             *)
LEMMA ToSetIn ==
    ASSUME NEW S, NEW seq \in Seq(S)
    PROVE  /\ ToSet(seq) \subseteq S
           /\ \A i \in 1 .. Len(seq) : seq[i] \in ToSet(seq)
           /\ \A x \in ToSet(seq) : \E i \in 1 .. Len(seq) : x = seq[i]
BY DEF ToSet

(* One element more.                                                       *)
LEMMA ToSetAppend ==
    ASSUME NEW S, NEW seq \in Seq(S), NEW x \in S
    PROVE  ToSet(Append(seq, x)) = ToSet(seq) \union {x}
<1> DEFINE more == Append(seq, x)
<1>1. /\ Len(seq) \in Nat /\ more \in Seq(S) /\ Len(more) = Len(seq) + 1
      /\ more[Len(seq) + 1] = x
      /\ \A i \in 1 .. Len(seq) : more[i] = seq[i]
    OBVIOUS
<1> HIDE DEF more
<1>2. ASSUME NEW y \in ToSet(more)
      PROVE  y \in ToSet(seq) \union {x}
    <2>1. PICK i \in 1 .. Len(seq) + 1 : y = more[i]
        BY <1>1, ToSetIn
    <2>2. i = Len(seq) + 1 \/ i \in 1 .. Len(seq)
        BY <1>1
    <2>3. QED
        BY <1>1, <2>1, <2>2, ToSetIn
<1>3. ASSUME NEW y \in ToSet(seq)
      PROVE  y \in ToSet(more)
    <2>1. PICK i \in 1 .. Len(seq) : y = seq[i]
        BY ToSetIn
    <2>2. i \in 1 .. Len(more) /\ y = more[i]
        BY <1>1, <2>1
    <2>3. QED
        BY <1>1, <2>2, ToSetIn
<1>4. x \in ToSet(more)
    <2>1. Len(more) \in 1 .. Len(more)
        BY <1>1
    <2>2. QED
        BY <1>1, <2>1, ToSetIn
<1>5. QED
    BY <1>2, <1>3, <1>4 DEF more

(* The elements of both.                                                   *)
LEMMA ToSetConcat ==
    ASSUME NEW S, NEW s \in Seq(S), NEW t \in Seq(S)
    PROVE  ToSet(s \o t) = ToSet(s) \union ToSet(t)
<1> DEFINE u == s \o t
<1>1. /\ Len(s) \in Nat /\ Len(t) \in Nat
      /\ u \in Seq(S) /\ Len(u) = Len(s) + Len(t)
      /\ \A i \in 1 .. Len(s) + Len(t) :
            u[i] = IF i <= Len(s) THEN s[i] ELSE t[i - Len(s)]
    BY ConcatProperties
<1> HIDE DEF u
<1>2. ASSUME NEW y \in ToSet(u)
      PROVE  y \in ToSet(s) \union ToSet(t)
    <2>1. PICK i \in 1 .. Len(s) + Len(t) : y = u[i]
        BY <1>1, ToSetIn
    <2>2. CASE i <= Len(s)
        <3>1. i \in 1 .. Len(s) /\ y = s[i]
            BY <1>1, <2>1, <2>2
        <3>2. QED
            BY <3>1, ToSetIn
    <2>3. CASE i > Len(s)
        <3>1. i - Len(s) \in 1 .. Len(t) /\ y = t[i - Len(s)]
            BY <1>1, <2>1, <2>3
        <3>2. QED
            BY <3>1, ToSetIn
    <2>4. QED
        BY <1>1, <2>2, <2>3
<1>3. ASSUME NEW y \in ToSet(s)
      PROVE  y \in ToSet(u)
    <2>1. PICK i \in 1 .. Len(s) : y = s[i]
        BY ToSetIn
    <2>2. i \in 1 .. Len(u) /\ y = u[i]
        BY <1>1, <2>1
    <2>3. QED
        BY <1>1, <2>2, ToSetIn
<1>4. ASSUME NEW y \in ToSet(t)
      PROVE  y \in ToSet(u)
    <2>1. PICK i \in 1 .. Len(t) : y = t[i]
        BY ToSetIn
    <2>2. /\ i + Len(s) \in 1 .. Len(s) + Len(t)
          /\ ~(i + Len(s) <= Len(s)) /\ (i + Len(s)) - Len(s) = i
        BY <1>1
    <2>3. i + Len(s) \in 1 .. Len(u) /\ y = u[i + Len(s)]
        BY <1>1, <2>1, <2>2
    <2>4. QED
        BY <1>1, <2>3, ToSetIn
<1>5. QED
    BY <1>2, <1>3, <1>4 DEF u

(* No element occurs twice.                                                *)
LEMMA AppendDistinct ==
    ASSUME NEW S, NEW seq \in Seq(S), NEW x \in S
    PROVE  IsInjective(Append(seq, x)) <=> IsInjective(seq) /\ x \notin ToSet(seq)
<1> DEFINE more == Append(seq, x)
           N    == Len(seq)
<1>1. /\ N \in Nat /\ more \in Seq(S) /\ DOMAIN more = 1 .. N + 1
      /\ DOMAIN seq = 1 .. N /\ more[N + 1] = x
      /\ \A i \in 1 .. N : more[i] = seq[i]
    OBVIOUS
<1>2. ASSUME IsInjective(more)
      PROVE  IsInjective(seq) /\ x \notin ToSet(seq)
    <2> HIDE DEF more, N
    <2>1. \A i, j \in 1 .. N + 1 : more[i] = more[j] => i = j
        BY <1>1, <1>2 DEF IsInjective
    <2>2. \A i, j \in 1 .. N : seq[i] = seq[j] => i = j
        BY <1>1, <2>1
    <2>3. \A i \in 1 .. N : seq[i] # x
        <3>1. ASSUME NEW i \in 1 .. N
              PROVE  seq[i] # x
            <4>1. i \in 1 .. N + 1 /\ N + 1 \in 1 .. N + 1 /\ i # N + 1
                BY <1>1
            <4>2. QED
                BY <1>1, <2>1, <4>1
        <3>2. QED
            BY <3>1
    <2>4. QED
        BY <1>1, <2>2, <2>3 DEF IsInjective, ToSet
<1>3. ASSUME IsInjective(seq), x \notin ToSet(seq)
      PROVE  IsInjective(more)
    <2> HIDE DEF more, N
    <2>1. \A i, j \in 1 .. N : seq[i] = seq[j] => i = j
        BY <1>1, <1>3 DEF IsInjective
    <2>2. \A i \in 1 .. N : seq[i] # x
        BY <1>1, <1>3 DEF ToSet
    <2>3. ASSUME NEW i \in 1 .. N + 1, NEW j \in 1 .. N + 1, more[i] = more[j]
          PROVE  i = j
        <3>1. i \in 1 .. N \/ i = N + 1
            BY <1>1
        <3>2. j \in 1 .. N \/ j = N + 1
            BY <1>1
        <3>3. QED
            BY <1>1, <2>1, <2>2, <2>3, <3>1, <3>2
    <2>4. QED
        BY <1>1, <2>3 DEF IsInjective
<1>4. QED
    BY <1>2, <1>3

LEMMA EmptyDistinct == IsInjective(<<>>)
BY DEF IsInjective

(* A sequence cut in two.                                                  *)
LEMMA SplitSequence ==
    ASSUME NEW S, NEW seq \in Seq(S), NEW n \in 0 .. Len(seq)
    PROVE  /\ SubSeq(seq, 1, n) \in Seq(S) /\ SubSeq(seq, n + 1, Len(seq)) \in Seq(S)
           /\ seq = SubSeq(seq, 1, n) \o SubSeq(seq, n + 1, Len(seq))
<1> DEFINE s == SubSeq(seq, 1, n)
           t == SubSeq(seq, n + 1, Len(seq))
<1>1. /\ s \in Seq(S) /\ Len(s) = n
      /\ \A i \in 1 .. n : s[i] = seq[i]
    OBVIOUS
<1>2. /\ t \in Seq(S) /\ Len(t) = Len(seq) - n
      /\ \A i \in 1 .. Len(seq) - n : t[i] = seq[n + i]
    <2> DEFINE m == n + 1
               k == Len(seq)
    <2>1. /\ n \in Int /\ m \in Int /\ k \in Int /\ m = n + 1 /\ 0 <= n /\ n <= k
          /\ \A i \in m .. k : seq[i] \in S
        OBVIOUS
    <2> HIDE DEF m, k
    <2>2. /\ SubSeq(seq, m, k) \in Seq(S)
          /\ Len(SubSeq(seq, m, k)) = IF m <= k THEN k - m + 1 ELSE 0
          /\ \A i \in 1 .. k - m + 1 : SubSeq(seq, m, k)[i] = seq[m + i - 1]
        BY <2>1, SubSeqProperties
    <2>3. Len(SubSeq(seq, m, k)) = k - n
        BY <2>1, <2>2
    <2>4. \A i \in 1 .. k - n : i \in 1 .. k - m + 1 /\ m + i - 1 = n + i
        BY <2>1
    <2>5. \A i \in 1 .. k - n : SubSeq(seq, m, k)[i] = seq[n + i]
        BY <2>2, <2>4
    <2>6. QED
        BY <2>2, <2>3, <2>5 DEF m, k, t
<1> HIDE DEF s, t
<1>3. /\ s \o t \in Seq(S) /\ Len(s \o t) = Len(seq)
      /\ \A i \in 1 .. Len(seq) : (s \o t)[i] = IF i <= n THEN s[i] ELSE t[i - n]
    <2>1. /\ s \o t \in Seq(S) /\ Len(s \o t) = Len(s) + Len(t)
          /\ \A i \in 1 .. Len(s) + Len(t) :
                (s \o t)[i] = IF i <= Len(s) THEN s[i] ELSE t[i - Len(s)]
        BY <1>1, <1>2, ConcatProperties
    <2>2. Len(s) = n /\ Len(s) + Len(t) = Len(seq)
        BY <1>1, <1>2
    <2>3. QED
        BY <2>1, <2>2
<1>4. ASSUME NEW i \in 1 .. Len(seq)
      PROVE  (s \o t)[i] = seq[i]
    <2>1. CASE i <= n
        <3>1. i \in 1 .. n
            BY <2>1
        <3>2. QED
            BY <1>1, <1>3, <2>1, <3>1
    <2>2. CASE ~(i <= n)
        <3>1. i - n \in 1 .. Len(seq) - n /\ n + (i - n) = i
            BY <2>2
        <3>2. (s \o t)[i] = t[i - n]
            BY <1>1, <1>2, <1>3, <2>2
        <3>3. QED
            BY <1>2, <3>1, <3>2
    <2>3. QED
        BY <2>1, <2>2
<1>5. seq = s \o t
    BY <1>3, <1>4, SeqEqual
<1>6. QED
    BY <1>1, <1>2, <1>5 DEF s, t

(* Two sequences one after the other.                                      *)
LEMMA ConcatDistinct ==
    ASSUME NEW S, NEW s \in Seq(S), NEW t \in Seq(S)
    PROVE  IsInjective(s \o t) <=> /\ IsInjective(s) /\ IsInjective(t)
                                   /\ ToSet(s) \intersect ToSet(t) = {}
<1> DEFINE u == s \o t
           M == Len(s)
           N == Len(t)
<1>1. /\ u \in Seq(S) /\ Len(u) = M + N
      /\ \A i \in 1 .. M + N : u[i] = IF i <= M THEN s[i] ELSE t[i - M]
    BY ConcatProperties
<1>2. /\ M \in Nat /\ N \in Nat
      /\ DOMAIN s = 1 .. M /\ DOMAIN t = 1 .. N /\ DOMAIN u = 1 .. M + N
    BY <1>1
<1> HIDE DEF u, M, N
<1>3. /\ \A i \in 1 .. M : i \in 1 .. M + N /\ u[i] = s[i]
      /\ \A i \in 1 .. N : M + i \in 1 .. M + N /\ u[M + i] = t[i] /\ M + i > M
      /\ \A i \in 1 .. M + N : i \in 1 .. M \/ \E j \in 1 .. N : i = M + j
    <2>1. ASSUME NEW i \in 1 .. N
          PROVE  M + i \in 1 .. M + N /\ u[M + i] = t[i] /\ M + i > M
        <3>1. M + i \in 1 .. M + N /\ ~(M + i <= M) /\ (M + i) - M = i
            BY <1>2
        <3>2. u[M + i] = t[(M + i) - M] /\ M + i > M
            BY <1>1, <1>2, <3>1
        <3>3. QED
            BY <3>1, <3>2
    <2>2. ASSUME NEW i \in 1 .. M + N, i \notin 1 .. M
          PROVE  \E j \in 1 .. N : i = M + j
        <3>1. i - M \in 1 .. N /\ i = M + (i - M)
            BY <1>2, <2>2
        <3>2. QED
            BY <3>1
    <2>3. QED
        BY <1>1, <1>2, <2>1, <2>2
<1>4. ToSet(s) = {s[i] : i \in 1 .. M} /\ ToSet(t) = {t[i] : i \in 1 .. N}
    BY <1>2 DEF ToSet
<1>5. ASSUME IsInjective(u)
      PROVE  IsInjective(s) /\ IsInjective(t) /\ ToSet(s) \intersect ToSet(t) = {}
    <2>1. \A i, j \in 1 .. M + N : u[i] = u[j] => i = j
        BY <1>2, <1>5 DEF IsInjective
    <2>2. IsInjective(s)
        BY <1>2, <1>3, <2>1 DEF IsInjective
    <2>3. \A i, j \in 1 .. N : t[i] = t[j] => i = j
        BY <1>2, <1>3, <2>1
    <2>4. ToSet(s) \intersect ToSet(t) = {}
        BY <1>2, <1>3, <1>4, <2>1
    <2>5. QED
        BY <1>2, <2>2, <2>3, <2>4 DEF IsInjective
<1>6. ASSUME IsInjective(s), IsInjective(t), ToSet(s) \intersect ToSet(t) = {}
      PROVE  IsInjective(u)
    <2>1. /\ \A i, j \in 1 .. M : s[i] = s[j] => i = j
          /\ \A i, j \in 1 .. N : t[i] = t[j] => i = j
        BY <1>2, <1>6 DEF IsInjective
    <2>2. \A i \in 1 .. M, j \in 1 .. N : s[i] # t[j]
        BY <1>4, <1>6
    <2>3. ASSUME NEW i \in 1 .. M + N, NEW j \in 1 .. M + N, u[i] = u[j]
          PROVE  i = j
        <3>1. CASE i \in 1 .. M
            BY <1>3, <2>1, <2>2, <2>3, <3>1
        <3>2. CASE i \notin 1 .. M
            <4>1. PICK k \in 1 .. N : i = M + k
                BY <1>3, <3>2
            <4>2. QED
                BY <1>3, <2>1, <2>2, <2>3, <4>1
        <3>3. QED
            BY <3>1, <3>2
    <2>4. QED
        BY <1>2, <2>3 DEF IsInjective
<1>7. QED
    BY <1>5, <1>6 DEF u

-------------------------------------------------------------------------------
(* Keep.                                                                   *)

(* The recursive function of Keep exists: kept[i] is what is kept of the   *)
(* first i elements.                                                       *)
LEMMA KeepRecursion ==
    ASSUME NEW S, NEW seq \in Seq(S), NEW set
    PROVE  \E kept :
              /\ kept[0] = <<>>
              /\ \A i \in 1 .. Len(seq) :
                    kept[i] = IF seq[i] \in set THEN Append(kept[i - 1], seq[i])
                                                ELSE kept[i - 1]
              /\ Keep(seq, set) = kept[Len(seq)]
<1> DEFINE Defined(g, n) == g = [i \in 0 .. n |->
                                    IF i = 0 THEN <<>>
                                    ELSE IF seq[i] \in set THEN Append(g[i - 1], seq[i])
                                    ELSE g[i - 1]]
           N == Len(seq)
           T == {n \in 0 .. N : \E g : Defined(g, n)}
<1>1. N \in Nat
    OBVIOUS
<1>2. 0 \in T
    <2>1. Defined([i \in 0 .. 0 |-> <<>>], 0)
        OBVIOUS
    <2> HIDE DEF Defined, N
    <2>2. QED
        BY <1>1, <2>1
<1>3. ASSUME NEW n \in 0 .. N, n < N, n \in T
      PROVE  n + 1 \in T
    <2>1. PICK g : Defined(g, n)
        BY <1>3
    <2> DEFINE h == [i \in 0 .. n + 1 |->
                        IF i <= n THEN g[i]
                        ELSE IF seq[n + 1] \in set THEN Append(g[n], seq[n + 1])
                        ELSE g[n]]
    <2>2. Defined(h, n + 1)
        <3>1. ASSUME NEW i \in 0 .. n + 1
              PROVE  h[i] = IF i = 0 THEN <<>>
                            ELSE IF seq[i] \in set THEN Append(h[i - 1], seq[i])
                            ELSE h[i - 1]
            <4>1. CASE i <= n
                <5>1. h[i] = g[i] /\ (i # 0 => h[i - 1] = g[i - 1])
                    BY <4>1
                <5>2. i \in 0 .. n
                    BY <4>1
                <5> HIDE DEF h
                <5>3. QED
                    BY <2>1, <5>1, <5>2
            <4>2. CASE i = n + 1
                BY <4>2
            <4>3. QED
                BY <4>1, <4>2
        <3>2. QED
            <4> HIDE DEF Defined
            <4>1. DOMAIN h = 0 .. n + 1 /\ h = [i \in 0 .. n + 1 |-> h[i]]
                OBVIOUS
            <4> HIDE DEF h
            <4>2. QED
                BY <3>1, <4>1 DEF Defined
    <2>3. QED
        <3> HIDE DEF h, Defined
        <3>1. QED
            BY <1>1, <1>3, <2>2
<1>4. N \in T
    <2> HIDE DEF T, N
    <2>1. \A n \in 0 .. N : n \in T
        BY <1>1, <1>2, <1>3, IntervalInduction
    <2>2. QED
        BY <1>1, <2>1
<1>5. \E g : Defined(g, N)
    <2> HIDE DEF Defined, N
    <2>1. QED
        BY <1>4
<1> DEFINE k == CHOOSE g : Defined(g, N)
<1>6. Defined(k, N)
    <2> HIDE DEF Defined, N
    <2>1. QED
        BY <1>5
<1>7. Keep(seq, set) = k[N]
    BY DEF Keep
<1> HIDE DEF k
<1>8. ASSUME NEW i \in 0 .. N
      PROVE  k[i] = IF i = 0 THEN <<>>
                    ELSE IF seq[i] \in set THEN Append(k[i - 1], seq[i])
                    ELSE k[i - 1]
    <2> HIDE DEF N
    <2>1. QED
        BY <1>6
<1>9. k[0] = <<>>
    BY <1>1, <1>8
<1>10. ASSUME NEW i \in 1 .. N
       PROVE  k[i] = IF seq[i] \in set THEN Append(k[i - 1], seq[i]) ELSE k[i - 1]
    BY <1>1, <1>8
<1>11. QED
    BY <1>7, <1>9, <1>10

(* Nothing to keep.                                                        *)
LEMMA KeepEmpty ==
    ASSUME NEW set
    PROVE  Keep(<<>>, set) = <<>>
<1>1. <<>> \in Seq({}) /\ Len(<<>>) = 0
    OBVIOUS
<1>2. PICK kept : kept[0] = <<>> /\ Keep(<<>>, set) = kept[Len(<<>>)]
    <2>1. \E kept :
              /\ kept[0] = <<>>
              /\ \A i \in 1 .. Len(<<>>) :
                    kept[i] = IF <<>>[i] \in set THEN Append(kept[i - 1], <<>>[i])
                                                 ELSE kept[i - 1]
              /\ Keep(<<>>, set) = kept[Len(<<>>)]
        BY <1>1, KeepRecursion, Zenon
    <2>2. QED
        BY <2>1, Zenon
<1>3. QED
    BY <1>1, <1>2, Zenon

(* Keep looks at one element after the other.                              *)
LEMMA KeepAppend ==
    ASSUME NEW S, NEW seq \in Seq(S), NEW x \in S, NEW set
    PROVE  Keep(Append(seq, x), set) =
               IF x \in set THEN Append(Keep(seq, set), x) ELSE Keep(seq, set)
<1> DEFINE N    == Len(seq)
           more == Append(seq, x)
<1>1. /\ N \in Nat /\ more \in Seq(S) /\ Len(more) = N + 1 /\ more[N + 1] = x
      /\ \A i \in 1 .. N : more[i] = seq[i]
    OBVIOUS
<1>2. PICK g : /\ g[0] = <<>>
               /\ \A i \in 1 .. N :
                     g[i] = IF seq[i] \in set THEN Append(g[i - 1], seq[i])
                                              ELSE g[i - 1]
               /\ Keep(seq, set) = g[N]
    BY KeepRecursion
<1>3. PICK h : /\ h[0] = <<>>
               /\ \A i \in 1 .. N + 1 :
                     h[i] = IF more[i] \in set THEN Append(h[i - 1], more[i])
                                               ELSE h[i - 1]
               /\ Keep(more, set) = h[N + 1]
    <2> HIDE DEF more, N
    <2>1. \E h : /\ h[0] = <<>>
                 /\ \A i \in 1 .. Len(more) :
                       h[i] = IF more[i] \in set THEN Append(h[i - 1], more[i])
                                                 ELSE h[i - 1]
                 /\ Keep(more, set) = h[Len(more)]
        BY <1>1, KeepRecursion, Zenon
    <2>2. QED
        BY <1>1, <2>1, Zenon
<1> HIDE DEF N, more
<1> DEFINE T == {n \in 0 .. N : h[n] = g[n]}
<1>4. 0 \in T
    BY <1>1, <1>2, <1>3
<1>5. ASSUME NEW n \in 0 .. N, n < N, n \in T
      PROVE  n + 1 \in T
    <2>1. n + 1 \in 1 .. N /\ n + 1 \in 1 .. N + 1 /\ n + 1 - 1 = n
          /\ more[n + 1] = seq[n + 1]
        BY <1>1, <1>5
    <2>2. h[n] = g[n]
        BY <1>5
    <2>3. g[n + 1] = IF seq[n + 1] \in set THEN Append(g[n], seq[n + 1]) ELSE g[n]
        BY <1>2, <2>1
    <2>4. h[n + 1] = IF more[n + 1] \in set THEN Append(h[n], more[n + 1]) ELSE h[n]
        BY <1>3, <2>1
    <2>5. QED
        BY <2>1, <2>2, <2>3, <2>4
<1>6. h[N] = g[N]
    <2> HIDE DEF T
    <2>1. \A n \in 0 .. N : n \in T
        BY <1>1, <1>4, <1>5, IntervalInduction
    <2>2. N \in T
        BY <1>1, <2>1
    <2>3. QED
        BY <2>2 DEF T
<1>7. h[N + 1] = IF x \in set THEN Append(h[N], x) ELSE h[N]
    <2>1. N + 1 \in 1 .. N + 1 /\ N + 1 - 1 = N
        BY <1>1
    <2>2. QED
        BY <1>1, <1>3, <2>1
<1>8. QED
    BY <1>2, <1>3, <1>6, <1>7 DEF more

(* Keep keeps exactly the elements in the set ...                          *)
LEMMA KeepElements ==
    ASSUME NEW S, NEW seq \in Seq(S), NEW set
    PROVE  /\ Keep(seq, set) \in Seq(S)
           /\ ToSet(Keep(seq, set)) = ToSet(seq) \intersect set
<1> DEFINE P(s) == /\ Keep(s, set) \in Seq(S)
                   /\ ToSet(Keep(s, set)) = ToSet(s) \intersect set
           T == {s \in Seq(S) : P(s)}
<1>1. <<>> \in T
    <2>1. /\ Keep(<<>>, set) = <<>> /\ ToSet(<<>>) = {} /\ <<>> \in Seq(S)
          /\ {} = {} \intersect set
        BY KeepEmpty, ToSetEmpty, EmptySeq
    <2>2. QED
        BY <2>1, Zenon
<1>2. ASSUME NEW s \in Seq(S), NEW x \in S, s \in T
      PROVE  Append(s, x) \in T
    <2>1. P(s) /\ Append(s, x) \in Seq(S)
        BY <1>2
    <2>2. Keep(Append(s, x), set) =
              IF x \in set THEN Append(Keep(s, set), x) ELSE Keep(s, set)
        BY KeepAppend
    <2>3. ToSet(Append(s, x)) = ToSet(s) \union {x}
        BY ToSetAppend
    <2>4. CASE x \in set
        <3>1. /\ Append(Keep(s, set), x) \in Seq(S)
              /\ ToSet(Append(Keep(s, set), x)) = ToSet(Keep(s, set)) \union {x}
            BY <2>1, ToSetAppend
        <3>2. QED
            BY <2>1, <2>2, <2>3, <2>4, <3>1
    <2>5. CASE x \notin set
        BY <2>1, <2>2, <2>3, <2>5
    <2>6. QED
        BY <2>4, <2>5
<1>3. QED
    <2> HIDE DEF T
    <2>1. seq \in T
        BY <1>1, <1>2, SequenceInduction
    <2>2. QED
        BY <2>1 DEF T

(* ... each as often as before ...                                         *)
LEMMA KeepDistinct ==
    ASSUME NEW S, NEW seq \in Seq(S), NEW set, IsInjective(seq)
    PROVE  IsInjective(Keep(seq, set))
<1> DEFINE T == {s \in Seq(S) : IsInjective(s) => IsInjective(Keep(s, set))}
<1>1. <<>> \in T
    BY KeepEmpty
<1>2. ASSUME NEW s \in Seq(S), NEW x \in S, s \in T
      PROVE  Append(s, x) \in T
    <2>1. SUFFICES ASSUME IsInjective(Append(s, x))
                   PROVE  IsInjective(Keep(Append(s, x), set))
        OBVIOUS
    <2>2. IsInjective(s) /\ x \notin ToSet(s)
        BY <2>1, AppendDistinct
    <2>3. IsInjective(Keep(s, set))
        BY <1>2, <2>2
    <2>4. Keep(s, set) \in Seq(S) /\ x \notin ToSet(Keep(s, set))
        BY <2>2, KeepElements
    <2>5. IsInjective(Append(Keep(s, set), x))
        BY <2>3, <2>4, AppendDistinct
    <2>6. QED
        BY <2>3, <2>5, KeepAppend
<1>3. QED
    <2> HIDE DEF T
    <2>1. seq \in T
        BY <1>1, <1>2, SequenceInduction
    <2>2. QED
        BY <2>1 DEF T

(* ... depends only on which of its elements are in the set ...            *)
LEMMA KeepAgree ==
    ASSUME NEW S, NEW seq \in Seq(S), NEW X, NEW Y,
           \A x \in ToSet(seq) : x \in X <=> x \in Y
    PROVE  Keep(seq, X) = Keep(seq, Y)
<1> DEFINE T == {s \in Seq(S) : (\A x \in ToSet(s) : x \in X <=> x \in Y)
                                    => Keep(s, X) = Keep(s, Y)}
<1>1. <<>> \in T
    BY KeepEmpty
<1>2. ASSUME NEW s \in Seq(S), NEW x \in S, s \in T
      PROVE  Append(s, x) \in T
    <2>1. SUFFICES ASSUME \A y \in ToSet(Append(s, x)) : y \in X <=> y \in Y
                   PROVE  Keep(Append(s, x), X) = Keep(Append(s, x), Y)
        OBVIOUS
    <2>2. ToSet(Append(s, x)) = ToSet(s) \union {x}
        BY ToSetAppend
    <2>3. Keep(s, X) = Keep(s, Y)
        BY <1>2, <2>1, <2>2
    <2>4. x \in X <=> x \in Y
        BY <2>1, <2>2
    <2>5. /\ Keep(Append(s, x), X) =
                 IF x \in X THEN Append(Keep(s, X), x) ELSE Keep(s, X)
          /\ Keep(Append(s, x), Y) =
                 IF x \in Y THEN Append(Keep(s, Y), x) ELSE Keep(s, Y)
        BY KeepAppend
    <2>6. QED
        BY <2>3, <2>4, <2>5
<1>3. QED
    <2> HIDE DEF T
    <2>1. seq \in T
        BY <1>1, <1>2, SequenceInduction
    <2>2. QED
        BY <2>1 DEF T

(* ... keeps the sequence if all elements are in the set ...               *)
LEMMA KeepAll ==
    ASSUME NEW S, NEW seq \in Seq(S), NEW set, ToSet(seq) \subseteq set
    PROVE  Keep(seq, set) = seq
<1> DEFINE T == {s \in Seq(S) : ToSet(s) \subseteq set => Keep(s, set) = s}
<1>1. <<>> \in T
    BY KeepEmpty
<1>2. ASSUME NEW s \in Seq(S), NEW x \in S, s \in T
      PROVE  Append(s, x) \in T
    BY <1>2, KeepAppend, ToSetAppend
<1>3. QED
    <2> HIDE DEF T
    <2>1. seq \in T
        BY <1>1, <1>2, SequenceInduction
    <2>2. QED
        BY <2>1 DEF T

(* ... and nothing if none is ...                                          *)
LEMMA KeepNone ==
    ASSUME NEW S, NEW seq \in Seq(S), NEW set, ToSet(seq) \intersect set = {}
    PROVE  Keep(seq, set) = <<>>
<1>1. Keep(seq, set) = Keep(seq, {})
    BY KeepAgree
<1> DEFINE T == {s \in Seq(S) : Keep(s, {}) = <<>>}
<1>2. <<>> \in T
    BY KeepEmpty
<1>3. ASSUME NEW s \in Seq(S), NEW x \in S, s \in T
      PROVE  Append(s, x) \in T
    BY <1>3, KeepAppend
<1>4. QED
    <2> HIDE DEF T
    <2>1. seq \in T
        BY <1>2, <1>3, SequenceInduction
    <2>2. QED
        BY <1>1, <2>1 DEF T

(* ... and goes through concatenation and through itself.                  *)
LEMMA KeepConcat ==
    ASSUME NEW S, NEW s \in Seq(S), NEW t \in Seq(S), NEW set
    PROVE  Keep(s \o t, set) = Keep(s, set) \o Keep(t, set)
<1> DEFINE T == {u \in Seq(S) : Keep(s \o u, set) = Keep(s, set) \o Keep(u, set)}
<1>1. <<>> \in T
    <2>1. s \o <<>> = s
        OBVIOUS
    <2>2. Keep(s, set) \o <<>> = Keep(s, set)
        BY KeepElements, ConcatEmptySeq
    <2>3. /\ Keep(s \o <<>>, set) = Keep(s, set) \o Keep(<<>>, set)
          /\ <<>> \in Seq(S)
        <3>1. Keep(<<>>, set) = <<>> /\ <<>> \in Seq(S)
            BY KeepEmpty, EmptySeq
        <3>2. QED
            BY <2>1, <2>2, <3>1, Zenon
    <2>4. QED
        BY <2>3
<1>2. ASSUME NEW u \in Seq(S), NEW x \in S, u \in T
      PROVE  Append(u, x) \in T
    <2>1. s \o u \in Seq(S) /\ s \o Append(u, x) = Append(s \o u, x)
        OBVIOUS
    <2>2. Keep(s, set) \in Seq(S) /\ Keep(u, set) \in Seq(S)
        BY KeepElements
    <2>3. Keep(s, set) \o Append(Keep(u, set), x)
              = Append(Keep(s, set) \o Keep(u, set), x)
        BY <2>2
    <2>4. Keep(s \o u, set) = Keep(s, set) \o Keep(u, set)
        BY <1>2
    <2>5. Keep(Append(s \o u, x), set) =
              IF x \in set THEN Append(Keep(s \o u, set), x) ELSE Keep(s \o u, set)
        BY <2>1, KeepAppend
    <2>6. Keep(Append(u, x), set) =
              IF x \in set THEN Append(Keep(u, set), x) ELSE Keep(u, set)
        BY KeepAppend
    <2>7. Keep(s \o Append(u, x), set) = Keep(s, set) \o Keep(Append(u, x), set)
        BY <2>1, <2>3, <2>4, <2>5, <2>6
    <2>8. QED
        BY <2>7
<1>3. QED
    <2> HIDE DEF T
    <2>1. t \in T
        BY <1>1, <1>2, SequenceInduction
    <2>2. QED
        BY <2>1 DEF T

(* Keeping twice is keeping what is in both sets.                          *)
LEMMA KeepKeep ==
    ASSUME NEW S, NEW seq \in Seq(S), NEW X, NEW Y
    PROVE  Keep(Keep(seq, X), Y) = Keep(seq, X \intersect Y)
<1> DEFINE T == {s \in Seq(S) : Keep(Keep(s, X), Y) = Keep(s, X \intersect Y)}
<1>1. <<>> \in T
    BY KeepEmpty
<1>2. ASSUME NEW s \in Seq(S), NEW x \in S, s \in T
      PROVE  Append(s, x) \in T
    <2>1. Keep(s, X) \in Seq(S)
        BY KeepElements
    <2>2. Keep(Append(Keep(s, X), x), Y) =
              IF x \in Y THEN Append(Keep(Keep(s, X), Y), x) ELSE Keep(Keep(s, X), Y)
        BY <2>1, KeepAppend
    <2>3. Keep(Append(s, x), X) =
              IF x \in X THEN Append(Keep(s, X), x) ELSE Keep(s, X)
        BY KeepAppend
    <2>4. Keep(Append(s, x), X \intersect Y) =
              IF x \in X \intersect Y THEN Append(Keep(s, X \intersect Y), x)
                                     ELSE Keep(s, X \intersect Y)
        BY KeepAppend
    <2>5. Keep(Keep(s, X), Y) = Keep(s, X \intersect Y)
        BY <1>2
    <2>6. Keep(Keep(Append(s, x), X), Y) = Keep(Append(s, x), X \intersect Y)
        <3>1. CASE x \in X /\ x \in Y
            BY <2>2, <2>3, <2>4, <2>5, <3>1
        <3>2. CASE x \in X /\ x \notin Y
            BY <2>2, <2>3, <2>4, <2>5, <3>2
        <3>3. CASE x \notin X
            BY <2>3, <2>4, <2>5, <3>3
        <3>4. QED
            BY <3>1, <3>2, <3>3
    <2>7. Append(s, x) \in Seq(S)
        OBVIOUS
    <2>8. QED
        BY <2>6, <2>7
<1>3. QED
    <2> HIDE DEF T
    <2>1. seq \in T
        BY <1>1, <1>2, SequenceInduction
    <2>2. QED
        BY <2>1 DEF T

-------------------------------------------------------------------------------
(* Finite sets.                                                            *)

(* The values of a function on a finite set are finitely many.             *)
LEMMA ImageIsFinite ==
    ASSUME NEW S, IsFiniteSet(S), NEW T, NEW g \in [S -> T]
    PROVE  IsFiniteSet({g[x] : x \in S})
<1> DEFINE R == {g[x] : x \in S}
<1>1. g \in Surjection(S, R)
    BY DEF Surjection
<1> HIDE DEF R
<1>2. QED
    BY <1>1, FS_Surjection DEF R

LEMMA PairIsFinite == ASSUME NEW x, NEW y PROVE IsFiniteSet({x, y}) /\ {x, y} # {}
<1>1. IsFiniteSet({x})
    BY FS_Singleton
<1>2. {x} \union {y} = {x, y}
    OBVIOUS
<1>3. IsFiniteSet({x} \union {y})
    BY <1>1, FS_AddElement
<1>4. QED
    BY <1>2, <1>3

(* A set has every subset of a finite set S if it has those of which it    *)
(* has all smaller ones.                                                   *)
LEMMA SubsetInduction ==
    ASSUME NEW S, IsFiniteSet(S), NEW T,
           \A A \in SUBSET S : (\A B \in SUBSET A : B # A => B \in T) => A \in T
    PROVE  \A A \in SUBSET S : A \in T
<1> DEFINE N == Cardinality(S)
           P == {n \in 0 .. N : \A A \in SUBSET S : Cardinality(A) <= n => A \in T}
<1>1. N \in Nat
    BY FS_CardinalityType
<1>2. ASSUME NEW A \in SUBSET S
      PROVE  /\ IsFiniteSet(A) /\ Cardinality(A) \in Nat /\ Cardinality(A) <= N
             /\ \A B \in SUBSET A : B # A => /\ B \in SUBSET S /\ Cardinality(B) \in Nat
                                             /\ Cardinality(B) < Cardinality(A)
    <2>1. IsFiniteSet(A) /\ Cardinality(A) <= N
        BY FS_Subset
    <2>2. Cardinality(A) \in Nat
        BY <2>1, FS_CardinalityType
    <2>3. ASSUME NEW B \in SUBSET A, B # A
          PROVE  B \in SUBSET S /\ Cardinality(B) \in Nat /\ Cardinality(B) < Cardinality(A)
        <3>1. IsFiniteSet(B) /\ Cardinality(B) <= Cardinality(A) /\ Cardinality(B) # Cardinality(A)
            BY <2>1, <2>3, FS_Subset
        <3>2. Cardinality(B) \in Nat
            BY <3>1, FS_CardinalityType
        <3>3. QED
            BY <2>2, <3>1, <3>2
    <2>4. QED
        BY <2>1, <2>2, <2>3
<1> HIDE DEF N
<1>3. 0 \in P
    <2>1. ASSUME NEW A \in SUBSET S, Cardinality(A) <= 0
          PROVE  A \in T
        <3>1. Cardinality(A) = 0
            BY <1>2, <2>1
        <3>2. ASSUME NEW B \in SUBSET A, B # A
              PROVE  FALSE
            <4>1. Cardinality(B) \in Nat /\ Cardinality(B) < Cardinality(A)
                BY <1>2, <3>2
            <4>2. QED
                BY <3>1, <4>1
        <3>3. QED
            BY <3>2
    <2>2. QED
        BY <1>1, <2>1
<1>4. ASSUME NEW n \in 0 .. N, n < N, n \in P
      PROVE  n + 1 \in P
    <2>1. ASSUME NEW A \in SUBSET S, Cardinality(A) <= n + 1
          PROVE  A \in T
        <3>1. ASSUME NEW B \in SUBSET A, B # A
              PROVE  B \in T
            <4>1. B \in SUBSET S /\ Cardinality(B) <= n
                BY <1>2, <2>1, <3>1
            <4>2. QED
                BY <1>4, <4>1
        <3>2. QED
            BY <3>1
    <2>2. QED
        BY <1>1, <1>4, <2>1
<1>5. N \in P
    <2> HIDE DEF P
    <2>1. QED
        BY <1>1, <1>3, <1>4, IntervalInduction
<1>6. QED
    BY <1>2, <1>5

(* A finite, not empty set of numbers has a least and a greatest one.      *)
LEMMA Extremes ==
    ASSUME NEW S, IsFiniteSet(S), S # {}, S \subseteq Int
    PROVE  /\ Min(S) \in S /\ \A x \in S : Min(S) <= x
           /\ Max(S) \in S /\ \A x \in S : x <= Max(S)
<1> DEFINE T == {A \in SUBSET S : A # {} => /\ \E x \in A : \A y \in A : x <= y
                                            /\ \E x \in A : \A y \in A : y <= x}
<1>1. ASSUME NEW A \in SUBSET S, \A B \in SUBSET A : B # A => B \in T
      PROVE  A \in T
    <2> SUFFICES ASSUME A # {}
                 PROVE  /\ \E x \in A : \A y \in A : x <= y
                        /\ \E x \in A : \A y \in A : y <= x
        OBVIOUS
    <2>1. PICK a \in A : TRUE
        OBVIOUS
    <2>2. CASE A = {a}
        BY <2>2
    <2>3. CASE A # {a}
        <3> DEFINE B == A \ {a}
        <3>1. B \in SUBSET A /\ B # A /\ B # {}
            BY <2>3
        <3>2. B \in T
            BY <1>1, <3>1
        <3>3. /\ \E x \in B : \A y \in B : x <= y
              /\ \E x \in B : \A y \in B : y <= x
            BY <3>1, <3>2
        <3>4. PICK b \in B : \A y \in B : b <= y
            BY <3>3
        <3>5. PICK c \in B : \A y \in B : y <= c
            BY <3>3
        <3>6. /\ \A y \in A : y \in B \/ y = a
              /\ a \in Int /\ b \in Int /\ c \in Int /\ b \in A /\ c \in A
            OBVIOUS
        <3>7. \E x \in A : \A y \in A : x <= y
            BY <3>4, <3>6
        <3>8. \E x \in A : \A y \in A : y <= x
            BY <3>5, <3>6
        <3>9. QED
            BY <3>7, <3>8
    <2>4. QED
        BY <2>2, <2>3
<1>2. S \in T
    <2> HIDE DEF T
    <2>1. QED
        BY <1>1, SubsetInduction
<1>3. QED
    BY <1>2 DEF Min, Max

(* Of two numbers, one is the least and one the greatest.                  *)
LEMMA ExtremesOfPair ==
    ASSUME NEW a \in Int, NEW b \in Int
    PROVE  /\ Min({a, b}) = IF a <= b THEN a ELSE b
           /\ Max({a, b}) = IF a <= b THEN b ELSE a
<1> DEFINE P == {a, b}
<1>1. IsFiniteSet(P) /\ P # {} /\ P \subseteq Int
    <2>1. IsFiniteSet(P)
        BY PairIsFinite
    <2>2. QED
        BY <2>1
<1>2. \A x : x \in P <=> x = a \/ x = b
    OBVIOUS
<1> HIDE DEF P
<1>3. /\ Min(P) \in P /\ \A x \in P : Min(P) <= x
      /\ Max(P) \in P /\ \A x \in P : x <= Max(P)
    BY <1>1, Extremes
<1>4. /\ Min(P) = IF a <= b THEN a ELSE b
      /\ Max(P) = IF a <= b THEN b ELSE a
    BY <1>2, <1>3
<1>5. QED
    BY <1>4 DEF P

(* The extremes of two sets together.                                      *)
LEMMA ExtremesOfUnion ==
    ASSUME NEW A, IsFiniteSet(A), A # {}, A \subseteq Int,
           NEW B, IsFiniteSet(B), B # {}, B \subseteq Int
    PROVE  /\ Min(A \union B) = Min({Min(A), Min(B)})
           /\ Max(A \union B) = Max({Max(A), Max(B)})
           /\ Max(A \union B) = IF Max(B) > Max(A) THEN Max(B) ELSE Max(A)
<1>1. /\ Min(A) \in A /\ \A x \in A : Min(A) <= x
      /\ Max(A) \in A /\ \A x \in A : x <= Max(A)
    BY Extremes
<1>2. /\ Min(B) \in B /\ \A x \in B : Min(B) <= x
      /\ Max(B) \in B /\ \A x \in B : x <= Max(B)
    BY Extremes
<1> DEFINE U == A \union B
           L == {Min(A), Min(B)}
           G == {Max(A), Max(B)}
<1>3. IsFiniteSet(U) /\ U # {} /\ U \subseteq Int
    BY FS_Union
<1>4. /\ IsFiniteSet(L) /\ L # {} /\ L \subseteq Int
      /\ IsFiniteSet(G) /\ G # {} /\ G \subseteq Int
    BY <1>1, <1>2, PairIsFinite
<1>5. \A x : /\ x \in U <=> x \in A \/ x \in B
             /\ x \in L <=> x = Min(A) \/ x = Min(B)
             /\ x \in G <=> x = Max(A) \/ x = Max(B)
    OBVIOUS
<1> HIDE DEF U, L, G
<1>6. /\ Min(U) \in U /\ \A x \in U : Min(U) <= x
      /\ Max(U) \in U /\ \A x \in U : x <= Max(U)
    BY <1>3, Extremes
<1>7. Min(L) \in L /\ \A x \in L : Min(L) <= x
    BY <1>4, Extremes
<1>8. Max(G) \in G /\ \A x \in G : x <= Max(G)
    BY <1>4, Extremes
<1>9. Min(U) = Min(L)
    <2>1. Min(L) \in U /\ Min(L) \in Int /\ Min(U) \in Int /\ Min(A) \in Int /\ Min(B) \in Int
        BY <1>1, <1>2, <1>3, <1>4, <1>5, <1>6, <1>7
    <2>2. Min(U) <= Min(L)
        BY <1>6, <2>1
    <2>3. Min(L) <= Min(A) /\ Min(L) <= Min(B)
        BY <1>5, <1>7
    <2>4. Min(A) <= Min(U) \/ Min(B) <= Min(U)
        BY <1>1, <1>2, <1>5, <1>6
    <2>5. QED
        BY <2>1, <2>2, <2>3, <2>4
<1>10. Max(U) = Max(G)
    <2>1. Max(G) \in U /\ Max(G) \in Int /\ Max(U) \in Int /\ Max(A) \in Int /\ Max(B) \in Int
        BY <1>1, <1>2, <1>3, <1>4, <1>5, <1>6, <1>8
    <2>2. Max(G) <= Max(U)
        BY <1>6, <2>1
    <2>3. Max(A) <= Max(G) /\ Max(B) <= Max(G)
        BY <1>5, <1>8
    <2>4. Max(U) <= Max(A) \/ Max(U) <= Max(B)
        BY <1>1, <1>2, <1>5, <1>6
    <2>5. QED
        BY <2>1, <2>2, <2>3, <2>4
<1>11. Max(G) = IF Max(B) > Max(A) THEN Max(B) ELSE Max(A)
    <2>1. Max(A) \in Int /\ Max(B) \in Int
        BY <1>1, <1>2
    <2>2. Max(G) = Max(A) \/ Max(G) = Max(B)
        BY <1>5, <1>8
    <2>3. Max(A) <= Max(G) /\ Max(B) <= Max(G)
        BY <1>5, <1>8
    <2>4. QED
        BY <2>1, <2>2, <2>3
<1>12. QED
    BY <1>9, <1>10, <1>11 DEF U, L, G

-------------------------------------------------------------------------------
(* Sums.                                                                   *)

(* sum[s] is the sum of g over s, taken in the order of CHOOSE.            *)
AddsUp(sum, g, S) ==
    /\ sum \in [SUBSET S -> Int]
    /\ sum[{}] = 0
    /\ \A s \in SUBSET S : s # {} => \E x \in s : /\ x = CHOOSE y \in s : TRUE
                                                  /\ sum[s] = g[x] + sum[s \ {x}]

SumIn(g, s) == SumFunction([x \in s |-> g[x]])

(* The recursive function of SumFunction exists and is one of integers.    *)
LEMMA SumRecursion ==
    ASSUME NEW S, IsFiniteSet(S), NEW g \in [S -> Int]
    PROVE  \E sum : AddsUp(sum, g, S) /\ SumFunction(g) = sum[S]
<1> DEFINE First(s) == CHOOSE x \in s : TRUE
           Of(h, s) == IF s = {} THEN 0 ELSE g[First(s)] + h[s \ {First(s)}]
           N == Cardinality(S)
           Small(n) == {s \in SUBSET S : Cardinality(s) <= n}
           T == {n \in 0 .. N : \E h : h = [s \in Small(n) |-> Of(h, s)]}
<1>1. N \in Nat
    BY FS_CardinalityType
<1>0. ASSUME NEW s \in SUBSET S
      PROVE  IsFiniteSet(s) /\ Cardinality(s) <= N /\ Cardinality(s) \in Nat
    <2>1. IsFiniteSet(s) /\ Cardinality(s) <= N
        BY FS_Subset
    <2>2. QED
        BY <2>1, FS_CardinalityType
<1>2. ASSUME NEW s \in SUBSET S
      PROVE  s # {} => /\ First(s) \in s /\ s \ {First(s)} \in SUBSET S
                       /\ Cardinality(s \ {First(s)}) = Cardinality(s) - 1
    <2>1. IsFiniteSet(s)
        BY <1>0
    <2>3. s # {} => First(s) \in s
        OBVIOUS
    <2> HIDE DEF First
    <2>4. s # {} => Cardinality(s \ {First(s)}) = Cardinality(s) - 1
        BY <2>1, <2>3, FS_RemoveElement
    <2>5. QED
        BY <2>3, <2>4
<1> HIDE DEF First, N
<1>3. 0 \in T
    <2> DEFINE h == [s \in Small(0) |-> 0]
    <2>1. ASSUME NEW s \in Small(0)
          PROVE  s = {}
        <3>1. Cardinality(s) = 0
            BY <1>0
        <3>2. IsFiniteSet(s)
            BY <1>0
        <3>3. QED
            BY <3>1, <3>2, FS_EmptySet
    <2>2. h = [s \in Small(0) |-> Of(h, s)]
        BY <2>1
    <2>3. 0 \in 0 .. N
        BY <1>1
    <2> HIDE DEF h, Of, Small
    <2>4. QED
        BY <2>2, <2>3
<1>4. ASSUME NEW n \in 0 .. N, n < N, n \in T
      PROVE  n + 1 \in T
    <2>1. PICK h : h = [s \in Small(n) |-> Of(h, s)]
        BY <1>4
    <2> DEFINE k == [s \in Small(n + 1) |-> Of(h, s)]
    <2>2. ASSUME NEW s \in Small(n + 1)
          PROVE  Of(h, s) = Of(k, s)
        <3>1. CASE s = {}
            BY <3>1
        <3>2. CASE s # {}
            <4> DEFINE r == s \ {First(s)}
            <4>1. r \in Small(n) /\ r \in Small(n + 1)
                BY <1>0, <1>2, <3>2
            <4>2. h[r] = Of(h, r) /\ k[r] = Of(h, r)
                <5> HIDE DEF Of, Small, r
                <5>1. QED
                    BY <2>1, <4>1
            <4>3. QED
                BY <3>2, <4>2
        <3>3. QED
            BY <3>1, <3>2
    <2>3. k = [s \in Small(n + 1) |-> Of(k, s)]
        <3> HIDE DEF Of, Small
        <3>1. QED
            BY <2>2
    <2>4. n + 1 \in 0 .. N
        BY <1>1, <1>4
    <2> HIDE DEF k, Of, Small
    <2>5. QED
        BY <2>3, <2>4
<1>5. \E h : h = [s \in SUBSET S |-> Of(h, s)]
    <2>1. N \in T
        <3> HIDE DEF T
        <3>1. QED
            BY <1>1, <1>3, <1>4, IntervalInduction
    <2>2. Small(N) = SUBSET S
        <3>1. ASSUME NEW s \in SUBSET S
              PROVE  Cardinality(s) <= N
            BY <1>0
        <3>2. QED
            BY <3>1
    <2> HIDE DEF Of, Small
    <2>3. QED
        BY <2>1, <2>2
<1> DEFINE sum == CHOOSE h : h = [s \in SUBSET S |-> Of(h, s)]
<1>6. sum = [s \in SUBSET S |-> Of(sum, s)]
    <2> HIDE DEF Of
    <2>1. QED
        BY <1>5
<1>7. SumFunction(g) = sum[S]
    <2>1. DOMAIN g = S
        OBVIOUS
    <2>2. QED
        BY <2>1 DEF SumFunction, SumFunctionOnSet, FoldFunctionOnSet, MapThenFoldSet, First
<1> HIDE DEF sum
<1>8. ASSUME NEW s \in SUBSET S
      PROVE  sum[s] = Of(sum, s)
    <2> HIDE DEF Of
    <2>1. QED
        BY <1>6
<1>9. \A s \in SUBSET S : sum[s] \in Int
    <2> DEFINE U == {s \in SUBSET S : sum[s] \in Int}
    <2>1. ASSUME NEW s \in SUBSET S, \A r \in SUBSET s : r # s => r \in U
          PROVE  s \in U
        <3>1. CASE s = {}
            <4>1. sum[s] = 0
                BY <1>8, <3>1
            <4>2. QED
                BY <4>1
        <3>2. CASE s # {}
            <4>1. First(s) \in s
                BY <1>2, <3>2
            <4>2. s \ {First(s)} \in U
                BY <2>1, <4>1
            <4>3. sum[s] = g[First(s)] + sum[s \ {First(s)}]
                BY <1>8, <3>2
            <4>4. QED
                BY <4>1, <4>2, <4>3
        <3>3. QED
            BY <3>1, <3>2
    <2> HIDE DEF U
    <2>2. \A s \in SUBSET S : s \in U
        BY <2>1, SubsetInduction
    <2>3. QED
        BY <2>2 DEF U
<1>10. sum \in [SUBSET S -> Int]
    <2> HIDE DEF Of
    <2>1. QED
        BY <1>6, <1>9
<1>11. \A s \in SUBSET S : s # {} => \E x \in s : /\ x = First(s)
                                                 /\ sum[s] = g[x] + sum[s \ {x}]
    BY <1>2, <1>8
<1>12. sum[{}] = 0
    BY <1>8
<1>13. QED
    BY <1>7, <1>10, <1>11, <1>12 DEF First, AddsUp

(* The sum over a part of the domain is a value of that function.          *)
LEMMA SumOfParts ==
    ASSUME NEW S, IsFiniteSet(S), NEW g \in [S -> Int]
    PROVE  \E sum : AddsUp(sum, g, S) /\ \A s \in SUBSET S : SumIn(g, s) = sum[s]
<1>1. PICK sum : AddsUp(sum, g, S)
    BY SumRecursion
<1>2. ASSUME NEW A \in SUBSET S
      PROVE  SumIn(g, A) = sum[A]
    <2> DEFINE gA == [x \in A |-> g[x]]
    <2>0. IsFiniteSet(A)
        BY FS_Subset
    <2>1. gA \in [A -> Int]
        OBVIOUS
    <2>2. PICK sumA : AddsUp(sumA, gA, A) /\ SumFunction(gA) = sumA[A]
        <3> HIDE DEF gA
        <3>1. QED
            BY <2>0, <2>1, SumRecursion
    <2> DEFINE T == {s \in SUBSET A : sumA[s] = sum[s]}
    <2>3. ASSUME NEW s \in SUBSET A, \A r \in SUBSET s : r # s => r \in T
          PROVE  s \in T
        <3>1. CASE s = {}
            BY <1>1, <2>2, <3>1 DEF AddsUp
        <3>2. CASE s # {}
            <4>1. PICK x \in s : x = (CHOOSE y \in s : TRUE) /\ sumA[s] = gA[x] + sumA[s \ {x}]
                BY <2>2, <3>2 DEF AddsUp
            <4>2. PICK z \in s : z = (CHOOSE y \in s : TRUE) /\ sum[s] = g[z] + sum[s \ {z}]
                BY <1>1, <3>2 DEF AddsUp
            <4>3. s \ {x} \in T
                BY <2>3
            <4>4. QED
                BY <4>1, <4>2, <4>3
        <3>3. QED
            BY <3>1, <3>2
    <2>4. A \in T
        <3> HIDE DEF T
        <3>1. QED
            BY <2>0, <2>3, SubsetInduction
    <2>5. QED
        BY <2>2, <2>4 DEF SumIn
<1>3. QED
    BY <1>1, <1>2

(* Any element may be taken out of a sum.                                  *)
LEMMA SumWithout ==
    ASSUME NEW S, IsFiniteSet(S), NEW g \in [S -> Int]
    PROVE  /\ SumIn(g, {}) = 0
           /\ \A A \in SUBSET S : SumIn(g, A) \in Int
           /\ \A A \in SUBSET S : \A a \in A : SumIn(g, A) = g[a] + SumIn(g, A \ {a})
<1>1. PICK sum : AddsUp(sum, g, S) /\ \A s \in SUBSET S : SumIn(g, s) = sum[s]
    BY SumOfParts
<1> DEFINE T == {s \in SUBSET S : \A a \in s : sum[s] = g[a] + sum[s \ {a}]}
<1>2. ASSUME NEW s \in SUBSET S, \A r \in SUBSET s : r # s => r \in T
      PROVE  s \in T
    <2> SUFFICES ASSUME NEW a \in s
                 PROVE  sum[s] = g[a] + sum[s \ {a}]
        OBVIOUS
    <2>1. PICK x \in s : sum[s] = g[x] + sum[s \ {x}]
        BY <1>1 DEF AddsUp
    <2>2. CASE x = a
        BY <2>1, <2>2
    <2>3. CASE x # a
        <3>1. s \ {x} \in T /\ s \ {a} \in T
            BY <1>2
        <3>2. sum[s \ {x}] = g[a] + sum[(s \ {x}) \ {a}]
            BY <2>3, <3>1
        <3>3. (s \ {x}) \ {a} = (s \ {a}) \ {x}
            OBVIOUS
        <3>4. sum[s \ {a}] = g[x] + sum[(s \ {x}) \ {a}]
            BY <2>3, <3>1, <3>3
        <3>5. g[a] \in Int /\ g[x] \in Int /\ sum[(s \ {x}) \ {a}] \in Int
            BY <1>1 DEF AddsUp
        <3>6. QED
            BY <2>1, <3>2, <3>4, <3>5
    <2>4. QED
        BY <2>2, <2>3
<1>3. \A s \in SUBSET S : s \in T
    <2> HIDE DEF T
    <2>1. QED
        BY <1>2, SubsetInduction
<1>4. QED
    BY <1>1, <1>3 DEF AddsUp

(* Sums of two sets without a common element add up.                       *)
LEMMA SumUnion ==
    ASSUME NEW S, IsFiniteSet(S), NEW g \in [S -> Int],
           NEW A \in SUBSET S, NEW B \in SUBSET S, A \intersect B = {}
    PROVE  SumIn(g, A \union B) = SumIn(g, A) + SumIn(g, B)
<1> DEFINE T == {C \in SUBSET B : SumIn(g, A \union C) = SumIn(g, A) + SumIn(g, C)}
<1>1. /\ SumIn(g, {}) = 0 /\ \A s \in SUBSET S : SumIn(g, s) \in Int
      /\ \A s \in SUBSET S : \A a \in s : SumIn(g, s) = g[a] + SumIn(g, s \ {a})
    BY SumWithout
<1>2. ASSUME NEW C \in SUBSET B, \A D \in SUBSET C : D # C => D \in T
      PROVE  C \in T
    <2>1. CASE C = {}
        <3>1. A \union C = A
            BY <2>1
        <3>2. QED
            BY <1>1, <2>1, <3>1
    <2>2. CASE C # {}
        <3>1. PICK c \in C : TRUE
            BY <2>2
        <3>2. C \ {c} \in T
            BY <1>2
        <3>3. (A \union C) \ {c} = A \union (C \ {c})
            OBVIOUS
        <3>4. /\ SumIn(g, C) = g[c] + SumIn(g, C \ {c})
              /\ SumIn(g, A \union C) = g[c] + SumIn(g, A \union (C \ {c}))
            BY <1>1, <3>3
        <3>5. g[c] \in Int /\ SumIn(g, A) \in Int /\ SumIn(g, C \ {c}) \in Int
            BY <1>1
        <3>6. QED
            BY <3>2, <3>4, <3>5
    <2>3. QED
        BY <2>1, <2>2
<1>3. B \in T
    <2>1. IsFiniteSet(B)
        BY FS_Subset
    <2> HIDE DEF T
    <2>2. QED
        BY <1>2, <2>1, SubsetInduction
<1>4. QED
    BY <1>3

(* What is under a key, and under some keys.                               *)
Fibre(S, key, k)  == {x \in S : key[x] = k}
Fibres(S, key, K) == {x \in S : key[x] \in K}

(* Sums over sets of keys of the sums under each key.                      *)
LEMMA SumOfFibres ==
    ASSUME NEW S, IsFiniteSet(S), NEW g \in [S -> Int], NEW key,
           NEW K, IsFiniteSet(K), NEW t \in [K -> Int],
           \A k \in K : t[k] = SumIn(g, Fibre(S, key, k))
    PROVE  SumIn(t, K) = SumIn(g, Fibres(S, key, K))
<1> USE DEF Fibre, Fibres
<1> DEFINE Of(L) == {x \in S : key[x] \in L}
           T == {L \in SUBSET K : SumIn(t, L) = SumIn(g, Of(L))}
<1>1. /\ SumIn(t, {}) = 0 /\ \A L \in SUBSET K : SumIn(t, L) \in Int
      /\ \A L \in SUBSET K : \A k \in L : SumIn(t, L) = t[k] + SumIn(t, L \ {k})
    BY SumWithout
<1>2. /\ SumIn(g, {}) = 0
    BY SumWithout
<1>3. ASSUME NEW L \in SUBSET K, \A M \in SUBSET L : M # L => M \in T
      PROVE  L \in T
    <2>1. CASE L = {}
        <3>1. Of(L) = {}
            BY <2>1
        <3>2. QED
            BY <1>1, <1>2, <2>1, <3>1
    <2>2. CASE L # {}
        <3>1. PICK k \in L : TRUE
            BY <2>2
        <3> DEFINE A == Of(L \ {k})
                   B == {x \in S : key[x] = k}
        <3>2. A \union B = Of(L) /\ A \intersect B = {} /\ A \in SUBSET S /\ B \in SUBSET S
            OBVIOUS
        <3>3. SumIn(g, A \union B) = SumIn(g, A) + SumIn(g, B)
            <4> HIDE DEF A, B
            <4>1. QED
                BY <3>2, SumUnion
        <3>4. SumIn(t, L \ {k}) = SumIn(g, A)
            BY <1>3
        <3>5. t[k] = SumIn(g, B)
            BY <3>1
        <3>6. SumIn(t, L) = t[k] + SumIn(t, L \ {k})
            BY <1>1
        <3>7. t[k] \in Int /\ SumIn(t, L \ {k}) \in Int
            BY <1>1
        <3> HIDE DEF A, B, Of
        <3>8. SumIn(t, L) = SumIn(g, Of(L))
            BY <3>2, <3>3, <3>4, <3>5, <3>6, <3>7
        <3>9. QED
            BY <3>8
    <2>3. QED
        BY <2>1, <2>2
<1>4. K \in T
    <2> HIDE DEF T
    <2>1. QED
        BY <1>3, SubsetInduction
<1>5. QED
    BY <1>4

(* The same of numbers of elements.                                        *)
LEMMA CountOfFibres ==
    ASSUME NEW S, IsFiniteSet(S), NEW key,
           NEW K, IsFiniteSet(K), NEW t \in [K -> Int],
           \A k \in K : t[k] = Cardinality(Fibre(S, key, k))
    PROVE  SumIn(t, K) = Cardinality(Fibres(S, key, K))
<1> USE DEF Fibre, Fibres
<1> DEFINE Of(L) == {x \in S : key[x] \in L}
           T == {L \in SUBSET K : SumIn(t, L) = Cardinality(Of(L))}
<1>1. /\ SumIn(t, {}) = 0 /\ \A L \in SUBSET K : SumIn(t, L) \in Int
      /\ \A L \in SUBSET K : \A k \in L : SumIn(t, L) = t[k] + SumIn(t, L \ {k})
    BY SumWithout
<1>2. ASSUME NEW L \in SUBSET K, \A M \in SUBSET L : M # L => M \in T
      PROVE  L \in T
    <2>1. CASE L = {}
        <3>1. Of(L) = {}
            BY <2>1
        <3>2. QED
            BY <1>1, <2>1, <3>1, FS_EmptySet
    <2>2. CASE L # {}
        <3>1. PICK k \in L : TRUE
            BY <2>2
        <3> DEFINE A == Of(L \ {k})
                   B == {x \in S : key[x] = k}
        <3>2. A \union B = Of(L) /\ A \intersect B = {} /\ A \in SUBSET S /\ B \in SUBSET S
            OBVIOUS
        <3>3. IsFiniteSet(A) /\ IsFiniteSet(B)
            BY <3>2, FS_Subset
        <3>4. Cardinality(A \union B) = Cardinality(A) + Cardinality(B)
            <4> HIDE DEF A, B
            <4>1. Cardinality(A \union B) =
                     Cardinality(A) + Cardinality(B) - Cardinality(A \intersect B)
                BY <3>3, FS_Union
            <4>2. Cardinality(A) \in Nat /\ Cardinality(B) \in Nat /\ Cardinality(A \intersect B) = 0
                BY <3>2, <3>3, FS_CardinalityType, FS_EmptySet
            <4>3. QED
                BY <4>1, <4>2
        <3>5. SumIn(t, L \ {k}) = Cardinality(A)
            BY <1>2
        <3>6. t[k] = Cardinality(B)
            BY <3>1
        <3>7. SumIn(t, L) = t[k] + SumIn(t, L \ {k})
            BY <1>1
        <3>8. t[k] \in Int /\ SumIn(t, L \ {k}) \in Int
            BY <1>1
        <3> HIDE DEF A, B, Of
        <3>9. SumIn(t, L) = Cardinality(Of(L))
            BY <3>2, <3>4, <3>5, <3>6, <3>7, <3>8
        <3>10. QED
            BY <3>9
    <2>3. QED
        BY <2>1, <2>2
<1>3. K \in T
    <2> HIDE DEF T
    <2>1. QED
        BY <1>2, SubsetInduction
<1>4. QED
    BY <1>3

(* A sum of sums.                                                          *)
LEMMA SumOfTwo ==
    ASSUME NEW S, IsFiniteSet(S), NEW f \in [S -> Int], NEW g \in [S -> Int], NEW h \in [S -> Int],
           \A x \in S : h[x] = f[x] + g[x]
    PROVE  SumIn(h, S) = SumIn(f, S) + SumIn(g, S)
<1> DEFINE T == {A \in SUBSET S : SumIn(h, A) = SumIn(f, A) + SumIn(g, A)}
<1>1. /\ SumIn(f, {}) = 0 /\ \A A \in SUBSET S : SumIn(f, A) \in Int
      /\ \A A \in SUBSET S : \A a \in A : SumIn(f, A) = f[a] + SumIn(f, A \ {a})
    BY SumWithout
<1>2. /\ SumIn(g, {}) = 0 /\ \A A \in SUBSET S : SumIn(g, A) \in Int
      /\ \A A \in SUBSET S : \A a \in A : SumIn(g, A) = g[a] + SumIn(g, A \ {a})
    BY SumWithout
<1>3. /\ SumIn(h, {}) = 0
      /\ \A A \in SUBSET S : \A a \in A : SumIn(h, A) = h[a] + SumIn(h, A \ {a})
    BY SumWithout
<1>4. ASSUME NEW A \in SUBSET S, \A B \in SUBSET A : B # A => B \in T
      PROVE  A \in T
    <2>1. CASE A = {}
        BY <1>1, <1>2, <1>3, <2>1
    <2>2. CASE A # {}
        <3>1. PICK a \in A : TRUE
            BY <2>2
        <3> DEFINE B == A \ {a}
        <3>2. B \in SUBSET S /\ SumIn(h, B) = SumIn(f, B) + SumIn(g, B)
            BY <1>4, <3>1
        <3>3. /\ SumIn(f, A) = f[a] + SumIn(f, B) /\ SumIn(g, A) = g[a] + SumIn(g, B)
              /\ SumIn(h, A) = h[a] + SumIn(h, B) /\ h[a] = f[a] + g[a]
            BY <1>1, <1>2, <1>3, <3>1
        <3>4. f[a] \in Int /\ g[a] \in Int /\ SumIn(f, B) \in Int /\ SumIn(g, B) \in Int
            BY <1>1, <1>2, <3>1, <3>2
        <3> HIDE DEF B
        <3>5. SumIn(h, A) = SumIn(f, A) + SumIn(g, A)
            BY <3>2, <3>3, <3>4
        <3>6. QED
            BY <3>5
    <2>3. QED
        BY <2>1, <2>2
<1>5. S \in T
    <2> HIDE DEF T
    <2>1. QED
        BY <1>4, SubsetInduction
<1>6. QED
    BY <1>5

(* The elements of a set that are in another, one by one.                  *)
LEMMA CountAsSum ==
    ASSUME NEW S, IsFiniteSet(S), NEW P, NEW t \in [S -> Int],
           \A x \in S : t[x] = IF x \in P THEN 1 ELSE 0
    PROVE  SumIn(t, S) = Cardinality(S \intersect P)
<1> DEFINE key == [x \in S \intersect P |-> x]
           R == S \intersect P
<1>1. IsFiniteSet(R)
    BY FS_Subset
<1>2. ASSUME NEW x \in S
      PROVE  t[x] = Cardinality(Fibre(R, key, x))
    <2>1. Fibre(R, key, x) = IF x \in P THEN {x} ELSE {}
        BY DEF Fibre
    <2>2. QED
        BY <2>1, FS_Singleton, FS_EmptySet
<1>3. Fibres(R, key, S) = R
    BY DEF Fibres
<1> HIDE DEF key, R
<1>4. SumIn(t, S) = Cardinality(Fibres(R, key, S))
    BY <1>1, <1>2, CountOfFibres
<1>5. QED
    BY <1>3, <1>4 DEF R

(* Pairs with one first element.                                           *)
LEMMA CountOfPairs ==
    ASSUME NEW x, NEW I, IsFiniteSet(I)
    PROVE  IsFiniteSet({x} \X I) /\ Cardinality({x} \X I) = Cardinality(I)
<1>1. IsFiniteSet({x}) /\ Cardinality({x}) = 1
    BY FS_Singleton
<1> DEFINE X == {x}
<1> HIDE DEF X
<1>2. IsFiniteSet(X \X I) /\ Cardinality(X \X I) = Cardinality(X) * Cardinality(I)
    BY <1>1, FS_Product DEF X
<1>3. Cardinality(I) \in Nat /\ Cardinality(X) = 1
    BY <1>1, FS_CardinalityType DEF X
<1>4. QED
    BY <1>2, <1>3 DEF X

(* A table's numbers of elements under its keys, summed over some of them, *)
(* are the number of elements under those ...                              *)
LEMMA CountOfRows ==
    ASSUME NEW S, IsFiniteSet(S), NEW key, NEW table, NEW K, IsFiniteSet(K),
           \A k \in K : table[k] = Cardinality(Fibre(S, key, k))
    PROVE  SumFunction([k \in K |-> table[k]]) = Cardinality(Fibres(S, key, K))
<1> DEFINE t == [k \in K |-> table[k]]
<1>1. \A k \in K : IsFiniteSet(Fibre(S, key, k))
    BY FS_Subset DEF Fibre
<1>2. \A R : IsFiniteSet(R) => Cardinality(R) \in Int
    BY FS_CardinalityType
<1>3. \A k \in K : t[k] \in Int /\ t[k] = Cardinality(Fibre(S, key, k))
    BY <1>1, <1>2
<1>4. t = [k \in K |-> t[k]]
    OBVIOUS
<1> HIDE DEF t
<1>5. t \in [K -> Int]
    BY <1>3, <1>4
<1>6. SumIn(t, K) = Cardinality(Fibres(S, key, K))
    BY <1>3, <1>5, CountOfFibres
<1>7. QED
    BY <1>4, <1>6 DEF SumIn, t

(* ... and so are its sums.                                                *)
LEMMA SumOfRows ==
    ASSUME NEW S, IsFiniteSet(S), NEW g \in [S -> Int], NEW key, NEW table, NEW K, IsFiniteSet(K),
           \A k \in K : table[k] = SumIn(g, Fibre(S, key, k))
    PROVE  SumFunction([k \in K |-> table[k]]) = SumIn(g, Fibres(S, key, K))
<1> DEFINE t == [k \in K |-> table[k]]
<1>1. \A k \in K : Fibre(S, key, k) \in SUBSET S
    BY DEF Fibre
<1>2. \A R \in SUBSET S : SumIn(g, R) \in Int
    BY SumWithout
<1>3. \A k \in K : t[k] \in Int /\ t[k] = SumIn(g, Fibre(S, key, k))
    BY <1>1, <1>2
<1>4. t = [k \in K |-> t[k]]
    OBVIOUS
<1> HIDE DEF t
<1>5. t \in [K -> Int]
    BY <1>3, <1>4
<1>6. SumIn(t, K) = SumIn(g, Fibres(S, key, K))
    BY <1>3, <1>5, SumOfFibres
<1>7. QED
    BY <1>4, <1>6 DEF SumIn, t

-------------------------------------------------------------------------------
(* Recursion along an interval, and running sums.                          *)

(* A function on an interval of which each value is made of the one before *)
(* exists.                                                                 *)
StepsOn(n, D) == [1 .. n -> [D -> D]]

Iterate(g, n, D, b, F) ==
    g \in [0 .. n -> D] /\ g[0] = b /\ \A i \in 1 .. n : g[i] = F[i][g[i - 1]]

LEMMA Iterates ==
    ASSUME NEW n \in Nat, NEW D, NEW b \in D, NEW F, F \in StepsOn(n, D)
    PROVE  \E g : Iterate(g, n, D, b, F)
<1> DEFINE Upto(g, k) == /\ g \in [0 .. k -> D] /\ g[0] = b
                         /\ \A i \in 1 .. k : g[i] = F[i][g[i - 1]]
           T == {k \in 0 .. n : \E g : Upto(g, k)}
<1>1. 0 \in T
    <2>1. Upto([i \in 0 .. 0 |-> b], 0)
        OBVIOUS
    <2> HIDE DEF Upto
    <2>2. QED
        BY <2>1
<1>2. ASSUME NEW k \in 0 .. n, k < n, k \in T
      PROVE  k + 1 \in T
    <2>1. PICK g : Upto(g, k)
        BY <1>2
    <2>2. g[k] \in D /\ F[k + 1] \in [D -> D]
        BY <1>2, <2>1 DEF StepsOn
    <2> DEFINE h == [i \in 0 .. k + 1 |-> IF i <= k THEN g[i] ELSE F[k + 1][g[k]]]
    <2>3. h \in [0 .. k + 1 -> D] /\ h[0] = b
        BY <2>1, <2>2
    <2>4. ASSUME NEW i \in 1 .. k + 1
          PROVE  h[i] = F[i][h[i - 1]]
        <3>1. CASE i <= k
            <4>1. h[i] = g[i] /\ h[i - 1] = g[i - 1] /\ i \in 1 .. k
                BY <3>1
            <4>2. QED
                BY <2>1, <4>1
        <3>2. CASE i = k + 1
            BY <3>2
        <3>3. QED
            BY <3>1, <3>2
    <2>5. Upto(h, k + 1)
        <3> HIDE DEF h
        <3>1. QED
            BY <2>3, <2>4
    <2> HIDE DEF Upto, h
    <2>6. QED
        BY <1>2, <2>5
<1>3. n \in T
    <2> HIDE DEF T
    <2>1. \A k \in 0 .. n : k \in T
        BY <1>1, <1>2, IntervalInduction
    <2>2. QED
        BY <2>1
<1>4. QED
    BY <1>3 DEF Iterate

(* g[i] is the sum of the first i values of a.                             *)
SumsTo(g, a, n) ==
    g \in [0 .. n -> Int] /\ g[0] = 0 /\ \A i \in 1 .. n : g[i] = g[i - 1] + a[i]

LEMMA SumsAlong ==
    ASSUME NEW n \in Nat, NEW a \in [1 .. n -> Int]
    PROVE  \E g : SumsTo(g, a, n)
<1> DEFINE F == [i \in 1 .. n |-> [x \in Int |-> x + a[i]]]
<1>1. F \in StepsOn(n, Int)
    BY DEF StepsOn
<1>2. \A i \in 1 .. n : \A x \in Int : F[i][x] = x + a[i]
    OBVIOUS
<1> HIDE DEF F
<1>3. PICK g : Iterate(g, n, Int, 0, F)
    <2>1. 0 \in Int
        OBVIOUS
    <2>2. QED
        BY <1>1, <2>1, Iterates, Zenon
<1>4. ASSUME NEW i \in 1 .. n
      PROVE  g[i - 1] \in Int /\ g[i] = F[i][g[i - 1]]
    <2>1. g \in [0 .. n -> Int] /\ i - 1 \in 0 .. n
        BY <1>3 DEF Iterate
    <2>2. QED
        BY <1>3, <2>1 DEF Iterate
<1>5. SumsTo(g, a, n)
    BY <1>2, <1>3, <1>4 DEF SumsTo, Iterate
<1>6. QED
    BY <1>5

LEMMA Successor ==
    ASSUME NEW n \in Nat, NEW k \in 0 .. n, k < n
    PROVE  /\ k + 1 \in 1 .. n /\ k + 1 \in 0 .. n /\ (k + 1) - 1 = k
           /\ k \in Int /\ n \in Int /\ n - 1 \in Int /\ 2 * k - (n - 1) \in Int
OBVIOUS

LEMMA SumsStep ==
    ASSUME NEW n \in Nat, NEW a, NEW g, SumsTo(g, a, n), NEW k \in 0 .. n, k < n
    PROVE  /\ g[k] \in Int /\ g[k + 1] = g[k] + a[k + 1]
           /\ k + 1 \in 1 .. n /\ k + 1 \in 0 .. n /\ (k + 1) - 1 = k /\ k \in Int
<1>1. k + 1 \in 1 .. n /\ k + 1 \in 0 .. n /\ (k + 1) - 1 = k /\ k \in Int
    OBVIOUS
<1>2. g \in [0 .. n -> Int] /\ g[k + 1] = g[(k + 1) - 1] + a[k + 1]
    BY <1>1 DEF SumsTo
<1>3. QED
    BY <1>1, <1>2

LEMMA SumsStart ==
    ASSUME NEW n \in Nat, NEW a, NEW g, SumsTo(g, a, n)
    PROVE  g[0] = 0 /\ 0 \in 0 .. n /\ n \in 0 .. n /\ g[n] \in Int
BY DEF SumsTo
===============================================================================
