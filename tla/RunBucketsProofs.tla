--------------------------- MODULE RunBucketsProofs ---------------------------
(***************************************************************************)
(* Theorems of RunBuckets, for any numbers of flushers, rebuilders, runs   *)
(* and any bucket and batch size: what its operators compute, types, that  *)
(* no run is counted twice, that a flusher forgets no run of its own week, *)
(* and how buckets that no transaction was overtaken on are laid out.      *)
(***************************************************************************)
EXTENDS RunBuckets, DataInduction

(* Multiples of BucketSize.                                                *)

LEMMA SizeIsPositive == BucketSize \in Nat /\ BucketSize >= 1
BY BucketsAssumption

(* Products of BucketSize, in steps a linear solver can use.               *)
LEMMA TimesSize ==
    ASSUME NEW m \in Nat, NEW n \in Nat
    PROVE  /\ BucketSize * m \in Nat
           /\ BucketSize * (m + 1) = BucketSize * m + BucketSize
           /\ BucketSize * (m + n) = BucketSize * m + BucketSize * n
           /\ m < n => BucketSize * m + BucketSize <= BucketSize * n
<1> DEFINE B == BucketSize
<1>1. B \in Nat /\ B >= 1
    BY SizeIsPositive
<1> HIDE DEF B
<1>2. B * m \in Nat /\ B * (m + 1) = B * m + B /\ B * (m + n) = B * m + B * n
    BY <1>1
<1>3. ASSUME m < n
      PROVE  B * m + B <= B * n
    <2>1. PICK d \in Nat : n = (m + 1) + d
        <3>1. n - (m + 1) \in Nat /\ n = (m + 1) + (n - (m + 1))
            BY <1>3
        <3>2. QED
            BY <3>1
    <2>2. B * n = B * (m + 1) + B * d
        BY <1>1, <2>1
    <2>3. B * d \in Nat
        BY <1>1
    <2> DEFINE x == B * m
               y == B * n
               z == B * d
    <2>4. x \in Nat /\ z \in Nat /\ y = (x + B) + z
        BY <1>2, <2>2, <2>3
    <2> HIDE DEF x, y, z
    <2>5. x + B <= y
        BY <1>1, <2>4
    <2>6. QED
        BY <2>5 DEF x, y
<1>4. QED
    BY <1>2, <1>3 DEF B

(* Division by BucketSize, likewise.                                       *)
LEMMA DivSize ==
    ASSUME NEW a \in Nat
    PROVE  /\ a \div BucketSize \in Nat
           /\ BucketSize * (a \div BucketSize) <= a
           /\ a < BucketSize * (a \div BucketSize) + BucketSize
BY SizeIsPositive

(* Which numbers have a quotient.                                          *)
LEMMA DivSizeIs ==
    ASSUME NEW a \in Nat, NEW k \in Nat
    PROVE  a \div BucketSize = k
              <=> BucketSize * k <= a /\ a < BucketSize * k + BucketSize
<1> DEFINE q == a \div BucketSize
<1>1. q \in Nat /\ BucketSize * q <= a /\ a < BucketSize * q + BucketSize
    BY DivSize
<1> HIDE DEF q
<1>2. /\ BucketSize * q \in Nat /\ BucketSize * k \in Nat /\ BucketSize \in Nat
      /\ q < k => BucketSize * q + BucketSize <= BucketSize * k
      /\ k < q => BucketSize * k + BucketSize <= BucketSize * q
    BY <1>1, TimesSize, SizeIsPositive
<1> DEFINE x == BucketSize * q
           y == BucketSize * k
<1> HIDE DEF x, y
<1>3. q = k <=> y <= a /\ a < y + BucketSize
    BY <1>1, <1>2 DEF x, y
<1>4. QED
    BY <1>3 DEF q, y

-------------------------------------------------------------------------------
(* Chunks: what a sequence of runs gives when it is cut every BucketSize.  *)

Chunk(seq, k) == {seq[i] : i \in {j \in DOMAIN seq : (j - 1) \div BucketSize = k}}

ChunkIndices(seq) == {(i - 1) \div BucketSize : i \in DOMAIN seq}

(* So many elements are at an interval of positions.                       *)
LEMMA ImageOfInterval ==
    ASSUME NEW S, NEW seq \in Seq(S), IsInjective(seq),
           NEW a \in Nat, NEW b \in a .. Len(seq)
    PROVE  /\ IsFiniteSet({seq[i] : i \in a + 1 .. b})
           /\ Cardinality({seq[i] : i \in a + 1 .. b}) = b - a
<1> DEFINE I == a + 1 .. b
           V == {seq[i] : i \in I}
           f == [i \in I |-> seq[i]]
<1>1. /\ IsFiniteSet(I) /\ Cardinality(I) = b - a
    <2>1. a + 1 \in Int /\ b \in Int
        OBVIOUS
    <2>2. /\ IsFiniteSet(I)
          /\ Cardinality(I) = IF a + 1 > b THEN 0 ELSE b - (a + 1) + 1
        BY <2>1, FS_Interval
    <2>3. QED
        BY <2>2
<1>2. \A i, j \in I : seq[i] = seq[j] => i = j
    <2>1. I \subseteq DOMAIN seq
        OBVIOUS
    <2>2. QED
        BY <2>1 DEF IsInjective
<1>3. f \in Bijection(I, V)
    <2> HIDE DEF I
    <2>1. f \in Injection(I, V)
        BY <1>2 DEF Injection, IsInjective
    <2>2. f \in Surjection(I, V)
        BY DEF Surjection
    <2>3. QED
        BY <2>1, <2>2 DEF Bijection
<1>4. IsFiniteSet(V) /\ Cardinality(V) = Cardinality(I)
    <2> HIDE DEF I, V, f
    <2>1. QED
        BY <1>1, <1>3, FS_Surjection DEF Bijection
<1>5. QED
    BY <1>1, <1>4

(* Chunk k is the interval of positions after k * BucketSize.              *)
LEMMA ChunkPositions ==
    ASSUME NEW S, NEW seq \in Seq(S), NEW k \in Nat, BucketSize * k < Len(seq)
    PROVE  LET b == IF Len(seq) < BucketSize * k + BucketSize
                      THEN Len(seq) ELSE BucketSize * k + BucketSize
           IN  {j \in DOMAIN seq : (j - 1) \div BucketSize = k}
                   = BucketSize * k + 1 .. b
<1> DEFINE x == BucketSize * k
<1>1. x \in Nat /\ BucketSize \in Nat /\ Len(seq) \in Nat /\ x < Len(seq)
      /\ DOMAIN seq = 1 .. Len(seq)
    BY TimesSize, SizeIsPositive
<1>2. \A j \in 1 .. Len(seq) :
          (j - 1) \div BucketSize = k <=> x <= j - 1 /\ j - 1 < x + BucketSize
    BY DivSizeIs
<1> HIDE DEF x
<1>3. {j \in DOMAIN seq : (j - 1) \div BucketSize = k}
          = {j \in 1 .. Len(seq) : x <= j - 1 /\ j - 1 < x + BucketSize}
    BY <1>1, <1>2
<1>4. {j \in 1 .. Len(seq) : x <= j - 1 /\ j - 1 < x + BucketSize}
          = x + 1 .. (IF Len(seq) < x + BucketSize THEN Len(seq) ELSE x + BucketSize)
    BY <1>1
<1>5. QED
    BY <1>3, <1>4 DEF x

(* A chunk is full unless it is the last.                                  *)
LEMMA ChunkCardinality ==
    ASSUME NEW S, NEW seq \in Seq(S), IsInjective(seq),
           NEW k \in Nat, BucketSize * k < Len(seq)
    PROVE  /\ IsFiniteSet(Chunk(seq, k))
           /\ Cardinality(Chunk(seq, k)) =
                 IF Len(seq) < BucketSize * k + BucketSize
                   THEN Len(seq) - BucketSize * k ELSE BucketSize
<1> DEFINE x == BucketSize * k
           b == IF Len(seq) < x + BucketSize THEN Len(seq) ELSE x + BucketSize
<1>1. x \in Nat /\ BucketSize \in Nat /\ Len(seq) \in Nat /\ x < Len(seq)
    BY TimesSize, SizeIsPositive
<1>2. Chunk(seq, k) = {seq[i] : i \in x + 1 .. b}
    BY ChunkPositions DEF Chunk
<1> HIDE DEF x
<1>3. x \in Nat /\ b \in x .. Len(seq)
    BY <1>1
<1> HIDE DEF b
<1>4. /\ IsFiniteSet({seq[i] : i \in x + 1 .. b})
      /\ Cardinality({seq[i] : i \in x + 1 .. b}) = b - x
    BY <1>3, ImageOfInterval, Zenon
<1>5. b - x = IF Len(seq) < x + BucketSize THEN Len(seq) - x ELSE BucketSize
    BY <1>1 DEF b
<1>6. QED
    BY <1>2, <1>4, <1>5 DEF x

(* There is a chunk k if more than k * BucketSize elements are there.      *)
LEMMA ChunkIndicesAre ==
    ASSUME NEW S, NEW seq \in Seq(S)
    PROVE  ChunkIndices(seq) = {k \in Nat : BucketSize * k < Len(seq)}
<1>1. Len(seq) \in Nat /\ DOMAIN seq = 1 .. Len(seq)
    OBVIOUS
<1>2. ASSUME NEW k \in ChunkIndices(seq)
      PROVE  k \in Nat /\ BucketSize * k < Len(seq)
    <2>1. PICK i \in 1 .. Len(seq) : k = (i - 1) \div BucketSize
        BY <1>1 DEF ChunkIndices
    <2>2. i - 1 \in Nat /\ i - 1 < Len(seq)
        BY <1>1
    <2>3. k \in Nat /\ BucketSize * k <= i - 1
        BY <2>1, <2>2, DivSize
    <2>4. BucketSize * k \in Nat
        BY <2>3, TimesSize
    <2> DEFINE x == BucketSize * k
    <2> HIDE DEF x
    <2>5. x < Len(seq)
        BY <1>1, <2>2, <2>3, <2>4 DEF x
    <2>6. QED
        BY <2>3, <2>5 DEF x
<1>3. ASSUME NEW k \in Nat, BucketSize * k < Len(seq)
      PROVE  k \in ChunkIndices(seq)
    <2> DEFINE x == BucketSize * k
    <2>1. x \in Nat /\ BucketSize \in Nat /\ BucketSize >= 1 /\ x < Len(seq)
        BY <1>3, TimesSize, SizeIsPositive
    <2>2. x \div BucketSize = k <=> x <= x /\ x < x + BucketSize
        BY <2>1, DivSizeIs
    <2> HIDE DEF x
    <2>3. x \div BucketSize = k
        BY <2>1, <2>2
    <2>4. x + 1 \in 1 .. Len(seq) /\ (x + 1) - 1 = x
        BY <1>1, <2>1
    <2>5. QED
        BY <1>1, <2>3, <2>4 DEF ChunkIndices
<1>4. QED
    BY <1>2, <1>3

(* What a caller of chunks needs: no chunk is empty or over its size, no   *)
(* two share an element, and together they have all elements.              *)
LEMMA ChunksPartition ==
    ASSUME NEW S, NEW seq \in Seq(S), IsInjective(seq)
    PROVE  /\ \A k \in ChunkIndices(seq) :
                 /\ k \in Nat
                 /\ Chunk(seq, k) \subseteq ToSet(seq)
                 /\ IsFiniteSet(Chunk(seq, k))
                 /\ Cardinality(Chunk(seq, k)) \in 1 .. BucketSize
           /\ \A k, l \in ChunkIndices(seq) :
                 Chunk(seq, k) \intersect Chunk(seq, l) # {} => k = l
           /\ \A x \in ToSet(seq) : \E k \in ChunkIndices(seq) : x \in Chunk(seq, k)
           /\ seq # <<>> => 0 \in ChunkIndices(seq)
<1>1. ASSUME NEW k \in ChunkIndices(seq)
      PROVE  /\ k \in Nat /\ IsFiniteSet(Chunk(seq, k))
             /\ Cardinality(Chunk(seq, k)) \in 1 .. BucketSize
    <2> DEFINE x == BucketSize * k
    <2>1. k \in Nat /\ x < Len(seq)
        BY ChunkIndicesAre
    <2>2. x \in Nat /\ BucketSize \in Nat /\ BucketSize >= 1 /\ Len(seq) \in Nat
        BY <2>1, TimesSize, SizeIsPositive
    <2>3. /\ IsFiniteSet(Chunk(seq, k))
          /\ Cardinality(Chunk(seq, k)) =
                IF Len(seq) < x + BucketSize THEN Len(seq) - x ELSE BucketSize
        BY <2>1, ChunkCardinality
    <2> HIDE DEF x
    <2>4. QED
        BY <2>1, <2>2, <2>3
<1>2. ASSUME NEW k \in ChunkIndices(seq)
      PROVE  Chunk(seq, k) \subseteq ToSet(seq)
    BY DEF Chunk, ToSet
<1>3. ASSUME NEW k \in ChunkIndices(seq), NEW l \in ChunkIndices(seq),
             Chunk(seq, k) \intersect Chunk(seq, l) # {}
      PROVE  k = l
    <2>1. PICK i \in DOMAIN seq, j \in DOMAIN seq :
              /\ seq[i] = seq[j]
              /\ (i - 1) \div BucketSize = k /\ (j - 1) \div BucketSize = l
        BY <1>3 DEF Chunk
    <2>2. i = j
        BY <2>1 DEF IsInjective
    <2>3. QED
        BY <2>1, <2>2
<1>4. ASSUME NEW x \in ToSet(seq)
      PROVE  \E k \in ChunkIndices(seq) : x \in Chunk(seq, k)
    <2>1. PICK i \in DOMAIN seq : x = seq[i]
        BY DEF ToSet
    <2> DEFINE k == (i - 1) \div BucketSize
    <2>2. k \in ChunkIndices(seq) /\ x \in Chunk(seq, k)
        BY <2>1 DEF ChunkIndices, Chunk
    <2>3. QED
        BY <2>2
<1>5. ASSUME seq # <<>>
      PROVE  0 \in ChunkIndices(seq)
    <2>1. Len(seq) \in Nat /\ Len(seq) > 0
        BY <1>5
    <2>2. BucketSize * 0 = 0
        BY SizeIsPositive
    <2>3. QED
        BY <2>1, <2>2, ChunkIndicesAre
<1>6. QED
    BY <1>1, <1>2, <1>3, <1>4, <1>5

(* An appended element goes into the last chunk or begins the next.        *)
LEMMA ChunkAppend ==
    ASSUME NEW S, NEW seq \in Seq(S), NEW x \in S, NEW k
    PROVE  Chunk(Append(seq, x), k) =
               IF Len(seq) \div BucketSize = k THEN Chunk(seq, k) \union {x}
                                               ELSE Chunk(seq, k)
<1> DEFINE more == Append(seq, x)
           N    == Len(seq)
           at(i) == (i - 1) \div BucketSize
<1>1. /\ N \in Nat /\ DOMAIN more = 1 .. N + 1 /\ DOMAIN seq = 1 .. N
      /\ more[N + 1] = x /\ \A i \in 1 .. N : more[i] = seq[i]
    OBVIOUS
<1>2. (N + 1) - 1 = N
    BY <1>1
<1>3. at(N + 1) = N \div BucketSize
    BY <1>2
<1>4. Chunk(more, k) = {more[i] : i \in {j \in 1 .. N + 1 : at(j) = k}}
    BY <1>1 DEF Chunk
<1>5. Chunk(seq, k) = {seq[i] : i \in {j \in 1 .. N : at(j) = k}}
    BY <1>1 DEF Chunk
<1> HIDE DEF more, N, at
<1>6. 1 .. N + 1 = (1 .. N) \union {N + 1}
    BY <1>1
<1>7. CASE at(N + 1) = k
    <2>1. {j \in 1 .. N + 1 : at(j) = k} = {j \in 1 .. N : at(j) = k} \union {N + 1}
        BY <1>6, <1>7
    <2>2. QED
        BY <1>1, <1>3, <1>4, <1>5, <1>7, <2>1 DEF more, N
<1>8. CASE at(N + 1) # k
    <2>1. {j \in 1 .. N + 1 : at(j) = k} = {j \in 1 .. N : at(j) = k}
        BY <1>6, <1>8
    <2>2. QED
        BY <1>1, <1>3, <1>4, <1>5, <1>8, <2>1 DEF more, N
<1>9. QED
    BY <1>7, <1>8

(* No chunk behind the last one.                                           *)
LEMMA ChunkBeyond ==
    ASSUME NEW S, NEW seq \in Seq(S), NEW k \in Nat, ~(BucketSize * k < Len(seq))
    PROVE  Chunk(seq, k) = {}
<1>1. k \notin ChunkIndices(seq)
    BY ChunkIndicesAre
<1>2. QED
    BY <1>1 DEF Chunk, ChunkIndices

-------------------------------------------------------------------------------
(* Placed.                                                                 *)

(* The recursive function of Placed exists: placed[i] are the buckets of   *)
(* the first i runs.                                                       *)
LEMMA PlacedRecursion ==
    ASSUME NEW S, NEW seq \in Seq(S)
    PROVE  \E placed :
              /\ placed[0] = <<>>
              /\ \A i \in 1 .. Len(seq) : placed[i] = Place(placed[i - 1], seq[i])
              /\ Placed(seq) = placed[Len(seq)]
<1> DEFINE Defined(g, n) == g = [i \in 0 .. n |->
                                    IF i = 0 THEN <<>>
                                    ELSE Place(g[i - 1], seq[i])]
           N == Len(seq)
           T == {n \in 0 .. N : \E g : Defined(g, n)}
<1>1. N \in Nat
    OBVIOUS
<1>2. 0 \in T
    <2>1. Defined([i \in 0 .. 0 |-> <<>>], 0)
        OBVIOUS
    <2> HIDE DEF Defined, N
    <2>2. QED
        BY <1>1, <2>1
<1>3. ASSUME NEW n \in 0 .. N, n < N, n \in T
      PROVE  n + 1 \in T
    <2>1. PICK g : Defined(g, n)
        BY <1>3
    <2> DEFINE h == [i \in 0 .. n + 1 |->
                        IF i <= n THEN g[i] ELSE Place(g[n], seq[n + 1])]
    <2>2. Defined(h, n + 1)
        <3>1. ASSUME NEW i \in 0 .. n + 1
              PROVE  h[i] = IF i = 0 THEN <<>> ELSE Place(h[i - 1], seq[i])
            <4>1. CASE i <= n
                <5>1. h[i] = g[i] /\ (i # 0 => h[i - 1] = g[i - 1])
                    BY <4>1
                <5>2. i \in 0 .. n
                    BY <4>1
                <5> HIDE DEF h
                <5>3. QED
                    BY <2>1, <5>1, <5>2
            <4>2. CASE i = n + 1
                BY <4>2
            <4>3. QED
                BY <4>1, <4>2
        <3>2. QED
            <4> HIDE DEF Defined
            <4>1. DOMAIN h = 0 .. n + 1 /\ h = [i \in 0 .. n + 1 |-> h[i]]
                OBVIOUS
            <4> HIDE DEF h
            <4>2. QED
                BY <3>1, <4>1 DEF Defined
    <2>3. QED
        <3> HIDE DEF h, Defined
        <3>1. QED
            BY <1>1, <1>3, <2>2
<1>4. N \in T
    <2> HIDE DEF T, N
    <2>1. \A n \in 0 .. N : n \in T
        BY <1>1, <1>2, <1>3, IntervalInduction
    <2>2. QED
        BY <1>1, <2>1
<1>5. \E g : Defined(g, N)
    <2> HIDE DEF Defined, N
    <2>1. QED
        BY <1>4
<1> DEFINE k == CHOOSE g : Defined(g, N)
<1>6. Defined(k, N)
    <2> HIDE DEF Defined, N
    <2>1. QED
        BY <1>5
<1>7. Placed(seq) = k[N]
    BY DEF Placed
<1> HIDE DEF k
<1>8. ASSUME NEW i \in 0 .. N
      PROVE  k[i] = IF i = 0 THEN <<>> ELSE Place(k[i - 1], seq[i])
    <2> HIDE DEF N
    <2>1. QED
        BY <1>6
<1>9. k[0] = <<>>
    BY <1>1, <1>8
<1>10. ASSUME NEW i \in 1 .. N
       PROVE  k[i] = Place(k[i - 1], seq[i])
    BY <1>1, <1>8
<1>11. QED
    BY <1>7, <1>9, <1>10

LEMMA PlacedEmpty == Placed(<<>>) = <<>>
<1>1. <<>> \in Seq({}) /\ Len(<<>>) = 0
    OBVIOUS
<1>2. PICK placed : placed[0] = <<>> /\ Placed(<<>>) = placed[Len(<<>>)]
    <2>1. \E placed :
              /\ placed[0] = <<>>
              /\ \A i \in 1 .. Len(<<>>) : placed[i] = Place(placed[i - 1], <<>>[i])
              /\ Placed(<<>>) = placed[Len(<<>>)]
        BY <1>1, PlacedRecursion, Zenon
    <2>2. QED
        BY <2>1, Zenon
<1>3. QED
    BY <1>1, <1>2, Zenon

(* Placed takes one run after the other.                                   *)
LEMMA PlacedAppend ==
    ASSUME NEW S, NEW seq \in Seq(S), NEW x \in S
    PROVE  Placed(Append(seq, x)) = Place(Placed(seq), x)
<1> DEFINE N    == Len(seq)
           more == Append(seq, x)
<1>1. /\ N \in Nat /\ more \in Seq(S) /\ Len(more) = N + 1 /\ more[N + 1] = x
      /\ \A i \in 1 .. N : more[i] = seq[i]
    OBVIOUS
<1>2. PICK g : /\ g[0] = <<>>
               /\ \A i \in 1 .. N : g[i] = Place(g[i - 1], seq[i])
               /\ Placed(seq) = g[N]
    BY PlacedRecursion
<1>3. PICK h : /\ h[0] = <<>>
               /\ \A i \in 1 .. N + 1 : h[i] = Place(h[i - 1], more[i])
               /\ Placed(more) = h[N + 1]
    <2> HIDE DEF more, N
    <2>1. \E h : /\ h[0] = <<>>
                 /\ \A i \in 1 .. Len(more) : h[i] = Place(h[i - 1], more[i])
                 /\ Placed(more) = h[Len(more)]
        BY <1>1, PlacedRecursion, Zenon
    <2>2. QED
        BY <1>1, <2>1, Zenon
<1> HIDE DEF N, more
<1> DEFINE T == {n \in 0 .. N : h[n] = g[n]}
<1>4. 0 \in T
    BY <1>1, <1>2, <1>3
<1>5. ASSUME NEW n \in 0 .. N, n < N, n \in T
      PROVE  n + 1 \in T
    <2>1. n + 1 \in 1 .. N /\ n + 1 \in 1 .. N + 1 /\ n + 1 - 1 = n
          /\ more[n + 1] = seq[n + 1]
        BY <1>1, <1>5
    <2>2. h[n] = g[n]
        BY <1>5
    <2>3. g[n + 1] = Place(g[n], seq[n + 1])
        BY <1>2, <2>1
    <2>4. h[n + 1] = Place(h[n], more[n + 1])
        BY <1>3, <2>1
    <2>5. QED
        BY <2>1, <2>2, <2>3, <2>4
<1>6. h[N] = g[N]
    <2> HIDE DEF T
    <2>1. \A n \in 0 .. N : n \in T
        BY <1>1, <1>4, <1>5, IntervalInduction
    <2>2. N \in T
        BY <1>1, <2>1
    <2>3. QED
        BY <2>2 DEF T
<1>7. h[N + 1] = Place(h[N], x)
    <2>1. N + 1 \in 1 .. N + 1 /\ N + 1 - 1 = N
        BY <1>1
    <2>2. QED
        BY <1>1, <1>3, <2>1
<1>8. QED
    BY <1>2, <1>3, <1>6, <1>7 DEF more

(* Filling buckets one after the other cuts the sequence into chunks.      *)
LEMMA PlacedIsChunks ==
    ASSUME NEW S, NEW seq \in Seq(S), IsInjective(seq)
    PROVE  /\ Placed(seq) \in Seq(SUBSET S)
           /\ \A k \in Nat : k < Len(Placed(seq)) <=> BucketSize * k < Len(seq)
           /\ \A k \in 1 .. Len(Placed(seq)) : Placed(seq)[k] = Chunk(seq, k - 1)
<1> DEFINE P(s) == /\ Placed(s) \in Seq(SUBSET S)
                   /\ \A k \in Nat : k < Len(Placed(s)) <=> BucketSize * k < Len(s)
                   /\ \A k \in 1 .. Len(Placed(s)) : Placed(s)[k] = Chunk(s, k - 1)
           T == {s \in Seq(S) : IsInjective(s) => P(s)}
<1>1. <<>> \in T
    <2>1. <<>> \in Seq(S) /\ Placed(<<>>) = <<>> /\ Len(<<>>) = 0
          /\ <<>> \in Seq(SUBSET S)
        BY PlacedEmpty
    <2>2. ASSUME NEW k \in Nat
          PROVE  ~(k < 0) /\ ~(BucketSize * k < 0)
        <3> DEFINE z == BucketSize * k
        <3>1. z \in Nat
            BY TimesSize
        <3> HIDE DEF z
        <3>2. ~(z < 0)
            BY <3>1
        <3>3. QED
            BY <3>2 DEF z
    <2>3. 1 .. 0 = {}
        OBVIOUS
    <2>4. P(<<>>)
        BY <2>1, <2>2, <2>3
    <2> HIDE DEF P
    <2>5. QED
        BY <2>1, <2>4
<1>2. ASSUME NEW s \in Seq(S), NEW x \in S, s \in T
      PROVE  Append(s, x) \in T
    <2>1. SUFFICES ASSUME IsInjective(Append(s, x))
                   PROVE  P(Append(s, x))
        <3> HIDE DEF P
        <3>1. QED
            OBVIOUS
    <2> DEFINE c    == Placed(s)
               n    == Len(c)
               N    == Len(s)
               more == Append(s, x)
               d    == Placed(more)
    <2>2. IsInjective(s)
        BY <2>1, AppendDistinct
    <2>3. P(s)
        BY <1>2, <2>2
    <2>4. /\ n \in Nat /\ N \in Nat /\ BucketSize \in Nat /\ BucketSize >= 1
          /\ c \in Seq(SUBSET S) /\ DOMAIN c = 1 .. n
          /\ Len(more) = N + 1
        <3>1. c \in Seq(SUBSET S)
            BY <2>3
        <3>2. BucketSize \in Nat /\ BucketSize >= 1
            BY SizeIsPositive
        <3>3. N \in Nat /\ Len(more) = N + 1
            OBVIOUS
        <3> HIDE DEF P, c, N, more
        <3>4. QED
            BY <3>1, <3>2, <3>3
    <2>5. d = Place(c, x)
        BY PlacedAppend
    <2>6. \A k : Chunk(more, k) =
              IF N \div BucketSize = k THEN Chunk(s, k) \union {x} ELSE Chunk(s, k)
        BY ChunkAppend
    <2>7. \A k \in Nat : k < n <=> BucketSize * k < N
        BY <2>3
    <2>8. \A k \in 1 .. n : c[k] = Chunk(s, k - 1)
        BY <2>3
    <2>9. {x} \in SUBSET S
        OBVIOUS
    <2> DEFINE y == BucketSize * n
    <2>10. y \in Nat /\ N <= y
        <3>1. y \in Nat
            BY <2>4, TimesSize
        <3>2. ~(y < N)
            BY <2>4, <2>7
        <3> HIDE DEF y, N
        <3>3. QED
            BY <2>4, <3>1, <3>2
    <2>11. \A k \in Nat : /\ BucketSize * k \in Nat
                          /\ k < n => BucketSize * k + BucketSize <= y
                          /\ n < k => y + BucketSize <= BucketSize * k
        BY <2>4, TimesSize
    <2>12. CASE N = y
        <3>1. N \div BucketSize = n
            <4>1. y <= N /\ N < y + BucketSize
                <5> HIDE DEF y, N
                <5>1. QED
                    BY <2>4, <2>10, <2>12
            <4>2. QED
                BY <2>4, <4>1, DivSizeIs
        <3>2. c = <<>> \/ Cardinality(Last(c)) >= BucketSize
            <4>1. SUFFICES ASSUME c # <<>>
                           PROVE  Cardinality(Last(c)) >= BucketSize
                OBVIOUS
            <4>2. n \in Nat /\ n >= 1 /\ n - 1 \in Nat /\ n \in 1 .. n /\ n - 1 < n
                <5>1. n # 0
                    BY <2>4, <4>1
                <5> HIDE DEF n
                <5>2. QED
                    BY <2>4, <5>1
            <4>3. Last(c) = Chunk(s, n - 1)
                BY <2>8, <4>2 DEF Last
            <4> DEFINE z == BucketSize * (n - 1)
            <4>4. z \in Nat /\ z < N /\ z + BucketSize <= y
                BY <2>7, <2>11, <4>2
            <4>5. Cardinality(Chunk(s, n - 1)) =
                      IF N < z + BucketSize THEN N - z ELSE BucketSize
                BY <2>2, <4>2, <4>4, ChunkCardinality
            <4>6. z + BucketSize = y
                BY <4>2, TimesSize
            <4> HIDE DEF z, y, N
            <4>7. QED
                BY <2>4, <2>10, <2>12, <4>3, <4>4, <4>5, <4>6
        <3>3. d = Append(c, {x})
            BY <2>5, <3>2 DEF Place
        <3>4. /\ d \in Seq(SUBSET S) /\ Len(d) = n + 1 /\ d[n + 1] = {x}
              /\ \A k \in 1 .. n : d[k] = c[k]
            <4> HIDE DEF c, d
            <4>1. QED
                BY <2>4, <2>9, <3>3, AppendProperties DEF n
        <3>5. ASSUME NEW k \in Nat
              PROVE  k < n + 1 <=> BucketSize * k < N + 1
            <4> DEFINE z == BucketSize * k
            <4>1. z \in Nat /\ (k < n => z + BucketSize <= y)
                  /\ (n < k => y + BucketSize <= z) /\ (k = n => z = y)
                BY <2>11
            <4> HIDE DEF z, y, N, n
            <4>2. k < n + 1 <=> z < N + 1
                BY <2>4, <2>10, <2>12, <4>1
            <4>3. QED
                BY <4>2 DEF z
        <3>6. ASSUME NEW k \in 1 .. n + 1
              PROVE  d[k] = Chunk(more, k - 1)
            <4>1. CASE k = n + 1
                <5>1. Chunk(s, n) = {}
                    BY <2>4, <2>7, ChunkBeyond
                <5>2. k - 1 = n
                    BY <2>4, <4>1
                <5>3. Chunk(more, n) = {x}
                    BY <2>6, <3>1, <5>1
                <5>4. QED
                    BY <3>4, <4>1, <5>2, <5>3
            <4>2. CASE k \in 1 .. n
                <5>1. N \div BucketSize # k - 1
                    <6> DEFINE q == N \div BucketSize
                    <6> HIDE DEF q, n
                    <6>1. q = n
                        BY <3>1 DEF q
                    <6>2. q # k - 1
                        BY <2>4, <4>2, <6>1
                    <6>3. QED
                        BY <6>2 DEF q
                <5>2. Chunk(more, k - 1) = Chunk(s, k - 1)
                    BY <2>6, <5>1
                <5>3. QED
                    BY <2>8, <3>4, <4>2, <5>2
            <4>3. QED
                BY <2>4, <4>1, <4>2
        <3>7. QED
            <4> HIDE DEF c, d, n, N, more
            <4>1. P(more)
                BY <2>4, <3>4, <3>5, <3>6 DEF d
            <4>2. QED
                BY <4>1 DEF more
    <2>13. CASE N # y
        <3>1. N < y
            <4> HIDE DEF y, N
            <4>1. QED
                BY <2>4, <2>10, <2>13
        <3>2. n \in Nat /\ n >= 1 /\ n - 1 \in Nat /\ n \in 1 .. n /\ n - 1 < n
            <4>1. n # 0
                <5>1. BucketSize * 0 = 0
                    BY SizeIsPositive
                <5>2. QED
                    BY <2>4, <3>1, <5>1
            <4> HIDE DEF n
            <4>2. QED
                BY <2>4, <4>1
        <3> DEFINE z == BucketSize * (n - 1)
        <3>3. z \in Nat /\ z < N /\ z + BucketSize = y
            BY <2>7, <2>11, <3>2, TimesSize
        <3>4. N \div BucketSize = n - 1
            <4>1. z <= N /\ N < z + BucketSize
                <5> HIDE DEF z, y, N
                <5>1. QED
                    BY <2>4, <3>1, <3>3
            <4>2. QED
                BY <2>4, <3>2, <4>1, DivSizeIs
        <3>5. c # <<>> /\ Last(c) = Chunk(s, n - 1)
            BY <2>8, <3>2 DEF Last
        <3>6. ~(Cardinality(Last(c)) >= BucketSize)
            <4>1. Cardinality(Chunk(s, n - 1)) =
                      IF N < z + BucketSize THEN N - z ELSE BucketSize
                BY <2>2, <3>2, <3>3, ChunkCardinality
            <4> HIDE DEF z, y, N
            <4>2. QED
                BY <2>4, <3>1, <3>3, <3>5, <4>1
        <3>7. d = [c EXCEPT ![n] = c[n] \union {x}]
            BY <2>5, <3>5, <3>6 DEF Place
        <3>8. c[n] \in SUBSET S
            BY <2>4, <3>2
        <3>9. /\ d \in Seq(SUBSET S) /\ Len(d) = n
              /\ \A k \in 1 .. n : d[k] = IF k = n THEN c[n] \union {x} ELSE c[k]
            <4>1. c[n] \union {x} \in SUBSET S
                BY <2>9, <3>8
            <4> HIDE DEF c, d
            <4>2. QED
                BY <2>4, <3>2, <3>7, <4>1, ExceptSeq DEF n
        <3>10. ASSUME NEW k \in Nat
               PROVE  k < n <=> BucketSize * k < N + 1
            <4> DEFINE w == BucketSize * k
            <4>1. w \in Nat /\ (k < n => w < N)
                  /\ (n < k => y + BucketSize <= w) /\ (k = n => w = y)
                BY <2>7, <2>11
            <4> HIDE DEF w, y, N, n
            <4>2. k < n <=> w < N + 1
                BY <2>4, <2>10, <3>1, <4>1
            <4>3. QED
                BY <4>2 DEF w
        <3>11. ASSUME NEW k \in 1 .. n
               PROVE  d[k] = Chunk(more, k - 1)
            <4>1. CASE k = n
                BY <2>6, <2>8, <3>2, <3>4, <3>9, <4>1
            <4>2. CASE k # n
                <5>1. N \div BucketSize # k - 1
                    <6> DEFINE q == N \div BucketSize
                    <6>1. q = n - 1
                        BY <3>4
                    <6> HIDE DEF q, n
                    <6>2. q # k - 1
                        BY <2>4, <4>2, <6>1
                    <6>3. QED
                        BY <6>2 DEF q
                <5>2. Chunk(more, k - 1) = Chunk(s, k - 1)
                    BY <2>6, <5>1
                <5>3. QED
                    BY <2>8, <3>9, <4>2, <5>2
            <4>3. QED
                BY <4>1, <4>2
        <3>12. QED
            <4> HIDE DEF c, d, n, N, more
            <4>1. P(more)
                BY <2>4, <3>9, <3>10, <3>11 DEF d
            <4>2. QED
                BY <4>1 DEF more
    <2>14. QED
        BY <2>12, <2>13
<1>3. QED
    <2> HIDE DEF T
    <2>1. seq \in T
        BY <1>1, <1>2, SequenceInduction
    <2>2. QED
        BY <2>1 DEF T

-------------------------------------------------------------------------------
(* Layouts.                                                                *)

(* The chunks of a sequence with their numbers: what the buckets of a pair *)
(* with these runs should be.                                              *)
Layout(seq) == {<<k, Chunk(seq, k)>> : k \in ChunkIndices(seq)}

(* The chunks of one sequence behind another.                              *)
LEMMA ChunkConcat ==
    ASSUME NEW S, NEW s \in Seq(S), NEW t \in Seq(S)
    PROVE  /\ \A k : Chunk(s \o t, k) =
                 Chunk(s, k) \union
                     {t[j] : j \in {i \in 1 .. Len(t) : (Len(s) + i - 1) \div BucketSize = k}}
           /\ ChunkIndices(s \o t) =
                 ChunkIndices(s) \union
                     {(Len(s) + j - 1) \div BucketSize : j \in 1 .. Len(t)}
<1> DEFINE u == s \o t
           M == Len(s)
           N == Len(t)
           at(i) == (i - 1) \div BucketSize
           late(j) == (M + j - 1) \div BucketSize
<1>1. /\ u \in Seq(S) /\ Len(u) = M + N
      /\ \A i \in 1 .. M + N : u[i] = IF i <= M THEN s[i] ELSE t[i - M]
    BY ConcatProperties
<1>2. /\ M \in Nat /\ N \in Nat
      /\ DOMAIN s = 1 .. M /\ DOMAIN t = 1 .. N /\ DOMAIN u = 1 .. M + N
    BY <1>1
<1>3. \A j \in Int : at(M + j) = late(j)
    OBVIOUS
<1> HIDE DEF u, M, N, at, late
<1>4. /\ \A i \in 1 .. M : i \in 1 .. M + N /\ u[i] = s[i]
      /\ \A j \in 1 .. N : M + j \in 1 .. M + N /\ u[M + j] = t[j]
      /\ \A i \in 1 .. M + N : i \in 1 .. M \/ \E j \in 1 .. N : i = M + j
    <2>1. ASSUME NEW j \in 1 .. N
          PROVE  M + j \in 1 .. M + N /\ u[M + j] = t[j]
        <3>1. M + j \in 1 .. M + N /\ ~(M + j <= M) /\ (M + j) - M = j
            BY <1>2
        <3>2. u[M + j] = t[(M + j) - M]
            BY <1>1, <3>1
        <3>3. QED
            BY <3>1, <3>2
    <2>2. ASSUME NEW i \in 1 .. M + N, i \notin 1 .. M
          PROVE  \E j \in 1 .. N : i = M + j
        <3>1. i - M \in 1 .. N /\ i = M + (i - M)
            BY <1>2, <2>2
        <3>2. QED
            BY <3>1
    <2>3. QED
        BY <1>1, <1>2, <2>1, <2>2
<1>5. \A k : /\ Chunk(u, k) = {u[i] : i \in {j \in 1 .. M + N : at(j) = k}}
             /\ Chunk(s, k) = {s[i] : i \in {j \in 1 .. M : at(j) = k}}
    BY <1>2 DEF Chunk, at
<1>6. /\ ChunkIndices(u) = {at(i) : i \in 1 .. M + N}
      /\ ChunkIndices(s) = {at(i) : i \in 1 .. M}
    BY <1>2 DEF ChunkIndices, at
<1>7. \A j \in 1 .. N : at(M + j) = late(j)
    BY <1>2, <1>3
<1>8. ASSUME NEW k
      PROVE  Chunk(u, k) = Chunk(s, k) \union {t[j] : j \in {i \in 1 .. N : late(i) = k}}
    <2>1. ASSUME NEW x \in Chunk(u, k)
          PROVE  x \in Chunk(s, k) \union {t[j] : j \in {i \in 1 .. N : late(i) = k}}
        <3>1. PICK i \in 1 .. M + N : at(i) = k /\ x = u[i]
            BY <1>5
        <3>2. CASE i \in 1 .. M
            BY <1>4, <1>5, <3>1, <3>2
        <3>3. CASE \E j \in 1 .. N : i = M + j
            BY <1>4, <1>7, <3>1, <3>3
        <3>4. QED
            BY <1>4, <3>2, <3>3
    <2>2. ASSUME NEW x \in Chunk(s, k)
          PROVE  x \in Chunk(u, k)
        BY <1>4, <1>5
    <2>3. ASSUME NEW j \in 1 .. N, late(j) = k
          PROVE  t[j] \in Chunk(u, k)
        BY <1>4, <1>5, <1>7, <2>3
    <2>4. QED
        BY <2>1, <2>2, <2>3
<1>9. ChunkIndices(u) = ChunkIndices(s) \union {late(j) : j \in 1 .. N}
    <2>1. ASSUME NEW k \in ChunkIndices(u)
          PROVE  k \in ChunkIndices(s) \union {late(j) : j \in 1 .. N}
        <3>1. PICK i \in 1 .. M + N : k = at(i)
            BY <1>6
        <3>2. CASE i \in 1 .. M
            BY <1>6, <3>1, <3>2
        <3>3. CASE \E j \in 1 .. N : i = M + j
            BY <1>7, <3>1, <3>3
        <3>4. QED
            BY <1>4, <3>2, <3>3
    <2>2. \A k \in ChunkIndices(s) : k \in ChunkIndices(u)
        BY <1>4, <1>6
    <2>3. \A j \in 1 .. N : late(j) \in ChunkIndices(u)
        BY <1>4, <1>6, <1>7
    <2>4. QED
        BY <2>1, <2>2, <2>3
<1>10. QED
    BY <1>8, <1>9 DEF u, M, N, late

(* Runs that fit into the last chunk go there.                             *)
LEMMA LayoutFill ==
    ASSUME NEW S, NEW s \in Seq(S), NEW u \in Seq(S), NEW K \in Nat,
           BucketSize * K < Len(s), Len(s) + Len(u) <= BucketSize * K + BucketSize
    PROVE  Layout(s \o u) = {c \in Layout(s) : c[1] # K}
                                \union {<<K, Chunk(s, K) \union ToSet(u)>>}
<1> DEFINE x == BucketSize * K
           late(j) == (Len(s) + j - 1) \div BucketSize
<1>1. Len(s) \in Nat /\ Len(u) \in Nat /\ x \in Nat /\ BucketSize \in Nat
    BY SizeIsPositive, TimesSize
<1>2. ASSUME NEW j \in 1 .. Len(u)
      PROVE  late(j) = K
    <2>1. Len(s) + j - 1 \in Nat /\ x <= Len(s) + j - 1 /\ Len(s) + j - 1 < x + BucketSize
        <3> HIDE DEF x
        <3>1. x < Len(s) /\ Len(s) + Len(u) <= x + BucketSize
            BY DEF x
        <3>2. QED
            BY <1>1, <3>1
    <2>2. QED
        BY <2>1, DivSizeIs
<1>3. K \in ChunkIndices(s)
    BY ChunkIndicesAre
<1> HIDE DEF x
<1>4. \A k : {u[j] : j \in {i \in 1 .. Len(u) : late(i) = k}} = IF k = K THEN ToSet(u) ELSE {}
    <2>1. ToSet(u) = {u[j] : j \in 1 .. Len(u)}
        BY DEF ToSet
    <2> HIDE DEF late
    <2>2. QED
        BY <1>2, <2>1
<1>5. {late(j) : j \in 1 .. Len(u)} \subseteq {K}
    <2> HIDE DEF late
    <2>1. QED
        BY <1>2
<1>6. /\ \A k : Chunk(s \o u, k) =
              IF k = K THEN Chunk(s, K) \union ToSet(u) ELSE Chunk(s, k)
      /\ ChunkIndices(s \o u) = ChunkIndices(s)
    <2>1. /\ \A k : Chunk(s \o u, k) =
                 Chunk(s, k) \union {u[j] : j \in {i \in 1 .. Len(u) : late(i) = k}}
          /\ ChunkIndices(s \o u) = ChunkIndices(s) \union {late(j) : j \in 1 .. Len(u)}
        BY ChunkConcat
    <2> HIDE DEF late
    <2>2. QED
        BY <1>3, <1>4, <1>5, <2>1
<1>7. ASSUME NEW c
      PROVE  c \in Layout(s \o u)
                 <=> \/ c \in Layout(s) /\ c[1] # K
                     \/ c = <<K, Chunk(s, K) \union ToSet(u)>>
    <2>1. c \in Layout(s \o u)
              <=> \E k \in ChunkIndices(s) :
                     c = <<k, IF k = K THEN Chunk(s, K) \union ToSet(u) ELSE Chunk(s, k)>>
        BY <1>6 DEF Layout
    <2>2. c \in Layout(s) <=> \E k \in ChunkIndices(s) : c = <<k, Chunk(s, k)>>
        BY DEF Layout
    <2>3. QED
        BY <1>3, <2>1, <2>2
<1>8. QED
    BY <1>7

(* Behind full chunks come those of the runs that are left.                *)
LEMMA LayoutFull ==
    ASSUME NEW S, NEW v \in Seq(S), NEW rest \in Seq(S), NEW a \in Nat
    PROVE  Len(v) = BucketSize * a =>
           Layout(v \o rest) = Layout(v) \union
               {<<a + k, Chunk(rest, k)>> : k \in ChunkIndices(rest)}
<1>0. /\ \A k : Chunk(v \o rest, k) =
             Chunk(v, k) \union
                 {rest[j] : j \in {i \in 1 .. Len(rest) :
                                       (Len(v) + i - 1) \div BucketSize = k}}
      /\ ChunkIndices(v \o rest) =
             ChunkIndices(v) \union {(Len(v) + j - 1) \div BucketSize : j \in 1 .. Len(rest)}
    BY ChunkConcat
<1> SUFFICES ASSUME Len(v) = BucketSize * a
             PROVE  Layout(v \o rest) = Layout(v) \union
                        {<<a + k, Chunk(rest, k)>> : k \in ChunkIndices(rest)}
    OBVIOUS
<1> DEFINE x == BucketSize * a
           N == Len(rest)
           at(j) == (j - 1) \div BucketSize
           late(j) == (Len(v) + j - 1) \div BucketSize
<1>1. Len(v) = x /\ N \in Nat /\ x \in Nat /\ BucketSize \in Nat /\ DOMAIN rest = 1 .. N
    BY SizeIsPositive, TimesSize
<1>2. ASSUME NEW j \in 1 .. N
      PROVE  late(j) = a + at(j) /\ at(j) \in Nat
    <2> DEFINE q == at(j)
               y == BucketSize * q
    <2>1. j - 1 \in Nat
        BY <1>1
    <2>2. q \in Nat /\ y <= j - 1 /\ j - 1 < y + BucketSize
        BY <2>1, DivSize
    <2>3. BucketSize * (a + q) = x + y /\ y \in Nat
        BY <2>2, TimesSize
    <2>4. x + j - 1 \in Nat /\ x + y <= x + j - 1 /\ x + j - 1 < x + y + BucketSize
        <3> HIDE DEF q, x, y
        <3>1. QED
            BY <1>1, <2>1, <2>2, <2>3
    <2>5. a + q \in Nat
        BY <2>2
    <2>6. (x + j - 1) \div BucketSize = a + q
        <3> HIDE DEF q, x, y
        <3>1. QED
            BY <2>3, <2>4, <2>5, DivSizeIs
    <2>7. QED
        BY <1>1, <2>2, <2>6
<1>4. /\ \A k : Chunk(rest, k) = {rest[j] : j \in {i \in 1 .. N : at(i) = k}}
      /\ ChunkIndices(rest) = {at(j) : j \in 1 .. N}
    BY <1>1 DEF Chunk, ChunkIndices
<1>5. \A k \in ChunkIndices(v) : k \in Nat /\ k < a
    <2>1. \A k \in ChunkIndices(v) : k \in Nat /\ BucketSize * k < Len(v)
        BY ChunkIndicesAre
    <2>2. ASSUME NEW k \in ChunkIndices(v)
          PROVE  k \in Nat /\ k < a
        <3>1. k \in Nat /\ BucketSize * k < x
            BY <1>1, <2>1
        <3>2. CASE a = k
            BY <3>1, <3>2
        <3>3. CASE a < k
            <4>1. x + BucketSize <= BucketSize * k
                BY <3>1, <3>3, TimesSize
            <4>2. BucketSize * k \in Nat
                BY <3>1, TimesSize
            <4> DEFINE z == BucketSize * k
            <4> HIDE DEF x, z
            <4>3. z < x /\ x + BucketSize <= z /\ z \in Nat
                BY <3>1, <4>1, <4>2 DEF z
            <4>4. QED
                BY <1>1, <4>3
        <3>4. QED
            BY <3>1, <3>2, <3>3
    <2>3. QED
        BY <2>2
<1> HIDE DEF x, N, at, late
<1>6. \A k \in ChunkIndices(v) : Chunk(v \o rest, k) = Chunk(v, k)
    <2>1. ASSUME NEW k \in ChunkIndices(v), NEW j \in 1 .. N
          PROVE  late(j) # k
        BY <1>2, <1>5
    <2>2. \A k : Chunk(v \o rest, k) =
                  Chunk(v, k) \union {rest[j] : j \in {i \in 1 .. N : late(i) = k}}
        BY <1>0 DEF N, late
    <2>3. QED
        BY <2>1, <2>2
<1>7. \A k \in ChunkIndices(rest) : Chunk(v \o rest, a + k) = Chunk(rest, k)
    <2>1. ASSUME NEW k \in ChunkIndices(rest)
          PROVE  Chunk(v \o rest, a + k) = Chunk(rest, k)
        <3>1. k \in Nat /\ \A j \in 1 .. N : late(j) = a + k <=> at(j) = k
            BY <1>2, <1>4
        <3>2. Chunk(v, a + k) = {}
            <4>1. BucketSize * (a + k) = BucketSize * a + BucketSize * k
                BY <3>1, TimesSize
            <4>2. BucketSize * k \in Nat
                BY <3>1, TimesSize
            <4>3. ~(BucketSize * (a + k) < Len(v)) /\ a + k \in Nat
                BY <1>1, <3>1, <4>1, <4>2 DEF x
            <4>4. QED
                BY <4>3, ChunkBeyond
        <3>3. {j \in 1 .. N : late(j) = a + k} = {j \in 1 .. N : at(j) = k}
            BY <3>1
        <3>4. Chunk(v \o rest, a + k) =
                  Chunk(v, a + k) \union {rest[j] : j \in {i \in 1 .. N : late(i) = a + k}}
            BY <1>0 DEF N, late
        <3>5. Chunk(rest, k) = {rest[j] : j \in {i \in 1 .. N : at(i) = k}}
            BY <1>4
        <3>6. QED
            BY <3>2, <3>3, <3>4, <3>5
    <2>2. QED
        BY <2>1
<1>8. ChunkIndices(v \o rest) = ChunkIndices(v) \union {a + k : k \in ChunkIndices(rest)}
    <2>1. ChunkIndices(v \o rest) = ChunkIndices(v) \union {late(j) : j \in 1 .. N}
        BY <1>0 DEF N, late
    <2>2. QED
        BY <1>2, <1>4, <2>1
<1>9. ASSUME NEW c
      PROVE  c \in Layout(v \o rest)
                 <=> \/ c \in Layout(v)
                     \/ \E k \in ChunkIndices(rest) : c = <<a + k, Chunk(rest, k)>>
    <2>1. c \in Layout(v \o rest)
              <=> \E k \in ChunkIndices(v \o rest) : c = <<k, Chunk(v \o rest, k)>>
        BY DEF Layout
    <2>2. c \in Layout(v) <=> \E k \in ChunkIndices(v) : c = <<k, Chunk(v, k)>>
        BY DEF Layout
    <2>3. (\E k \in ChunkIndices(v \o rest) : c = <<k, Chunk(v \o rest, k)>>)
              <=> \/ \E k \in ChunkIndices(v) : c = <<k, Chunk(v \o rest, k)>>
                  \/ \E k \in ChunkIndices(rest) : c = <<a + k, Chunk(v \o rest, a + k)>>
        BY <1>8
    <2>4. QED
        BY <1>6, <1>7, <2>1, <2>2, <2>3
<1>10. QED
    BY <1>9

(* The first m elements.                                                   *)
LEMMA FirstElements ==
    ASSUME NEW S, NEW seq \in Seq(S), NEW m \in 0 .. Len(seq), NEW x
    PROVE  x \in ToSet(SubSeq(seq, 1, m)) <=> \E i \in 1 .. m : x = seq[i]
<1> DEFINE s == SubSeq(seq, 1, m)
<1>1. Len(s) = m /\ DOMAIN s = 1 .. m /\ \A i \in 1 .. m : s[i] = seq[i]
    OBVIOUS
<1>2. ToSet(s) = {s[i] : i \in 1 .. m}
    BY <1>1 DEF ToSet
<1> HIDE DEF s
<1>3. x \in ToSet(s) <=> \E i \in 1 .. m : x = seq[i]
    BY <1>1, <1>2
<1>4. QED
    BY <1>3 DEF s

(* Without its first m elements a sequence is what follows them.           *)
LEMMA KeepBehind ==
    ASSUME NEW S, NEW seq \in Seq(S), IsInjective(seq), NEW m \in 0 .. Len(seq)
    PROVE  /\ SubSeq(seq, 1, m) \in Seq(S) /\ SubSeq(seq, m + 1, Len(seq)) \in Seq(S)
           /\ seq = SubSeq(seq, 1, m) \o SubSeq(seq, m + 1, Len(seq))
           /\ Len(SubSeq(seq, 1, m)) = m
           /\ Len(SubSeq(seq, m + 1, Len(seq))) = Len(seq) - m
           /\ Keep(seq, S \ {seq[i] : i \in 1 .. m}) = SubSeq(seq, m + 1, Len(seq))
<1> DEFINE s == SubSeq(seq, 1, m)
           t == SubSeq(seq, m + 1, Len(seq))
           first == {seq[i] : i \in 1 .. m}
<1>1. s \in Seq(S) /\ t \in Seq(S) /\ seq = s \o t
    BY SplitSequence
<1>2. Len(s) = m /\ Len(t) = Len(seq) - m
    OBVIOUS
<1>3. ToSet(s) = first
    BY FirstElements
<1> HIDE DEF s, t, first
<1>4. ToSet(s) \intersect ToSet(t) = {}
    BY <1>1, ConcatDistinct
<1>5. ToSet(t) \subseteq S
    BY <1>1, ToSetIn
<1>6. Keep(seq, S \ first) = Keep(s, S \ first) \o Keep(t, S \ first)
    <2>1. Keep(s \o t, S \ first) = Keep(s, S \ first) \o Keep(t, S \ first)
        BY <1>1, KeepConcat
    <2>2. QED
        BY <1>1, <2>1
<1>7. Keep(s, S \ first) = <<>>
    BY <1>1, <1>3, KeepNone
<1>8. Keep(t, S \ first) = t
    BY <1>1, <1>3, <1>4, <1>5, KeepAll
<1>9. <<>> \o t = t
    BY <1>1, ConcatEmptySeq
<1>10. QED
    BY <1>1, <1>2, <1>3, <1>6, <1>7, <1>8, <1>9 DEF s, t, first

(* The layout with more runs: the last chunk is filled, the runs it has no *)
(* room for go into chunks of their own.                                   *)
LEMMA LayoutAppend ==
    ASSUME NEW S, NEW s \in Seq(S), NEW new \in Seq(S), IsInjective(new), NEW K \in Nat,
           NEW m \in 0 .. Len(new)
    PROVE  LET rest == SubSeq(new, m + 1, Len(new))
           IN  /\ BucketSize * K < Len(s) /\ Len(s) + m <= BucketSize * K + BucketSize
               /\ m = Len(new) \/ Len(s) + m = BucketSize * K + BucketSize
               => Layout(s \o new) =
                      {c \in Layout(s) : c[1] # K}
                          \union {<<K, Chunk(s, K) \union {new[i] : i \in 1 .. m}>>}
                          \union {<<K + 1 + k, Chunk(rest, k)>> : k \in ChunkIndices(rest)}
<1> DEFINE u == SubSeq(new, 1, m)
           rest == SubSeq(new, m + 1, Len(new))
           first == {new[i] : i \in 1 .. m}
           more == {<<K + 1 + k, Chunk(rest, k)>> : k \in ChunkIndices(rest)}
           z == BucketSize * K
<1>1. /\ u \in Seq(S) /\ rest \in Seq(S) /\ new = u \o rest
      /\ Len(u) = m /\ Len(rest) = Len(new) - m /\ ToSet(u) = first
    <2>1. /\ u \in Seq(S) /\ rest \in Seq(S) /\ new = u \o rest
          /\ Len(u) = m /\ Len(rest) = Len(new) - m
        BY KeepBehind
    <2>2. ToSet(SubSeq(new, 1, m)) = {new[i] : i \in 1 .. m}
        BY FirstElements
    <2>3. QED
        BY <2>1, <2>2
<1> HIDE DEF u, rest, first
<1>2. s \o new = (s \o u) \o rest
    BY <1>1, ConcatAssociative
<1>3. s \o u \in Seq(S) /\ Len(s \o u) = Len(s) + m
    BY <1>1, ConcatProperties
<1>4. (BucketSize * K < Len(s) /\ Len(s) + m <= BucketSize * K + BucketSize) =>
          Layout(s \o u) = {c \in Layout(s) : c[1] # K} \union {<<K, Chunk(s, K) \union first>>}
    <2>1. ASSUME BucketSize * K < Len(s), Len(s) + Len(u) <= BucketSize * K + BucketSize
          PROVE  Layout(s \o u) = {c \in Layout(s) : c[1] # K}
                                       \union {<<K, Chunk(s, K) \union ToSet(u)>>}
        <3>1. u \in Seq(S)
            BY <1>1
        <3>2. QED
            BY <2>1, <3>1, LayoutFill
    <2>2. QED
        BY <1>1, <2>1, Zenon
<1>5. Len(s \o u) = BucketSize * (K + 1) =>
          Layout((s \o u) \o rest) = Layout(s \o u) \union more
    <2>1. K + 1 \in Nat
        OBVIOUS
    <2> HIDE DEF more
    <2>2. Len(s \o u) = BucketSize * (K + 1) =>
              Layout((s \o u) \o rest) = Layout(s \o u) \union
                  {<<K + 1 + k, Chunk(rest, k)>> : k \in ChunkIndices(rest)}
        <3> DEFINE v == s \o u
                   a == K + 1
        <3>1. v \in Seq(S) /\ rest \in Seq(S) /\ a \in Nat
            BY <1>1, <1>3, <2>1
        <3> HIDE DEF v, a
        <3>2. Len(v) = BucketSize * a => Layout(v \o rest) =
                  Layout(v) \union {<<a + k, Chunk(rest, k)>> : k \in ChunkIndices(rest)}
            BY <3>1, LayoutFull
        <3>3. QED
            BY <3>2 DEF v, a
    <2>3. QED
        BY <2>2 DEF more
<1>6. BucketSize * (K + 1) = z + BucketSize
    BY TimesSize
<1>7. SUFFICES ASSUME z < Len(s), Len(s) + m <= z + BucketSize,
                      m = Len(new) \/ Len(s) + m = z + BucketSize
               PROVE  Layout(s \o new) = ({c \in Layout(s) : c[1] # K}
                          \union {<<K, Chunk(s, K) \union first>>}) \union more
    <2> HIDE DEF more
    <2>1. QED
        BY DEF more, first, rest
<1>8. Layout(s \o u) = {c \in Layout(s) : c[1] # K} \union {<<K, Chunk(s, K) \union first>>}
    BY <1>4, <1>7
<1>9. CASE rest = <<>>
    <2>1. (s \o u) \o rest = s \o u
        BY <1>3, <1>9, ConcatEmptySeq
    <2>2. ChunkIndices(rest) = {}
        BY <1>9 DEF ChunkIndices
    <2>3. more = {}
        BY <2>2
    <2> HIDE DEF more
    <2>4. QED
        BY <1>2, <1>8, <2>1, <2>3
<1> HIDE DEF z, more
<1>10. CASE rest # <<>>
    <2>1. Len(rest) # 0
        BY <1>1, <1>10, EmptySeq
    <2>2. m # Len(new)
        BY <1>1, <2>1
    <2>3. Len(s \o u) = BucketSize * (K + 1)
        BY <1>3, <1>6, <1>7, <2>2
    <2>4. QED
        BY <1>2, <1>5, <1>8, <2>3
<1>11. QED
    BY <1>9, <1>10

(* The chunks hold the runs of the sequence.                               *)
LEMMA LayoutCovers ==
    ASSUME NEW S, NEW seq \in Seq(S), IsInjective(seq), NEW R,
           {<<b.index, b.runs>> : b \in R} = Layout(seq)
    PROVE  UNION {b.runs : b \in R} = ToSet(seq)
<1>1. ASSUME NEW b \in R
      PROVE  b.runs \subseteq ToSet(seq)
    <2>1. <<b.index, b.runs>> \in Layout(seq)
        OBVIOUS
    <2>2. PICK k \in ChunkIndices(seq) : <<b.index, b.runs>> = <<k, Chunk(seq, k)>>
        BY <2>1 DEF Layout
    <2>3. QED
        BY <2>2, ChunksPartition
<1>2. ASSUME NEW x \in ToSet(seq)
      PROVE  \E b \in R : x \in b.runs
    <2>1. PICK k \in ChunkIndices(seq) : x \in Chunk(seq, k)
        BY ChunksPartition
    <2>2. <<k, Chunk(seq, k)>> \in {<<b.index, b.runs>> : b \in R}
        BY DEF Layout
    <2>3. PICK b \in R : <<k, Chunk(seq, k)>> = <<b.index, b.runs>>
        BY <2>2
    <2>4. QED
        BY <2>1, <2>3
<1>3. QED
    BY <1>1, <1>2

(* The highest chunk of a sequence that is not empty.                      *)
LEMMA LayoutEnd ==
    ASSUME NEW S, NEW seq \in Seq(S), seq # <<>>
    PROVE  \E K \in ChunkIndices(seq) :
              /\ K \in Nat
              /\ BucketSize * K < Len(seq) /\ Len(seq) <= BucketSize * K + BucketSize
              /\ \A k \in ChunkIndices(seq) : k <= K
<1> DEFINE a == Len(seq) - 1
           K == a \div BucketSize
<1>1. a \in Nat
    BY EmptySeq
<1>2. K \in Nat /\ BucketSize * K <= a /\ a < BucketSize * K + BucketSize
    BY <1>1, DivSize
<1>3. BucketSize * K \in Nat /\ BucketSize \in Nat
    BY <1>2, TimesSize, SizeIsPositive
<1>4. BucketSize * K < Len(seq) /\ Len(seq) <= BucketSize * K + BucketSize
    <2> DEFINE z == BucketSize * K
    <2> HIDE DEF K
    <2> HIDE DEF z
    <2>1. z <= a /\ a < z + BucketSize /\ z \in Nat
        BY <1>2, <1>3 DEF z
    <2>2. z < Len(seq) /\ Len(seq) <= z + BucketSize
        BY <1>1, <1>3, <2>1
    <2>3. QED
        BY <2>2 DEF z
<1> HIDE DEF K
<1>5. ChunkIndices(seq) = {k \in Nat : BucketSize * k < Len(seq)}
    BY ChunkIndicesAre
<1>6. ASSUME NEW k \in ChunkIndices(seq)
      PROVE  k <= K
    <2>1. k \in Nat /\ BucketSize * k < Len(seq)
        BY <1>5
    <2>2. CASE K < k
        <3>1. BucketSize * K + BucketSize <= BucketSize * k /\ BucketSize * k \in Nat
            BY <1>2, <2>1, <2>2, TimesSize
        <3> DEFINE z == BucketSize * k
                   y == BucketSize * K
        <3> HIDE DEF z, y
        <3>2. y + BucketSize <= z /\ z < Len(seq) /\ Len(seq) <= y + BucketSize
              /\ z \in Nat /\ y \in Nat
            BY <1>3, <1>4, <2>1, <3>1 DEF z, y
        <3>3. QED
            BY <1>3, <3>2
    <2>3. QED
        BY <1>2, <2>1, <2>2
<1>7. K \in ChunkIndices(seq)
    BY <1>2, <1>4, <1>5
<1>8. QED
    BY <1>2, <1>4, <1>6, <1>7

-------------------------------------------------------------------------------
(* That no run is ever in two buckets, for any runs, pairs, flushers,      *)
(* rebuilders, sizes and weeks.  Flushers read a bucket before they write  *)
(* it back and rebuilds delete and recreate rows under their keys, so the  *)
(* invariant speaks of versions: the rows of the table and those flushers  *)
(* have read.                                                              *)

InBatch(f) == ToSet(flush[f].batch)

(* A run is in one place: the queue, one flusher's batch or the rows; the  *)
(* runs with a created_at are those in a batch or a row.                   *)
RunsInOnePlace ==
    /\ IsInjective(queue) /\ IsInjective(created)
    /\ ToSet(created) \intersect ToSet(queue) = {}
    /\ ToSet(created) = rows \union UNION {InBatch(f) : f \in Flushers}
    /\ \A f \in Flushers :
          /\ flush[f].stage = "idle" => flush[f].batch = <<>>
          /\ IsInjective(flush[f].batch)
          /\ InBatch(f) \intersect rows = {}
          /\ \A g \in Flushers \ {f} : InBatch(f) \intersect InBatch(g) = {}

(* Tails a flusher remembers: of its pairs, one per pair, of rows.         *)
TailsOK ==
    \A f \in Flushers :
        /\ flush[f].stage # "counted" => flush[f].tails = {}
        /\ \A t \in flush[f].tails :
              /\ t.pair \in PairsIn(flush[f].batch)
              /\ t.runs \subseteq {x \in rows : PairOf[x] = t.pair}
              /\ Cardinality(t.runs) \in 1 .. BucketSize
              /\ \A u \in flush[f].tails : t.pair = u.pair => t = u

(* The keys of the rows a rebuild has looked up for deletion, and the      *)
(* pairs it has looked up.                                                 *)
Seen(r) == rebuild[r].doomed \union rebuild[r].deleted

LookedUp(r) == rebuild[r].pairs \ rebuild[r].todo

(* Where a rebuild is: it has seen rows of pairs it has looked up only, at *)
(* most one per key, and its pairs are those of committed runs it lists.   *)
RebuildOK(r) ==
    /\ rebuild[r].todo \subseteq rebuild[r].pairs
    /\ rebuild[r].stage \notin {"scan", "delete"} => Seen(r) = {} /\ LookedUp(r) = {}
    /\ rebuild[r].stage # "delete" => rebuild[r].doomed = {}
    /\ \A i \in Seen(r) : i[1] \in LookedUp(r)
    /\ \A i, j \in Seen(r) : i[1] = j[1] /\ i[2] = j[2] => i = j
    /\ rebuild[r].stage = "begun" =>
          /\ rebuild[r].included \subseteq rows
          /\ rebuild[r].pairs = {PairOf[x] : x \in rebuild[r].included}
    /\ rebuild[r].stage \in {"scan", "delete"} =>
          /\ ToSet(rebuild[r].listed) \subseteq rows
          /\ IsInjective(rebuild[r].listed)
          /\ rebuild[r].pairs = {PairOf[x] : x \in ToSet(rebuild[r].listed)}

RebuildsOK == \A r \in Rebuilders : RebuildOK(r)

(* The versions of the rows: what is in the table and what a flusher that  *)
(* read a row has yet to write back.  Two that share a run are of one row. *)
Live(f)  == {t \in flush[f].tails : IdOf(t) \in IdsOf(buckets)}
Versions == buckets \union UNION {Live(f) : f \in Flushers}

VersionsApart ==
    /\ \A v \in Versions : v.runs \subseteq {x \in rows : PairOf[x] = v.pair}
    /\ \A v, w \in Versions : v.runs \intersect w.runs # {} => IdOf(v) = IdOf(w)

(* What a rebuild has listed of a pair is in no version it will leave; if  *)
(* a flusher has written the pair since, there is a bucket 0 again, which  *)
(* the rebuild's INSERT collides with.                                     *)
Apart(r, p) ==
    \A v \in Versions : v.pair = p /\ IdOf(v) \notin Seen(r)
                           => v.runs \intersect ToSet(rebuild[r].listed) = {}
Blocked(r, p) == \E b \in buckets : b.pair = p /\ b.index = 0 /\ IdOf(b) \notin Seen(r)

RebuildsApart == \A r \in Rebuilders : \A p \in LookedUp(r) : Apart(r, p) \/ Blocked(r, p)

(* The inductive invariant of TypeOK and CountedOnce.                      *)
SafetyInv ==
    TypeOK /\ RunsInOnePlace /\ TailsOK /\ RebuildsOK /\ VersionsApart /\ RebuildsApart

-------------------------------------------------------------------------------
(* Keys nobody remembers.                                                  *)

(* What the assumption on the constants says of their sizes.               *)
LEMMA ConstantTypes ==
    /\ IsFiniteSet(Runs) /\ IsFiniteSet(Flushers) /\ IsFiniteSet(Rebuilders)
    /\ Flushers \intersect Rebuilders = {}
    /\ PairOf \in [Runs -> Pairs]
    /\ Cardinality(Flushers) \in Nat /\ Cardinality(Rebuilders) \in Nat
    /\ BucketSize \in Nat /\ BucketSize >= 1
BY BucketsAssumption, FS_CardinalityType

(* A key is remembered as that of a tail or of a row seen by a rebuild.    *)
LEMMA RememberedIs ==
    ASSUME NEW x, NEW key
    PROVE  key \in Remembered(x)
              <=> \/ \E f \in Flushers \ {x} : key \in IdsOf(flush[f].tails)
                  \/ \E r \in Rebuilders \ {x} : key \in Seen(r)
BY DEF Remembered, LockedBy, Seen

(* Each of the other transactions remembers at most one generation of a    *)
(* key, and there are more generations than transactions.                  *)
LEMMA FreshKeyExists ==
    ASSUME TypeOK, TailsOK, RebuildsOK, NEW x, NEW p, NEW i
    PROVE  \E g \in Gens : <<p, i, g>> \notin Remembered(x)
<1> SUFFICES ASSUME \A g \in Gens : <<p, i, g>> \in Remembered(x)
             PROVE  FALSE
    OBVIOUS
<1> DEFINE All == Flushers \union Rebuilders
           Has(y, g) == \/ y \in Flushers /\ <<p, i, g>> \in IdsOf(flush[y].tails)
                        \/ y \in Rebuilders /\ <<p, i, g>> \in Seen(y)
           holder == [g \in Gens |-> CHOOSE y \in All : Has(y, g)]
<1>1. \A g \in Gens : \E y \in All : Has(y, g)
    <2>1. SUFFICES ASSUME NEW g \in Gens
                   PROVE  \E y \in All : Has(y, g)
        OBVIOUS
    <2> DEFINE key == <<p, i, g>>
    <2>2. key \in Remembered(x)
        OBVIOUS
    <2> HIDE DEF key
    <2>3. \/ \E y \in Flushers : key \in IdsOf(flush[y].tails)
          \/ \E y \in Rebuilders : key \in Seen(y)
        BY <2>2, RememberedIs
    <2>4. QED
        BY <2>3 DEF key
<1>2. holder \in [Gens -> All]
    BY <1>1
<1>3. \A g \in Gens : Has(holder[g], g)
    BY <1>1
<1>4. /\ IsFiniteSet(Gens)
      /\ Cardinality(Gens) = Cardinality(Flushers) + Cardinality(Rebuilders) + 1
    <2> DEFINE n == Cardinality(Flushers) + Cardinality(Rebuilders)
    <2>1. n \in Nat
        BY ConstantTypes
    <2> HIDE DEF n
    <2>2. IsFiniteSet(0 .. n) /\ Cardinality(0 .. n) = n + 1
        <3>1. /\ IsFiniteSet(0 .. n)
              /\ Cardinality(0 .. n) = IF 0 > n THEN 0 ELSE n - 0 + 1
            BY <2>1, FS_Interval
        <3>2. QED
            BY <2>1, <3>1
    <2>3. QED
        BY <2>2 DEF Gens, n
<1>5. /\ IsFiniteSet(All)
      /\ Cardinality(All) <= Cardinality(Flushers) + Cardinality(Rebuilders)
    <2>1. /\ IsFiniteSet(All)
          /\ Cardinality(All) = Cardinality(Flushers) + Cardinality(Rebuilders)
                                    - Cardinality(Flushers \intersect Rebuilders)
        BY ConstantTypes, FS_Union
    <2>2. Cardinality(Flushers \intersect Rebuilders) = 0
        BY ConstantTypes, FS_EmptySet
    <2> HIDE DEF All
    <2>3. QED
        BY ConstantTypes, <2>1, <2>2
<1>6. Cardinality(All) < Cardinality(Gens)
    <2> HIDE DEF All
    <2>1. Cardinality(All) \in Nat
        BY <1>5, FS_CardinalityType
    <2>2. QED
        BY ConstantTypes, <1>4, <1>5, <2>1
<1>7. PICK g, h \in Gens : g # h /\ holder[g] = holder[h]
    <2> HIDE DEF All, holder
    <2>1. QED
        BY <1>2, <1>4, <1>5, <1>6, FS_PigeonHole
<1> DEFINE y == holder[g]
<1>8. Has(y, g) /\ Has(y, h)
    <2> HIDE DEF Has, holder
    <2>1. QED
        BY <1>3, <1>7
<1> HIDE DEF y, holder
<1>9. CASE y \in Flushers
    <2>1. <<p, i, g>> \in IdsOf(flush[y].tails) /\ <<p, i, h>> \in IdsOf(flush[y].tails)
        BY <1>8, <1>9, ConstantTypes
    <2>2. PICK t, u \in flush[y].tails : IdOf(t) = <<p, i, g>> /\ IdOf(u) = <<p, i, h>>
        BY <2>1 DEF IdsOf
    <2>3. t = u
        BY <1>9, <2>2 DEF TailsOK, IdOf
    <2>4. QED
        BY <1>7, <2>2, <2>3
<1>10. CASE y \in Rebuilders
    <2>1. <<p, i, g>> \in Seen(y) /\ <<p, i, h>> \in Seen(y)
        BY <1>8, <1>10, ConstantTypes
    <2>2. <<p, i, g>> = <<p, i, h>>
        BY <1>10, <2>1 DEF RebuildsOK, RebuildOK
    <2>3. QED
        BY <1>7, <2>2
<1>11. QED
    BY <1>8, <1>9, <1>10

(* Rows get the pair, index and runs of their drafts, and a new key.       *)
LEMMA WithIdsAre ==
    ASSUME TypeOK, TailsOK, RebuildsOK, NEW x, NEW drafts,
           \A d \in drafts : d.pair \in Pairs /\ d.index \in Nat /\ d.runs \in SUBSET Runs
    PROVE  /\ \A b \in WithIds(x, drafts) :
                 /\ b \in Bucket /\ IdOf(b) \notin Remembered(x)
                 /\ \E d \in drafts : /\ b.pair = d.pair /\ b.index = d.index
                                      /\ b.runs = d.runs /\ b.gen = FreshGen(x, d)
           /\ \A d \in drafts : \E b \in WithIds(x, drafts) :
                 b.pair = d.pair /\ b.index = d.index /\ b.runs = d.runs
<1> DEFINE Row(d) == [pair |-> d.pair, index |-> d.index, gen |-> FreshGen(x, d),
                      runs |-> d.runs]
<1>1. ASSUME NEW d \in drafts
      PROVE  /\ FreshGen(x, d) \in Gens
             /\ <<d.pair, d.index, FreshGen(x, d)>> \notin Remembered(x)
    <2>1. \E g \in Gens : <<d.pair, d.index, g>> \notin Remembered(x)
        BY FreshKeyExists
    <2>2. QED
        BY <2>1 DEF FreshGen
<1>2. ASSUME NEW d \in drafts
      PROVE  Row(d) \in Bucket /\ IdOf(Row(d)) \notin Remembered(x)
    BY <1>1 DEF Bucket, IdOf
<1>3. WithIds(x, drafts) = {Row(d) : d \in drafts}
    BY DEF WithIds
<1>4. \A d \in drafts : /\ Row(d).pair = d.pair /\ Row(d).index = d.index
                        /\ Row(d).runs = d.runs /\ Row(d).gen = FreshGen(x, d)
    OBVIOUS
<1> HIDE DEF Row
<1>5. QED
    BY <1>2, <1>3, <1>4

-------------------------------------------------------------------------------
(* What a flusher writes.                                                  *)

(* A flusher's new runs of a pair are those of its batch.                  *)
LEMMA NewRunsAre ==
    ASSUME TypeOK, RunsInOnePlace, NEW f \in Flushers, NEW p
    PROVE  /\ NewRuns(f, p) \in Seq(Runs) /\ IsInjective(NewRuns(f, p))
           /\ ToSet(NewRuns(f, p)) = {x \in InBatch(f) : PairOf[x] = p}
<1>1. flush[f].batch \in Seq(Runs) /\ IsInjective(flush[f].batch)
    BY DEF TypeOK, RunsInOnePlace
<1>2. /\ NewRuns(f, p) \in Seq(Runs) /\ IsInjective(NewRuns(f, p))
      /\ ToSet(NewRuns(f, p)) = InBatch(f) \intersect RunsOf(p)
    BY <1>1, KeepElements, KeepDistinct DEF NewRuns, InBatch
<1>3. InBatch(f) \subseteq Runs
    BY <1>1, ToSetIn DEF InBatch
<1>4. QED
    BY <1>2, <1>3 DEF RunsOf

(* The last bucket absorbs runs of its pair, no more than it has room for. *)
LEMMA AbsorbedAre ==
    ASSUME TypeOK, RunsInOnePlace, TailsOK, NEW f \in Flushers, NEW p
    PROVE  /\ Absorbed(f, p) \subseteq {x \in InBatch(f) : PairOf[x] = p}
           /\ TailOf(f, p) = {} => Absorbed(f, p) = {}
           /\ \A t \in TailOf(f, p) :
                 /\ TailOf(f, p) = {t}
                 /\ Cardinality(t.runs \union Absorbed(f, p)) \in 1 .. BucketSize
<1> DEFINE new == NewRuns(f, p)
<1>1. new \in Seq(Runs) /\ IsInjective(new) /\ ToSet(new) = {x \in InBatch(f) : PairOf[x] = p}
    BY NewRunsAre
<1> HIDE DEF new
<1>2. Absorbed(f, p) = {new[i] : i \in {j \in DOMAIN new : j <= Room(f, p)}}
    BY DEF Absorbed, new
<1>3. Absorbed(f, p) \subseteq ToSet(new)
    BY <1>2 DEF ToSet
<1>4. ASSUME TailOf(f, p) = {}
      PROVE  Absorbed(f, p) = {}
    <2>1. Room(f, p) = 0
        BY <1>4 DEF Room
    <2>2. {j \in DOMAIN new : j <= Room(f, p)} = {}
        BY <1>1, <2>1
    <2>3. QED
        BY <1>2, <2>2
<1>5. ASSUME NEW t \in TailOf(f, p)
      PROVE  /\ TailOf(f, p) = {t}
             /\ Cardinality(t.runs \union Absorbed(f, p)) \in 1 .. BucketSize
    <2>1. t \in flush[f].tails /\ t.pair = p
        BY DEF TailOf
    <2>2. TailOf(f, p) = {t}
        BY <2>1 DEF TailOf, TailsOK
    <2> DEFINE c == Cardinality(t.runs)
               m == IF Len(new) < BucketSize - c THEN Len(new) ELSE BucketSize - c
    <2>3. c \in 1 .. BucketSize
        BY <2>1 DEF TailsOK
    <2>4. Room(f, p) = BucketSize - c
        BY <2>2 DEF Room
    <2>5. /\ DOMAIN new = 1 .. Len(new) /\ Len(new) \in Nat /\ BucketSize \in Nat
        BY <1>1, ConstantTypes
    <2> HIDE DEF c
    <2>6. m \in 0 .. Len(new) /\ m <= BucketSize - c
        BY <2>3, <2>5
    <2>7. {j \in DOMAIN new : j <= Room(f, p)} = 1 .. m
        BY <2>3, <2>4, <2>5
    <2> HIDE DEF m
    <2>8. /\ IsFiniteSet({new[i] : i \in 0 + 1 .. m})
          /\ Cardinality({new[i] : i \in 0 + 1 .. m}) = m - 0
        BY <1>1, <2>6, ImageOfInterval, Zenon
    <2>9. IsFiniteSet(Absorbed(f, p)) /\ Cardinality(Absorbed(f, p)) = m
        <3>1. 0 + 1 = 1 /\ m - 0 = m
            BY <2>5, <2>6
        <3>2. QED
            BY <1>2, <2>7, <2>8, <3>1
    <2>10. IsFiniteSet(t.runs)
        <3>1. t.runs \in SUBSET Runs
            BY <2>1 DEF TypeOK, Bucket
        <3>2. QED
            BY <3>1, ConstantTypes, FS_Subset
    <2>11. Cardinality(t.runs \union Absorbed(f, p))
               = c + m - Cardinality(t.runs \intersect Absorbed(f, p))
        BY <2>9, <2>10, FS_Union DEF c
    <2>12. /\ Cardinality(t.runs \intersect Absorbed(f, p)) \in Nat
           /\ Cardinality(t.runs \intersect Absorbed(f, p)) <= m
        <3>1. /\ IsFiniteSet(t.runs \intersect Absorbed(f, p))
              /\ Cardinality(t.runs \intersect Absorbed(f, p)) <= Cardinality(Absorbed(f, p))
            BY <2>9, FS_Subset
        <3>2. QED
            BY <2>9, <3>1, FS_CardinalityType
    <2>13. QED
        BY <2>2, <2>3, <2>5, <2>6, <2>11, <2>12
<1>6. QED
    BY <1>1, <1>3, <1>4, <1>5

(* A filled bucket is a remembered one with the absorbed runs added.       *)
LEMMA FilledAre ==
    ASSUME TypeOK, RunsInOnePlace, TailsOK, NEW f \in Flushers, NEW c \in Filled(f)
    PROVE  /\ c \in Bucket /\ Cardinality(c.runs) \in 1 .. BucketSize
           /\ c.pair \in PairsIn(flush[f].batch)
           /\ \E t \in flush[f].tails :
                 /\ c.pair = t.pair /\ c.index = t.index /\ c.gen = t.gen
                 /\ c.runs = t.runs \union Absorbed(f, t.pair)
<1>1. PICK t \in flush[f].tails : c = [t EXCEPT !.runs = @ \union Absorbed(f, t.pair)]
    BY DEF Filled
<1>2. t \in Bucket /\ t.pair \in PairsIn(flush[f].batch)
    BY DEF TypeOK, TailsOK
<1>3. /\ c.pair = t.pair /\ c.index = t.index /\ c.gen = t.gen
      /\ c.runs = t.runs \union Absorbed(f, t.pair)
      /\ Absorbed(f, t.pair) \subseteq Runs => c \in Bucket
    BY <1>1, <1>2 DEF Bucket
<1>4. t \in TailOf(f, t.pair)
    BY DEF TailOf
<1>5. /\ Absorbed(f, t.pair) \subseteq InBatch(f)
      /\ Cardinality(t.runs \union Absorbed(f, t.pair)) \in 1 .. BucketSize
    BY <1>4, AbsorbedAre
<1>6. InBatch(f) \subseteq Runs
    BY ToSetIn DEF TypeOK, InBatch
<1>7. QED
    BY <1>2, <1>3, <1>5, <1>6

(* The runs that were not absorbed.                                        *)
LEMMA RemainingAre ==
    ASSUME TypeOK, RunsInOnePlace, NEW f \in Flushers, NEW p
    PROVE  /\ Remaining(f, p) \in Seq(Runs) /\ IsInjective(Remaining(f, p))
           /\ ToSet(Remaining(f, p)) =
                 {x \in InBatch(f) : PairOf[x] = p /\ x \notin Absorbed(f, p)}
<1>1. /\ NewRuns(f, p) \in Seq(Runs) /\ IsInjective(NewRuns(f, p))
      /\ ToSet(NewRuns(f, p)) = {x \in InBatch(f) : PairOf[x] = p}
    BY NewRunsAre
<1>2. /\ Remaining(f, p) \in Seq(Runs) /\ IsInjective(Remaining(f, p))
      /\ ToSet(Remaining(f, p)) = ToSet(NewRuns(f, p)) \intersect (Runs \ Absorbed(f, p))
    BY <1>1, KeepElements, KeepDistinct DEF Remaining
<1>3. InBatch(f) \subseteq Runs
    BY ToSetIn DEF TypeOK, InBatch
<1>4. QED
    BY <1>1, <1>2, <1>3

(* The drafts of new buckets: chunks of the runs that were not absorbed.   *)
LEMMA ChunksOfAre ==
    ASSUME NEW f, NEW p
    PROVE  ChunksOf(f, p) =
               {[pair |-> p, index |-> NextIndex(f, p) + k,
                 runs |-> Chunk(Remaining(f, p), k)] : k \in ChunkIndices(Remaining(f, p))}
BY DEF ChunksOf, Chunk, ChunkIndices

LEMMA NextIndexType ==
    ASSUME TypeOK, NEW f \in Flushers, NEW p
    PROVE  NextIndex(f, p) \in Nat
<1>1. CASE TailOf(f, p) = {}
    BY <1>1 DEF NextIndex
<1>2. CASE TailOf(f, p) # {}
    <2> DEFINE t == CHOOSE b \in TailOf(f, p) : TRUE
    <2>1. t \in TailOf(f, p)
        BY <1>2
    <2> HIDE DEF t
    <2>2. t \in Bucket
        BY <2>1 DEF TypeOK, TailOf
    <2>3. t.index \in Nat
        BY <2>2 DEF Bucket
    <2>4. NextIndex(f, p) = t.index + 1
        BY <1>2 DEF NextIndex, t
    <2>5. QED
        BY <2>3, <2>4
<1>3. QED
    BY <1>1, <1>2

(* The drafts of all pairs: of runs of the batch that were not absorbed,   *)
(* no two with the same key or a run in common.                            *)
LEMMA ChunksAre ==
    ASSUME TypeOK, RunsInOnePlace, NEW f \in Flushers
    PROVE  /\ \A d \in Chunks(f) :
                 /\ d.pair \in PairsIn(flush[f].batch) /\ d.index \in Nat
                 /\ d.runs \subseteq {x \in InBatch(f) : /\ PairOf[x] = d.pair
                                                      /\ x \notin Absorbed(f, d.pair)}
                 /\ Cardinality(d.runs) \in 1 .. BucketSize
           /\ \A d, e \in Chunks(f) :
                 \/ d.pair = e.pair /\ d.index = e.index
                 \/ d.runs \intersect e.runs # {}
                 => d = e
<1> DEFINE Rest(p) == Remaining(f, p)
           Draft(p, k) == [pair |-> p, index |-> NextIndex(f, p) + k,
                           runs |-> Chunk(Rest(p), k)]
<1>1. \A p : /\ Rest(p) \in Seq(Runs) /\ IsInjective(Rest(p))
             /\ ToSet(Rest(p)) =
                   {x \in InBatch(f) : PairOf[x] = p /\ x \notin Absorbed(f, p)}
    BY RemainingAre
<1>2. \A d \in Chunks(f) : \E p \in PairsIn(flush[f].batch) :
          \E k \in ChunkIndices(Rest(p)) : d = Draft(p, k)
    BY ChunksOfAre DEF Chunks
<1> HIDE DEF Rest
<1>3. \A p, k : /\ Draft(p, k).pair = p /\ Draft(p, k).index = NextIndex(f, p) + k
                /\ Draft(p, k).runs = Chunk(Rest(p), k)
    OBVIOUS
<1> HIDE DEF Draft
<1>4. ASSUME NEW d \in Chunks(f)
      PROVE  /\ d.pair \in PairsIn(flush[f].batch) /\ d.index \in Nat
             /\ d.runs \subseteq {x \in InBatch(f) : /\ PairOf[x] = d.pair
                                                  /\ x \notin Absorbed(f, d.pair)}
             /\ Cardinality(d.runs) \in 1 .. BucketSize
    <2>1. PICK p \in PairsIn(flush[f].batch) : \E k \in ChunkIndices(Rest(p)) : d = Draft(p, k)
        BY <1>2
    <2>11. PICK k \in ChunkIndices(Rest(p)) : d = Draft(p, k)
        BY <2>1
    <2>2. /\ k \in Nat /\ Chunk(Rest(p), k) \subseteq ToSet(Rest(p))
          /\ Cardinality(Chunk(Rest(p), k)) \in 1 .. BucketSize
        BY <1>1, ChunksPartition
    <2>3. NextIndex(f, p) \in Nat
        BY NextIndexType
    <2>4. QED
        BY <1>1, <1>3, <2>1, <2>11, <2>2, <2>3
<1>5. ASSUME NEW d \in Chunks(f), NEW e \in Chunks(f),
             \/ d.pair = e.pair /\ d.index = e.index
             \/ d.runs \intersect e.runs # {}
      PROVE  d = e
    <2>1. PICK p \in PairsIn(flush[f].batch) : \E k \in ChunkIndices(Rest(p)) : d = Draft(p, k)
        BY <1>2
    <2>11. PICK k \in ChunkIndices(Rest(p)) : d = Draft(p, k)
        BY <2>1
    <2>2. PICK q \in PairsIn(flush[f].batch) : \E l \in ChunkIndices(Rest(q)) : e = Draft(q, l)
        BY <1>2
    <2>21. PICK l \in ChunkIndices(Rest(q)) : e = Draft(q, l)
        BY <2>2
    <2>3. k \in Nat /\ l \in Nat
        BY <1>1, ChunksPartition
    <2>4. CASE d.pair = e.pair /\ d.index = e.index
        <3>1. p = q /\ NextIndex(f, p) + k = NextIndex(f, p) + l
            BY <1>3, <2>11, <2>21, <2>4
        <3>2. k = l
            BY <2>3, <3>1, NextIndexType
        <3>3. QED
            BY <2>11, <2>21, <3>1, <3>2
    <2>5. CASE d.runs \intersect e.runs # {}
        <3>1. PICK x : x \in Chunk(Rest(p), k) /\ x \in Chunk(Rest(q), l)
            BY <1>3, <2>11, <2>21, <2>5
        <3>2. PairOf[x] = p /\ PairOf[x] = q
            <4>1. x \in ToSet(Rest(p)) /\ x \in ToSet(Rest(q))
                BY <1>1, <3>1, ChunksPartition
            <4>2. QED
                BY <1>1, <4>1
        <3>3. k = l
            BY <1>1, <3>1, <3>2, ChunksPartition
        <3>4. QED
            BY <2>11, <2>21, <3>2, <3>3
    <2>6. QED
        BY <1>5, <2>4, <2>5
<1>6. QED
    BY <1>4, <1>5

-------------------------------------------------------------------------------
(* What a rebuild writes.                                                  *)

ListedOf(r, p) == Keep(rebuild[r].listed, RunsOf(p))

(* One draft per chunk of the pair's listed runs.                          *)
LEMMA RebuiltOfIs ==
    ASSUME TypeOK, RebuildsOK, NEW r \in Rebuilders, NEW p,
           rebuild[r].stage \in {"scan", "delete"}
    PROVE  /\ ListedOf(r, p) \in Seq(Runs) /\ IsInjective(ListedOf(r, p))
           /\ ToSet(ListedOf(r, p)) = {x \in ToSet(rebuild[r].listed) : PairOf[x] = p}
           /\ RebuiltOf(r, p) =
                 {[pair |-> p, index |-> k, runs |-> Chunk(ListedOf(r, p), k)] :
                     k \in ChunkIndices(ListedOf(r, p))}
<1> DEFINE mine == ListedOf(r, p)
           contents == Placed(mine)
           n == Len(contents)
<1>1. rebuild[r].listed \in Seq(Runs) /\ IsInjective(rebuild[r].listed)
    BY DEF TypeOK, RebuildsOK, RebuildOK
<1>2. /\ mine \in Seq(Runs) /\ IsInjective(mine)
      /\ ToSet(mine) = ToSet(rebuild[r].listed) \intersect RunsOf(p)
    BY <1>1, KeepElements, KeepDistinct DEF ListedOf
<1>3. ToSet(mine) = {x \in ToSet(rebuild[r].listed) : PairOf[x] = p}
    BY <1>1, <1>2, ToSetIn DEF RunsOf
<1>4. RebuiltOf(r, p) = {[pair |-> p, index |-> i - 1, runs |-> contents[i]] :
                            i \in DOMAIN contents}
    BY DEF RebuiltOf, ListedOf
<1> HIDE DEF mine
<1>5. /\ contents \in Seq(SUBSET Runs)
      /\ \A k \in Nat : k < n <=> BucketSize * k < Len(mine)
      /\ \A k \in 1 .. n : contents[k] = Chunk(mine, k - 1)
    BY <1>2, PlacedIsChunks
<1>6. n \in Nat /\ DOMAIN contents = 1 .. n
    BY <1>5
<1>7. ChunkIndices(mine) = {k \in Nat : k < n}
    <2> HIDE DEF n
    <2>1. QED
        BY <1>2, <1>5, ChunkIndicesAre
<1> HIDE DEF n, contents
<1> DEFINE Draft(k, runs) == [pair |-> p, index |-> k, runs |-> runs]
<1>8. RebuiltOf(r, p) = {Draft(i - 1, contents[i]) : i \in 1 .. n}
    BY <1>4, <1>6
<1> HIDE DEF Draft
<1>9. RebuiltOf(r, p) = {Draft(k, Chunk(mine, k)) : k \in ChunkIndices(mine)}
    <2>1. ASSUME NEW i \in 1 .. n
          PROVE  /\ i - 1 \in ChunkIndices(mine)
                 /\ Draft(i - 1, contents[i]) = Draft(i - 1, Chunk(mine, i - 1))
        BY <1>5, <1>6, <1>7
    <2>2. ASSUME NEW k \in ChunkIndices(mine)
          PROVE  /\ k + 1 \in 1 .. n
                 /\ Draft(k, Chunk(mine, k)) = Draft((k + 1) - 1, contents[k + 1])
        <3>1. k \in Nat /\ k + 1 \in 1 .. n /\ (k + 1) - 1 = k
            BY <1>6, <1>7
        <3>2. QED
            BY <1>5, <3>1
    <2>3. QED
        BY <1>8, <2>1, <2>2
<1>10. QED
    BY <1>2, <1>3, <1>9 DEF mine, Draft

(* The drafts of a rebuild: of its pairs, with listed runs, at least one a *)
(* pair, no two with the same key or a run in common.                      *)
LEMMA RebuiltAre ==
    ASSUME TypeOK, RebuildsOK, NEW r \in Rebuilders, rebuild[r].stage = "scan"
    PROVE  /\ \A d \in Rebuilt(r) :
                 /\ d.pair \in rebuild[r].pairs /\ d.index \in Nat
                 /\ d.runs \subseteq {x \in ToSet(rebuild[r].listed) : PairOf[x] = d.pair}
                 /\ Cardinality(d.runs) \in 1 .. BucketSize
           /\ \A d, e \in Rebuilt(r) :
                 \/ d.pair = e.pair /\ d.index = e.index
                 \/ d.runs \intersect e.runs # {}
                 => d = e
           /\ \A p \in rebuild[r].pairs :
                 \E d \in Rebuilt(r) : d.pair = p /\ d.index = 0
<1> DEFINE Mine(p) == ListedOf(r, p)
           Draft(p, k) == [pair |-> p, index |-> k, runs |-> Chunk(Mine(p), k)]
<1>1. \A p : /\ Mine(p) \in Seq(Runs) /\ IsInjective(Mine(p))
             /\ ToSet(Mine(p)) = {x \in ToSet(rebuild[r].listed) : PairOf[x] = p}
    BY RebuiltOfIs
<1>2. \A d : d \in Rebuilt(r) <=> \E p \in rebuild[r].pairs :
          \E k \in ChunkIndices(Mine(p)) : d = Draft(p, k)
    <2>1. \A p : RebuiltOf(r, p) = {Draft(p, k) : k \in ChunkIndices(Mine(p))}
        BY RebuiltOfIs
    <2> HIDE DEF Mine, Draft
    <2>2. QED
        BY <2>1 DEF Rebuilt
<1> HIDE DEF Mine
<1>3. \A p, k : /\ Draft(p, k).pair = p /\ Draft(p, k).index = k
                /\ Draft(p, k).runs = Chunk(Mine(p), k)
    OBVIOUS
<1> HIDE DEF Draft
<1>4. ASSUME NEW d \in Rebuilt(r)
      PROVE  /\ d.pair \in rebuild[r].pairs /\ d.index \in Nat
             /\ d.runs \subseteq {x \in ToSet(rebuild[r].listed) : PairOf[x] = d.pair}
             /\ Cardinality(d.runs) \in 1 .. BucketSize
    <2>1. PICK p \in rebuild[r].pairs : \E k \in ChunkIndices(Mine(p)) : d = Draft(p, k)
        BY <1>2
    <2>2. PICK k \in ChunkIndices(Mine(p)) : d = Draft(p, k)
        BY <2>1
    <2>3. /\ k \in Nat /\ Chunk(Mine(p), k) \subseteq ToSet(Mine(p))
          /\ Cardinality(Chunk(Mine(p), k)) \in 1 .. BucketSize
        BY <1>1, ChunksPartition
    <2>4. QED
        BY <1>1, <1>3, <2>1, <2>2, <2>3
<1>5. ASSUME NEW d \in Rebuilt(r), NEW e \in Rebuilt(r),
             \/ d.pair = e.pair /\ d.index = e.index
             \/ d.runs \intersect e.runs # {}
      PROVE  d = e
    <2>1. PICK p \in rebuild[r].pairs : \E k \in ChunkIndices(Mine(p)) : d = Draft(p, k)
        BY <1>2
    <2>2. PICK k \in ChunkIndices(Mine(p)) : d = Draft(p, k)
        BY <2>1
    <2>3. PICK q \in rebuild[r].pairs : \E l \in ChunkIndices(Mine(q)) : e = Draft(q, l)
        BY <1>2
    <2>4. PICK l \in ChunkIndices(Mine(q)) : e = Draft(q, l)
        BY <2>3
    <2>5. CASE d.pair = e.pair /\ d.index = e.index
        BY <1>3, <2>2, <2>4, <2>5
    <2>6. CASE d.runs \intersect e.runs # {}
        <3>1. PICK x : x \in Chunk(Mine(p), k) /\ x \in Chunk(Mine(q), l)
            BY <1>3, <2>2, <2>4, <2>6
        <3>2. p = q
            <4>1. x \in ToSet(Mine(p)) /\ x \in ToSet(Mine(q))
                BY <1>1, <3>1, ChunksPartition
            <4>2. QED
                BY <1>1, <4>1
        <3>3. k = l
            BY <1>1, <3>1, <3>2, ChunksPartition
        <3>4. QED
            BY <2>2, <2>4, <3>2, <3>3
    <2>7. QED
        BY <1>5, <2>5, <2>6
<1>6. ASSUME NEW p \in rebuild[r].pairs
      PROVE  \E d \in Rebuilt(r) : d.pair = p /\ d.index = 0
    <2>1. PICK x \in ToSet(rebuild[r].listed) : PairOf[x] = p
        BY DEF RebuildsOK, RebuildOK
    <2>2. x \in ToSet(Mine(p))
        BY <1>1, <2>1
    <2>3. Len(Mine(p)) > 0
        BY <1>1, <2>2, ToSetIn
    <2>4. 0 \in ChunkIndices(Mine(p))
        <3>1. BucketSize * 0 = 0
            BY SizeIsPositive
        <3>2. QED
            BY <1>1, <2>3, <3>1, ChunkIndicesAre
    <2>5. Draft(p, 0) \in Rebuilt(r)
        BY <1>2, <2>4
    <2>6. QED
        BY <1>3, <2>5
<1>7. QED
    BY <1>4, <1>5, <1>6

-------------------------------------------------------------------------------
(* The inductive invariant.                                                *)

LEMMA WroteTypes ==
    ASSUME TypeOK, NEW x \in Flushers \union Rebuilders, NEW pairs \in SUBSET Pairs,
           Wrote(x, pairs)
    PROVE  /\ behind' \in [Flushers \union Rebuilders -> SUBSET Pairs]
           /\ raced' \subseteq Pairs
BY DEF TypeOK, Wrote

LEMMA ForgotTypes ==
    ASSUME TypeOK, NEW x \in Flushers \union Rebuilders, Forgot(x)
    PROVE  /\ behind' \in [Flushers \union Rebuilders -> SUBSET Pairs]
           /\ raced' \subseteq Pairs
BY DEF TypeOK, Forgot

LEMMA PairsInType ==
    ASSUME TypeOK, NEW f \in Flushers
    PROVE  InBatch(f) \subseteq Runs /\ PairsIn(flush[f].batch) \subseteq Pairs
<1>1. InBatch(f) \subseteq Runs
    BY ToSetIn DEF TypeOK, InBatch
<1>2. QED
    BY <1>1, ConstantTypes DEF PairsIn, InBatch

(* Steps that write no bucket: no version appears, and what the rebuilds   *)
(* have looked up stays as it is.                                          *)
LEMMA VersionsKept ==
    ASSUME VersionsApart, buckets' = buckets, rows \subseteq rows',
           \A f \in Flushers : flush'[f].tails \subseteq flush[f].tails \union buckets
    PROVE  Versions' \subseteq Versions /\ VersionsApart'
<1>1. Versions' \subseteq Versions
    BY DEF Versions, Live
<1>2. VersionsApart'
    BY <1>1 DEF VersionsApart, IdOf
<1>3. QED
    BY <1>1, <1>2

(* What a rebuild lists stays apart from the versions, or blocked, while   *)
(* no version appears and the rebuild has looked up the same.              *)
LEMMA RebuildsApartKept ==
    ASSUME RebuildsApart, buckets' = buckets, Versions' \subseteq Versions,
           \A r \in Rebuilders :
              \/ LookedUp(r)' = {}
              \/ /\ LookedUp(r)' = LookedUp(r) /\ Seen(r)' = Seen(r)
                 /\ rebuild'[r].listed = rebuild[r].listed
    PROVE  RebuildsApart'
<1>1. SUFFICES ASSUME NEW r \in Rebuilders, NEW p \in LookedUp(r)'
               PROVE  Apart(r, p)' \/ Blocked(r, p)'
    BY DEF RebuildsApart
<1>2. /\ p \in LookedUp(r) /\ Seen(r)' = Seen(r)
      /\ rebuild'[r].listed = rebuild[r].listed
    OBVIOUS
<1>3. Apart(r, p) \/ Blocked(r, p)
    BY <1>2 DEF RebuildsApart
<1>4. ASSUME Apart(r, p)
      PROVE  Apart(r, p)'
    BY <1>2, <1>4 DEF Apart, IdOf
<1>5. ASSUME Blocked(r, p)
      PROVE  Blocked(r, p)'
    BY <1>2, <1>5 DEF Blocked, IdOf
<1>6. QED
    BY <1>3, <1>4, <1>5

(* One step after the other keeps SafetyInv: the insert of a batch ...     *)
LEMMA FlushBeginsIsSafe ==
    ASSUME SafetyInv, NEW f \in Flushers, FlushBegins(f)
    PROVE  SafetyInv'
<1> USE DEF SafetyInv
<1>1. PICK n \in 1 .. BatchSize :
          /\ n <= Len(queue)
          /\ queue' = SubSeq(queue, n + 1, Len(queue))
          /\ created' = created \o SubSeq(queue, 1, n)
          /\ bornIn' = [r \in Runs |-> IF r \in ToSet(SubSeq(queue, 1, n))
                                         THEN week ELSE bornIn[r]]
          /\ flush' = [flush EXCEPT ![f] = [stage |-> "inserted",
                                            batch |-> SubSeq(queue, 1, n), tails |-> {}]]
    BY Zenon DEF FlushBegins
<1> DEFINE batch == SubSeq(queue, 1, n)
           rest  == SubSeq(queue, n + 1, Len(queue))
<1>2. /\ batch \in Seq(Runs) /\ rest \in Seq(Runs) /\ queue = batch \o rest
    <2>1. n \in 0 .. Len(queue) /\ queue \in Seq(Runs)
        BY <1>1, BucketsAssumption DEF TypeOK
    <2>2. QED
        BY <2>1, SplitSequence
<1>3. /\ queue' = rest /\ created' = created \o batch
      /\ bornIn' = [r \in Runs |-> IF r \in ToSet(batch) THEN week ELSE bornIn[r]]
      /\ flush' = [flush EXCEPT ![f] = [stage |-> "inserted", batch |-> batch, tails |-> {}]]
      /\ UNCHANGED <<week, rows, stamped, buckets, rebuild, aborts, behind, raced>>
    BY <1>1 DEF FlushBegins
<1> HIDE DEF batch, rest
<1>4. /\ IsInjective(batch) /\ IsInjective(rest)
      /\ ToSet(batch) \intersect ToSet(rest) = {}
      /\ ToSet(queue) = ToSet(batch) \union ToSet(rest)
    BY <1>2, ConcatDistinct, ToSetConcat DEF RunsInOnePlace
<1>5. /\ flush'[f].stage = "inserted" /\ flush'[f].batch = batch /\ flush'[f].tails = {}
      /\ \A g \in Flushers : g # f => flush'[g] = flush[g]
    BY <1>3 DEF TypeOK
<1>6. flush[f].stage = "idle" /\ flush[f].tails = {}
    BY DEF FlushBegins, TailsOK
<1>7. TypeOK'
    <2>1. created' \in Seq(Runs)
        BY <1>2, <1>3, ConcatProperties DEF TypeOK
    <2>2. bornIn' \in [Runs -> 0 .. MaxWeek]
        BY <1>3 DEF TypeOK
    <2>3. flush' \in [Flushers -> [stage : {"idle", "inserted", "counted"},
                                   batch : Seq(Runs), tails : SUBSET Bucket]]
        BY <1>2, <1>3 DEF TypeOK
    <2>4. QED
        BY <1>2, <1>3, <2>1, <2>2, <2>3 DEF TypeOK, SameKey
<1>8. RunsInOnePlace'
    <2>1. IsInjective(created') /\ ToSet(created') = ToSet(created) \union ToSet(batch)
        <3>1. ToSet(created) \intersect ToSet(batch) = {} /\ created \in Seq(Runs)
            BY <1>4 DEF RunsInOnePlace, TypeOK
        <3>2. QED
            BY <1>2, <1>3, <1>4, <3>1, ConcatDistinct, ToSetConcat DEF RunsInOnePlace
    <2>2. ToSet(created') \intersect ToSet(queue') = {}
        BY <1>3, <1>4, <2>1 DEF RunsInOnePlace
    <2>3. InBatch(f) = {}
        BY <1>6, ToSetEmpty DEF RunsInOnePlace, InBatch
    <2>4. /\ InBatch(f)' = ToSet(batch)
          /\ \A g \in Flushers : g # f => InBatch(g)' = InBatch(g)
        BY <1>5 DEF InBatch
    <2>5. ToSet(created') = rows' \union UNION {InBatch(g)' : g \in Flushers}
        <3>1. UNION {InBatch(g)' : g \in Flushers}
                  = (UNION {InBatch(g) : g \in Flushers}) \union ToSet(batch)
            BY <2>3, <2>4
        <3>2. QED
            BY <1>3, <2>1, <3>1 DEF RunsInOnePlace
    <2>6. \A g \in Flushers : InBatch(g) \intersect ToSet(batch) = {}
        <3>1. \A g \in Flushers : InBatch(g) \subseteq ToSet(created)
            BY DEF RunsInOnePlace
        <3>2. QED
            BY <1>4, <3>1 DEF RunsInOnePlace
    <2>7. rows \intersect ToSet(batch) = {}
        BY <1>4 DEF RunsInOnePlace
    <2>8. ASSUME NEW g \in Flushers
          PROVE  /\ flush'[g].stage = "idle" => flush'[g].batch = <<>>
                 /\ IsInjective(flush'[g].batch)
                 /\ InBatch(g)' \intersect rows' = {}
                 /\ \A h \in Flushers \ {g} : InBatch(g)' \intersect InBatch(h)' = {}
        <3>1. CASE g = f
            BY <1>3, <1>4, <1>5, <2>4, <2>6, <2>7, <3>1
        <3>2. CASE g # f
            <4>1. ASSUME NEW h \in Flushers \ {g}
                  PROVE  InBatch(g)' \intersect InBatch(h)' = {}
                BY <2>4, <2>6, <3>2 DEF RunsInOnePlace
            <4>2. QED
                BY <1>3, <1>5, <2>4, <3>2, <4>1 DEF RunsInOnePlace
        <3>3. QED
            BY <3>1, <3>2
    <2>9. QED
        BY <1>3, <1>4, <2>1, <2>2, <2>5, <2>8 DEF RunsInOnePlace
<1>9. TailsOK'
    BY <1>3, <1>5 DEF TailsOK
<1>10. RebuildsOK'
    BY <1>3 DEF RebuildsOK, RebuildOK, Seen, LookedUp
<1>11. VersionsApart' /\ Versions' \subseteq Versions
    BY <1>3, <1>5, <1>6, VersionsKept
<1>12. RebuildsApart'
    BY <1>3, <1>11, RebuildsApartKept DEF Seen, LookedUp
<1>13. QED
    BY <1>7, <1>8, <1>9, <1>10, <1>11, <1>12

(* ... the read of the last buckets ...                                    *)
LEMMA FlushCountsIsSafe ==
    ASSUME SafetyInv, NEW f \in Flushers, FlushCounts(f)
    PROVE  SafetyInv'
<1> USE DEF SafetyInv
<1> DEFINE tails == {b \in buckets : /\ b.pair \in PairsIn(flush[f].batch)
                                     /\ \A c \in BucketsOf(b.pair) : c.index <= b.index}
<1>1. /\ flush' = [flush EXCEPT ![f].stage = "counted", ![f].tails = tails]
      /\ UNCHANGED <<queue, week, created, bornIn, rows, stamped, buckets, rebuild,
                     aborts, behind, raced>>
    BY DEF FlushCounts
<1>2. tails \subseteq buckets /\ \A t \in tails : /\ t.pair \in PairsIn(flush[f].batch)
                                                  /\ \A c \in BucketsOf(t.pair) : c.index <= t.index
    OBVIOUS
<1> HIDE DEF tails
<1>3. /\ flush'[f].stage = "counted" /\ flush'[f].batch = flush[f].batch
      /\ flush'[f].tails = tails
      /\ \A g \in Flushers : g # f => flush'[g] = flush[g]
    BY <1>1 DEF TypeOK
<1>4. \A g \in Flushers : InBatch(g)' = InBatch(g)
    BY <1>3 DEF InBatch
<1>5. TypeOK'
    <2>1. tails \in SUBSET Bucket
        BY <1>2 DEF TypeOK
    <2>2. flush' \in [Flushers -> [stage : {"idle", "inserted", "counted"},
                                   batch : Seq(Runs), tails : SUBSET Bucket]]
        <3> DEFINE State == [stage : {"idle", "inserted", "counted"},
                             batch : Seq(Runs), tails : SUBSET Bucket]
        <3>1. flush \in [Flushers -> State]
            BY DEF TypeOK
        <3>2. [flush[f] EXCEPT !.stage = "counted", !.tails = tails] \in State
            BY <2>1, <3>1
        <3>3. flush' = [flush EXCEPT ![f] = [flush[f] EXCEPT !.stage = "counted", !.tails = tails]]
            BY <1>1, <3>1
        <3> HIDE DEF State
        <3>4. flush' \in [Flushers -> State]
            BY <3>1, <3>2, <3>3
        <3>5. QED
            BY <3>4 DEF State
    <2>3. QED
        BY <1>1, <2>2 DEF TypeOK, SameKey
<1>6. RunsInOnePlace'
    <2>1. UNION {InBatch(g)' : g \in Flushers} = UNION {InBatch(g) : g \in Flushers}
        BY <1>4
    <2>2. \A g \in Flushers : /\ flush'[g].batch = flush[g].batch
                              /\ flush'[g].stage = "idle" => flush[g].stage = "idle"
        BY <1>3
    <2>3. QED
        BY <1>1, <1>4, <2>1, <2>2 DEF RunsInOnePlace
<1>7. TailsOK'
    <2>1. ASSUME NEW t \in tails
          PROVE  /\ t.pair \in PairsIn(flush[f].batch)
                 /\ t.runs \subseteq {x \in rows : PairOf[x] = t.pair}
                 /\ Cardinality(t.runs) \in 1 .. BucketSize
                 /\ \A u \in tails : t.pair = u.pair => t = u
        <3>1. t \in Versions /\ t \in buckets
            BY <1>2 DEF Versions
        <3>2. ASSUME NEW u \in tails, t.pair = u.pair
              PROVE  t = u
            <4>1. t \in BucketsOf(u.pair) /\ u \in BucketsOf(t.pair)
                BY <1>2, <3>2 DEF BucketsOf
            <4>2. t.index <= u.index /\ u.index <= t.index
                BY <1>2, <4>1
            <4>3. t.index \in Nat /\ u.index \in Nat
                BY <1>2 DEF TypeOK, Bucket
            <4>4. SameKey(t, u)
                BY <3>2, <4>2, <4>3 DEF SameKey
            <4>5. QED
                BY <1>2, <4>4 DEF TypeOK
        <3>3. QED
            BY <1>2, <3>1, <3>2 DEF VersionsApart, TypeOK
    <2>2. QED
        BY <1>1, <1>3, <2>1 DEF TailsOK
<1>8. RebuildsOK'
    BY <1>1 DEF RebuildsOK, RebuildOK, Seen, LookedUp
<1>9. VersionsApart' /\ Versions' \subseteq Versions
    BY <1>1, <1>2, <1>3, VersionsKept
<1>10. RebuildsApart'
    BY <1>1, <1>9, RebuildsApartKept DEF Seen, LookedUp
<1>11. QED
    BY <1>5, <1>6, <1>7, <1>8, <1>9, <1>10

(* ... a rollback ...                                                      *)
LEMMA FlushFailsIsSafe ==
    ASSUME SafetyInv, NEW f \in Flushers, FlushFails(f)
    PROVE  SafetyInv'
<1> USE DEF SafetyInv
<1> DEFINE batch == flush[f].batch
<1>1. /\ created' = Keep(created, Runs \ ToSet(batch))
      /\ bornIn' = [r \in Runs |-> IF r \in ToSet(batch) THEN 0 ELSE bornIn[r]]
      /\ queue' = queue \o batch
      /\ flush' = [flush EXCEPT ![f] = NotFlushing]
      /\ aborts' = aborts \/ (aborts < MaxAborts /\ aborts' = aborts + 1)
      /\ Forgot(f)
      /\ UNCHANGED <<week, rows, stamped, buckets, rebuild>>
    BY DEF FlushFails
<1>2. batch \in Seq(Runs) /\ IsInjective(batch)
    BY DEF TypeOK, RunsInOnePlace
<1>3. ToSet(batch) = InBatch(f)
    BY DEF InBatch
<1> HIDE DEF batch
<1>4. /\ flush'[f].stage = "idle" /\ flush'[f].batch = <<>> /\ flush'[f].tails = {}
      /\ \A g \in Flushers : g # f => flush'[g] = flush[g]
    BY <1>1 DEF TypeOK, NotFlushing
<1>5. /\ InBatch(f)' = {}
      /\ \A g \in Flushers : g # f => InBatch(g)' = InBatch(g)
    BY <1>4, ToSetEmpty DEF InBatch
<1>6. TypeOK'
    <2>1. created' \in Seq(Runs) /\ queue' \in Seq(Runs)
        <3>1. created \in Seq(Runs) /\ queue \in Seq(Runs)
            BY DEF TypeOK
        <3>2. created' \in Seq(Runs)
            BY <1>1, <3>1, KeepElements
        <3>3. queue' \in Seq(Runs)
            BY <1>1, <1>2, <3>1, ConcatProperties
        <3>4. QED
            BY <3>2, <3>3
    <2>2. bornIn' \in [Runs -> 0 .. MaxWeek]
        BY <1>1, BucketsAssumption DEF TypeOK
    <2>3. flush' \in [Flushers -> [stage : {"idle", "inserted", "counted"},
                                   batch : Seq(Runs), tails : SUBSET Bucket]]
        <3>1. NotFlushing \in [stage : {"idle", "inserted", "counted"},
                               batch : Seq(Runs), tails : SUBSET Bucket]
            BY DEF NotFlushing
        <3>2. QED
            BY <1>1, <3>1 DEF TypeOK
    <2>4. aborts' \in 0 .. MaxAborts
        BY <1>1, BucketsAssumption DEF TypeOK
    <2>5. behind' \in [Flushers \union Rebuilders -> SUBSET Pairs] /\ raced' \subseteq Pairs
        BY <1>1, ForgotTypes
    <2>6. QED
        BY <1>1, <2>1, <2>2, <2>3, <2>4, <2>5 DEF TypeOK, SameKey
<1>7. RunsInOnePlace'
    <2>1. /\ queue \in Seq(Runs) /\ created \in Seq(Runs)
          /\ IsInjective(queue) /\ IsInjective(created)
          /\ InBatch(f) \subseteq ToSet(created)
          /\ ToSet(created) \intersect ToSet(queue) = {}
          /\ ToSet(created) \subseteq Runs
        BY ToSetIn DEF TypeOK, RunsInOnePlace
    <2>2. IsInjective(queue') /\ ToSet(queue') = ToSet(queue) \union InBatch(f)
        <3>1. ToSet(queue) \intersect ToSet(batch) = {}
            BY <1>3, <2>1
        <3>2. QED
            BY <1>1, <1>2, <1>3, <2>1, <3>1, ConcatDistinct, ToSetConcat
    <2>3. IsInjective(created') /\ ToSet(created') = ToSet(created) \ InBatch(f)
        <3>1. /\ IsInjective(created')
              /\ ToSet(created') = ToSet(created) \intersect (Runs \ ToSet(batch))
            BY <1>1, <2>1, KeepDistinct, KeepElements
        <3>2. QED
            BY <1>3, <2>1, <3>1
    <2>4. ToSet(created') = rows' \union UNION {InBatch(g)' : g \in Flushers}
        <3>1. \A g \in Flushers : g # f => InBatch(g) \intersect InBatch(f) = {}
            BY DEF RunsInOnePlace
        <3>2. UNION {InBatch(g)' : g \in Flushers} = (UNION {InBatch(g) : g \in Flushers}) \ InBatch(f)
            BY <1>5, <3>1
        <3>3. rows \intersect InBatch(f) = {}
            BY DEF RunsInOnePlace
        <3>4. ToSet(created) = rows \union UNION {InBatch(g) : g \in Flushers}
            BY DEF RunsInOnePlace
        <3>5. ToSet(created') = rows \union ((UNION {InBatch(g) : g \in Flushers}) \ InBatch(f))
            BY <2>3, <3>3, <3>4
        <3>6. QED
            BY <1>1, <3>2, <3>5
    <2>5. ASSUME NEW g \in Flushers
          PROVE  /\ flush'[g].stage = "idle" => flush'[g].batch = <<>>
                 /\ IsInjective(flush'[g].batch)
                 /\ InBatch(g)' \intersect rows' = {}
                 /\ \A h \in Flushers \ {g} : InBatch(g)' \intersect InBatch(h)' = {}
        <3>1. IsInjective(flush'[g].batch)
            BY <1>4, EmptyDistinct DEF RunsInOnePlace
        <3>2. \A h \in Flushers \ {g} : InBatch(g)' \intersect InBatch(h)' = {}
            BY <1>5 DEF RunsInOnePlace
        <3>3. QED
            BY <1>1, <1>4, <1>5, <3>1, <3>2 DEF RunsInOnePlace
    <2>6. QED
        BY <2>1, <2>2, <2>3, <2>4, <2>5 DEF RunsInOnePlace
<1>8. TailsOK'
    BY <1>1, <1>4 DEF TailsOK
<1>9. RebuildsOK'
    BY <1>1 DEF RebuildsOK, RebuildOK, Seen, LookedUp
<1>10. VersionsApart' /\ Versions' \subseteq Versions
    BY <1>1, <1>4, VersionsKept
<1>11. RebuildsApart'
    BY <1>1, <1>10, RebuildsApartKept DEF Seen, LookedUp
<1>12. QED
    BY <1>6, <1>7, <1>8, <1>9, <1>10, <1>11

(* The rebuild's own steps leave the flushers' tails alone.                *)
LEMMA FlushersKept ==
    ASSUME SafetyInv, UNCHANGED <<queue, created, rows, buckets, flush>>
    PROVE  RunsInOnePlace' /\ TailsOK' /\ VersionsApart' /\ Versions' \subseteq Versions
<1>1. RunsInOnePlace'
    <2>1. \A f \in Flushers : InBatch(f)' = InBatch(f)
        BY DEF InBatch
    <2>2. UNION {InBatch(f)' : f \in Flushers} = UNION {InBatch(f) : f \in Flushers}
        BY <2>1
    <2>3. QED
        BY <2>1, <2>2 DEF SafetyInv, RunsInOnePlace
<1>2. TailsOK'
    BY DEF SafetyInv, TailsOK
<1>3. VersionsApart' /\ Versions' \subseteq Versions
    BY VersionsKept DEF SafetyInv
<1>4. QED
    BY <1>1, <1>2, <1>3

RebuildState ==
    [stage : {"idle", "begun", "scan", "delete", "done"}, week : 0 .. MaxWeek,
     pairs : SUBSET Pairs, included : SUBSET Runs, listed : Seq(Runs),
     todo : SUBSET Pairs, doomed : SUBSET Ids, deleted : SUBSET Ids]

(* A rebuild's step that writes no bucket, in terms of its new state.      *)
LEMMA OnlyRebuild ==
    ASSUME SafetyInv, NEW r \in Rebuilders, NEW new,
           rebuild' = [rebuild EXCEPT ![r] = new], new \in RebuildState,
           UNCHANGED <<queue, week, created, bornIn, rows, buckets, flush>>,
           stamped' \subseteq rows, aborts' \in 0 .. MaxAborts,
           behind' \in [Flushers \union Rebuilders -> SUBSET Pairs], raced' \subseteq Pairs
    PROVE  /\ TypeOK' /\ RunsInOnePlace' /\ TailsOK' /\ VersionsApart'
           /\ Versions' \subseteq Versions
           /\ rebuild'[r] = new
           /\ \A q \in Rebuilders : q # r => rebuild'[q] = rebuild[q]
           /\ RebuildOK(r)' => RebuildsOK'
<1> USE DEF SafetyInv
<1>1. /\ rebuild'[r] = new
      /\ \A q \in Rebuilders : q # r => rebuild'[q] = rebuild[q]
    BY DEF TypeOK
<1>2. TypeOK'
    <2>1. rebuild' \in [Rebuilders -> RebuildState]
        BY DEF TypeOK, RebuildState
    <2>2. QED
        BY <2>1 DEF TypeOK, SameKey, RebuildState
<1>3. RunsInOnePlace' /\ TailsOK' /\ VersionsApart' /\ Versions' \subseteq Versions
    BY FlushersKept
<1>4. ASSUME RebuildOK(r)'
      PROVE  RebuildsOK'
    <2>1. ASSUME NEW q \in Rebuilders
          PROVE  RebuildOK(q)'
        <3>1. CASE q = r
            BY <1>4, <3>1
        <3>2. CASE q # r
            <4>1. rebuild'[q] = rebuild[q] /\ Seen(q)' = Seen(q) /\ LookedUp(q)' = LookedUp(q)
                BY <1>1, <3>2 DEF Seen, LookedUp
            <4>2. RebuildOK(q)
                BY DEF RebuildsOK
            <4>3. QED
                BY <4>1, <4>2 DEF RebuildOK
        <3>3. QED
            BY <3>1, <3>2
    <2>2. QED
        BY <2>1 DEF RebuildsOK
<1>5. QED
    BY <1>1, <1>2, <1>3, <1>4

(* ... a rebuild that reads its week ...                                   *)
LEMMA RebuildBeginsIsSafe ==
    ASSUME SafetyInv, NEW r \in Rebuilders, NEW w \in 1 .. week, RebuildBegins(r, w)
    PROVE  SafetyInv'
<1> USE DEF SafetyInv
<1> DEFINE runs  == {x \in rows : bornIn[x] = w}
           pairs == {PairOf[x] : x \in runs}
           new   == [NotRebuilding EXCEPT !.stage = "begun", !.week = w, !.included = runs,
                                          !.pairs = pairs, !.todo = pairs]
<1>1. /\ rebuild' = [rebuild EXCEPT ![r] = new]
      /\ UNCHANGED <<queue, week, created, bornIn, rows, stamped, buckets, flush,
                     aborts, behind, raced>>
    BY DEF RebuildBegins
<1>2. runs \subseteq rows /\ runs \subseteq Runs /\ pairs \subseteq Pairs
    BY ConstantTypes DEF TypeOK
<1>3. pairs = {PairOf[x] : x \in runs}
    OBVIOUS
<1> HIDE DEF runs, pairs
<1>4. /\ new \in RebuildState
      /\ new.stage = "begun" /\ new.included = runs /\ new.pairs = pairs
      /\ new.todo = pairs /\ new.doomed = {} /\ new.deleted = {}
    <2>1. w \in 0 .. MaxWeek
        BY BucketsAssumption DEF TypeOK
    <2>2. NotRebuilding \in RebuildState
        BY BucketsAssumption DEF NotRebuilding, RebuildState
    <2>3. NotRebuilding.doomed = {} /\ NotRebuilding.deleted = {}
        BY DEF NotRebuilding
    <2>4. QED
        BY <1>2, <2>1, <2>2, <2>3 DEF RebuildState
<1> HIDE DEF new
<1>5. /\ TypeOK' /\ RunsInOnePlace' /\ TailsOK' /\ VersionsApart'
      /\ Versions' \subseteq Versions
      /\ rebuild'[r] = new
      /\ \A q \in Rebuilders : q # r => rebuild'[q] = rebuild[q]
      /\ RebuildOK(r)' => RebuildsOK'
    BY <1>1, <1>4, OnlyRebuild DEF TypeOK
<1>6. Seen(r)' = {} /\ LookedUp(r)' = {}
    BY <1>4, <1>5 DEF Seen, LookedUp
<1>7. RebuildOK(r)'
    BY <1>1, <1>2, <1>3, <1>4, <1>5, <1>6 DEF RebuildOK
<1>8. RebuildsApart'
    BY <1>1, <1>5, <1>6, RebuildsApartKept DEF Seen, LookedUp
<1>9. QED
    BY <1>5, <1>7, <1>8

(* ... lists the runs ...                                                  *)
LEMMA RebuildListsIsSafe ==
    ASSUME SafetyInv, NEW r \in Rebuilders, RebuildLists(r)
    PROVE  SafetyInv'
<1> USE DEF SafetyInv
<1> DEFINE runs   == {x \in rows : /\ PairOf[x] \in rebuild[r].pairs
                                   /\ x \in stamped \union rebuild[r].included}
           listed == Sorted(runs)
           new    == [rebuild[r] EXCEPT !.stage = "scan", !.listed = listed]
<1>1. /\ rebuild' = [rebuild EXCEPT ![r] = new] /\ rebuild[r].stage = "begun"
      /\ UNCHANGED <<queue, week, created, bornIn, rows, stamped, buckets, flush,
                     aborts, behind, raced>>
    BY DEF RebuildLists
<1>2. rebuild[r] \in RebuildState
    BY DEF TypeOK, RebuildState
<1>3. /\ listed \in Seq(Runs) /\ IsInjective(listed)
      /\ ToSet(listed) = ToSet(created) \intersect runs
    BY KeepElements, KeepDistinct DEF Sorted, TypeOK, RunsInOnePlace
<1>4. ToSet(listed) = runs
    BY <1>3 DEF RunsInOnePlace
<1>5. rebuild[r].pairs = {PairOf[x] : x \in runs}
    <2>1. /\ rebuild[r].included \subseteq rows
          /\ rebuild[r].pairs = {PairOf[x] : x \in rebuild[r].included}
        BY <1>1 DEF RebuildsOK, RebuildOK
    <2>2. rebuild[r].included \subseteq runs
        BY <2>1
    <2>3. \A x \in runs : PairOf[x] \in rebuild[r].pairs
        OBVIOUS
    <2> HIDE DEF runs
    <2>4. QED
        BY <2>1, <2>2, <2>3
<1>6. runs \subseteq rows
    OBVIOUS
<1> HIDE DEF runs, listed
<1>7. /\ new \in RebuildState
      /\ new.stage = "scan" /\ new.listed = listed /\ new.pairs = rebuild[r].pairs
      /\ new.todo = rebuild[r].todo /\ new.doomed = rebuild[r].doomed
      /\ new.deleted = rebuild[r].deleted
    BY <1>2, <1>3 DEF RebuildState
<1> HIDE DEF new
<1>8. /\ TypeOK' /\ RunsInOnePlace' /\ TailsOK' /\ VersionsApart'
      /\ Versions' \subseteq Versions
      /\ rebuild'[r] = new
      /\ \A q \in Rebuilders : q # r => rebuild'[q] = rebuild[q]
      /\ RebuildOK(r)' => RebuildsOK'
    BY <1>1, <1>7, OnlyRebuild DEF TypeOK
<1>9. /\ Seen(r)' = {} /\ LookedUp(r)' = {} /\ rebuild'[r].doomed = {}
      /\ rebuild[r].todo \subseteq rebuild[r].pairs
    <2>1. /\ Seen(r) = {} /\ LookedUp(r) = {} /\ rebuild[r].doomed = {}
          /\ rebuild[r].todo \subseteq rebuild[r].pairs
        BY <1>1 DEF RebuildsOK, RebuildOK
    <2>2. QED
        BY <1>7, <1>8, <2>1 DEF Seen, LookedUp
<1>10. RebuildOK(r)'
    BY <1>1, <1>3, <1>4, <1>5, <1>6, <1>7, <1>8, <1>9 DEF RebuildOK
<1>11. RebuildsApart'
    BY <1>1, <1>8, <1>9, RebuildsApartKept DEF Seen, LookedUp
<1>12. QED
    BY <1>8, <1>10, <1>11

(* ... looks up a pair's rows ...                                          *)
LEMMA RebuildScansIsSafe ==
    ASSUME SafetyInv, NEW r \in Rebuilders, RebuildScans(r)
    PROVE  SafetyInv'
<1> USE DEF SafetyInv
<1>1. PICK p \in rebuild[r].todo :
          rebuild' = [rebuild EXCEPT ![r].stage = "delete", ![r].todo = @ \ {p},
                                     ![r].doomed = IdsOf(BucketsOf(p))]
    BY DEF RebuildScans
<1> DEFINE doomed == IdsOf(BucketsOf(p))
           new    == [rebuild[r] EXCEPT !.stage = "delete", !.todo = @ \ {p},
                                        !.doomed = doomed]
<1>2. rebuild[r] \in RebuildState /\ rebuild[r].stage = "scan" /\ p \in Pairs
    BY DEF TypeOK, RebuildState, RebuildScans
<1>3. /\ rebuild' = [rebuild EXCEPT ![r] = new]
      /\ UNCHANGED <<queue, week, created, bornIn, rows, stamped, buckets, flush,
                     aborts, behind, raced>>
    BY <1>1 DEF RebuildScans, TypeOK
<1>4. /\ doomed \subseteq Ids
      /\ \A i \in doomed : i[1] = p
      /\ \A i, j \in doomed : i[2] = j[2] => i = j
      /\ \A b \in buckets : b.pair = p => IdOf(b) \in doomed
    <2>1. \A b \in buckets : /\ b.pair \in Pairs /\ b.index \in Nat /\ b.gen \in Gens
                             /\ IdOf(b) = <<b.pair, b.index, b.gen>>
        BY DEF TypeOK, Bucket, IdOf
    <2>2. \A i \in doomed : \E b \in buckets : b.pair = p /\ i = IdOf(b)
        BY DEF IdsOf, BucketsOf
    <2>3. ASSUME NEW i \in doomed, NEW j \in doomed, i[2] = j[2]
          PROVE  i = j
        <3>1. PICK b \in buckets : b.pair = p /\ i = IdOf(b)
            BY <2>2
        <3>2. PICK c \in buckets : c.pair = p /\ j = IdOf(c)
            BY <2>2
        <3>3. SameKey(b, c)
            BY <2>1, <2>3, <3>1, <3>2 DEF SameKey
        <3>4. b = c
            BY <3>3 DEF TypeOK
        <3>5. QED
            BY <3>1, <3>2, <3>4
    <2>4. QED
        BY <2>1, <2>2, <2>3 DEF Ids, IdsOf, BucketsOf
<1> HIDE DEF doomed
<1>5. /\ new \in RebuildState
      /\ new.stage = "delete" /\ new.listed = rebuild[r].listed
      /\ new.pairs = rebuild[r].pairs
      /\ new.todo = rebuild[r].todo \ {p} /\ new.doomed = doomed
      /\ new.deleted = rebuild[r].deleted
    BY <1>2, <1>4 DEF RebuildState
<1> HIDE DEF new
<1>6. /\ TypeOK' /\ RunsInOnePlace' /\ TailsOK' /\ VersionsApart'
      /\ Versions' \subseteq Versions
      /\ rebuild'[r] = new
      /\ \A q \in Rebuilders : q # r => rebuild'[q] = rebuild[q]
      /\ RebuildOK(r)' => RebuildsOK'
    BY <1>3, <1>5, OnlyRebuild DEF TypeOK
<1>7. RebuildOK(r)
    BY DEF RebuildsOK
<1>8. /\ Seen(r)' = Seen(r) \union doomed
      /\ LookedUp(r)' = LookedUp(r) \union {p} /\ p \notin LookedUp(r)
    <2>1. Seen(r) = rebuild[r].deleted
        BY <1>2, <1>7 DEF RebuildOK, Seen
    <2>2. QED
        BY <1>5, <1>6, <1>7, <2>1 DEF Seen, LookedUp, RebuildOK
<1>9. RebuildOK(r)'
    <2>1. \A i, j \in Seen(r)' : i[1] = j[1] /\ i[2] = j[2] => i = j
        BY <1>4, <1>7, <1>8 DEF RebuildOK
    <2>2. \A i \in Seen(r)' : i[1] \in LookedUp(r)'
        BY <1>4, <1>7, <1>8 DEF RebuildOK
    <2>3. QED
        BY <1>2, <1>3, <1>5, <1>6, <1>7, <2>1, <2>2 DEF RebuildOK
<1>10. RebuildsApart'
    <2>1. SUFFICES ASSUME NEW q \in Rebuilders, NEW u \in LookedUp(q)'
                   PROVE  Apart(q, u)' \/ Blocked(q, u)'
        BY DEF RebuildsApart
    <2>2. CASE q # r \/ u # p
        <3>1. /\ u \in LookedUp(q) /\ rebuild'[q].listed = rebuild[q].listed
              /\ q # r => Seen(q)' = Seen(q)
            BY <1>5, <1>6, <1>8, <2>2 DEF Seen, LookedUp
        <3>2. \A v \in Versions \union buckets : v.pair = u =>
                  (IdOf(v) \in Seen(q)' <=> IdOf(v) \in Seen(q))
            <4>1. \A v : v.pair # p => IdOf(v) \notin doomed
                BY <1>4 DEF IdOf
            <4>2. QED
                BY <1>8, <2>2, <3>1, <4>1
        <3>3. \A v : IdOf(v)' = IdOf(v)
            BY DEF IdOf
        <3>4. Apart(q, u) => Apart(q, u)'
            BY <1>6, <3>1, <3>2, <3>3 DEF Apart
        <3>5. Blocked(q, u) => Blocked(q, u)'
            BY <1>3, <3>1, <3>2, <3>3 DEF Blocked
        <3>6. QED
            BY <3>1, <3>4, <3>5 DEF RebuildsApart
    <2>3. CASE q = r /\ u = p
        <3>1. \A v \in Versions : v.pair = p => IdOf(v) \in doomed
            <4>1. \A v \in Versions : \E b \in buckets : IdOf(v) = IdOf(b)
                BY DEF Versions, Live, IdsOf
            <4>2. QED
                BY <1>4, <4>1 DEF IdOf
        <3>2. \A v : IdOf(v)' = IdOf(v)
            BY DEF IdOf
        <3>3. QED
            BY <1>6, <1>8, <2>3, <3>1, <3>2 DEF Apart
    <2>4. QED
        BY <2>2, <2>3
<1>11. QED
    BY <1>6, <1>9, <1>10

(* ... has deleted them ...                                                *)
LEMMA RebuildDeletesIsSafe ==
    ASSUME SafetyInv, NEW r \in Rebuilders, RebuildDeletes(r)
    PROVE  SafetyInv'
<1> USE DEF SafetyInv
<1> DEFINE new == [rebuild[r] EXCEPT !.stage = "scan",
                                     !.deleted = @ \union rebuild[r].doomed, !.doomed = {}]
<1>1. rebuild[r] \in RebuildState /\ rebuild[r].stage = "delete"
    BY DEF TypeOK, RebuildState, RebuildDeletes
<1>2. /\ rebuild' = [rebuild EXCEPT ![r] = new]
      /\ UNCHANGED <<queue, week, created, bornIn, rows, stamped, buckets, flush,
                     aborts, behind, raced>>
    BY DEF RebuildDeletes, TypeOK
<1>3. /\ new \in RebuildState
      /\ new.stage = "scan" /\ new.listed = rebuild[r].listed
      /\ new.pairs = rebuild[r].pairs /\ new.todo = rebuild[r].todo /\ new.doomed = {}
      /\ new.deleted = rebuild[r].deleted \union rebuild[r].doomed
    BY <1>1 DEF RebuildState
<1> HIDE DEF new
<1>4. /\ TypeOK' /\ RunsInOnePlace' /\ TailsOK' /\ VersionsApart'
      /\ Versions' \subseteq Versions
      /\ rebuild'[r] = new
      /\ \A q \in Rebuilders : q # r => rebuild'[q] = rebuild[q]
      /\ RebuildOK(r)' => RebuildsOK'
    BY <1>2, <1>3, OnlyRebuild DEF TypeOK
<1>5. Seen(r)' = Seen(r) /\ LookedUp(r)' = LookedUp(r)
    BY <1>3, <1>4 DEF Seen, LookedUp
<1>6. RebuildOK(r)'
    <2>1. RebuildOK(r)
        BY DEF RebuildsOK
    <2>2. QED
        BY <1>1, <1>2, <1>3, <1>4, <1>5, <2>1 DEF RebuildOK
<1>7. RebuildsApart'
    BY <1>2, <1>3, <1>4, <1>5, RebuildsApartKept DEF Seen, LookedUp
<1>8. QED
    BY <1>4, <1>6, <1>7

(* The rebuild is given up or ends.                                        *)
LEMMA RebuildStopsIsSafe ==
    ASSUME SafetyInv, NEW r \in Rebuilders, RebuildFails(r) \/ RebuildEnds(r)
    PROVE  SafetyInv'
<1> USE DEF SafetyInv
<1>1. /\ rebuild' = [rebuild EXCEPT ![r] = NotRebuilding]
      /\ UNCHANGED <<queue, week, created, bornIn, rows, buckets, flush>>
    BY DEF RebuildFails, RebuildEnds
<1>2. stamped' \subseteq rows
    BY DEF RebuildFails, RebuildEnds, TypeOK
<1>3. aborts' \in 0 .. MaxAborts
    BY BucketsAssumption DEF RebuildFails, RebuildEnds, TypeOK
<1>4. behind' \in [Flushers \union Rebuilders -> SUBSET Pairs] /\ raced' \subseteq Pairs
    BY ForgotTypes DEF RebuildFails, RebuildEnds, TypeOK
<1>5. NotRebuilding \in RebuildState
    BY BucketsAssumption DEF NotRebuilding, RebuildState
<1>6. /\ TypeOK' /\ RunsInOnePlace' /\ TailsOK' /\ VersionsApart'
      /\ Versions' \subseteq Versions
      /\ rebuild'[r] = NotRebuilding
      /\ \A q \in Rebuilders : q # r => rebuild'[q] = rebuild[q]
      /\ RebuildOK(r)' => RebuildsOK'
    BY <1>1, <1>2, <1>3, <1>4, <1>5, OnlyRebuild
<1>7. Seen(r)' = {} /\ LookedUp(r)' = {} /\ RebuildOK(r)'
    BY <1>6 DEF Seen, LookedUp, RebuildOK, NotRebuilding
<1>8. RebuildsApart'
    BY <1>1, <1>6, <1>7, RebuildsApartKept DEF Seen, LookedUp
<1>9. QED
    BY <1>6, <1>7, <1>8

(* ... and a week that begins.                                             *)
LEMMA WeekTurnsIsSafe ==
    ASSUME SafetyInv, WeekTurns \/ UNCHANGED vars
    PROVE  SafetyInv'
<1> USE DEF SafetyInv
<1>1. /\ UNCHANGED <<queue, created, bornIn, rows, stamped, buckets, flush, rebuild,
                     aborts, behind, raced>>
      /\ week' = week \/ (week < MaxWeek /\ week' = week + 1)
    BY DEF WeekTurns, vars
<1>2. week' \in 1 .. MaxWeek
    BY <1>1, BucketsAssumption DEF TypeOK
<1>3. TypeOK'
    BY <1>1, <1>2 DEF TypeOK, SameKey
<1>4. RunsInOnePlace' /\ TailsOK' /\ VersionsApart' /\ Versions' \subseteq Versions
    BY <1>1, FlushersKept
<1>5. RebuildsOK'
    BY <1>1 DEF RebuildsOK, RebuildOK, Seen, LookedUp
<1>6. RebuildsApart'
    BY <1>1, <1>4, RebuildsApartKept DEF Seen, LookedUp
<1>7. QED
    BY <1>3, <1>4, <1>5, <1>6

-------------------------------------------------------------------------------
(* The commits.                                                            *)

(* A rebuild's commit: its new rows hold listed runs, which no version     *)
(* that is left holds; where one does, bucket 0 is there and the           *)
(* constraint stops the INSERT.                                            *)
LEMMA RebuildCommitsIsSafe ==
    ASSUME SafetyInv, NEW r \in Rebuilders, RebuildCommits(r)
    PROVE  SafetyInv'
<1> USE DEF SafetyInv
<1> DEFINE U   == Undeleted(r)
           W   == WithIds(r, Rebuilt(r))
           L   == ToSet(rebuild[r].listed)
           new == [NotRebuilding EXCEPT !.stage = "done", !.week = rebuild[r].week]
<1>1. /\ rebuild[r].stage = "scan" /\ rebuild[r].todo = {}
      /\ \A d \in Rebuilt(r), b \in U : ~SameKey(b, d)
      /\ buckets' = U \union W
      /\ rebuild' = [rebuild EXCEPT ![r] = new]
      /\ Wrote(r, rebuild[r].pairs)
      /\ UNCHANGED <<queue, week, created, bornIn, rows, stamped, flush, aborts>>
    BY DEF RebuildCommits
<1>2. RebuildOK(r)
    BY DEF RebuildsOK
<1>3. /\ Seen(r) = rebuild[r].deleted /\ LookedUp(r) = rebuild[r].pairs
      /\ \A i \in rebuild[r].deleted : i[1] \in rebuild[r].pairs
      /\ L \subseteq rows
    BY <1>1, <1>2 DEF RebuildOK, Seen, LookedUp
<1>4. /\ U \subseteq buckets /\ \A b \in buckets : b \in U <=> IdOf(b) \notin rebuild[r].deleted
    BY DEF Undeleted, LockedBy
<1>5. /\ rows \subseteq Runs /\ rebuild[r].pairs \subseteq Pairs
      /\ rebuild[r].week \in 0 .. MaxWeek
    BY DEF TypeOK
<1>6. /\ \A b \in W : /\ b \in Bucket /\ Cardinality(b.runs) \in 1 .. BucketSize
                      /\ b.pair \in rebuild[r].pairs
                      /\ b.runs \subseteq {x \in L : PairOf[x] = b.pair}
                      /\ IdOf(b) \notin Remembered(r)
                      /\ \A c \in U : ~SameKey(b, c)
      /\ \A b, c \in W : SameKey(b, c) \/ b.runs \intersect c.runs # {} => b = c
      /\ \A p \in rebuild[r].pairs : \E b \in W : b.pair = p /\ b.index = 0
    <2>1. /\ \A d \in Rebuilt(r) :
                /\ d.pair \in rebuild[r].pairs /\ d.index \in Nat
                /\ d.runs \subseteq {x \in L : PairOf[x] = d.pair}
                /\ Cardinality(d.runs) \in 1 .. BucketSize
          /\ \A d, e \in Rebuilt(r) :
                \/ d.pair = e.pair /\ d.index = e.index
                \/ d.runs \intersect e.runs # {}
                => d = e
          /\ \A p \in rebuild[r].pairs : \E d \in Rebuilt(r) : d.pair = p /\ d.index = 0
        BY <1>1, RebuiltAre
    <2>2. \A d \in Rebuilt(r) : d.pair \in Pairs /\ d.index \in Nat /\ d.runs \in SUBSET Runs
        BY <1>3, <1>5, <2>1
    <2>3. /\ \A b \in W :
                /\ b \in Bucket /\ IdOf(b) \notin Remembered(r)
                /\ \E d \in Rebuilt(r) : /\ b.pair = d.pair /\ b.index = d.index
                                         /\ b.runs = d.runs /\ b.gen = FreshGen(r, d)
          /\ \A d \in Rebuilt(r) : \E b \in W :
                b.pair = d.pair /\ b.index = d.index /\ b.runs = d.runs
        BY <2>2, WithIdsAre
    <2> HIDE DEF W, U, L
    <2>4. ASSUME NEW b \in W
          PROVE  /\ b \in Bucket /\ Cardinality(b.runs) \in 1 .. BucketSize
                 /\ b.pair \in rebuild[r].pairs
                 /\ b.runs \subseteq {x \in L : PairOf[x] = b.pair}
                 /\ IdOf(b) \notin Remembered(r)
                 /\ \A c \in U : ~SameKey(b, c)
        <3>1. PICK d \in Rebuilt(r) : b.pair = d.pair /\ b.index = d.index /\ b.runs = d.runs
            BY <2>3
        <3>2. \A c \in U : ~SameKey(b, c)
            BY <1>1, <3>1 DEF SameKey
        <3>3. QED
            BY <2>1, <2>3, <3>1, <3>2
    <2>5. ASSUME NEW b \in W, NEW c \in W, SameKey(b, c) \/ b.runs \intersect c.runs # {}
          PROVE  b = c
        <3>1. PICK d \in Rebuilt(r) : /\ b.pair = d.pair /\ b.index = d.index
                                      /\ b.runs = d.runs /\ b.gen = FreshGen(r, d)
            BY <2>3
        <3>2. PICK e \in Rebuilt(r) : /\ c.pair = e.pair /\ c.index = e.index
                                      /\ c.runs = e.runs /\ c.gen = FreshGen(r, e)
            BY <2>3
        <3>3. d = e
            BY <2>1, <2>5, <3>1, <3>2 DEF SameKey
        <3>4. b \in Bucket /\ c \in Bucket
            BY <2>3
        <3>5. QED
            BY <3>1, <3>2, <3>3, <3>4 DEF Bucket
    <2>6. QED
        BY <2>1, <2>3, <2>4, <2>5
<1>7. /\ \A b \in W : \A f \in Flushers : \A t \in flush[f].tails : IdOf(t) # IdOf(b)
      /\ \A b \in W : \A q \in Rebuilders \ {r} : IdOf(b) \notin Seen(q)
    <2>1. r \notin Flushers
        BY ConstantTypes
    <2> HIDE DEF W
    <2>2. QED
        BY <1>6, <2>1, RememberedIs DEF IdsOf
<1> HIDE DEF U, W, L, new
<1>8. \A p \in rebuild[r].pairs : Apart(r, p)
    <2>1. ASSUME NEW p \in rebuild[r].pairs
          PROVE  ~Blocked(r, p)
        <3>1. SUFFICES ASSUME NEW b \in buckets, b.pair = p, b.index = 0, IdOf(b) \notin Seen(r)
                       PROVE  FALSE
            BY DEF Blocked
        <3>2. b \in U
            BY <1>3, <1>4, <3>1
        <3>3. PICK c \in W : c.pair = p /\ c.index = 0
            BY <1>6
        <3>4. QED
            BY <1>6, <3>1, <3>2, <3>3 DEF SameKey
    <2>2. QED
        BY <1>3, <2>1 DEF RebuildsApart
<1>9. \A v : IdOf(v)' = IdOf(v)
    BY DEF IdOf
<1>10. \A v \in Versions' : v \in W \/ (v \in Versions /\ IdOf(v) \notin Seen(r))
    <2>1. ASSUME NEW f \in Flushers, NEW t \in Live(f)'
          PROVE  t \in Live(f) /\ IdOf(t) \notin Seen(r)
        <3>1. t \in flush[f].tails /\ IdOf(t) \in IdsOf(buckets')
            BY <1>1, <1>9 DEF Live, IdsOf
        <3>2. PICK b \in buckets' : IdOf(t) = IdOf(b)
            BY <3>1 DEF IdsOf
        <3>3. b \in U
            BY <1>1, <1>7, <3>1, <3>2
        <3>4. QED
            BY <1>3, <1>4, <3>1, <3>2, <3>3 DEF Live, IdsOf
    <2>2. QED
        BY <1>1, <1>3, <1>4, <2>1 DEF Versions
<1>11. ASSUME NEW v \in Versions, IdOf(v) \notin Seen(r), NEW b \in W
       PROVE  v.runs \intersect b.runs = {}
    <2>1. v.runs \subseteq {x \in rows : PairOf[x] = v.pair}
        BY DEF VersionsApart
    <2>2. CASE v.pair = b.pair
        BY <1>6, <1>8, <1>11, <2>2 DEF Apart, L
    <2>3. CASE v.pair # b.pair
        BY <1>6, <2>1, <2>3
    <2>4. QED
        BY <2>2, <2>3
<1>12. /\ rebuild'[r] = new /\ \A q \in Rebuilders : q # r => rebuild'[q] = rebuild[q]
    BY <1>1 DEF TypeOK
<1>13. /\ new \in RebuildState /\ new.stage = "done"
       /\ new.pairs = {} /\ new.todo = {} /\ new.doomed = {} /\ new.deleted = {}
    <2>1. NotRebuilding \in RebuildState
        BY BucketsAssumption DEF NotRebuilding, RebuildState
    <2>2. /\ NotRebuilding.pairs = {} /\ NotRebuilding.todo = {}
          /\ NotRebuilding.doomed = {} /\ NotRebuilding.deleted = {}
        BY DEF NotRebuilding
    <2>3. QED
        BY <1>5, <2>1, <2>2 DEF new, RebuildState
<1>14. TypeOK'
    <2>1. buckets' \subseteq Bucket
        BY <1>1, <1>4, <1>6 DEF TypeOK
    <2>2. \A b \in buckets' : Cardinality(b.runs) \in 1 .. BucketSize
        BY <1>1, <1>4, <1>6 DEF TypeOK
    <2>3. \A b, c \in buckets' : SameKey(b, c) => b = c
        <3>1. \A b, c : SameKey(b, c) => SameKey(c, b)
            BY DEF SameKey
        <3>2. QED
            BY <1>1, <1>4, <1>6, <3>1 DEF TypeOK
    <2>4. rebuild' \in [Rebuilders -> RebuildState]
        BY <1>1, <1>13 DEF TypeOK, RebuildState
    <2>5. behind' \in [Flushers \union Rebuilders -> SUBSET Pairs] /\ raced' \subseteq Pairs
        BY <1>1, <1>5, WroteTypes
    <2>6. \A b, c : SameKey(b, c)' <=> SameKey(b, c)
        BY DEF SameKey
    <2>7. QED
        BY <1>1, <2>1, <2>2, <2>3, <2>4, <2>5, <2>6 DEF TypeOK, RebuildState
<1>15. RunsInOnePlace'
    <2>1. \A f \in Flushers : InBatch(f)' = InBatch(f)
        BY <1>1 DEF InBatch
    <2>2. UNION {InBatch(f)' : f \in Flushers} = UNION {InBatch(f) : f \in Flushers}
        BY <2>1
    <2>3. QED
        BY <1>1, <2>1, <2>2 DEF RunsInOnePlace
<1>16. TailsOK'
    BY <1>1 DEF TailsOK
<1>17. RebuildsOK'
    <2>1. ASSUME NEW q \in Rebuilders
          PROVE  RebuildOK(q)'
        <3>1. CASE q = r
            BY <1>12, <1>13, <3>1 DEF RebuildOK, Seen, LookedUp
        <3>2. CASE q # r
            <4>1. rebuild'[q] = rebuild[q] /\ Seen(q)' = Seen(q) /\ LookedUp(q)' = LookedUp(q)
                BY <1>12, <3>2 DEF Seen, LookedUp
            <4>2. RebuildOK(q)
                BY DEF RebuildsOK
            <4>3. QED
                BY <1>1, <4>1, <4>2 DEF RebuildOK
        <3>3. QED
            BY <3>1, <3>2
    <2>2. QED
        BY <2>1 DEF RebuildsOK
<1>18. VersionsApart'
    <2>1. ASSUME NEW v \in Versions'
          PROVE  v.runs \subseteq {x \in rows' : PairOf[x] = v.pair}
        <3>1. CASE v \in W
            BY <1>1, <1>3, <1>6, <3>1
        <3>2. CASE v \in Versions
            BY <1>1, <3>2 DEF VersionsApart
        <3>3. QED
            BY <1>10, <3>1, <3>2
    <2>2. ASSUME NEW v \in Versions', NEW w \in Versions', v.runs \intersect w.runs # {}
          PROVE  IdOf(v) = IdOf(w)
        <3>1. CASE v \in W /\ w \in W
            BY <1>6, <2>2, <3>1
        <3>2. CASE v \notin W /\ w \notin W
            BY <1>10, <2>2, <3>2 DEF VersionsApart
        <3>3. CASE v \in W /\ w \notin W
            BY <1>10, <1>11, <2>2, <3>3
        <3>4. CASE v \notin W /\ w \in W
            BY <1>10, <1>11, <2>2, <3>4
        <3>5. QED
            BY <3>1, <3>2, <3>3, <3>4
    <2>3. QED
        BY <1>9, <2>1, <2>2 DEF VersionsApart
<1>19. RebuildsApart'
    <2>1. SUFFICES ASSUME NEW q \in Rebuilders, NEW p \in LookedUp(q)'
                   PROVE  Apart(q, p)' \/ Blocked(q, p)'
        BY DEF RebuildsApart
    <2>2. q # r
        BY <1>12, <1>13 DEF LookedUp
    <2>3. rebuild'[q] = rebuild[q] /\ Seen(q)' = Seen(q) /\ LookedUp(q)' = LookedUp(q)
        BY <1>12, <2>2 DEF Seen, LookedUp
    <2>4. CASE p \in rebuild[r].pairs
        <3>1. PICK b \in W : b.pair = p /\ b.index = 0
            BY <1>6, <2>4
        <3>2. IdOf(b) \notin Seen(q)'
            BY <1>7, <2>2, <2>3
        <3>3. QED
            BY <1>1, <1>9, <3>1, <3>2 DEF Blocked
    <2>5. CASE p \notin rebuild[r].pairs
        <3>1. ASSUME Apart(q, p)
              PROVE  Apart(q, p)'
            BY <1>6, <1>9, <1>10, <2>3, <2>5, <3>1 DEF Apart
        <3>2. ASSUME Blocked(q, p)
              PROVE  Blocked(q, p)'
            <4>1. PICK b \in buckets : b.pair = p /\ b.index = 0 /\ IdOf(b) \notin Seen(q)
                BY <3>2 DEF Blocked
            <4>2. b \in U
                BY <1>3, <1>4, <2>5, <4>1 DEF IdOf
            <4>3. QED
                BY <1>1, <1>9, <2>3, <4>1, <4>2 DEF Blocked
        <3>3. QED
            BY <2>3, <3>1, <3>2 DEF RebuildsApart
    <2>6. QED
        BY <2>4, <2>5
<1>20. QED
    BY <1>14, <1>15, <1>16, <1>17, <1>18, <1>19

(* A flusher's commit: what it adds are runs of its own batch, which no    *)
(* version holds, and an update by id replaces a row by a newer version of *)
(* it.                                                                     *)
LEMMA FlushCommitsIsSafe ==
    ASSUME SafetyInv, NEW f \in Flushers, FlushCommits(f)
    PROVE  SafetyInv'
<1> USE DEF SafetyInv
<1> DEFINE F     == Filled(f)
           W     == WithIds(f, Chunks(f))
           there == {b \in F : IdOf(b) \in IdsOf(buckets)}
           kept  == {b \in buckets : IdOf(b) \notin IdsOf(there)}
<1>1. /\ \A d \in Chunks(f), b \in buckets : ~SameKey(b, d)
      /\ buckets' = kept \union there \union W
      /\ rows' = rows \union InBatch(f)
      /\ flush' = [flush EXCEPT ![f] = NotFlushing]
      /\ Wrote(f, PairsIn(flush[f].batch))
      /\ UNCHANGED <<queue, week, created, bornIn, stamped, rebuild, aborts>>
    BY DEF FlushCommits, InBatch
<1>2. /\ InBatch(f) \subseteq Runs /\ InBatch(f) \intersect rows = {}
      /\ PairsIn(flush[f].batch) \subseteq Pairs /\ rows \subseteq Runs
    BY PairsInType DEF RunsInOnePlace, TypeOK
<1>3. /\ flush'[f].stage = "idle" /\ flush'[f].batch = <<>> /\ flush'[f].tails = {}
      /\ \A g \in Flushers : g # f => flush'[g] = flush[g]
    BY <1>1 DEF TypeOK, NotFlushing
(* The new rows.                                                           *)
<1>4. /\ \A b \in W : /\ b \in Bucket /\ Cardinality(b.runs) \in 1 .. BucketSize
                      /\ b.pair \in PairsIn(flush[f].batch)
                      /\ b.runs \subseteq {x \in InBatch(f) : /\ PairOf[x] = b.pair
                                                           /\ x \notin Absorbed(f, b.pair)}
                      /\ IdOf(b) \notin Remembered(f)
                      /\ \A c \in buckets : ~SameKey(b, c)
      /\ \A b, c \in W : SameKey(b, c) \/ b.runs \intersect c.runs # {} => b = c
    <2>1. /\ \A d \in Chunks(f) :
                /\ d.pair \in PairsIn(flush[f].batch) /\ d.index \in Nat
                /\ d.runs \subseteq {x \in InBatch(f) : /\ PairOf[x] = d.pair
                                                     /\ x \notin Absorbed(f, d.pair)}
                /\ Cardinality(d.runs) \in 1 .. BucketSize
          /\ \A d, e \in Chunks(f) :
                \/ d.pair = e.pair /\ d.index = e.index
                \/ d.runs \intersect e.runs # {}
                => d = e
        BY ChunksAre
    <2>2. \A d \in Chunks(f) : d.pair \in Pairs /\ d.index \in Nat /\ d.runs \in SUBSET Runs
        BY <1>2, <2>1
    <2>3. \A b \in W :
              /\ b \in Bucket /\ IdOf(b) \notin Remembered(f)
              /\ \E d \in Chunks(f) : /\ b.pair = d.pair /\ b.index = d.index
                                      /\ b.runs = d.runs /\ b.gen = FreshGen(f, d)
        BY <2>2, WithIdsAre
    <2> HIDE DEF W
    <2>4. ASSUME NEW b \in W
          PROVE  /\ b \in Bucket /\ Cardinality(b.runs) \in 1 .. BucketSize
                 /\ b.pair \in PairsIn(flush[f].batch)
                 /\ b.runs \subseteq {x \in InBatch(f) : /\ PairOf[x] = b.pair
                                                      /\ x \notin Absorbed(f, b.pair)}
                 /\ IdOf(b) \notin Remembered(f)
                 /\ \A c \in buckets : ~SameKey(b, c)
        <3>1. PICK d \in Chunks(f) : b.pair = d.pair /\ b.index = d.index /\ b.runs = d.runs
            BY <2>3
        <3>2. \A c \in buckets : ~SameKey(b, c)
            BY <1>1, <3>1 DEF SameKey
        <3>3. QED
            BY <2>1, <2>3, <3>1, <3>2
    <2>5. ASSUME NEW b \in W, NEW c \in W, SameKey(b, c) \/ b.runs \intersect c.runs # {}
          PROVE  b = c
        <3>1. PICK d \in Chunks(f) : /\ b.pair = d.pair /\ b.index = d.index
                                     /\ b.runs = d.runs /\ b.gen = FreshGen(f, d)
            BY <2>3
        <3>2. PICK e \in Chunks(f) : /\ c.pair = e.pair /\ c.index = e.index
                                     /\ c.runs = e.runs /\ c.gen = FreshGen(f, e)
            BY <2>3
        <3>3. d = e
            BY <2>1, <2>5, <3>1, <3>2 DEF SameKey
        <3>4. b \in Bucket /\ c \in Bucket
            BY <2>3
        <3>5. QED
            BY <3>1, <3>2, <3>3, <3>4 DEF Bucket
    <2>6. QED
        BY <2>4, <2>5
<1>5. /\ \A b \in W : \A g \in Flushers \ {f} : \A t \in flush[g].tails : IdOf(t) # IdOf(b)
      /\ \A b \in W : \A q \in Rebuilders : IdOf(b) \notin Seen(q)
    <2>1. f \notin Rebuilders
        BY ConstantTypes
    <2> HIDE DEF W
    <2>2. QED
        BY <1>4, <2>1, RememberedIs DEF IdsOf
(* The updated rows.                                                       *)
<1>6. \A c \in there :
          /\ c \in Bucket /\ Cardinality(c.runs) \in 1 .. BucketSize
          /\ c.pair \in PairsIn(flush[f].batch)
          /\ \E t \in Live(f) : /\ IdOf(c) = IdOf(t) /\ c.pair = t.pair /\ SameKey(c, t)
                                /\ c.runs = t.runs \union Absorbed(f, t.pair)
    <2>1. ASSUME NEW c \in there
          PROVE  /\ c \in Bucket /\ Cardinality(c.runs) \in 1 .. BucketSize
                 /\ c.pair \in PairsIn(flush[f].batch)
                 /\ \E t \in Live(f) : /\ IdOf(c) = IdOf(t) /\ c.pair = t.pair /\ SameKey(c, t)
                                       /\ c.runs = t.runs \union Absorbed(f, t.pair)
        <3>1. c \in Filled(f) /\ IdOf(c) \in IdsOf(buckets)
            OBVIOUS
        <3>2. /\ c \in Bucket /\ Cardinality(c.runs) \in 1 .. BucketSize
              /\ c.pair \in PairsIn(flush[f].batch)
            BY <3>1, FilledAre
        <3>3. PICK t \in flush[f].tails :
                  /\ c.pair = t.pair /\ c.index = t.index /\ c.gen = t.gen
                  /\ c.runs = t.runs \union Absorbed(f, t.pair)
            BY <3>1, FilledAre
        <3>4. IdOf(c) = IdOf(t) /\ SameKey(c, t)
            BY <3>3 DEF IdOf, SameKey
        <3>5. t \in Live(f)
            BY <3>1, <3>4 DEF Live
        <3>6. QED
            BY <3>2, <3>3, <3>4, <3>5
    <2>2. QED
        BY <2>1
<1>7. \A t \in flush[f].tails : \A u \in flush[f].tails : t.pair = u.pair => t = u
    BY DEF TailsOK
<1>8. \A p : Absorbed(f, p) \subseteq {x \in InBatch(f) : PairOf[x] = p}
    BY AbsorbedAre
<1>9. /\ kept \subseteq buckets
      /\ \A b \in kept, c \in there : IdOf(b) # IdOf(c)
      /\ \A b \in buckets : b \in kept \/ \E c \in there : IdOf(b) = IdOf(c)
      /\ \A c \in there : \E b \in buckets : IdOf(b) = IdOf(c)
    <2> HIDE DEF F
    <2>1. QED
        BY DEF IdsOf
<1> HIDE DEF F, W, there, kept
<1>10. \A v : IdOf(v)' = IdOf(v)
    BY DEF IdOf
<1>11. /\ \A b, c : SameKey(b, c)' <=> SameKey(b, c)
       /\ \A b, c : SameKey(b, c) => SameKey(c, b)
       /\ \A b, c, d : SameKey(b, c) /\ SameKey(c, d) => SameKey(b, d)
       /\ \A b, c \in Bucket : IdOf(b) = IdOf(c) => SameKey(b, c)
    BY DEF SameKey, IdOf
(* Ids stay, and come in with the new rows only.                           *)
<1>12. \A b \in buckets : \E c \in buckets' : IdOf(b) = IdOf(c) /\ b.pair = c.pair /\ b.index = c.index
    <2>1. ASSUME NEW b \in buckets
          PROVE  \E c \in buckets' : IdOf(b) = IdOf(c)
        BY <1>1, <1>9
    <2>2. QED
        BY <2>1 DEF IdOf
<1>13. \A c \in buckets' : c \in W \/ \E b \in buckets : IdOf(b) = IdOf(c)
    BY <1>1, <1>9
<1>14. \A v \in Versions' : v \in W \/ v \in there \/ v \in Versions
    <2>1. ASSUME NEW g \in Flushers, NEW t \in Live(g)'
          PROVE  t \in Live(g)
        <3>1. t \in flush'[g].tails /\ IdOf(t) \in IdsOf(buckets')
            BY <1>10 DEF Live, IdsOf
        <3>2. g # f /\ t \in flush[g].tails
            BY <1>3, <3>1
        <3>3. PICK c \in buckets' : IdOf(t) = IdOf(c)
            BY <3>1 DEF IdsOf
        <3>4. c \notin W
            BY <1>5, <3>2, <3>3
        <3>5. QED
            BY <1>13, <3>2, <3>3, <3>4 DEF Live, IdsOf
    <2>2. QED
        BY <1>1, <1>9, <2>1 DEF Versions
(* Runs of the new rows, and those absorbed, are in no version yet.        *)
<1>15. \A v \in Versions : v.runs \subseteq rows /\ v.runs \intersect InBatch(f) = {}
    BY <1>2 DEF VersionsApart
<1>16. TypeOK'
    <2>1. buckets' \subseteq Bucket
        BY <1>1, <1>4, <1>6, <1>9 DEF TypeOK
    <2>2. \A b \in buckets' : Cardinality(b.runs) \in 1 .. BucketSize
        BY <1>1, <1>4, <1>6, <1>9 DEF TypeOK
    <2>3. ASSUME NEW b \in buckets', NEW c \in buckets', SameKey(b, c)
          PROVE  b = c
        <3>1. CASE b \in W /\ c \in W
            BY <1>4, <2>3, <3>1
        <3>2. \A u \in buckets', v \in W : u \notin W => ~SameKey(u, v)
            <4>1. SUFFICES ASSUME NEW u \in buckets', NEW v \in W, u \notin W
                           PROVE  ~SameKey(u, v)
                OBVIOUS
            <4>2. PICK w \in buckets : IdOf(w) = IdOf(u)
                BY <1>13, <4>1
            <4>3. SameKey(w, u)
                BY <1>11, <2>1, <4>2 DEF TypeOK
            <4>4. ~SameKey(v, w)
                BY <1>4
            <4>5. QED
                BY <1>11, <4>3, <4>4
        <3>3. CASE b \notin W /\ c \notin W
            <4>1. IdOf(b) = IdOf(c)
                <5>1. PICK u \in buckets : IdOf(u) = IdOf(b)
                    BY <1>13, <3>3
                <5>2. PICK v \in buckets : IdOf(v) = IdOf(c)
                    BY <1>13, <3>3
                <5>3. SameKey(u, b) /\ SameKey(v, c)
                    BY <1>11, <2>1, <5>1, <5>2 DEF TypeOK
                <5>4. SameKey(u, v)
                    BY <1>11, <2>3, <5>3
                <5>5. QED
                    BY <5>1, <5>2, <5>4 DEF TypeOK
            <4>2. CASE b \in kept /\ c \in kept
                BY <1>9, <2>3, <4>2 DEF TypeOK
            <4>3. CASE b \in there /\ c \in there
                <5>1. PICK t \in Live(f) : /\ IdOf(b) = IdOf(t) /\ b.pair = t.pair
                                           /\ b.runs = t.runs \union Absorbed(f, t.pair)
                    BY <1>6, <4>3
                <5>2. PICK u \in Live(f) : /\ IdOf(c) = IdOf(u) /\ c.pair = u.pair
                                           /\ c.runs = u.runs \union Absorbed(f, u.pair)
                    BY <1>6, <4>3
                <5>3. t = u
                    BY <1>7, <2>3, <5>1, <5>2 DEF Live, SameKey
                <5>4. b \in Bucket /\ c \in Bucket
                    BY <2>1
                <5>5. QED
                    BY <4>1, <5>1, <5>2, <5>3, <5>4 DEF Bucket, IdOf
            <4>4. QED
                BY <1>1, <1>9, <3>3, <4>1, <4>2, <4>3
        <3>4. QED
            BY <1>11, <2>3, <3>1, <3>2, <3>3
    <2>4. rows' \subseteq Runs
        BY <1>1, <1>2
    <2>5. flush' \in [Flushers -> [stage : {"idle", "inserted", "counted"},
                                   batch : Seq(Runs), tails : SUBSET Bucket]]
        <3>1. NotFlushing \in [stage : {"idle", "inserted", "counted"},
                               batch : Seq(Runs), tails : SUBSET Bucket]
            BY DEF NotFlushing
        <3>2. QED
            BY <1>1, <3>1 DEF TypeOK
    <2>6. behind' \in [Flushers \union Rebuilders -> SUBSET Pairs] /\ raced' \subseteq Pairs
        BY <1>1, <1>2, WroteTypes
    <2>7. QED
        BY <1>1, <1>11, <2>1, <2>2, <2>3, <2>4, <2>5, <2>6 DEF TypeOK
<1>17. RunsInOnePlace'
    <2>1. /\ InBatch(f)' = {}
          /\ \A g \in Flushers : g # f => InBatch(g)' = InBatch(g)
        BY <1>3, ToSetEmpty DEF InBatch
    <2>2. ToSet(created') = rows' \union UNION {InBatch(g)' : g \in Flushers}
        <3>1. \A g \in Flushers : g # f => InBatch(g) \intersect InBatch(f) = {}
            BY DEF RunsInOnePlace
        <3>2. InBatch(f) \union UNION {InBatch(g)' : g \in Flushers} = UNION {InBatch(g) : g \in Flushers}
            BY <2>1
        <3>3. ToSet(created) = rows \union UNION {InBatch(g) : g \in Flushers}
            BY DEF RunsInOnePlace
        <3>4. ToSet(created) = (rows \union InBatch(f)) \union UNION {InBatch(g)' : g \in Flushers}
            BY <3>2, <3>3
        <3>5. QED
            BY <1>1, <3>4
    <2>3. ASSUME NEW g \in Flushers
          PROVE  /\ flush'[g].stage = "idle" => flush'[g].batch = <<>>
                 /\ IsInjective(flush'[g].batch)
                 /\ InBatch(g)' \intersect rows' = {}
                 /\ \A h \in Flushers \ {g} : InBatch(g)' \intersect InBatch(h)' = {}
        <3>1. IsInjective(flush'[g].batch)
            BY <1>3, EmptyDistinct DEF RunsInOnePlace
        <3>2. \A h \in Flushers \ {g} : InBatch(g)' \intersect InBatch(h)' = {}
            BY <2>1 DEF RunsInOnePlace
        <3>3. InBatch(g)' \intersect rows' = {}
            BY <1>1, <2>1 DEF RunsInOnePlace
        <3>4. QED
            BY <1>3, <3>1, <3>2, <3>3 DEF RunsInOnePlace
    <2>4. QED
        BY <1>1, <2>2, <2>3 DEF RunsInOnePlace
<1>18. TailsOK'
    BY <1>1, <1>3 DEF TailsOK
<1>19. RebuildsOK'
    <2>1. \A q \in Rebuilders : Seen(q)' = Seen(q) /\ LookedUp(q)' = LookedUp(q)
        BY <1>1 DEF Seen, LookedUp
    <2>2. QED
        BY <1>1, <2>1 DEF RebuildsOK, RebuildOK
<1>20. VersionsApart'
    <2>1. ASSUME NEW v \in Versions'
          PROVE  v.runs \subseteq {x \in rows' : PairOf[x] = v.pair}
        <3>1. CASE v \in W
            BY <1>1, <1>4, <3>1
        <3>2. CASE v \in there
            <4>1. PICK t \in Live(f) : v.pair = t.pair /\ v.runs = t.runs \union Absorbed(f, t.pair)
                BY <1>6, <3>2
            <4>2. t.runs \subseteq {x \in rows : PairOf[x] = t.pair}
                BY DEF VersionsApart, Versions
            <4>3. QED
                BY <1>1, <1>8, <4>1, <4>2
        <3>3. CASE v \in Versions
            BY <1>1, <3>3 DEF VersionsApart
        <3>4. QED
            BY <1>14, <3>1, <3>2, <3>3
    <2>2. ASSUME NEW v \in W, NEW w, w \in there \/ w \in Versions
          PROVE  v.runs \intersect w.runs = {}
        <3>1. CASE w \in Versions
            BY <1>4, <1>15, <3>1
        <3>2. CASE w \in there
            <4>1. PICK t \in Live(f) : w.pair = t.pair /\ w.runs = t.runs \union Absorbed(f, t.pair)
                BY <1>6, <3>2
            <4>2. t \in Versions
                BY DEF Versions
            <4>3. v.runs \intersect t.runs = {}
                BY <1>4, <1>15, <4>2
            <4>4. v.runs \intersect Absorbed(f, t.pair) = {}
                BY <1>4, <1>8
            <4>5. QED
                BY <4>1, <4>3, <4>4
        <3>3. QED
            BY <2>2, <3>1, <3>2
    <2>3. ASSUME NEW v \in there, NEW w \in Versions, v.runs \intersect w.runs # {}
          PROVE  IdOf(v) = IdOf(w)
        <3>1. PICK t \in Live(f) : IdOf(v) = IdOf(t) /\ v.runs = t.runs \union Absorbed(f, t.pair)
            BY <1>6
        <3>2. t \in Versions
            BY DEF Versions
        <3>3. w.runs \intersect Absorbed(f, t.pair) = {}
            BY <1>8, <1>15
        <3>4. t.runs \intersect w.runs # {}
            BY <2>3, <3>1, <3>3
        <3>5. QED
            BY <3>1, <3>2, <3>4 DEF VersionsApart
    <2>4. ASSUME NEW v \in there, NEW w \in there, v.runs \intersect w.runs # {}
          PROVE  IdOf(v) = IdOf(w)
        <3>1. PICK t \in Live(f) : IdOf(v) = IdOf(t) /\ v.runs = t.runs \union Absorbed(f, t.pair)
            BY <1>6
        <3>2. PICK u \in Live(f) : IdOf(w) = IdOf(u) /\ w.runs = u.runs \union Absorbed(f, u.pair)
            BY <1>6
        <3>3. t \in Versions /\ u \in Versions
            BY DEF Versions
        <3>4. /\ t.runs \intersect Absorbed(f, u.pair) = {}
              /\ u.runs \intersect Absorbed(f, t.pair) = {}
            BY <1>8, <1>15, <3>3
        <3>5. CASE t.runs \intersect u.runs # {}
            BY <3>1, <3>2, <3>3, <3>5 DEF VersionsApart
        <3>6. CASE Absorbed(f, t.pair) \intersect Absorbed(f, u.pair) # {}
            <4>1. t.pair = u.pair
                BY <1>8, <3>6
            <4>2. QED
                BY <1>7, <3>1, <3>2, <4>1 DEF Live
        <3>7. QED
            BY <2>4, <3>1, <3>2, <3>4, <3>5, <3>6
    <2>5. ASSUME NEW v \in Versions', NEW w \in Versions', v.runs \intersect w.runs # {}
          PROVE  IdOf(v) = IdOf(w)
        <3>1. w.runs \intersect v.runs # {}
            BY <2>5
        <3>2. CASE v \in W \/ w \in W
            BY <1>4, <1>14, <2>2, <2>5, <3>1, <3>2
        <3>3. CASE v \notin W /\ w \notin W
            BY <1>14, <2>3, <2>4, <2>5, <3>1, <3>3 DEF VersionsApart
        <3>4. QED
            BY <3>2, <3>3
    <2>6. QED
        BY <1>10, <2>1, <2>5 DEF VersionsApart
<1>21. RebuildsApart'
    <2>1. SUFFICES ASSUME NEW q \in Rebuilders, NEW p \in LookedUp(q)'
                   PROVE  Apart(q, p)' \/ Blocked(q, p)'
        BY DEF RebuildsApart
    <2>2. /\ rebuild'[q] = rebuild[q] /\ Seen(q)' = Seen(q) /\ p \in LookedUp(q)
        BY <1>1 DEF Seen, LookedUp
    <2>3. ToSet(rebuild[q].listed) \subseteq rows
        BY <2>2 DEF RebuildsOK, RebuildOK
    <2>4. ASSUME Apart(q, p)
          PROVE  Apart(q, p)'
        <3>1. SUFFICES ASSUME NEW v \in Versions', v.pair = p, IdOf(v) \notin Seen(q)
                       PROVE  v.runs \intersect ToSet(rebuild[q].listed) = {}
            BY <1>10, <2>2 DEF Apart
        <3>2. CASE v \in W
            BY <1>2, <1>4, <2>3, <3>2
        <3>3. CASE v \in there
            <4>1. PICK t \in Live(f) : /\ IdOf(v) = IdOf(t) /\ v.pair = t.pair
                                       /\ v.runs = t.runs \union Absorbed(f, t.pair)
                BY <1>6, <3>3
            <4>2. t.runs \intersect ToSet(rebuild[q].listed) = {}
                BY <2>4, <3>1, <4>1 DEF Apart, Versions
            <4>3. QED
                BY <1>2, <1>8, <2>3, <4>1, <4>2
        <3>4. CASE v \in Versions
            BY <2>4, <3>1, <3>4 DEF Apart
        <3>5. QED
            BY <1>14, <3>2, <3>3, <3>4
    <2>5. ASSUME Blocked(q, p)
          PROVE  Blocked(q, p)'
        <3>1. PICK b \in buckets : b.pair = p /\ b.index = 0 /\ IdOf(b) \notin Seen(q)
            BY <2>5 DEF Blocked
        <3>2. PICK c \in buckets' : IdOf(b) = IdOf(c) /\ b.pair = c.pair /\ b.index = c.index
            BY <1>12
        <3>3. QED
            BY <1>10, <2>2, <3>1, <3>2 DEF Blocked
    <2>6. QED
        BY <2>2, <2>4, <2>5 DEF RebuildsApart
<1>22. QED
    BY <1>16, <1>17, <1>18, <1>19, <1>20, <1>21

LEMMA InitIsSafe ==
    ASSUME Init
    PROVE  SafetyInv
<1>1. TypeOK
    <2>1. NotRebuilding \in RebuildState
        BY BucketsAssumption DEF NotRebuilding, RebuildState
    <2>2. NotFlushing \in [stage : {"idle", "inserted", "counted"},
                           batch : Seq(Runs), tails : SUBSET Bucket]
        BY DEF NotFlushing
    <2>3. week \in 1 .. MaxWeek /\ aborts \in 0 .. MaxAborts /\ bornIn \in [Runs -> 0 .. MaxWeek]
        BY BucketsAssumption DEF Init
    <2>4. created \in Seq(Runs)
        BY DEF Init
    <2>5. rebuild \in [Rebuilders -> RebuildState]
        BY <2>1 DEF Init
    <2>6. flush \in [Flushers -> [stage : {"idle", "inserted", "counted"},
                                  batch : Seq(Runs), tails : SUBSET Bucket]]
        BY <2>2 DEF Init
    <2>7. QED
        BY <2>3, <2>4, <2>5, <2>6, BucketsAssumption DEF Init, TypeOK, RebuildState
<1>2. /\ \A f \in Flushers : /\ flush[f].stage = "idle" /\ flush[f].batch = <<>>
                             /\ flush[f].tails = {} /\ InBatch(f) = {}
      /\ \A r \in Rebuilders : /\ rebuild[r].stage = "idle" /\ rebuild[r].doomed = {}
                               /\ rebuild[r].todo = {}
                               /\ Seen(r) = {} /\ LookedUp(r) = {}
    BY ToSetEmpty DEF Init, NotFlushing, NotRebuilding, InBatch, Seen, LookedUp
<1>3. RunsInOnePlace
    <2>1. created = <<>> /\ ToSet(created) = {} /\ IsInjective(created) /\ rows = {}
        BY ToSetEmpty, EmptyDistinct DEF Init
    <2>2. IsInjective(queue)
        BY BucketsAssumption DEF Init, IsInjective
    <2>3. UNION {InBatch(f) : f \in Flushers} = {}
        BY <1>2
    <2>4. QED
        BY <1>2, <2>1, <2>2, <2>3, EmptyDistinct DEF RunsInOnePlace
<1>4. TailsOK
    BY <1>2 DEF TailsOK
<1>5. RebuildsOK
    BY <1>2 DEF RebuildsOK, RebuildOK
<1>6. VersionsApart
    <2>1. Versions = {}
        BY <1>2 DEF Init, Versions, Live
    <2>2. QED
        BY <2>1 DEF VersionsApart
<1>7. RebuildsApart
    BY <1>2 DEF RebuildsApart
<1>8. QED
    BY <1>1, <1>3, <1>4, <1>5, <1>6, <1>7 DEF SafetyInv

(* The inductive invariant.                                                *)
THEOREM SafetyInvHolds == Spec => []SafetyInv
<1>1. Init => SafetyInv
    BY InitIsSafe
<1>2. SafetyInv /\ [Next]_vars => SafetyInv'
    BY FlushBeginsIsSafe, FlushCountsIsSafe, FlushCommitsIsSafe, FlushFailsIsSafe,
       RebuildBeginsIsSafe, RebuildListsIsSafe, RebuildScansIsSafe, RebuildDeletesIsSafe,
       RebuildCommitsIsSafe, RebuildStopsIsSafe, WeekTurnsIsSafe
       DEF Next
<1>3. QED
    BY <1>1, <1>2, PTL DEF Spec

(* Values are of their types, buckets hold at most RUN_BUCKET_SIZE runs    *)
(* and no two have the same key, for any number of flushers and rebuilders *)
(* (run_bucket_trends.py, ingest.py).                                      *)
THEOREM TypesHold == Spec => []TypeOK
<1>1. SafetyInv => TypeOK
    BY DEF SafetyInv
<1>2. QED
    BY <1>1, SafetyInvHolds, PTL

(* No run is in two buckets, in one of another pair or in one before its   *)
(* row is committed, however flushers and rebuilders interleave.           *)
THEOREM RunsAreCountedOnce == Spec => []CountedOnce
<1>1. SafetyInv => CountedOnce
    <2>1. SUFFICES ASSUME TypeOK, VersionsApart
                   PROVE  CountedOnce
        BY DEF SafetyInv
    <2>2. buckets \subseteq Versions
        BY DEF Versions
    <2>3. ASSUME NEW b \in buckets, NEW c \in buckets, b.runs \intersect c.runs # {}
          PROVE  b = c
        <3>1. IdOf(b) = IdOf(c)
            BY <2>1, <2>2, <2>3 DEF VersionsApart
        <3>2. SameKey(b, c)
            BY <2>1, <3>1 DEF SameKey, IdOf, TypeOK, Bucket
        <3>3. QED
            BY <2>1, <3>2 DEF TypeOK
    <2>4. QED
        BY <2>1, <2>2, <2>3 DEF CountedOnce, VersionsApart
<1>2. QED
    BY <1>1, SafetyInvHolds, PTL

-------------------------------------------------------------------------------
(***************************************************************************)
(* What transactions that were not overtaken leave: a flusher's no run of  *)
(* its own week forgotten, and the buckets of a pair laid out in the order *)
(* of created_at, full but for the last.  A transaction is behind on a     *)
(* pair when another has written the pair since it read it; the invariants *)
(* say what one that is not behind knows.                                  *)
(***************************************************************************)

(* A flusher that is not behind has read the last bucket there is ...      *)
TailsCurrent ==
    \A f \in Flushers : flush[f].stage = "counted" =>
        \A p \in PairsIn(flush[f].batch) \ behind[f] :
            TailOf(f, p) = {b \in BucketsOf(p) : \A c \in BucketsOf(p) : c.index <= b.index}

(* ... and a rebuild that is not behind has seen all buckets of the pairs  *)
(* it has looked up.                                                       *)
AllSeen ==
    \A r \in Rebuilders : \A p \in LookedUp(r) \ behind[r] : IdsOf(BucketsOf(p)) \subseteq Seen(r)

(* The runs of a batch are of one week, and flushers that have counted     *)
(* hold different students' weeks.                                         *)
OneWeek == \A f \in Flushers : \A x, y \in InBatch(f) : bornIn[x] = bornIn[y]

CountingExcludes ==
    \A f, g \in Flushers :
        f # g /\ flush[f].stage = "counted" /\ flush[g].stage = "counted"
            => StudentWeeks(flush[f].batch) \intersect StudentWeeks(flush[g].batch) = {}

(* A row a flusher will write over holds no run of its week that it has    *)
(* not read.                                                               *)
OwnWeekRead ==
    \A f \in Flushers : \A t \in flush[f].tails : \A b \in buckets : \A x \in b.runs :
        /\ t.pair \notin raced /\ IdOf(t) = IdOf(b)
        /\ bornIn[x] \in {bornIn[y] : y \in InBatch(f)}
        => x \in t.runs

(* A flusher's new runs of a pair come after those that are counted.       *)
NewerThanCounted ==
    \A f \in Flushers : \A p \in PairsIn(flush[f].batch) \ behind[f] :
        Sorted(Counted(p) \union ToSet(NewRuns(f, p))) = Sorted(Counted(p)) \o NewRuns(f, p)

(* A rebuild lists runs by created_at.                                     *)
ListedInOrder ==
    \A r \in Rebuilders : rebuild[r].stage \in {"scan", "delete"} =>
        rebuild[r].listed = Sorted(ToSet(rebuild[r].listed))

CurrentInv == TailsCurrent /\ AllSeen

OwnWeekInv == OneWeek /\ CountingExcludes /\ OwnWeekRead

LayoutInv == NewerThanCounted /\ ListedInOrder /\ CanonicalUnlessRaced

-------------------------------------------------------------------------------
(* What commits write, and who is overtaken.                               *)

(* What a flusher's commit leaves in the table: a row it did not update,   *)
(* an updated row, or a new one, with a key nobody remembers.              *)
LEMMA FlushWrites ==
    ASSUME SafetyInv, NEW f \in Flushers, FlushCommits(f)
    PROVE  /\ \A c \in buckets' :
                 \/ c \in buckets
                 \/ /\ c.pair \in PairsIn(flush[f].batch)
                    /\ \E t \in flush[f].tails :
                          /\ IdOf(c) = IdOf(t) /\ c.pair = t.pair
                          /\ c.runs = t.runs \union Absorbed(f, t.pair)
                 \/ /\ c.pair \in PairsIn(flush[f].batch)
                    /\ \A g \in Flushers \ {f} : \A t \in flush[g].tails : IdOf(t) # IdOf(c)
           /\ \A b \in buckets :
                 \/ b \in buckets'
                 \/ /\ b.pair \in PairsIn(flush[f].batch)
                    /\ \E t \in flush[f].tails, c \in buckets' :
                          /\ IdOf(b) = IdOf(t) /\ c.pair = t.pair /\ b.pair = t.pair
                          /\ t.runs \subseteq c.runs
<1> USE DEF SafetyInv
<1> DEFINE W     == WithIds(f, Chunks(f))
           there == {b \in Filled(f) : IdOf(b) \in IdsOf(buckets)}
           kept  == {b \in buckets : IdOf(b) \notin IdsOf(there)}
<1>1. buckets' = kept \union there \union W
    BY DEF FlushCommits
<1>2. \A b \in W : /\ b.pair \in PairsIn(flush[f].batch)
                   /\ IdOf(b) \notin Remembered(f)
    <2>1. \A d \in Chunks(f) :
              /\ d.pair \in PairsIn(flush[f].batch) /\ d.index \in Nat
              /\ d.runs \subseteq InBatch(f)
        BY ChunksAre
    <2>2. \A d \in Chunks(f) : d.pair \in Pairs /\ d.index \in Nat /\ d.runs \in SUBSET Runs
        BY <2>1, PairsInType
    <2>3. \A b \in W : /\ IdOf(b) \notin Remembered(f)
                       /\ \E d \in Chunks(f) : b.pair = d.pair
        BY <2>2, WithIdsAre
    <2>4. QED
        BY <2>1, <2>3
<1>3. \A b \in W : \A g \in Flushers \ {f} : \A t \in flush[g].tails : IdOf(t) # IdOf(b)
    <2> HIDE DEF W
    <2>1. QED
        BY <1>2, RememberedIs DEF IdsOf
<1>4. \A c \in there :
          /\ c.pair \in PairsIn(flush[f].batch)
          /\ \E t \in flush[f].tails :
                /\ IdOf(c) = IdOf(t) /\ c.pair = t.pair
                /\ c.runs = t.runs \union Absorbed(f, t.pair)
    BY FilledAre DEF IdOf
<1>5. \A b \in buckets : b \in kept \/ \E c \in there : IdOf(b) = IdOf(c)
    BY DEF IdsOf
<1>6. kept \subseteq buckets
    OBVIOUS
<1> HIDE DEF W, there, kept
<1>7. ASSUME NEW b \in buckets, b \notin kept
      PROVE  /\ b.pair \in PairsIn(flush[f].batch)
             /\ \E t \in flush[f].tails, c \in buckets' :
                   /\ IdOf(b) = IdOf(t) /\ c.pair = t.pair /\ b.pair = t.pair
                   /\ t.runs \subseteq c.runs
    <2>1. PICK c \in there : IdOf(b) = IdOf(c)
        BY <1>5, <1>7
    <2>2. PICK t \in flush[f].tails : /\ IdOf(c) = IdOf(t) /\ c.pair = t.pair
                                      /\ c.runs = t.runs \union Absorbed(f, t.pair)
        BY <1>4
    <2>3. b.pair = c.pair
        BY <2>1 DEF IdOf
    <2>4. QED
        BY <1>1, <1>4, <2>1, <2>2, <2>3
<1>8. QED
    BY <1>1, <1>2, <1>3, <1>4, <1>6, <1>7

(* What a rebuild's commit leaves: rows it has not deleted and new ones.   *)
LEMMA RebuildWrites ==
    ASSUME SafetyInv, NEW r \in Rebuilders, RebuildCommits(r)
    PROVE  /\ \A c \in buckets' :
                 \/ c \in buckets /\ IdOf(c) \notin Seen(r)
                 \/ /\ c.pair \in rebuild[r].pairs
                    /\ \A g \in Flushers : \A t \in flush[g].tails : IdOf(t) # IdOf(c)
           /\ \A b \in buckets : IdOf(b) \in Seen(r) \/ b \in buckets'
           /\ \A i \in Seen(r) : i[1] \in rebuild[r].pairs
           /\ LookedUp(r) = rebuild[r].pairs
<1> USE DEF SafetyInv
<1> DEFINE W == WithIds(r, Rebuilt(r))
<1>1. /\ rebuild[r].stage = "scan" /\ rebuild[r].todo = {}
      /\ buckets' = Undeleted(r) \union W
    BY DEF RebuildCommits
<1>2. RebuildOK(r)
    BY DEF RebuildsOK
<1>3. /\ Seen(r) = rebuild[r].deleted /\ LookedUp(r) = rebuild[r].pairs
      /\ \A i \in Seen(r) : i[1] \in rebuild[r].pairs
      /\ ToSet(rebuild[r].listed) \subseteq rows
    BY <1>1, <1>2 DEF RebuildOK, Seen, LookedUp
<1>4. \A b \in W : b.pair \in rebuild[r].pairs /\ IdOf(b) \notin Remembered(r)
    <2>1. \A d \in Rebuilt(r) :
              /\ d.pair \in rebuild[r].pairs /\ d.index \in Nat
              /\ d.runs \subseteq ToSet(rebuild[r].listed)
        BY <1>1, RebuiltAre
    <2>2. \A d \in Rebuilt(r) : d.pair \in Pairs /\ d.index \in Nat /\ d.runs \in SUBSET Runs
        BY <1>3, <2>1 DEF TypeOK
    <2>3. \A b \in W : /\ IdOf(b) \notin Remembered(r)
                       /\ \E d \in Rebuilt(r) : b.pair = d.pair
        BY <2>2, WithIdsAre
    <2>4. QED
        BY <2>1, <2>3
<1>5. r \notin Flushers
    BY ConstantTypes
<1> HIDE DEF W
<1>6. \A b \in W : \A f \in Flushers : \A t \in flush[f].tails : IdOf(t) # IdOf(b)
    BY <1>4, <1>5, RememberedIs DEF IdsOf
<1>7. QED
    BY <1>1, <1>3, <1>4, <1>6 DEF Undeleted, LockedBy

(* The buckets of the other pairs are left alone.                          *)
LEMMA OtherPairsKept ==
    ASSUME SafetyInv, NEW p
    PROVE  /\ \A f \in Flushers : FlushCommits(f) /\ p \notin PairsIn(flush[f].batch)
                 => BucketsOf(p)' = BucketsOf(p)
           /\ \A r \in Rebuilders : RebuildCommits(r) /\ p \notin rebuild[r].pairs
                 => BucketsOf(p)' = BucketsOf(p)
<1>1. ASSUME NEW f \in Flushers, FlushCommits(f), p \notin PairsIn(flush[f].batch)
      PROVE  BucketsOf(p)' = BucketsOf(p)
    BY <1>1, FlushWrites DEF BucketsOf
<1>2. ASSUME NEW r \in Rebuilders, RebuildCommits(r), p \notin rebuild[r].pairs
      PROVE  BucketsOf(p)' = BucketsOf(p)
    <2>1. \A b \in buckets : b.pair = p => IdOf(b) \notin Seen(r)
        BY <1>2, RebuildWrites DEF IdOf
    <2>2. QED
        BY <1>2, <2>1, RebuildWrites DEF BucketsOf
<1>3. QED
    BY <1>1, <1>2

(* A transaction that wrote the pairs has overtaken those that watch them. *)
LEMMA Overtaken ==
    ASSUME TypeOK, NEW x \in Flushers \union Rebuilders, NEW pairs, Wrote(x, pairs),
           NEW y \in Flushers \union Rebuilders, y # x
    PROVE  behind'[y] = behind[y] \union (pairs \intersect Watched(y))
BY DEF TypeOK, Wrote

LEMMA WatchedIs ==
    /\ \A f \in Flushers : Watched(f) = PairsIn(flush[f].batch)
    /\ \A r \in Rebuilders : Watched(r) = LookedUp(r)
BY ConstantTypes DEF Watched, LookedUp

(* A pair a transaction watches and was not overtaken on has the buckets   *)
(* it had.                                                                 *)
LEMMA NotOvertaken ==
    ASSUME SafetyInv, [Next]_vars
    PROVE  /\ \A f \in Flushers : flush'[f].batch = flush[f].batch =>
                 \A p \in PairsIn(flush[f].batch) \ behind'[f] :
                    p \notin behind[f] /\ BucketsOf(p)' = BucketsOf(p)
           /\ \A r \in Rebuilders : \A p \in LookedUp(r) :
                 p \in LookedUp(r)' /\ p \notin behind'[r] =>
                    p \notin behind[r] /\ BucketsOf(p)' = BucketsOf(p)
<1> USE DEF SafetyInv
<1>1. CASE UNCHANGED <<buckets, behind>>
    BY <1>1 DEF BucketsOf
<1>2. ASSUME NEW g \in Flushers, FlushCommits(g)
      PROVE  /\ \A f \in Flushers : flush'[f].batch = flush[f].batch =>
                   \A p \in PairsIn(flush[f].batch) \ behind'[f] :
                      p \notin behind[f] /\ BucketsOf(p)' = BucketsOf(p)
             /\ \A r \in Rebuilders : \A p \in LookedUp(r) :
                   p \in LookedUp(r)' /\ p \notin behind'[r] =>
                      p \notin behind[r] /\ BucketsOf(p)' = BucketsOf(p)
    <2>1. Wrote(g, PairsIn(flush[g].batch)) /\ flush' = [flush EXCEPT ![g] = NotFlushing]
        BY <1>2 DEF FlushCommits
    <2>2. ASSUME NEW f \in Flushers, flush'[f].batch = flush[f].batch,
                 NEW p \in PairsIn(flush[f].batch) \ behind'[f]
          PROVE  p \notin behind[f] /\ BucketsOf(p)' = BucketsOf(p)
        <3>1. f # g
            <4>1. flush'[g].batch = <<>>
                BY <2>1 DEF TypeOK, NotFlushing
            <4>2. PairsIn(<<>>) = {}
                BY ToSetEmpty DEF PairsIn
            <4>3. QED
                BY <2>2, <4>1, <4>2
        <3>2. behind'[f] = behind[f] \union (PairsIn(flush[g].batch) \intersect PairsIn(flush[f].batch))
            BY <2>1, <3>1, Overtaken, WatchedIs
        <3>3. p \notin PairsIn(flush[g].batch)
            BY <2>2, <3>2
        <3>4. QED
            BY <1>2, <2>2, <3>2, <3>3, OtherPairsKept
    <2>3. ASSUME NEW r \in Rebuilders, NEW p \in LookedUp(r), p \notin behind'[r]
          PROVE  p \notin behind[r] /\ BucketsOf(p)' = BucketsOf(p)
        <3>1. r # g
            BY ConstantTypes
        <3>2. behind'[r] = behind[r] \union (PairsIn(flush[g].batch) \intersect LookedUp(r))
            BY <2>1, <3>1, Overtaken, WatchedIs
        <3>3. QED
            BY <1>2, <2>3, <3>2, OtherPairsKept
    <2>4. QED
        BY <2>2, <2>3
<1>3. ASSUME NEW q \in Rebuilders, RebuildCommits(q)
      PROVE  /\ \A f \in Flushers : flush'[f].batch = flush[f].batch =>
                   \A p \in PairsIn(flush[f].batch) \ behind'[f] :
                      p \notin behind[f] /\ BucketsOf(p)' = BucketsOf(p)
             /\ \A r \in Rebuilders : \A p \in LookedUp(r) :
                   p \in LookedUp(r)' /\ p \notin behind'[r] =>
                      p \notin behind[r] /\ BucketsOf(p)' = BucketsOf(p)
    <2>1. /\ Wrote(q, rebuild[q].pairs)
          /\ rebuild' = [rebuild EXCEPT ![q] =
                            [NotRebuilding EXCEPT !.stage = "done", !.week = rebuild[q].week]]
        BY <1>3 DEF RebuildCommits
    <2>2. ASSUME NEW f \in Flushers, NEW p \in PairsIn(flush[f].batch) \ behind'[f]
          PROVE  p \notin behind[f] /\ BucketsOf(p)' = BucketsOf(p)
        <3>1. f # q
            BY ConstantTypes
        <3>2. behind'[f] = behind[f] \union (rebuild[q].pairs \intersect PairsIn(flush[f].batch))
            BY <2>1, <3>1, Overtaken, WatchedIs
        <3>3. QED
            BY <1>3, <2>2, <3>2, OtherPairsKept
    <2>3. ASSUME NEW r \in Rebuilders, NEW p \in LookedUp(r), p \in LookedUp(r)',
                 p \notin behind'[r]
          PROVE  p \notin behind[r] /\ BucketsOf(p)' = BucketsOf(p)
        <3>1. r # q
            <4>1. LookedUp(q)' = {}
                BY <2>1 DEF TypeOK, LookedUp, NotRebuilding
            <4>2. QED
                BY <2>3, <4>1
        <3>2. behind'[r] = behind[r] \union (rebuild[q].pairs \intersect LookedUp(r))
            BY <2>1, <3>1, Overtaken, WatchedIs
        <3>3. QED
            BY <1>3, <2>3, <3>2, OtherPairsKept
    <2>4. QED
        BY <2>2, <2>3
<1>4. ASSUME NEW g \in Flushers, FlushFails(g)
      PROVE  /\ \A f \in Flushers : flush'[f].batch = flush[f].batch =>
                   \A p \in PairsIn(flush[f].batch) \ behind'[f] :
                      p \notin behind[f] /\ BucketsOf(p)' = BucketsOf(p)
             /\ \A r \in Rebuilders : \A p \in LookedUp(r) :
                   p \in LookedUp(r)' /\ p \notin behind'[r] =>
                      p \notin behind[r] /\ BucketsOf(p)' = BucketsOf(p)
    <2>1. /\ flush' = [flush EXCEPT ![g] = NotFlushing] /\ buckets' = buckets
          /\ behind' = [behind EXCEPT ![g] = {}]
        BY <1>4 DEF FlushFails, Forgot
    <2>2. PairsIn(flush'[g].batch) = {}
        BY <2>1, ToSetEmpty DEF TypeOK, NotFlushing, PairsIn
    <2>3. \A y \in Flushers \union Rebuilders : y # g => behind'[y] = behind[y]
        BY <2>1 DEF TypeOK
    <2>4. g \notin Rebuilders
        BY ConstantTypes
    <2>5. QED
        BY <2>1, <2>2, <2>3, <2>4 DEF BucketsOf
<1>5. ASSUME NEW q \in Rebuilders, RebuildFails(q)
      PROVE  /\ \A f \in Flushers : flush'[f].batch = flush[f].batch =>
                   \A p \in PairsIn(flush[f].batch) \ behind'[f] :
                      p \notin behind[f] /\ BucketsOf(p)' = BucketsOf(p)
             /\ \A r \in Rebuilders : \A p \in LookedUp(r) :
                   p \in LookedUp(r)' /\ p \notin behind'[r] =>
                      p \notin behind[r] /\ BucketsOf(p)' = BucketsOf(p)
    <2>1. /\ rebuild' = [rebuild EXCEPT ![q] = NotRebuilding] /\ buckets' = buckets
          /\ behind' = [behind EXCEPT ![q] = {}]
        BY <1>5 DEF RebuildFails, Forgot
    <2>2. LookedUp(q)' = {}
        BY <2>1 DEF TypeOK, NotRebuilding, LookedUp
    <2>3. \A y \in Flushers \union Rebuilders : y # q => behind'[y] = behind[y]
        BY <2>1 DEF TypeOK
    <2>4. q \notin Flushers
        BY ConstantTypes
    <2>5. QED
        BY <2>1, <2>2, <2>3, <2>4 DEF BucketsOf
<1>6. \/ UNCHANGED <<buckets, behind>>
      \/ \E g \in Flushers : FlushCommits(g) \/ FlushFails(g)
      \/ \E q \in Rebuilders : RebuildCommits(q) \/ RebuildFails(q)
    BY DEF Next, vars, FlushBegins, FlushCounts, RebuildBegins, RebuildLists, RebuildScans,
           RebuildDeletes, RebuildEnds, WeekTurns
<1>7. QED
    BY <1>1, <1>2, <1>3, <1>4, <1>5, <1>6

(* What a rebuild has looked up only grows until it stops; a pair it looks *)
(* up now is seen whole.                                                   *)
LEMMA RebuildLooks ==
    ASSUME SafetyInv, [Next]_vars, NEW r \in Rebuilders, NEW p \in LookedUp(r)'
    PROVE  \/ p \in LookedUp(r) /\ Seen(r) \subseteq Seen(r)'
           \/ p \notin LookedUp(r) /\ IdsOf(BucketsOf(p))' \subseteq Seen(r)'
<1> USE DEF SafetyInv
<1>1. CASE rebuild'[r] = rebuild[r]
    BY <1>1 DEF Seen, LookedUp
<1>2. CASE \E w \in 1 .. week : RebuildBegins(r, w)
    <2>1. PICK w \in 1 .. week : RebuildBegins(r, w)
        BY <1>2
    <2> DEFINE runs  == {x \in rows : bornIn[x] = w}
               pairs == {PairOf[x] : x \in runs}
    <2>2. rebuild' = [rebuild EXCEPT ![r] =
              [NotRebuilding EXCEPT !.stage = "begun", !.week = w, !.included = runs,
                                    !.pairs = pairs, !.todo = pairs]]
        BY <2>1 DEF RebuildBegins
    <2> HIDE DEF runs, pairs
    <2>3. rebuild'[r].pairs = pairs /\ rebuild'[r].todo = pairs
        BY <2>2 DEF TypeOK, NotRebuilding
    <2>4. QED
        BY <2>3 DEF LookedUp
<1>3. CASE RebuildLists(r)
    <2>1. rebuild[r].stage = "begun" /\ LookedUp(r)' = LookedUp(r)
        BY <1>3 DEF RebuildLists, LookedUp, TypeOK
    <2>2. QED
        BY <2>1 DEF RebuildsOK, RebuildOK
<1>4. CASE RebuildScans(r)
    <2>1. PICK u \in rebuild[r].todo :
              rebuild' = [rebuild EXCEPT ![r].stage = "delete", ![r].todo = @ \ {u},
                                         ![r].doomed = IdsOf(BucketsOf(u))]
        BY <1>4 DEF RebuildScans
    <2>2. /\ rebuild'[r].todo = rebuild[r].todo \ {u} /\ rebuild'[r].pairs = rebuild[r].pairs
          /\ rebuild'[r].doomed = IdsOf(BucketsOf(u))
          /\ rebuild'[r].deleted = rebuild[r].deleted
        BY <2>1 DEF TypeOK
    <2>3. rebuild[r].doomed = {} /\ buckets' = buckets
        BY <1>4 DEF RebuildScans, RebuildsOK, RebuildOK
    <2>4. Seen(r)' = Seen(r) \union IdsOf(BucketsOf(u))
        BY <2>2, <2>3 DEF Seen
    <2>5. p \in LookedUp(r) \/ (p = u /\ p \notin LookedUp(r))
        BY <2>2 DEF LookedUp
    <2>6. IdsOf(BucketsOf(p))' = IdsOf(BucketsOf(p))
        BY <2>3 DEF IdsOf, IdOf, BucketsOf
    <2>7. QED
        BY <2>4, <2>5, <2>6
<1>5. CASE RebuildDeletes(r)
    BY <1>5 DEF RebuildDeletes, Seen, LookedUp, TypeOK
<1>6. CASE RebuildCommits(r) \/ RebuildFails(r) \/ RebuildEnds(r)
    <2>1. LookedUp(r)' = {}
        <3>1. CASE RebuildCommits(r)
            BY <3>1 DEF RebuildCommits, LookedUp, NotRebuilding, TypeOK
        <3>2. CASE RebuildFails(r) \/ RebuildEnds(r)
            BY <3>2 DEF RebuildFails, RebuildEnds, LookedUp, NotRebuilding, TypeOK
        <3>3. QED
            BY <1>6, <3>1, <3>2
    <2>2. QED
        BY <2>1
<1>7. \/ rebuild' = rebuild
      \/ \E q \in Rebuilders :
            \/ \E w \in 1 .. week : RebuildBegins(q, w)
            \/ RebuildLists(q) \/ RebuildScans(q) \/ RebuildDeletes(q)
            \/ RebuildCommits(q) \/ RebuildFails(q) \/ RebuildEnds(q)
    BY DEF Next, vars, FlushBegins, FlushCounts, FlushCommits, FlushFails, WeekTurns
<1>8. ASSUME NEW q \in Rebuilders, q # r,
             \/ \E w \in 1 .. week : RebuildBegins(q, w)
             \/ RebuildLists(q) \/ RebuildScans(q) \/ RebuildDeletes(q)
             \/ RebuildCommits(q) \/ RebuildFails(q) \/ RebuildEnds(q)
      PROVE  rebuild'[r] = rebuild[r]
    BY <1>8 DEF RebuildBegins, RebuildLists, RebuildScans, RebuildDeletes, RebuildCommits,
                RebuildFails, RebuildEnds, TypeOK
<1>9. QED
    BY <1>1, <1>2, <1>3, <1>4, <1>5, <1>6, <1>7, <1>8

LEMMA CurrentInitially == ASSUME Init PROVE CurrentInv
<1>1. \A f \in Flushers : flush[f].stage = "idle"
    BY DEF Init, NotFlushing
<1>2. \A r \in Rebuilders : LookedUp(r) = {}
    BY DEF Init, NotRebuilding, LookedUp
<1>3. QED
    BY <1>1, <1>2 DEF CurrentInv, TailsCurrent, AllSeen

(* A step that changes a watched pair puts the watcher behind.             *)
LEMMA CurrentStep ==
    ASSUME SafetyInv, CurrentInv, [Next]_vars
    PROVE  CurrentInv'
<1> USE DEF SafetyInv
<1>1. TailsCurrent'
    <2>1. SUFFICES ASSUME NEW f \in Flushers, flush'[f].stage = "counted",
                          NEW p \in PairsIn(flush'[f].batch) \ behind'[f]
                   PROVE  TailOf(f, p)' = {b \in BucketsOf(p)' :
                                              \A c \in BucketsOf(p)' : c.index <= b.index}
        BY DEF TailsCurrent, PairsIn
    <2>2. CASE flush'[f] = flush[f]
        <3>1. p \in PairsIn(flush[f].batch) \ behind[f] /\ BucketsOf(p)' = BucketsOf(p)
            BY <2>1, <2>2, NotOvertaken
        <3>2. TailOf(f, p)' = TailOf(f, p)
            BY <2>2 DEF TailOf
        <3>3. QED
            BY <2>1, <2>2, <3>1, <3>2 DEF CurrentInv, TailsCurrent
    <2>3. CASE FlushCounts(f)
        <3>1. /\ flush'[f].batch = flush[f].batch /\ buckets' = buckets
              /\ flush'[f].tails = {b \in buckets :
                                      /\ b.pair \in PairsIn(flush[f].batch)
                                      /\ \A c \in BucketsOf(b.pair) : c.index <= b.index}
            BY <2>3 DEF FlushCounts, TypeOK
        <3>2. TailOf(f, p)' = {b \in flush'[f].tails : b.pair = p}
            BY DEF TailOf
        <3>3. BucketsOf(p)' = BucketsOf(p)
            BY <3>1 DEF BucketsOf
        <3>4. QED
            BY <2>1, <3>1, <3>2, <3>3 DEF BucketsOf
    <2>4. flush'[f] = flush[f] \/ FlushCounts(f) \/ flush'[f].stage # "counted"
        <3>1. \/ flush' = flush
              \/ \E g \in Flushers : FlushBegins(g) \/ FlushCounts(g) \/ FlushCommits(g) \/ FlushFails(g)
            BY DEF Next, vars, RebuildBegins, RebuildLists, RebuildScans,
                   RebuildDeletes, RebuildCommits, RebuildFails, RebuildEnds, WeekTurns
        <3>2. ASSUME NEW g \in Flushers,
                     FlushBegins(g) \/ FlushCommits(g) \/ FlushFails(g) \/ FlushCounts(g)
              PROVE  flush'[f] = flush[f] \/ FlushCounts(f) \/ flush'[f].stage # "counted"
            <4>1. CASE f # g
                BY <3>2, <4>1 DEF FlushBegins, FlushCommits, FlushFails, FlushCounts, TypeOK
            <4>2. CASE f = g
                BY <3>2, <4>2 DEF FlushBegins, FlushCommits, FlushFails, NotFlushing, TypeOK
            <4>3. QED
                BY <4>1, <4>2
        <3>3. QED
            BY <3>1, <3>2
    <2>5. QED
        BY <2>1, <2>2, <2>3, <2>4
<1>2. AllSeen'
    <2>1. SUFFICES ASSUME NEW r \in Rebuilders, NEW p \in LookedUp(r)', p \notin behind'[r]
                   PROVE  IdsOf(BucketsOf(p))' \subseteq Seen(r)'
        BY DEF AllSeen
    <2>2. CASE p \in LookedUp(r)
        <3>1. p \notin behind[r] /\ BucketsOf(p)' = BucketsOf(p)
            BY <2>1, <2>2, NotOvertaken
        <3>2. IdsOf(BucketsOf(p))' = IdsOf(BucketsOf(p))
            BY <3>1 DEF IdsOf, IdOf
        <3>3. QED
            BY <2>2, <3>1, <3>2, RebuildLooks DEF CurrentInv, AllSeen
    <2>3. CASE p \notin LookedUp(r)
        BY <2>3, RebuildLooks
    <2>4. QED
        BY <2>2, <2>3
<1>3. QED
    BY <1>1, <1>2 DEF CurrentInv

(* Who is not behind has read what is in the table.                        *)
THEOREM CurrentHolds == Spec => []CurrentInv
<1>1. Init => CurrentInv
    BY CurrentInitially
<1>2. SafetyInv /\ CurrentInv /\ [Next]_vars => CurrentInv'
    BY CurrentStep
<1>3. QED
    BY <1>1, <1>2, SafetyInvHolds, PTL DEF Spec

-------------------------------------------------------------------------------
(* A flusher forgets no run of its own week.                               *)

(* Batches and created_at weeks of a flusher change when it begins or ends *)
(* only.                                                                   *)
LEMMA BatchWeeks ==
    ASSUME SafetyInv, [Next]_vars
    PROVE  /\ \A x \in rows : bornIn'[x] = bornIn[x] /\ x \in rows'
           /\ \A f \in Flushers :
                 \/ /\ InBatch(f)' = InBatch(f) /\ flush'[f].batch = flush[f].batch
                    /\ \A x \in InBatch(f) : bornIn'[x] = bornIn[x]
                    /\ flush'[f] = flush[f] \/ FlushCounts(f)
                 \/ /\ flush'[f].stage = "inserted" /\ flush'[f].tails = {}
                    /\ \A x \in InBatch(f)' : bornIn'[x] = week
                 \/ flush'[f].stage = "idle" /\ flush'[f].tails = {} /\ InBatch(f)' = {}
<1> USE DEF SafetyInv
<1>1. ASSUME NEW g \in Flushers, FlushBegins(g)
      PROVE  \E batch \in Seq(Runs) :
                /\ flush' = [flush EXCEPT ![g] = [stage |-> "inserted", batch |-> batch,
                                                  tails |-> {}]]
                /\ bornIn' = [r \in Runs |-> IF r \in ToSet(batch) THEN week ELSE bornIn[r]]
                /\ rows' = rows
                /\ ToSet(batch) \subseteq ToSet(queue)
    <2>1. PICK n \in 1 .. BatchSize :
              /\ n <= Len(queue)
              /\ bornIn' = [r \in Runs |-> IF r \in ToSet(SubSeq(queue, 1, n))
                                             THEN week ELSE bornIn[r]]
              /\ flush' = [flush EXCEPT ![g] = [stage |-> "inserted",
                                                batch |-> SubSeq(queue, 1, n), tails |-> {}]]
        BY <1>1, Zenon DEF FlushBegins
    <2>2. n \in 0 .. Len(queue) /\ queue \in Seq(Runs)
        BY <2>1, BucketsAssumption DEF TypeOK
    <2> DEFINE batch == SubSeq(queue, 1, n)
               rest  == SubSeq(queue, n + 1, Len(queue))
    <2>3. batch \in Seq(Runs) /\ rest \in Seq(Runs) /\ queue = batch \o rest
        BY <2>2, SplitSequence
    <2>4. rows' = rows
        BY <1>1 DEF FlushBegins
    <2> HIDE DEF rest
    <2>5. ToSet(batch) \subseteq ToSet(queue)
        <3> HIDE DEF batch
        <3>1. QED
            BY <2>3, ToSetConcat
    <2>6. QED
        BY <2>1, <2>3, <2>4, <2>5
<1>2. /\ \A f \in Flushers : InBatch(f) \intersect ToSet(queue) = {}
      /\ rows \intersect ToSet(queue) = {} /\ rows \subseteq Runs
      /\ \A f \in Flushers : InBatch(f) \subseteq Runs
    <2>1. \A f \in Flushers : InBatch(f) \subseteq ToSet(created)
        BY DEF RunsInOnePlace
    <2>2. QED
        BY <2>1, PairsInType DEF RunsInOnePlace, TypeOK
<1>3. CASE UNCHANGED <<flush, bornIn, rows>>
    BY <1>3 DEF InBatch
<1>4. ASSUME NEW g \in Flushers, FlushBegins(g)
      PROVE  /\ \A x \in rows : bornIn'[x] = bornIn[x] /\ x \in rows'
             /\ \A f \in Flushers \ {g} :
                   /\ flush'[f] = flush[f]
                   /\ \A x \in InBatch(f) : bornIn'[x] = bornIn[x]
             /\ flush'[g].stage = "inserted" /\ flush'[g].tails = {}
             /\ \A x \in InBatch(g)' : bornIn'[x] = week
    <2>1. PICK batch \in Seq(Runs) :
                /\ flush' = [flush EXCEPT ![g] = [stage |-> "inserted", batch |-> batch,
                                                  tails |-> {}]]
                /\ bornIn' = [r \in Runs |-> IF r \in ToSet(batch) THEN week ELSE bornIn[r]]
                /\ rows' = rows
                /\ ToSet(batch) \subseteq ToSet(queue)
        BY <1>1, <1>4
    <2>2. /\ flush'[g].stage = "inserted" /\ flush'[g].tails = {} /\ flush'[g].batch = batch
          /\ \A f \in Flushers \ {g} : flush'[f] = flush[f]
        BY <2>1 DEF TypeOK
    <2>3. \A x \in Runs : bornIn'[x] = IF x \in ToSet(batch) THEN week ELSE bornIn[x]
        BY <2>1
    <2>4. ToSet(batch) \subseteq Runs /\ InBatch(g)' = ToSet(batch)
        BY <2>2, ToSetIn DEF InBatch
    <2>5. QED
        BY <1>2, <2>1, <2>2, <2>3, <2>4
<1>5. ASSUME NEW g \in Flushers, FlushFails(g)
      PROVE  /\ \A x \in rows : bornIn'[x] = bornIn[x] /\ x \in rows'
             /\ \A f \in Flushers \ {g} :
                   /\ flush'[f] = flush[f]
                   /\ \A x \in InBatch(f) : bornIn'[x] = bornIn[x]
             /\ flush'[g].stage = "idle" /\ flush'[g].tails = {} /\ InBatch(g)' = {}
    <2>1. /\ flush' = [flush EXCEPT ![g] = NotFlushing] /\ rows' = rows
          /\ bornIn' = [r \in Runs |-> IF r \in InBatch(g) THEN 0 ELSE bornIn[r]]
        BY <1>5 DEF FlushFails, InBatch
    <2>2. /\ flush'[g].stage = "idle" /\ flush'[g].tails = {} /\ flush'[g].batch = <<>>
          /\ \A f \in Flushers \ {g} : flush'[f] = flush[f]
        BY <2>1 DEF TypeOK, NotFlushing
    <2>3. \A x \in Runs \ InBatch(g) : bornIn'[x] = bornIn[x]
        BY <2>1
    <2>4. QED
        BY <1>2, <2>1, <2>2, <2>3, ToSetEmpty DEF InBatch, RunsInOnePlace
<1>6. ASSUME NEW g \in Flushers, FlushCommits(g)
      PROVE  /\ \A x \in rows : bornIn'[x] = bornIn[x] /\ x \in rows'
             /\ \A f \in Flushers \ {g} :
                   /\ flush'[f] = flush[f]
                   /\ \A x \in InBatch(f) : bornIn'[x] = bornIn[x]
             /\ flush'[g].stage = "idle" /\ flush'[g].tails = {} /\ InBatch(g)' = {}
    <2>1. /\ flush' = [flush EXCEPT ![g] = NotFlushing] /\ rows \subseteq rows'
          /\ bornIn' = bornIn
        BY <1>6 DEF FlushCommits
    <2>2. /\ flush'[g].stage = "idle" /\ flush'[g].tails = {} /\ flush'[g].batch = <<>>
          /\ \A f \in Flushers \ {g} : flush'[f] = flush[f]
        BY <2>1 DEF TypeOK, NotFlushing
    <2>3. QED
        BY <2>1, <2>2, ToSetEmpty DEF InBatch
<1>7. ASSUME NEW g \in Flushers, FlushCounts(g)
      PROVE  /\ bornIn' = bornIn /\ rows' = rows
             /\ \A f \in Flushers \ {g} : flush'[f] = flush[f]
             /\ flush'[g].batch = flush[g].batch
    BY <1>7 DEF FlushCounts, TypeOK
<1>8. \/ UNCHANGED <<flush, bornIn, rows>>
      \/ \E g \in Flushers : FlushBegins(g) \/ FlushCounts(g) \/ FlushCommits(g) \/ FlushFails(g)
    BY DEF Next, vars, RebuildBegins, RebuildLists, RebuildScans,
           RebuildDeletes, RebuildCommits, RebuildFails, RebuildEnds, WeekTurns
<1>9. QED
    BY <1>3, <1>4, <1>5, <1>6, <1>7, <1>8 DEF InBatch

LEMMA OwnWeekInitially == ASSUME Init PROVE OwnWeekInv
<1>1. \A f \in Flushers : flush[f].stage = "idle" /\ InBatch(f) = {} /\ flush[f].tails = {}
    BY ToSetEmpty DEF Init, NotFlushing, InBatch
<1>2. QED
    BY <1>1 DEF OwnWeekInv, OneWeek, CountingExcludes, OwnWeekRead

(* A pair that is not raced after a commit was not raced before, unless    *)
(* the commit is that of a rebuild of the pair that was not overtaken.     *)
LEMMA RacedBefore ==
    ASSUME SafetyInv, [Next]_vars, NEW p, p \notin raced'
    PROVE  /\ \A f \in Flushers : FlushCommits(f) => p \notin raced /\ p \notin behind[f]
           /\ \A r \in Rebuilders : RebuildCommits(r) =>
                 p \notin behind[r] /\ (p \in rebuild[r].pairs \/ p \notin raced)
           /\ \/ p \notin raced
              \/ \E r \in Rebuilders : RebuildCommits(r) /\ p \in rebuild[r].pairs
<1>1. \A f \in Flushers : FlushCommits(f) => p \notin raced /\ p \notin behind[f]
    <2>1. \A f \in Flushers : FlushCommits(f) => raced' = raced \union behind[f]
        BY ConstantTypes DEF FlushCommits, Wrote
    <2>2. QED
        BY <2>1
<1>2. \A r \in Rebuilders : RebuildCommits(r) =>
          p \notin behind[r] /\ (p \in rebuild[r].pairs \/ p \notin raced)
    <2>1. \A r \in Rebuilders : RebuildCommits(r) =>
              raced' = (raced \ rebuild[r].pairs) \union behind[r]
        BY DEF RebuildCommits, Wrote
    <2>2. QED
        BY <2>1
<1>3. \/ raced' = raced
      \/ \E f \in Flushers : FlushCommits(f)
      \/ \E r \in Rebuilders : RebuildCommits(r)
    BY DEF Next, vars, FlushBegins, FlushCounts, FlushFails, RebuildBegins, RebuildLists,
           RebuildScans, RebuildDeletes, RebuildFails, RebuildEnds, WeekTurns, Forgot
<1>4. QED
    BY <1>1, <1>2, <1>3

(* Commits of others that hold the same student's week wait.               *)
LEMMA OwnWeekStep ==
    ASSUME SafetyInv, CurrentInv, OwnWeekInv, [Next]_vars
    PROVE  OwnWeekInv'
<1> USE DEF SafetyInv
<1>1. OneWeek'
    BY BatchWeeks DEF OwnWeekInv, OneWeek
<1>2. CountingExcludes'
    <2>1. SUFFICES ASSUME NEW f \in Flushers, NEW g \in Flushers, f # g,
                          flush'[f].stage = "counted", flush'[g].stage = "counted"
                   PROVE  StudentWeeks(flush[f].batch)' \intersect StudentWeeks(flush[g].batch)' = {}
        BY DEF CountingExcludes
    <2>2. ASSUME NEW h \in Flushers, flush'[h].stage = "counted"
          PROVE  /\ StudentWeeks(flush[h].batch)' = StudentWeeks(flush[h].batch)
                 /\ flush'[h] = flush[h] \/ FlushCounts(h)
        <3>1. /\ InBatch(h)' = InBatch(h)
              /\ \A x \in InBatch(h) : bornIn'[x] = bornIn[x]
              /\ flush'[h] = flush[h] \/ FlushCounts(h)
            BY <2>2, BatchWeeks
        <3>2. QED
            BY <3>1 DEF StudentWeeks, InBatch
    <2>3. ASSUME NEW h \in Flushers, NEW i \in Flushers, h # i, FlushCounts(h),
                 flush'[i].stage = "counted"
          PROVE  StudentWeeks(flush[h].batch) \intersect StudentWeeks(flush[i].batch) = {}
        <3>1. flush[i].stage = "counted"
            BY <2>3 DEF FlushCounts, TypeOK
        <3>2. StudentWeeks(flush[i].batch) \subseteq HeldByOthers(h)
            BY <2>3, <3>1 DEF HeldByOthers
        <3>3. QED
            BY <2>3, <3>2 DEF FlushCounts
    <2>4. CASE FlushCounts(f)
        BY <2>1, <2>2, <2>3, <2>4
    <2>5. CASE FlushCounts(g)
        <3>1. StudentWeeks(flush[g].batch) \intersect StudentWeeks(flush[f].batch) = {}
            BY <2>1, <2>3, <2>5
        <3>2. QED
            BY <2>1, <2>2, <3>1
    <2>6. CASE flush'[f] = flush[f] /\ flush'[g] = flush[g]
        <3>1. StudentWeeks(flush[f].batch) \intersect StudentWeeks(flush[g].batch) = {}
            BY <2>1, <2>6 DEF OwnWeekInv, CountingExcludes
        <3>2. QED
            BY <2>1, <2>2, <3>1
    <2>7. QED
        BY <2>1, <2>2, <2>4, <2>5, <2>6
<1>3. OwnWeekRead'
    <2>1. SUFFICES ASSUME NEW f \in Flushers, NEW t \in flush'[f].tails,
                          NEW b \in buckets', NEW x \in b.runs,
                          t.pair \notin raced', IdOf(t) = IdOf(b),
                          bornIn'[x] \in {bornIn'[y] : y \in InBatch(f)'}
                   PROVE  x \in t.runs
        BY DEF OwnWeekRead, IdOf, InBatch
    <2>2. /\ InBatch(f)' = InBatch(f) /\ \A y \in InBatch(f) : bornIn'[y] = bornIn[y]
          /\ flush'[f] = flush[f] \/ FlushCounts(f)
        BY <2>1, BatchWeeks
    <2>3. CASE FlushCounts(f)
        <3>1. t \in buckets /\ b \in buckets
            BY <2>1, <2>3 DEF FlushCounts, TypeOK
        <3>2. SameKey(t, b)
            BY <2>1, <3>1 DEF SameKey, IdOf, TypeOK, Bucket
        <3>3. QED
            BY <3>1, <3>2 DEF TypeOK
    <2>4. CASE flush'[f] = flush[f]
        <3>1. t \in flush[f].tails /\ flush[f].stage = "counted"
            BY <2>1, <2>4 DEF TailsOK
        <3>2. t.pair \in PairsIn(flush[f].batch) /\ b.pair = t.pair
            BY <2>1, <3>1 DEF TailsOK, IdOf
        <3>3. ASSUME NEW c \in buckets, IdOf(c) = IdOf(t), x \in c.runs, t.pair \notin raced
              PROVE  x \in t.runs
            <4>1. x \in rows
                BY <3>3 DEF VersionsApart, Versions
            <4>2. bornIn'[x] = bornIn[x]
                BY <4>1, BatchWeeks
            <4>3. bornIn[x] \in {bornIn[y] : y \in InBatch(f)}
                BY <2>1, <2>2, <4>2
            <4>4. QED
                BY <3>1, <3>3, <4>3 DEF OwnWeekInv, OwnWeekRead
        <3>4. ASSUME NEW g \in Flushers, FlushCommits(g)
              PROVE  x \in t.runs
            <4>1. /\ g # f /\ flush[g].stage = "counted"
                  /\ t.pair \notin raced /\ t.pair \notin behind[g]
                <5>1. flush'[g].stage = "idle"
                    BY <3>4 DEF FlushCommits, NotFlushing, TypeOK
                <5>2. g # f
                    BY <2>4, <3>1, <5>1
                <5>3. QED
                    BY <2>1, <3>4, <5>2, RacedBefore DEF FlushCommits
            <4>2. CASE b \in buckets
                BY <2>1, <3>3, <4>1, <4>2
            <4>3. CASE \E u \in flush[g].tails :
                           /\ IdOf(b) = IdOf(u) /\ b.pair = u.pair
                           /\ b.runs = u.runs \union Absorbed(g, u.pair)
                <5>1. PICK u \in flush[g].tails :
                           /\ IdOf(b) = IdOf(u) /\ b.pair = u.pair
                           /\ b.runs = u.runs \union Absorbed(g, u.pair)
                    BY <4>3
                <5>2. u.pair \in PairsIn(flush[g].batch) /\ u.pair = t.pair
                    BY <3>2, <5>1 DEF TailsOK
                <5>3. u \in buckets
                    <6>1. u \in TailOf(g, u.pair)
                        BY DEF TailOf
                    <6>2. QED
                        BY <4>1, <5>2, <6>1 DEF CurrentInv, TailsCurrent, BucketsOf
                <5>4. x \notin Absorbed(g, u.pair)
                    <6>1. SUFFICES ASSUME x \in Absorbed(g, u.pair)
                                   PROVE  FALSE
                        OBVIOUS
                    <6>2. x \in InBatch(g) /\ PairOf[x] = u.pair
                        BY <6>1, AbsorbedAre
                    <6>3. bornIn'[x] = bornIn[x]
                        BY <3>4 DEF FlushCommits
                    <6>4. PICK y \in InBatch(f) : bornIn[x] = bornIn[y]
                        BY <2>1, <2>2, <6>3
                    <6>5. PICK z \in InBatch(f) : PairOf[z] = t.pair
                        BY <3>2 DEF PairsIn, InBatch
                    <6>6. bornIn[z] = bornIn[x]
                        BY <6>4 DEF OwnWeekInv, OneWeek
                    <6>7. <<StudentOf[PairOf[x]], bornIn[x]>> \in StudentWeeks(flush[g].batch)
                        BY <6>2 DEF StudentWeeks, InBatch
                    <6>8. <<StudentOf[PairOf[z]], bornIn[z]>> \in StudentWeeks(flush[f].batch)
                        BY DEF StudentWeeks, InBatch
                    <6>9. QED
                        BY <3>1, <4>1, <5>2, <6>2, <6>5, <6>6, <6>7, <6>8
                           DEF OwnWeekInv, CountingExcludes
                <5>5. QED
                    BY <2>1, <3>3, <4>1, <5>1, <5>3, <5>4
            <4>4. QED
                BY <2>1, <3>1, <3>4, <4>1, <4>2, <4>3, FlushWrites
        <3>5. ASSUME NEW r \in Rebuilders, RebuildCommits(r)
              PROVE  x \in t.runs
            <4>1. b \in buckets /\ IdOf(b) \notin Seen(r)
                BY <2>1, <3>1, <3>5, RebuildWrites
            <4>2. t.pair \notin behind[r] /\ (t.pair \in rebuild[r].pairs \/ t.pair \notin raced)
                BY <2>1, <3>5, RacedBefore
            <4>3. t.pair \notin rebuild[r].pairs
                <5>1. SUFFICES ASSUME t.pair \in rebuild[r].pairs
                               PROVE  FALSE
                    OBVIOUS
                <5>2. t.pair \in LookedUp(r)
                    BY <3>5, <5>1, RebuildWrites
                <5>3. IdOf(b) \in IdsOf(BucketsOf(t.pair))
                    BY <3>2, <4>1 DEF IdsOf, BucketsOf
                <5>4. QED
                    BY <4>1, <4>2, <5>2, <5>3 DEF CurrentInv, AllSeen
            <4>4. QED
                BY <2>1, <3>3, <4>1, <4>2, <4>3
        <3>6. CASE buckets' = buckets /\ raced' = raced
            BY <2>1, <3>3, <3>6
        <3>7. \/ buckets' = buckets /\ raced' = raced
              \/ \E g \in Flushers : FlushCommits(g)
              \/ \E r \in Rebuilders : RebuildCommits(r)
            BY DEF Next, vars, FlushBegins, FlushCounts, FlushFails, RebuildBegins, RebuildLists,
                   RebuildScans, RebuildDeletes, RebuildFails, RebuildEnds, WeekTurns, Forgot
        <3>8. QED
            BY <3>4, <3>5, <3>6, <3>7
    <2>5. QED
        BY <2>2, <2>3, <2>4
<1>4. QED
    BY <1>1, <1>2, <1>3 DEF OwnWeekInv

(* What a flusher will write over has the runs of its week.                *)
THEOREM OwnWeekHolds == Spec => []OwnWeekInv
<1>1. Init => OwnWeekInv
    BY OwnWeekInitially
<1>2. SafetyInv /\ CurrentInv /\ OwnWeekInv /\ [Next]_vars => OwnWeekInv'
    BY OwnWeekStep
<1>3. QED
    BY <1>1, <1>2, SafetyInvHolds, CurrentHolds, PTL DEF Spec

(* A flusher's transaction forgets no run of its own week, not even when   *)
(* it was overtaken (apply_run_bucket_trends updates by id, the upserts of *)
(* the weekly statistics before it lock the student's week).               *)
THEOREM OwnWeekIsKept == Spec => OwnWeekKept
<1> DEFINE Kept == \A f \in Flushers :
          FlushCommits(f) =>
              \A r \in rows :
                  /\ PairOf[r] \notin raced
                  /\ r \in Counted(PairOf[r])
                  /\ bornIn[r] \in {bornIn[x] : x \in ToSet(flush[f].batch)}
                  => r \in Counted(PairOf[r])'
<1>1. SafetyInv /\ OwnWeekInv => Kept
    <2>1. SUFFICES ASSUME SafetyInv, OwnWeekInv, NEW f \in Flushers, FlushCommits(f),
                          NEW r \in rows, PairOf[r] \notin raced,
                          r \in Counted(PairOf[r]),
                          bornIn[r] \in {bornIn[x] : x \in InBatch(f)}
                   PROVE  r \in Counted(PairOf[r])'
        BY DEF InBatch
    <2>2. PICK b \in buckets : b.pair = PairOf[r] /\ r \in b.runs
        BY <2>1 DEF Counted, BucketsOf
    <2>3. \A c \in buckets' : c.pair = PairOf[r] /\ r \in c.runs => r \in Counted(PairOf[r])'
        BY DEF Counted, BucketsOf
    <2>4. CASE b \in buckets'
        BY <2>2, <2>3, <2>4
    <2>5. CASE \E t \in flush[f].tails, c \in buckets' :
                   /\ IdOf(b) = IdOf(t) /\ c.pair = t.pair /\ b.pair = t.pair
                   /\ t.runs \subseteq c.runs
        <3>1. PICK t \in flush[f].tails, c \in buckets' :
                   /\ IdOf(b) = IdOf(t) /\ c.pair = t.pair /\ b.pair = t.pair
                   /\ t.runs \subseteq c.runs
            BY <2>5
        <3>2. r \in t.runs
            BY <2>1, <2>2, <3>1 DEF OwnWeekInv, OwnWeekRead
        <3>3. QED
            BY <2>2, <2>3, <3>1, <3>2
    <2>6. b \in buckets' \/ \E t \in flush[f].tails, c \in buckets' :
                   /\ IdOf(b) = IdOf(t) /\ c.pair = t.pair /\ b.pair = t.pair
                   /\ t.runs \subseteq c.runs
        <3>1. SafetyInv /\ f \in Flushers /\ FlushCommits(f)
            BY <2>1
        <3>2. \A a \in buckets :
                  \/ a \in buckets'
                  \/ /\ a.pair \in PairsIn(flush[f].batch)
                     /\ \E t \in flush[f].tails, c \in buckets' :
                           /\ IdOf(a) = IdOf(t) /\ c.pair = t.pair /\ a.pair = t.pair
                           /\ t.runs \subseteq c.runs
            BY <3>1, FlushWrites
        <3>3. QED
            BY <3>2
    <2>7. QED
        BY <2>4, <2>5, <2>6
<1> HIDE DEF Kept
<1>2. SafetyInv /\ OwnWeekInv /\ [Next]_vars => [Kept]_vars
    BY <1>1
<1>3. QED
    BY <1>2, SafetyInvHolds, OwnWeekHolds, PTL DEF Spec, OwnWeekKept, Kept

-------------------------------------------------------------------------------
(* The layout of the buckets.                                              *)

(* created_at of runs that keep it stays in order.                         *)
LEMMA SortedKept ==
    ASSUME SafetyInv, [Next]_vars, NEW set,
           set \subseteq ToSet(created), set \subseteq ToSet(created')
    PROVE  Keep(created', set) = Keep(created, set)
<1> USE DEF SafetyInv
<1>1. CASE created' = created
    BY <1>1
<1>2. ASSUME NEW f \in Flushers, FlushBegins(f)
      PROVE  Keep(created', set) = Keep(created, set)
    <2>1. PICK n \in 1 .. BatchSize :
              n <= Len(queue) /\ created' = created \o SubSeq(queue, 1, n)
        BY <1>2, Zenon DEF FlushBegins
    <2>2. queue \in Seq(Runs) /\ created \in Seq(Runs) /\ n \in 0 .. Len(queue)
        BY <2>1, BucketsAssumption DEF TypeOK
    <2> DEFINE batch == SubSeq(queue, 1, n)
               rest == SubSeq(queue, n + 1, Len(queue))
    <2>3. batch \in Seq(Runs) /\ rest \in Seq(Runs) /\ queue = batch \o rest
        BY <2>2, SplitSequence
    <2> HIDE DEF batch, rest
    <2>4. ToSet(batch) \subseteq ToSet(queue)
        BY <2>3, ToSetConcat
    <2>5. ToSet(batch) \intersect set = {}
        BY <2>4 DEF RunsInOnePlace
    <2>6. Keep(created \o batch, set) = Keep(created, set) \o Keep(batch, set)
        BY <2>2, <2>3, KeepConcat
    <2>7. Keep(batch, set) = <<>>
        BY <2>3, <2>5, KeepNone
    <2>8. Keep(created, set) \o <<>> = Keep(created, set)
        BY <2>2, KeepElements, ConcatEmptySeq
    <2>9. QED
        BY <2>1, <2>6, <2>7, <2>8 DEF batch
<1>3. ASSUME NEW f \in Flushers, FlushFails(f)
      PROVE  Keep(created', set) = Keep(created, set)
    <2> DEFINE left == Runs \ InBatch(f)
    <2>1. created' = Keep(created, left)
        BY <1>3 DEF FlushFails, InBatch
    <2>2. created \in Seq(Runs)
        BY DEF TypeOK
    <2> HIDE DEF left
    <2>3. ToSet(created') = ToSet(created) \intersect left
        BY <2>1, <2>2, KeepElements
    <2>4. Keep(created', set) = Keep(created, left \intersect set)
        BY <2>1, <2>2, KeepKeep
    <2>5. Keep(created, left \intersect set) = Keep(created, set)
        <3>1. \A x \in ToSet(created) : x \in left \intersect set <=> x \in set
            BY <2>3
        <3> DEFINE X == left \intersect set
        <3>2. \A x \in ToSet(created) : x \in X <=> x \in set
            BY <3>1
        <3> HIDE DEF X
        <3>3. Keep(created, X) = Keep(created, set)
            BY <2>2, <3>2, KeepAgree
        <3>4. QED
            BY <3>3 DEF X
    <2>6. QED
        BY <2>4, <2>5
<1>4. \/ created' = created
      \/ \E f \in Flushers : FlushBegins(f) \/ FlushFails(f)
    BY DEF Next, vars, FlushCounts, FlushCommits, RebuildBegins, RebuildLists, RebuildScans,
           RebuildDeletes, RebuildCommits, RebuildFails, RebuildEnds, WeekTurns
<1>5. QED
    BY <1>1, <1>2, <1>3, <1>4

(* The runs counted for a pair are committed ones, with a created_at.      *)
LEMMA CountedAreCreated ==
    ASSUME SafetyInv, NEW p
    PROVE  /\ Counted(p) \subseteq rows
           /\ Counted(p) \subseteq ToSet(created)
           /\ Counted(p) \subseteq RunsOf(p)
           /\ Sorted(Counted(p)) \in Seq(Runs) /\ IsInjective(Sorted(Counted(p)))
           /\ ToSet(Sorted(Counted(p))) = Counted(p)
<1> USE DEF SafetyInv
<1>1. \A b \in buckets : b.runs \subseteq {x \in rows : PairOf[x] = b.pair}
    BY DEF VersionsApart, Versions
<1>2. Counted(p) \subseteq {x \in rows : PairOf[x] = p}
    BY <1>1 DEF Counted, BucketsOf
<1>3. rows \subseteq ToSet(created) /\ rows \subseteq Runs
    BY DEF RunsInOnePlace, TypeOK
<1>4. created \in Seq(Runs) /\ IsInjective(created)
    BY DEF TypeOK, RunsInOnePlace
<1>5. /\ Sorted(Counted(p)) \in Seq(Runs) /\ IsInjective(Sorted(Counted(p)))
      /\ ToSet(Sorted(Counted(p))) = ToSet(created) \intersect Counted(p)
    BY <1>4, KeepElements, KeepDistinct DEF Sorted
<1>6. QED
    BY <1>2, <1>3, <1>5 DEF RunsOf

(* Buckets and their runs, when they are laid out as a sequence says.      *)
LEMMA LaidOut ==
    ASSUME NEW R, NEW order \in Seq(Runs), NEW seq \in Seq(Runs), IsInjective(seq),
           {<<b.index, b.runs>> : b \in R} = Layout(seq),
           Keep(order, ToSet(seq)) = seq
    PROVE  {<<b.index, b.runs>> : b \in R} = Layout(Keep(order, UNION {b.runs : b \in R}))
<1>1. UNION {b.runs : b \in R} = ToSet(seq)
    BY LayoutCovers
<1>2. QED
    BY <1>1

(* Canonical in terms of Layout, before and after a step.                  *)
LEMMA CanonicalIs ==
    ASSUME NEW p
    PROVE  /\ Canonical(p) <=> {<<b.index, b.runs>> : b \in BucketsOf(p)}
                                   = Layout(Keep(created, UNION {b.runs : b \in BucketsOf(p)}))
           /\ Canonical(p)' <=> {<<b.index, b.runs>> : b \in BucketsOf(p)'}
                                   = Layout(Keep(created', UNION {b.runs : b \in BucketsOf(p)'}))
BY DEF Canonical, Layout, Chunk, ChunkIndices, Sorted, Counted

(* What the layout says of a bucket.                                       *)
Content(b) == <<b.index, b.runs>>

(* The buckets of a pair after a flusher's commit, when its last one is    *)
(* still there: the others, the last with the absorbed runs, the chunks.   *)
LEMMA FlushedRows ==
    ASSUME SafetyInv, NEW f \in Flushers, FlushCommits(f),
           NEW p \in PairsIn(flush[f].batch), TailOf(f, p) \subseteq buckets
    PROVE  {Content(b) : b \in BucketsOf(p)'} =
               {Content(b) : b \in BucketsOf(p) \ TailOf(f, p)}
                   \union {<<t.index, t.runs \union Absorbed(f, p)>> : t \in TailOf(f, p)}
                   \union {Content(d) : d \in ChunksOf(f, p)}
<1> USE DEF SafetyInv
<1> DEFINE W     == WithIds(f, Chunks(f))
           there == {b \in Filled(f) : IdOf(b) \in IdsOf(buckets)}
           kept  == {b \in buckets : IdOf(b) \notin IdsOf(there)}
           A     == Absorbed(f, p)
           T     == TailOf(f, p)
           filled == {<<t.index, t.runs \union A>> : t \in T}
           drafts == {Content(d) : d \in ChunksOf(f, p)}
           others == {Content(b) : b \in BucketsOf(p) \ T}
<1>1. buckets' = kept \union there \union W
    BY DEF FlushCommits
<1>2. /\ \A b \in W : b.pair = p => Content(b) \in drafts
      /\ \A d \in ChunksOf(f, p) : \E b \in W : b.pair = p /\ Content(b) = Content(d)
    <2>1. \A d \in Chunks(f) : d.pair \in Pairs /\ d.index \in Nat /\ d.runs \in SUBSET Runs
        <3>1. \A d \in Chunks(f) :
                  /\ d.pair \in PairsIn(flush[f].batch) /\ d.index \in Nat
                  /\ d.runs \subseteq InBatch(f)
            BY ChunksAre
        <3>2. InBatch(f) \subseteq Runs
            BY ToSetIn DEF TypeOK, InBatch
        <3>3. QED
            BY <3>1, <3>2, PairsInType
    <2>2. \A q \in PairsIn(flush[f].batch) : \A d \in ChunksOf(f, q) : d \in Chunks(f)
        BY DEF Chunks
    <2>3. \A d \in Chunks(f) : d.pair = p => d \in ChunksOf(f, p)
        <3>1. \A q : \A d \in ChunksOf(f, q) : d.pair = q
            BY DEF ChunksOf
        <3>2. QED
            BY <3>1 DEF Chunks
    <2>4. \A d \in ChunksOf(f, p) : d.pair = p
        BY DEF ChunksOf
    <2>5. /\ \A b \in W : \E d \in Chunks(f) :
                b.pair = d.pair /\ b.index = d.index /\ b.runs = d.runs
          /\ \A d \in Chunks(f) : \E b \in W :
                b.pair = d.pair /\ b.index = d.index /\ b.runs = d.runs
        BY <2>1, WithIdsAre
    <2> HIDE DEF W
    <2>6. QED
        BY <2>2, <2>3, <2>4, <2>5 DEF Content
<1>3. ASSUME NEW b \in there, b.pair = p
      PROVE  Content(b) \in filled /\ A # {}
    <2>1. PICK t \in {c \in flush[f].tails : Absorbed(f, c.pair) # {}} :
              b = [t EXCEPT !.runs = @ \union Absorbed(f, t.pair)]
        BY DEF Filled
    <2>2. t \in Bucket
        BY <2>1 DEF TypeOK
    <2>3. b.pair = t.pair /\ b.index = t.index /\ b.runs = t.runs \union Absorbed(f, t.pair)
        BY <2>1, <2>2 DEF Bucket
    <2>4. t \in T
        BY <1>3, <2>1, <2>3 DEF TailOf
    <2>5. QED
        BY <1>3, <2>1, <2>3, <2>4 DEF Content
<1>4. ASSUME NEW t \in T, A # {}
      PROVE  \E b \in there : /\ b.pair = p /\ Content(b) = <<t.index, t.runs \union A>>
                              /\ IdOf(b) = IdOf(t)
    <2> DEFINE b == [t EXCEPT !.runs = @ \union Absorbed(f, t.pair)]
    <2>1. t \in flush[f].tails /\ t.pair = p /\ t \in Bucket
        BY DEF TailOf, TypeOK
    <2>2. b \in Filled(f)
        BY <1>4, <2>1 DEF Filled
    <2>3. /\ b.pair = t.pair /\ b.index = t.index /\ b.gen = t.gen
          /\ b.runs = t.runs \union A
        BY <2>1 DEF Bucket
    <2>4. IdOf(b) = IdOf(t)
        BY <2>3 DEF IdOf
    <2>5. IdOf(b) \in IdsOf(buckets)
        BY <2>4 DEF IdsOf
    <2> HIDE DEF b
    <2>6. QED
        BY <2>1, <2>2, <2>3, <2>4, <2>5 DEF Content
<1>5. ASSUME NEW b \in buckets, NEW t \in T, IdOf(b) = IdOf(t)
      PROVE  b = t
    BY <1>5 DEF IdOf, TypeOK, SameKey
<1>6. ASSUME NEW b \in buckets, b.pair = p, b \notin kept
      PROVE  b \in T /\ A # {}
    <2>1. PICK c \in there : IdOf(b) = IdOf(c)
        BY <1>6 DEF IdsOf
    <2>2. c.pair = p
        BY <1>6, <2>1 DEF IdOf
    <2>3. A # {}
        BY <1>3, <2>2
    <2>4. PICK t \in flush[f].tails : IdOf(c) = IdOf(t)
        <3>1. c \in Filled(f)
            OBVIOUS
        <3>2. QED
            BY <3>1, FilledAre DEF IdOf
    <2>5. t \in T
        BY <1>6, <2>1, <2>4 DEF TailOf, IdOf
    <2>6. QED
        BY <1>5, <2>1, <2>3, <2>4, <2>5
<1>7. kept \subseteq buckets
    OBVIOUS
<1>8. ASSUME NEW t \in T, A # {}
      PROVE  t \notin kept
    BY <1>4, <1>8 DEF IdsOf
<1>9. \A t \in T : t \in buckets /\ t.pair = p
    BY DEF TailOf
<1> HIDE DEF W, there, kept, A, T
<1>10. ASSUME NEW b \in buckets', b.pair = p
       PROVE  Content(b) \in others \union filled \union drafts
    <2>1. CASE b \in W
        BY <1>2, <1>10, <2>1
    <2>2. CASE b \in there
        BY <1>3, <1>10, <2>2
    <2>3. CASE b \in kept /\ b \notin T
        BY <1>7, <1>10, <2>3 DEF BucketsOf
    <2>4. CASE b \in kept /\ b \in T
        <3>1. A = {}
            BY <1>8, <2>4
        <3>2. Content(b) = <<b.index, b.runs \union A>>
            BY <3>1 DEF Content
        <3>3. QED
            BY <2>4, <3>2
    <2>5. QED
        BY <1>1, <2>1, <2>2, <2>3, <2>4
<1>11. ASSUME NEW b \in BucketsOf(p), b \notin T
       PROVE  b \in buckets' /\ b.pair = p
    BY <1>1, <1>6, <1>11 DEF BucketsOf
<1>12. ASSUME NEW t \in T
       PROVE  \E b \in buckets' : b.pair = p /\ Content(b) = <<t.index, t.runs \union A>>
    <2>1. CASE A # {}
        BY <1>1, <1>4, <2>1
    <2>2. CASE A = {}
        <3>1. t \in kept
            BY <1>6, <1>9, <2>2
        <3>2. Content(t) = <<t.index, t.runs \union A>>
            BY <2>2 DEF Content
        <3>3. QED
            BY <1>1, <1>9, <3>1, <3>2
    <2>3. QED
        BY <2>1, <2>2
<1>13. \A d \in ChunksOf(f, p) : \E b \in buckets' : b.pair = p /\ Content(b) = Content(d)
    BY <1>1, <1>2
<1>14. BucketsOf(p)' = {b \in buckets' : b.pair = p}
    BY DEF BucketsOf
<1>15. {Content(b) : b \in BucketsOf(p)'} = others \union filled \union drafts
    <2>1. ASSUME NEW c \in others \union filled \union drafts
          PROVE  \E b \in BucketsOf(p)' : c = Content(b)
        BY <1>11, <1>12, <1>13, <1>14
    <2>2. ASSUME NEW b \in BucketsOf(p)'
          PROVE  Content(b) \in others \union filled \union drafts
        BY <1>10, <1>14
    <2> HIDE DEF others, filled, drafts
    <2>3. QED
        BY <2>1, <2>2
<1>16. QED
    BY <1>15 DEF A, T

(* What is left of a list without its first m.                             *)
LEMMA KeepsRest ==
    ASSUME NEW S, NEW seq \in Seq(S), IsInjective(seq), NEW m \in 0 .. Len(seq)
    PROVE  Keep(seq, S \ {seq[i] : i \in 1 .. m}) = SubSeq(seq, m + 1, Len(seq))
BY KeepBehind

(* A flusher that has absorbed, chunked and indexed a pair's new runs from *)
(* the pair's own last bucket leaves the layout of the runs behind the old *)
(* ones.                                                                   *)
LEMMA FlushExtends ==
    ASSUME SafetyInv, CurrentInv, NEW f \in Flushers, FlushCommits(f),
           NEW p \in PairsIn(flush[f].batch) \ behind[f],
           NEW s \in Seq(Runs), IsInjective(s),
           {Content(b) : b \in BucketsOf(p)} = Layout(s)
    PROVE  {Content(b) : b \in BucketsOf(p)'} = Layout(s \o NewRuns(f, p))
<1> USE DEF SafetyInv
<1> DEFINE new  == NewRuns(f, p)
           T    == TailOf(f, p)
           A    == Absorbed(f, p)
           rest == Remaining(f, p)
<1>1. new \in Seq(Runs) /\ IsInjective(new)
    BY NewRunsAre
<1>2. T = {b \in BucketsOf(p) : \A c \in BucketsOf(p) : c.index <= b.index}
    <2>1. flush[f].stage = "counted"
        BY DEF FlushCommits
    <2>2. QED
        BY <2>1 DEF CurrentInv, TailsCurrent
<1>3. T \subseteq BucketsOf(p) /\ T \subseteq buckets
    BY <1>2 DEF BucketsOf
<1>4. {Content(b) : b \in BucketsOf(p)'} =
          {Content(b) : b \in BucketsOf(p) \ T}
              \union {<<t.index, t.runs \union A>> : t \in T}
              \union {Content(d) : d \in ChunksOf(f, p)}
    BY <1>3, FlushedRows
<1>5. {Content(d) : d \in ChunksOf(f, p)} =
          {<<NextIndex(f, p) + k, Chunk(rest, k)>> : k \in ChunkIndices(rest)}
    <2> DEFINE Draft(k) == [pair |-> p, index |-> NextIndex(f, p) + k, runs |-> Chunk(rest, k)]
    <2>1. ChunksOf(f, p) = {Draft(k) : k \in ChunkIndices(rest)}
        BY ChunksOfAre
    <2>2. \A k : Content(Draft(k)) = <<NextIndex(f, p) + k, Chunk(rest, k)>>
        BY DEF Content
    <2> HIDE DEF Draft, rest
    <2>3. QED
        BY <2>1, <2>2
<1>6. A = {new[i] : i \in {j \in DOMAIN new : j <= Room(f, p)}}
    BY DEF Absorbed
<1>7. rest = Keep(new, Runs \ A)
    BY DEF Remaining
<1>8. DOMAIN new = 1 .. Len(new) /\ Len(new) \in Nat
    BY <1>1
<1> HIDE DEF new, A, rest
<1>9. CASE s = <<>>
    <2>1. Layout(s) = {}
        <3>1. ChunkIndices(s) = {}
            BY <1>9 DEF ChunkIndices
        <3>2. QED
            BY <3>1 DEF Layout
    <2>2. BucketsOf(p) = {} /\ T = {}
        BY <1>3, <2>1
    <2>3. A = {} /\ NextIndex(f, p) = 0
        <3>1. NextIndex(f, p) = 0
            BY <2>2 DEF NextIndex
        <3>2. A = {}
            BY <2>2, AbsorbedAre DEF A
        <3>3. QED
            BY <3>1, <3>2
    <2>4. rest = new
        <3>1. ToSet(new) \subseteq Runs \ A
            BY <1>1, <2>3, ToSetIn
        <3>2. QED
            BY <1>1, <1>7, <3>1, KeepAll
    <2>5. {<<0 + k, Chunk(new, k)>> : k \in ChunkIndices(new)} = Layout(new)
        <3>1. \A k \in ChunkIndices(new) : k \in Nat
            BY <1>1, ChunksPartition
        <3>2. \A k \in ChunkIndices(new) : 0 + k = k
            BY <3>1
        <3>3. QED
            BY <3>2 DEF Layout
    <2>6. s \o new = new
        BY <1>1, <1>9, ConcatEmptySeq
    <2>7. QED
        BY <1>4, <1>5, <2>2, <2>3, <2>4, <2>5, <2>6 DEF new
<1>10. CASE s # <<>>
    <2>1. PICK K \in ChunkIndices(s) :
              /\ K \in Nat
              /\ BucketSize * K < Len(s) /\ Len(s) <= BucketSize * K + BucketSize
              /\ \A k \in ChunkIndices(s) : k <= K
        BY <1>10, LayoutEnd
    <2>2. PICK t \in BucketsOf(p) : Content(t) = <<K, Chunk(s, K)>>
        <3>1. <<K, Chunk(s, K)>> \in {Content(b) : b \in BucketsOf(p)}
            BY <2>1 DEF Layout
        <3>2. QED
            BY <3>1
    <2>3. t.index = K /\ t.runs = Chunk(s, K)
        BY <2>2 DEF Content
    <2>4. ASSUME NEW c \in BucketsOf(p)
          PROVE  c.index <= K
        <3>1. Content(c) \in Layout(s)
            OBVIOUS
        <3>2. c.index \in ChunkIndices(s)
            BY <3>1 DEF Layout, Content
        <3>3. QED
            BY <2>1, <3>2
    <2>5. T = {t}
        <3>1. t \in T
            BY <1>2, <2>3, <2>4
        <3>2. QED
            BY <3>1, AbsorbedAre
    <2>6. {Content(b) : b \in BucketsOf(p) \ T} = {c \in Layout(s) : c[1] # K}
        <3>1. ASSUME NEW b \in BucketsOf(p), b.index = K
              PROVE  b = t
            BY <2>3, <3>1 DEF BucketsOf, TypeOK, SameKey
        <3>2. \A b : Content(b)[1] = b.index
            BY DEF Content
        <3> HIDE DEF T
        <3>3. \A b \in BucketsOf(p) : b \in T <=> Content(b)[1] = K
            BY <2>3, <2>5, <3>1, <3>2
        <3>4. QED
            BY <3>3
    <2> DEFINE z == BucketSize * K
               room == Room(f, p)
               m == IF room < Len(new) THEN room ELSE Len(new)
    <2>7. room = BucketSize - Cardinality(Chunk(s, K)) /\ NextIndex(f, p) = K + 1
        BY <2>3, <2>5 DEF Room, NextIndex
    <2>8. Cardinality(Chunk(s, K)) = Len(s) - z
        <3>1. Cardinality(Chunk(s, K)) =
                  IF Len(s) < z + BucketSize THEN Len(s) - z ELSE BucketSize
            BY <2>1, ChunkCardinality
        <3>2. z \in Nat /\ BucketSize \in Nat /\ z < Len(s) /\ Len(s) <= z + BucketSize
            BY <2>1, TimesSize, SizeIsPositive
        <3> HIDE DEF z
        <3>3. QED
            BY <3>1, <3>2
    <2>9. z \in Nat /\ BucketSize \in Nat /\ Len(s) \in Nat
          /\ z < Len(s) /\ Len(s) <= z + BucketSize
        BY <2>1, TimesSize, SizeIsPositive
    <2> HIDE DEF z, room
    <2>10. /\ m \in 0 .. Len(new) /\ Len(s) + m <= z + BucketSize
           /\ m = Len(new) \/ Len(s) + m = z + BucketSize
           /\ room = z + BucketSize - Len(s)
        BY <1>8, <2>7, <2>8, <2>9
    <2>11. A = {new[i] : i \in 1 .. m}
        <3>1. {j \in DOMAIN new : j <= room} = 1 .. m
            BY <1>8, <2>9, <2>10
        <3> HIDE DEF m
        <3>2. A = {new[i] : i \in {j \in DOMAIN new : j <= room}}
            BY <1>6 DEF room
        <3>3. QED
            BY <3>1, <3>2
    <2> HIDE DEF m
    <2>12. rest = SubSeq(new, m + 1, Len(new))
        <3>1. m \in 0 .. Len(new)
            BY <2>10
        <3>2. Keep(new, Runs \ {new[i] : i \in 1 .. m}) = SubSeq(new, m + 1, Len(new))
            BY ONLY <1>1, <3>1, KeepsRest, Zenon
        <3>3. QED
            BY <1>7, <2>11, <3>2
    <2>13. Layout(s \o new) =
               {c \in Layout(s) : c[1] # K}
                   \union {<<K, Chunk(s, K) \union A>>}
                   \union {<<K + 1 + k, Chunk(rest, k)>> : k \in ChunkIndices(rest)}
        <3> DEFINE left == SubSeq(new, m + 1, Len(new))
        <3>1. /\ BucketSize * K < Len(s) /\ Len(s) + m <= BucketSize * K + BucketSize
              /\ m = Len(new) \/ Len(s) + m = BucketSize * K + BucketSize
            BY <2>9, <2>10 DEF z
        <3>2. Layout(s \o new) =
                  {c \in Layout(s) : c[1] # K}
                      \union {<<K, Chunk(s, K) \union {new[i] : i \in 1 .. m}>>}
                      \union {<<K + 1 + k, Chunk(left, k)>> : k \in ChunkIndices(left)}
            BY <1>1, <2>1, <2>10, <3>1, LayoutAppend
        <3> HIDE DEF left
        <3>3. QED
            BY <2>11, <2>12, <3>2 DEF left
    <2>14. {<<b.index, b.runs \union A>> : b \in T} = {<<K, Chunk(s, K) \union A>>}
        BY <2>3, <2>5
    <2> HIDE DEF T
    <2>15. QED
        BY <1>4, <1>5, <2>6, <2>7, <2>13, <2>14 DEF new
<1>11. QED
    BY <1>9, <1>10

(* A flusher that was not overtaken leaves the pair's buckets canonical.   *)
LEMMA FlushKeepsLayout ==
    ASSUME SafetyInv, CurrentInv, NewerThanCounted, NEW f \in Flushers, FlushCommits(f),
           NEW p \in PairsIn(flush[f].batch) \ behind[f], Canonical(p)
    PROVE  Canonical(p)'
<1> USE DEF SafetyInv
<1> DEFINE s   == Sorted(Counted(p))
           new == NewRuns(f, p)
<1>1. s \in Seq(Runs) /\ IsInjective(s) /\ ToSet(s) = Counted(p)
    BY CountedAreCreated
<1>2. new \in Seq(Runs) /\ created \in Seq(Runs) /\ IsInjective(created)
    BY NewRunsAre DEF TypeOK, RunsInOnePlace
<1>3. {Content(b) : b \in BucketsOf(p)} = Layout(s)
    BY CanonicalIs DEF Content, Sorted, Counted
<1>4. {Content(b) : b \in BucketsOf(p)'} = Layout(s \o new)
    <2> HIDE DEF s
    <2>1. QED
        BY <1>1, <1>3, FlushExtends
<1>5. created' = created
    BY DEF FlushCommits
<1>6. Keep(created, Counted(p) \union ToSet(new)) = s \o new
    BY DEF NewerThanCounted, Sorted
<1> HIDE DEF s, new
<1>7. ToSet(s \o new) = Counted(p) \union ToSet(new) /\ s \o new \in Seq(Runs)
    BY <1>1, <1>2, ToSetConcat, ConcatProperties
<1>8. Keep(created', ToSet(s \o new)) = s \o new
    BY <1>5, <1>6, <1>7
<1>9. IsInjective(s \o new)
    BY <1>2, <1>6, KeepDistinct
<1>10. {<<b.index, b.runs>> : b \in BucketsOf(p)'}
           = Layout(Keep(created', UNION {b.runs : b \in BucketsOf(p)'}))
    BY <1>2, <1>4, <1>5, <1>7, <1>8, <1>9, LaidOut DEF Content
<1>11. QED
    BY <1>10, CanonicalIs

(* A rebuild that has seen all buckets of a pair leaves the layout of the  *)
(* runs it has listed.                                                     *)
LEMMA RebuildLaysOut ==
    ASSUME SafetyInv, CurrentInv, ListedInOrder, NEW r \in Rebuilders, RebuildCommits(r),
           NEW p \in rebuild[r].pairs \ behind[r]
    PROVE  Canonical(p)'
<1> USE DEF SafetyInv
<1> DEFINE W      == WithIds(r, Rebuilt(r))
           listed == rebuild[r].listed
           mine   == ListedOf(r, p)
<1>1. /\ rebuild[r].stage = "scan" /\ rebuild[r].todo = {}
      /\ buckets' = Undeleted(r) \union W /\ created' = created
    BY DEF RebuildCommits
<1>2. RebuildOK(r)
    BY DEF RebuildsOK
<1>3. /\ listed \in Seq(Runs) /\ created \in Seq(Runs)
      /\ ToSet(listed) \subseteq Runs
      /\ listed = Keep(created, ToSet(listed))
    BY <1>1, ToSetIn DEF TypeOK, ListedInOrder, Sorted
<1>4. /\ mine \in Seq(Runs) /\ IsInjective(mine) /\ mine = Keep(listed, RunsOf(p))
      /\ ToSet(mine) = {x \in ToSet(listed) : PairOf[x] = p}
      /\ RebuiltOf(r, p) = {[pair |-> p, index |-> k, runs |-> Chunk(mine, k)] :
                               k \in ChunkIndices(mine)}
    BY <1>1, RebuiltOfIs DEF ListedOf
<1>5. Keep(created, ToSet(mine)) = mine
    <2>1. ToSet(mine) = ToSet(listed) \intersect RunsOf(p)
        BY <1>3, <1>4 DEF RunsOf
    <2> HIDE DEF mine, listed
    <2>2. Keep(Keep(created, ToSet(listed)), RunsOf(p))
              = Keep(created, ToSet(listed) \intersect RunsOf(p))
        BY <1>3, KeepKeep
    <2>3. QED
        BY <1>3, <1>4, <2>1, <2>2
<1>6. \A b \in Undeleted(r) : b.pair # p
    <2>1. p \in LookedUp(r) \ behind[r]
        BY <1>1 DEF LookedUp
    <2>2. IdsOf(BucketsOf(p)) \subseteq Seen(r)
        BY <2>1 DEF CurrentInv, AllSeen
    <2>3. Seen(r) = LockedBy(r)
        BY <1>1, <1>2 DEF RebuildOK, Seen, LockedBy
    <2>4. QED
        BY <2>2, <2>3 DEF Undeleted, IdsOf, BucketsOf
<1>7. BucketsOf(p)' = {b \in W : b.pair = p}
    BY <1>1, <1>6 DEF BucketsOf
<1> HIDE DEF mine
<1>8. {Content(b) : b \in BucketsOf(p)'} = Layout(mine)
    <2>1. \A d \in Rebuilt(r) : d.pair \in Pairs /\ d.index \in Nat /\ d.runs \in SUBSET Runs
        <3>1. \A d \in Rebuilt(r) :
                  /\ d.pair \in rebuild[r].pairs /\ d.index \in Nat
                  /\ d.runs \subseteq ToSet(listed)
            BY <1>1, RebuiltAre
        <3>2. rebuild[r].pairs \subseteq Pairs
            BY DEF TypeOK
        <3>3. QED
            BY <1>3, <3>1, <3>2
    <2>2. /\ \A b \in W : \E d \in Rebuilt(r) :
                b.pair = d.pair /\ b.index = d.index /\ b.runs = d.runs
          /\ \A d \in Rebuilt(r) : \E b \in W :
                b.pair = d.pair /\ b.index = d.index /\ b.runs = d.runs
        BY <2>1, WithIdsAre
    <2>3. \A d : d \in Rebuilt(r) /\ d.pair = p <=> d \in RebuiltOf(r, p)
        <3>1. \A q : \A d \in RebuiltOf(r, q) : d.pair = q
            BY DEF RebuiltOf
        <3>2. QED
            BY <3>1 DEF Rebuilt
    <2>4. /\ \A d \in RebuiltOf(r, p) :
                \E k \in ChunkIndices(mine) : d.index = k /\ d.runs = Chunk(mine, k)
          /\ \A k \in ChunkIndices(mine) : \E d \in RebuiltOf(r, p) :
                d.index = k /\ d.runs = Chunk(mine, k)
        <3> DEFINE Draft(k) == [pair |-> p, index |-> k, runs |-> Chunk(mine, k)]
        <3>1. RebuiltOf(r, p) = {Draft(k) : k \in ChunkIndices(mine)}
            BY <1>4
        <3>2. \A k : Draft(k).index = k /\ Draft(k).runs = Chunk(mine, k)
            OBVIOUS
        <3> HIDE DEF Draft
        <3>3. QED
            BY <3>1, <3>2
    <2>5. \A c : c \in Layout(mine) <=> \E k \in ChunkIndices(mine) : c = <<k, Chunk(mine, k)>>
        BY DEF Layout
    <2> HIDE DEF W
    <2>6. ASSUME NEW b \in BucketsOf(p)'
          PROVE  Content(b) \in Layout(mine)
        <3>1. b \in W /\ b.pair = p
            BY <1>7
        <3>2. PICK d \in Rebuilt(r) :
                  b.pair = d.pair /\ b.index = d.index /\ b.runs = d.runs
            BY <2>2, <3>1
        <3>3. PICK k \in ChunkIndices(mine) : d.index = k /\ d.runs = Chunk(mine, k)
            BY <2>3, <2>4, <3>1, <3>2
        <3>4. QED
            BY <2>5, <3>2, <3>3 DEF Content
    <2>7. ASSUME NEW c \in Layout(mine)
          PROVE  \E b \in BucketsOf(p)' : c = Content(b)
        <3>1. PICK k \in ChunkIndices(mine) : c = <<k, Chunk(mine, k)>>
            BY <2>5
        <3>2. PICK d \in RebuiltOf(r, p) : d.index = k /\ d.runs = Chunk(mine, k)
            BY <2>4
        <3>3. d \in Rebuilt(r) /\ d.pair = p
            BY <2>3
        <3>4. PICK b \in W : b.pair = d.pair /\ b.index = d.index /\ b.runs = d.runs
            BY <2>2, <3>3
        <3>5. QED
            BY <1>7, <3>1, <3>2, <3>3, <3>4 DEF Content
    <2>8. QED
        BY <2>6, <2>7
<1>9. {<<b.index, b.runs>> : b \in BucketsOf(p)'}
          = Layout(Keep(created', UNION {b.runs : b \in BucketsOf(p)'}))
    BY <1>1, <1>3, <1>4, <1>5, <1>8, LaidOut DEF Content
<1>10. QED
    BY <1>9, CanonicalIs

(* When the buckets of a pair stay, so does their layout.                  *)
LEMMA LayoutStays ==
    ASSUME SafetyInv, [Next]_vars, SafetyInv', NEW p, BucketsOf(p)' = BucketsOf(p)
    PROVE  /\ Canonical(p) => Canonical(p)'
           /\ Counted(p)' = Counted(p)
           /\ Keep(created', Counted(p)) = Keep(created, Counted(p))
<1>1. Counted(p) \subseteq rows /\ Counted(p) \subseteq ToSet(created)
    BY CountedAreCreated
<1>2. rows \subseteq rows'
    BY BatchWeeks
<1>3. rows' \subseteq ToSet(created')
    BY DEF SafetyInv, RunsInOnePlace
<1>4. Keep(created', Counted(p)) = Keep(created, Counted(p))
    BY <1>1, <1>2, <1>3, SortedKept
<1>5. QED
    BY <1>4, CanonicalIs DEF Counted

LEMMA LayoutInitially == ASSUME Init PROVE LayoutInv
<1>1. \A f \in Flushers : PairsIn(flush[f].batch) = {}
    BY ToSetEmpty DEF Init, NotFlushing, PairsIn
<1>2. \A r \in Rebuilders : rebuild[r].stage = "idle"
    BY DEF Init, NotRebuilding
<1>3. ASSUME NEW p
      PROVE  Canonical(p)
    <2>1. BucketsOf(p) = {} /\ created = <<>>
        BY DEF Init, BucketsOf
    <2>2. Keep(created, UNION {b.runs : b \in BucketsOf(p)}) = <<>>
        BY <2>1, KeepEmpty
    <2>3. ChunkIndices(<<>>) = {}
        BY DEF ChunkIndices
    <2>4. QED
        BY <2>1, <2>2, <2>3, CanonicalIs DEF Layout
<1>4. QED
    BY <1>1, <1>2, <1>3 DEF LayoutInv, NewerThanCounted, ListedInOrder, CanonicalUnlessRaced

(* The runs of a batch stay behind the counted ones: those of an insert    *)
(* are the newest there are.                                               *)
LEMMA NewerThanCountedStep ==
    ASSUME SafetyInv, LayoutInv, [Next]_vars, SafetyInv'
    PROVE  NewerThanCounted'
<1> USE DEF SafetyInv
<1> SUFFICES ASSUME NEW f \in Flushers, NEW p \in PairsIn(flush'[f].batch) \ behind'[f]
             PROVE  Keep(created', Counted(p)' \union ToSet(NewRuns(f, p)'))
                        = Keep(created', Counted(p)') \o NewRuns(f, p)'
    BY DEF NewerThanCounted, PairsIn, Sorted
<1> DEFINE C == Counted(p)
<1>1. created \in Seq(Runs) /\ queue \in Seq(Runs)
    BY DEF TypeOK
<1>2. CASE flush'[f].batch = flush[f].batch
    <2> DEFINE new == NewRuns(f, p)
    <2>1. p \in PairsIn(flush[f].batch) /\ p \notin behind[f] /\ BucketsOf(p)' = BucketsOf(p)
        BY <1>2, NotOvertaken
    <2>2. C' = C /\ Keep(created', C) = Keep(created, C)
        BY <2>1, LayoutStays
    <2>3. NewRuns(f, p)' = new
        BY <1>2 DEF NewRuns, RunsOf
    <2>4. ToSet(new) \subseteq InBatch(f) /\ InBatch(f)' = InBatch(f)
        BY <1>2, NewRunsAre DEF InBatch
    <2>5. /\ InBatch(f) \subseteq ToSet(created)
          /\ InBatch(f)' \subseteq ToSet(created')
          /\ rows \subseteq rows' /\ rows' \subseteq ToSet(created')
        BY BatchWeeks DEF RunsInOnePlace
    <2>6. C \subseteq rows /\ C \subseteq ToSet(created)
        BY CountedAreCreated
    <2> HIDE DEF new, C
    <2>7. Keep(created', C \union ToSet(new)) = Keep(created, C \union ToSet(new))
        <3>1. C \union ToSet(new) \subseteq ToSet(created)
            BY <2>4, <2>5, <2>6
        <3>2. C \union ToSet(new) \subseteq ToSet(created')
            BY <2>4, <2>5, <2>6
        <3> DEFINE set == C \union ToSet(new)
        <3> HIDE DEF set
        <3>3. Keep(created', set) = Keep(created, set)
            BY <3>1, <3>2, SortedKept DEF set
        <3>4. QED
            BY <3>3 DEF set
    <2>8. Keep(created, C \union ToSet(new)) = Keep(created, C) \o new
        BY <2>1 DEF LayoutInv, NewerThanCounted, Sorted, C, new
    <2>9. QED
        BY <2>2, <2>3, <2>7, <2>8 DEF C
<1>3. CASE FlushBegins(f)
    <2>1. PICK n \in 1 .. BatchSize :
              /\ n <= Len(queue)
              /\ created' = created \o SubSeq(queue, 1, n)
              /\ flush' = [flush EXCEPT ![f] = [stage |-> "inserted",
                                                batch |-> SubSeq(queue, 1, n), tails |-> {}]]
        BY <1>3, Zenon DEF FlushBegins
    <2>2. n \in 0 .. Len(queue)
        BY <1>1, <2>1, BucketsAssumption
    <2> DEFINE batch == SubSeq(queue, 1, n)
               rest  == SubSeq(queue, n + 1, Len(queue))
               new   == Keep(batch, RunsOf(p))
               N     == ToSet(new)
    <2>3. batch \in Seq(Runs) /\ rest \in Seq(Runs) /\ queue = batch \o rest
        BY <1>1, <2>2, SplitSequence
    <2>4. created' = created \o batch /\ NewRuns(f, p)' = new
        BY <2>1 DEF NewRuns, RunsOf, TypeOK
    <2> HIDE DEF batch, rest
    <2>5. ToSet(batch) \intersect ToSet(created) = {}
        BY <2>3, ToSetConcat DEF RunsInOnePlace
    <2>6. new \in Seq(Runs) /\ N = ToSet(batch) \intersect RunsOf(p)
        BY <2>3, KeepElements
    <2>7. BucketsOf(p)' = BucketsOf(p)
        BY <1>3 DEF FlushBegins, BucketsOf
    <2>8. C' = C /\ Keep(created', C) = Keep(created, C) /\ C \subseteq ToSet(created)
        BY <2>7, LayoutStays, CountedAreCreated
    <2> HIDE DEF new, N, C
    <2> DEFINE set == C \union N
    <2>9. Keep(created \o batch, set) = Keep(created, set) \o Keep(batch, set)
        BY <1>1, <2>3, KeepConcat
    <2>10. Keep(created, set) = Keep(created, C)
        <3>1. \A x \in ToSet(created) : x \in set <=> x \in C
            BY <2>5, <2>6
        <3> HIDE DEF set
        <3>2. QED
            BY <1>1, <3>1, KeepAgree
    <2>11. Keep(batch, set) = new
        <3>1. \A x \in ToSet(batch) : x \in set <=> x \in RunsOf(p)
            BY <2>5, <2>6, <2>8
        <3> HIDE DEF set
        <3>2. Keep(batch, set) = Keep(batch, RunsOf(p))
            BY <2>3, <3>1, KeepAgree
        <3>3. QED
            BY <3>2 DEF new
    <2>12. QED
        BY <2>4, <2>8, <2>9, <2>10, <2>11 DEF N, C
<1>4. \/ flush'[f].batch = flush[f].batch
      \/ FlushBegins(f)
      \/ flush'[f].batch = <<>>
    <2>1. CASE flush' = flush
        BY <2>1
    <2>2. ASSUME NEW g \in Flushers,
                 FlushBegins(g) \/ FlushCounts(g) \/ FlushCommits(g) \/ FlushFails(g)
          PROVE  \/ flush'[f].batch = flush[f].batch \/ FlushBegins(f)
                 \/ flush'[f].batch = <<>>
        <3>1. CASE g # f
            <4>1. flush'[f] = flush[f]
                BY <2>2, <3>1 DEF FlushBegins, FlushCounts, FlushCommits, FlushFails, TypeOK
            <4>2. QED
                BY <4>1
        <3>2. CASE g = f /\ FlushCounts(g)
            BY <3>2 DEF FlushCounts, TypeOK
        <3>3. CASE g = f /\ (FlushCommits(g) \/ FlushFails(g))
            BY <3>3 DEF FlushCommits, FlushFails, NotFlushing, TypeOK
        <3>4. QED
            BY <2>2, <3>1, <3>2, <3>3
    <2>3. \/ flush' = flush
          \/ \E g \in Flushers :
                FlushBegins(g) \/ FlushCounts(g) \/ FlushCommits(g) \/ FlushFails(g)
        BY DEF Next, vars, RebuildBegins, RebuildLists, RebuildScans, RebuildDeletes,
               RebuildCommits, RebuildFails, RebuildEnds, WeekTurns
    <2>4. QED
        BY <2>1, <2>2, <2>3
<1>5. CASE flush'[f].batch = <<>>
    BY <1>5, ToSetEmpty DEF PairsIn
<1>6. QED
    BY <1>2, <1>3, <1>4, <1>5

(* What a rebuild has listed stays in the order of created_at.             *)
LEMMA ListedInOrderStep ==
    ASSUME SafetyInv, LayoutInv, [Next]_vars, SafetyInv'
    PROVE  ListedInOrder'
<1> USE DEF SafetyInv
<1> SUFFICES ASSUME NEW r \in Rebuilders, rebuild'[r].stage \in {"scan", "delete"}
             PROVE  rebuild'[r].listed = Keep(created', ToSet(rebuild'[r].listed))
    BY DEF ListedInOrder, Sorted
<1>1. CASE RebuildLists(r)
    <2> DEFINE set == {x \in rows : /\ PairOf[x] \in rebuild[r].pairs
                                    /\ x \in stamped \union rebuild[r].included}
    <2>1. rebuild'[r].listed = Keep(created, set) /\ created' = created
        <3> DEFINE listed == Keep(created, set)
                   new    == [rebuild[r] EXCEPT !.stage = "scan", !.listed = listed]
        <3>1. rebuild' = [rebuild EXCEPT ![r] = new] /\ created' = created
            BY <1>1 DEF RebuildLists, Sorted
        <3>2. rebuild[r] \in RebuildState
            BY DEF TypeOK, RebuildState
        <3> HIDE DEF listed
        <3>3. new.listed = listed
            BY <3>2 DEF RebuildState
        <3> HIDE DEF new
        <3>4. rebuild'[r] = new
            BY <3>1 DEF TypeOK
        <3>5. QED
            BY <3>1, <3>3, <3>4 DEF listed
    <2>2. created \in Seq(Runs)
        BY DEF TypeOK
    <2> HIDE DEF set
    <2>3. ToSet(Keep(created, set)) = ToSet(created) \intersect set
        BY <2>2, KeepElements
    <2> DEFINE kept == ToSet(created) \intersect set
    <2>4. \A x \in ToSet(created) : x \in kept <=> x \in set
        OBVIOUS
    <2> HIDE DEF kept
    <2>5. Keep(created, kept) = Keep(created, set)
        BY <2>2, <2>4, KeepAgree
    <2>6. QED
        BY <2>1, <2>3, <2>5 DEF kept
<1>2. CASE rebuild'[r].listed = rebuild[r].listed /\ rebuild[r].stage \in {"scan", "delete"}
    <2> DEFINE set == ToSet(rebuild[r].listed)
    <2>1. set \subseteq rows
        BY <1>2 DEF RebuildsOK, RebuildOK
    <2>2. rows \subseteq ToSet(created) /\ rows \subseteq rows' /\ rows' \subseteq ToSet(created')
        BY BatchWeeks DEF RunsInOnePlace
    <2>3. rebuild[r].listed = Keep(created, set)
        BY <1>2 DEF LayoutInv, ListedInOrder, Sorted
    <2> HIDE DEF set
    <2>4. Keep(created', set) = Keep(created, set)
        BY <2>1, <2>2, SortedKept
    <2>5. QED
        BY <1>2, <2>3, <2>4 DEF set
<1>3. \/ RebuildLists(r)
      \/ rebuild'[r].listed = rebuild[r].listed /\ rebuild[r].stage \in {"scan", "delete"}
    <2>1. CASE rebuild' = rebuild
        BY <2>1
    <2>2. ASSUME NEW q \in Rebuilders,
                 \/ \E w \in 1 .. week : RebuildBegins(q, w)
                 \/ RebuildLists(q) \/ RebuildScans(q) \/ RebuildDeletes(q)
                 \/ RebuildCommits(q) \/ RebuildFails(q) \/ RebuildEnds(q)
          PROVE  \/ RebuildLists(r)
                 \/ /\ rebuild'[r].listed = rebuild[r].listed
                    /\ rebuild[r].stage \in {"scan", "delete"}
        <3>1. CASE q # r
            BY <2>2, <3>1 DEF RebuildBegins, RebuildLists, RebuildScans, RebuildDeletes,
                  RebuildCommits, RebuildFails, RebuildEnds, TypeOK
        <3>2. CASE q = r /\ \E w \in 1 .. week : RebuildBegins(q, w)
            <4>1. PICK w \in 1 .. week : RebuildBegins(r, w)
                BY <3>2
            <4> DEFINE runs  == {x \in rows : bornIn[x] = w}
                       pairs == {PairOf[x] : x \in runs}
            <4>2. rebuild' = [rebuild EXCEPT ![r] =
                      [NotRebuilding EXCEPT !.stage = "begun", !.week = w, !.included = runs,
                                            !.pairs = pairs, !.todo = pairs]]
                BY <4>1 DEF RebuildBegins
            <4> HIDE DEF runs, pairs
            <4>3. rebuild'[r].stage = "begun"
                BY <4>2 DEF TypeOK, NotRebuilding
            <4>4. QED
                BY <4>3
        <3>3. CASE q = r /\ RebuildScans(q)
            <4>1. PICK u \in rebuild[r].todo :
                      rebuild' = [rebuild EXCEPT ![r].stage = "delete", ![r].todo = @ \ {u},
                                                 ![r].doomed = IdsOf(BucketsOf(u))]
                BY <3>3 DEF RebuildScans
            <4>2. rebuild'[r].listed = rebuild[r].listed
                BY <4>1 DEF TypeOK
            <4>3. QED
                BY <3>3, <4>2 DEF RebuildScans
        <3>4. CASE q = r /\ RebuildDeletes(q)
            BY <3>4 DEF RebuildDeletes, TypeOK
        <3>5. CASE q = r /\ RebuildCommits(q)
            BY <3>5 DEF RebuildCommits, NotRebuilding, TypeOK
        <3>6. CASE q = r /\ (RebuildFails(q) \/ RebuildEnds(q))
            BY <3>6 DEF RebuildFails, RebuildEnds, NotRebuilding, TypeOK
        <3>7. QED
            BY <2>2, <3>1, <3>2, <3>3, <3>4, <3>5, <3>6
    <2>3. \/ rebuild' = rebuild
          \/ \E q \in Rebuilders :
                \/ \E w \in 1 .. week : RebuildBegins(q, w)
                \/ RebuildLists(q) \/ RebuildScans(q) \/ RebuildDeletes(q)
                \/ RebuildCommits(q) \/ RebuildFails(q) \/ RebuildEnds(q)
        BY DEF Next, vars, FlushBegins, FlushCounts, FlushCommits, FlushFails, WeekTurns
    <2>4. QED
        BY <2>1, <2>2, <2>3
<1>4. QED
    BY <1>1, <1>2, <1>3

(* Only a commit writes buckets.                                           *)
LEMMA CanonicalStep ==
    ASSUME SafetyInv, CurrentInv, LayoutInv, [Next]_vars, SafetyInv'
    PROVE  CanonicalUnlessRaced'
<1> SUFFICES ASSUME NEW p \in Pairs \ raced'
             PROVE  Canonical(p)'
    BY DEF CanonicalUnlessRaced
<1>1. CASE p \notin raced /\ BucketsOf(p)' = BucketsOf(p)
    BY <1>1, LayoutStays DEF LayoutInv, CanonicalUnlessRaced
<1>2. ASSUME NEW f \in Flushers, FlushCommits(f)
      PROVE  Canonical(p)'
    <2>1. raced' = raced \union behind[f]
        BY <1>2, ConstantTypes DEF FlushCommits, Wrote
    <2>2. p \notin raced /\ p \notin behind[f]
        BY <2>1
    <2>3. CASE p \in PairsIn(flush[f].batch)
        BY <1>2, <2>2, <2>3, FlushKeepsLayout DEF LayoutInv, CanonicalUnlessRaced
    <2>4. CASE p \notin PairsIn(flush[f].batch)
        BY <1>1, <1>2, <2>2, <2>4, OtherPairsKept
    <2>5. QED
        BY <2>3, <2>4
<1>3. ASSUME NEW r \in Rebuilders, RebuildCommits(r)
      PROVE  Canonical(p)'
    <2>1. raced' = (raced \ rebuild[r].pairs) \union behind[r]
        BY <1>3 DEF RebuildCommits, Wrote
    <2>2. CASE p \in rebuild[r].pairs
        BY <1>3, <2>1, <2>2, RebuildLaysOut DEF LayoutInv
    <2>3. CASE p \notin rebuild[r].pairs
        BY <1>1, <1>3, <2>1, <2>3, OtherPairsKept
    <2>4. QED
        BY <2>2, <2>3
<1>4. \/ UNCHANGED <<raced, buckets>>
      \/ \E f \in Flushers : FlushCommits(f)
      \/ \E r \in Rebuilders : RebuildCommits(r)
    BY DEF Next, vars, FlushBegins, FlushCounts, FlushFails, Forgot, RebuildBegins,
           RebuildLists, RebuildScans, RebuildDeletes, RebuildFails, RebuildEnds, WeekTurns
<1>5. CASE UNCHANGED <<raced, buckets>>
    BY <1>1, <1>5 DEF BucketsOf
<1>6. QED
    BY <1>2, <1>3, <1>4, <1>5

(* The invariant of the layout.                                            *)
THEOREM LayoutHolds == Spec => []LayoutInv
<1>1. Init => LayoutInv
    BY LayoutInitially
<1>2. SafetyInv /\ CurrentInv /\ LayoutInv /\ [Next]_vars /\ SafetyInv' => LayoutInv'
    BY NewerThanCountedStep, ListedInOrderStep, CanonicalStep DEF LayoutInv
<1>3. QED
    BY <1>1, <1>2, SafetyInvHolds, CurrentHolds, PTL DEF Spec

(* Appending and rebuilding, in any mixture, leave full buckets but the    *)
(* last, no gap in the indices and runs in order, as long as the last      *)
(* transaction to write the pair was not overtaken                         *)
(* (apply_run_bucket_trends, rebuild_run_bucket_trends).                   *)
THEOREM BucketsAreCanonical == Spec => []CanonicalUnlessRaced
<1>1. LayoutInv => CanonicalUnlessRaced
    BY DEF LayoutInv
<1>2. QED
    BY <1>1, LayoutHolds, PTL
===============================================================================
