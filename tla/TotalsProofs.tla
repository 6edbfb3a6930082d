------------------------------ MODULE TotalsProofs ------------------------------
(* Lemmas about Totals, what adding and dropping keys does to a total, and   *)
(* about Buckets, what is left of a deque after pops from the left, and what *)
(* the slices of a file come to.                                             *)
EXTENDS Buckets, FiniteSetTheorems, SequenceTheorems, TLAPS

\* What it takes for Total(f) to be a number.
Weighs(f) == f \in [DOMAIN f -> Nat] /\ IsFiniteSet(DOMAIN f)

\* The pairs behind a total, by membership.
LEMMA UnitsMember ==
    ASSUME NEW f, NEW p
    PROVE  p \in Units(f) <=> \E c \in DOMAIN f : p \in {c} \X (1 .. f[c])
  BY DEF Units

\* A key weighs what its value says.
LEMMA BlockSize ==
    ASSUME NEW c, NEW n \in Nat
    PROVE  IsFiniteSet({c} \X (1 .. n)) /\ Cardinality({c} \X (1 .. n)) = n
<1>1. IsFiniteSet(1 .. n) /\ Cardinality(1 .. n) = n
  BY FS_Interval
<1>2. IsFiniteSet({c}) /\ Cardinality({c}) = 1
  BY FS_Singleton
<1> QED
  BY <1>1, <1>2, FS_Product

\* A total is a natural number.
LEMMA TotalType ==
    ASSUME NEW f, Weighs(f)
    PROVE  IsFiniteSet(Units(f)) /\ Total(f) \in Nat
<1> DEFINE Block(c) == {c} \X (1 .. f[c])
           D == DOMAIN f
           T == {Block(c) : c \in D}
           g == [c \in D |-> Block(c)]
<1>1. g \in Surjection(D, T)
  BY DEF Surjection
<1>2. IsFiniteSet(T)
  BY <1>1, FS_Surjection DEF Weighs
<1>3. \A B \in T : IsFiniteSet(B)
  <2> TAKE B \in T
  <2>1. PICK c \in D : B = Block(c)
    OBVIOUS
  <2>2. f[c] \in Nat
    BY DEF Weighs
  <2> QED
    BY <2>1, <2>2, BlockSize
<1>4. IsFiniteSet(Units(f))
  BY <1>2, <1>3, FS_UNION DEF Units
<1> QED
  BY <1>4, FS_CardinalityType DEF Total

\* Two sets that share nothing count together as their sum.
LEMMA DisjointUnion ==
    ASSUME NEW S, NEW T, IsFiniteSet(S), IsFiniteSet(T), S \cap T = {}
    PROVE  Cardinality(S \cup T) = Cardinality(S) + Cardinality(T)
<1>1. Cardinality(S \cap T) = 0
  BY FS_EmptySet
<1>2. Cardinality(S) \in Nat /\ Cardinality(T) \in Nat
  BY FS_CardinalityType
<1>3. Cardinality(S \cup T) = Cardinality(S) + Cardinality(T) - Cardinality(S \cap T)
  BY FS_Union
<1> QED
  BY <1>1, <1>2, <1>3

\* Keeping some keys, or dropping some, leaves something that weighs.
LEMMA PartsWeigh ==
    ASSUME NEW f, NEW keys, Weighs(f)
    PROVE  Weighs(Only(f, keys)) /\ Weighs(Without(f, keys))
<1>1. IsFiniteSet(DOMAIN f \cap keys) /\ IsFiniteSet(DOMAIN f \ keys)
  BY FS_Intersection, FS_Difference DEF Weighs
<1> QED
  BY <1>1 DEF Weighs, Only, Without

\* Dropping keys subtracts exactly what they weighed: the arithmetic of every
\* purge.
LEMMA TotalSplit ==
    ASSUME NEW f, NEW keys, Weighs(f)
    PROVE  Total(f) = Total(Only(f, keys)) + Total(Without(f, keys))
<1> DEFINE A == Units(Only(f, keys))
           B == Units(Without(f, keys))
<1>1. Units(f) = A \cup B
  BY DEF Units, Only, Without
<1>2. A \cap B = {}
  BY DEF Units, Only, Without
<1>3. IsFiniteSet(A) /\ IsFiniteSet(B)
  BY PartsWeigh, TotalType
<1> QED
  BY <1>1, <1>2, <1>3, DisjointUnion DEF Total

\* Adding a new key adds what it weighs.
LEMMA TotalAdd ==
    ASSUME NEW f, NEW c, NEW n \in Nat, Weighs(f), c \notin DOMAIN f
    PROVE  Weighs(With(f, c, n)) /\ Total(With(f, c, n)) = Total(f) + n
<1> DEFINE B == {c} \X (1 .. n)
<1>1. Weighs(With(f, c, n))
  BY FS_AddElement DEF Weighs, With
<1>2. Units(With(f, c, n)) = Units(f) \cup B
  BY DEF Units, With
<1>3. Units(f) \cap B = {}
  BY DEF Units
<1>4. IsFiniteSet(Units(f)) /\ IsFiniteSet(B) /\ Cardinality(B) = n
  BY TotalType, BlockSize
<1> QED
  BY <1>1, <1>2, <1>3, <1>4, DisjointUnion DEF Total

\* Dropping one key subtracts its value.
LEMMA TotalRemove ==
    ASSUME NEW f, NEW c \in DOMAIN f, Weighs(f)
    PROVE  Total(Without(f, {c})) = Total(f) - f[c]
<1>1. Units(Only(f, {c})) = {c} \X (1 .. f[c])
  BY DEF Units, Only
<1>2. Total(Only(f, {c})) = f[c]
  BY <1>1, BlockSize DEF Total, Weighs
<1>3. Total(Without(f, {c})) \in Nat /\ f[c] \in Nat
  BY PartsWeigh, TotalType DEF Weighs
<1> QED
  BY <1>2, <1>3, TotalSplit

\* An empty map weighs nothing.
LEMMA TotalEmpty ==
    ASSUME NEW f, DOMAIN f = {}
    PROVE  Total(f) = 0
<1>1. Units(f) = {}
  BY DEF Units
<1> QED
  BY <1>1, FS_EmptySet DEF Total

\* Renaming the keys changes no total.
LEMMA TotalReindexed ==
    ASSUME NEW f, NEW g, NEW h, Weighs(f), h \in Bijection(DOMAIN f, DOMAIN g),
           \A c \in DOMAIN f : g[h[c]] = f[c]
    PROVE  Total(g) = Total(f)
<1> DEFINE H == [p \in Units(f) |-> <<h[p[1]], p[2]>>]
<1>1. /\ \A c \in DOMAIN f : h[c] \in DOMAIN g
      /\ \A b, c \in DOMAIN f : h[b] = h[c] => b = c
      /\ \A e \in DOMAIN g : \E c \in DOMAIN f : h[c] = e
  BY DEF Bijection, Injection, Surjection, IsInjective
<1>2. /\ \A p : p \in Units(f) <=> \E c \in DOMAIN f : \E k \in 1 .. f[c] : p = <<c, k>>
      /\ \A p : p \in Units(g) <=> \E c \in DOMAIN g : \E k \in 1 .. g[c] : p = <<c, k>>
  BY DEF Units
<1>3. ASSUME NEW p \in Units(f) PROVE H[p] \in Units(g)
  <2>1. PICK c \in DOMAIN f : \E k \in 1 .. f[c] : p = <<c, k>>
    BY <1>2
  <2>0. PICK k \in 1 .. f[c] : p = <<c, k>>
    BY <2>1
  <2>2. H[p] = <<h[c], k>> /\ h[c] \in DOMAIN g /\ k \in 1 .. g[h[c]]
    BY <1>1, <2>0
  <2> QED
    BY <1>2, <2>2
<1>4. ASSUME NEW p \in Units(f), NEW r \in Units(f), H[p] = H[r] PROVE p = r
  <2>1. PICK b, j : b \in DOMAIN f /\ p = <<b, j>>
    BY <1>2
  <2>2. PICK c, k : c \in DOMAIN f /\ r = <<c, k>>
    BY <1>2
  <2>3. <<h[b], j>> = <<h[c], k>>
    BY <1>4, <2>1, <2>2
  <2>4. b = c /\ j = k
    BY <1>1, <2>1, <2>2, <2>3
  <2> QED
    BY <2>1, <2>2, <2>4
<1>5. ASSUME NEW r \in Units(g) PROVE \E p \in Units(f) : H[p] = r
  <2>1. PICK e, k : e \in DOMAIN g /\ r = <<e, k>> /\ k \in 1 .. g[e]
    BY <1>2
  <2>2. PICK c \in DOMAIN f : h[c] = e
    BY <1>1, <2>1
  <2>3. PICK p : p = <<c, k>> /\ p \in Units(f)
    BY <1>2, <2>1, <2>2
  <2>4. H[p] = r
    BY <2>1, <2>2, <2>3
  <2> QED
    BY <2>3, <2>4
<1>6. H \in [Units(f) -> Units(g)]
  BY <1>3
<1> HIDE DEF H
<1>7. H \in Bijection(Units(f), Units(g))
  BY <1>4, <1>5, <1>6 DEF Bijection, Injection, Surjection, IsInjective
<1>8. IsFiniteSet(Units(f))
  BY TotalType
<1> QED
  BY <1>7, <1>8, FS_Bijection DEF ExistsBijection, Total

\* A part weighs no more than the whole.
LEMMA TotalOfPart ==
    ASSUME NEW f, Weighs(f), NEW g, DOMAIN g \subseteq DOMAIN f,
           \A c \in DOMAIN g : g[c] = f[c]
    PROVE  Total(g) <= Total(f) /\ Total(g) \in Nat
<1>1. Units(g) \subseteq Units(f)
  BY DEF Units
<1>2. IsFiniteSet(Units(f))
  BY TotalType
<1> QED
  BY <1>1, <1>2, FS_Subset, FS_CardinalityType DEF Total

--------------------------------------------------------------------------------
(* Deques: what is left after pops from the left, and how many of what is    *)
(* left is newer than a cutoff.                                              *)

\* A nonempty set of natural numbers has a least element.
LEMMA MinIsLeast ==
    ASSUME NEW S, S \subseteq Nat, S # {}
    PROVE  Min(S) \in S /\ \A n \in S : Min(S) <= n
<1>1. PICK m \in S : \A n \in S : ~(<<n, m>> \in OpToRel(<, Nat))
  BY NatLessThanWellFounded, WFMin
<1>2. \A n \in S : m <= n
  <2> TAKE n \in S
  <2>1. m \in Nat /\ n \in Nat
    OBVIOUS
  <2>2. ASSUME n < m PROVE FALSE
    <3>1. <<n, m>> \in OpToRel(<, Nat)
      BY <2>1, <2>2 DEF OpToRel
    <3> QED
      BY <1>1, <3>1
  <2> QED
    BY <2>1, <2>2
<1> QED
  BY <1>2 DEF Min

\* A sequence over a part of a set is one over the set.
LEMMA SeqOfPart ==
    ASSUME NEW S, NEW T, T \subseteq S, NEW s \in Seq(T)
    PROVE  s \in Seq(S) /\ Len(s) \in Nat /\ DOMAIN s = 1 .. Len(s) /\ \A i \in DOMAIN s : s[i] \in T
<1>1. Len(s) \in Nat /\ s \in [1 .. Len(s) -> T]
  OBVIOUS
<1>2. s \in [1 .. Len(s) -> S]
  BY <1>1
<1> QED
  BY <1>1, <1>2, SeqDef

\* Popping from the left drops a number of entries and keeps the rest in order.
LEMMA FromFirstDrops ==
    ASSUME NEW T, NEW s \in Seq(T), NEW kept, kept \subseteq DOMAIN s
    PROVE  \E d \in 0 .. Len(s) :
              /\ FromFirst(s, kept) \in Seq(T)
              /\ Len(FromFirst(s, kept)) = Len(s) - d
              /\ \A i \in 1 .. Len(s) - d : FromFirst(s, kept)[i] = s[i + d]
              /\ \A i \in kept : i > d
              /\ kept = {} => d = Len(s)
              /\ kept # {} => d + 1 \in kept
<1>1. Len(s) \in Nat /\ DOMAIN s = 1 .. Len(s)
  OBVIOUS
<1>2. CASE kept = {}
  <2>1. FromFirst(s, kept) = <<>> /\ Len(<<>>) = 0 /\ <<>> \in Seq(T)
    BY <1>2 DEF FromFirst
  <2> DEFINE d == Len(s)
  <2>2. d \in 0 .. Len(s) /\ Len(s) - d = 0 /\ 1 .. Len(s) - d = {}
    BY <1>1
  <2>3. Len(FromFirst(s, kept)) = Len(s) - d /\ d = Len(s)
    BY <2>1, <2>2
  <2> HIDE DEF d
  <2> QED
    BY <1>2, <2>1, <2>2, <2>3
<1>3. CASE kept # {}
  <2> DEFINE m == Min(kept)
  <2>1. m \in kept /\ \A i \in kept : m <= i
    BY <1>1, <1>3, MinIsLeast
  <2>2. m \in 1 .. Len(s) /\ m - 1 \in 0 .. Len(s)
    BY <1>1, <2>1
  <2> HIDE DEF m
  <2>3. FromFirst(s, kept) = SubSeq(s, m, Len(s))
    BY <1>3 DEF FromFirst, m
  <2>4. /\ SubSeq(s, m, Len(s)) \in Seq(T)
        /\ Len(SubSeq(s, m, Len(s))) = Len(s) - m + 1
        /\ \A i \in 1 .. Len(s) - m + 1 : SubSeq(s, m, Len(s))[i] = s[m + i - 1]
    BY <1>1, <2>2, SubSeqProperties
  <2>5. /\ Len(s) - m + 1 = Len(s) - (m - 1)
        /\ \A i \in 1 .. Len(s) - (m - 1) : m + i - 1 = i + (m - 1)
        /\ (m - 1) + 1 = m
    BY <1>1, <2>2
  <2>6. \A i \in kept : i > m - 1
    BY <1>1, <2>1, <2>2
  <2> DEFINE d == m - 1
  <2>7. /\ FromFirst(s, kept) \in Seq(T)
        /\ Len(FromFirst(s, kept)) = Len(s) - d
        /\ \A i \in 1 .. Len(s) - d : FromFirst(s, kept)[i] = s[i + d]
    BY <2>3, <2>4, <2>5
  <2>8. d \in 0 .. Len(s) /\ d + 1 \in kept /\ \A i \in kept : i > d
    BY <2>1, <2>2, <2>5, <2>6
  <2> HIDE DEF d
  <2> QED
    BY <1>3, <2>7, <2>8
<1> QED
  BY <1>2, <1>3

\* Indices moved by a constant are as many as before.
LEMMA ShiftedCount ==
    ASSUME NEW S, NEW T, NEW d \in Int, IsFiniteSet(S), S \subseteq Int, T \subseteq Int,
           \A i \in Int : i \in S <=> i - d \in T
    PROVE  IsFiniteSet(T) /\ Cardinality(T) = Cardinality(S)
<1> DEFINE f == [i \in S |-> i - d]
<1>1. f \in [S -> T]
  OBVIOUS
<1>2. \A i, j \in S : f[i] = f[j] => i = j
  OBVIOUS
<1>3. \A k \in T : \E i \in S : f[i] = k
  <2> TAKE k \in T
  <2>1. k + d \in S /\ (k + d) - d = k
    OBVIOUS
  <2> QED
    BY <2>1
<1>4. f \in Bijection(S, T)
  BY <1>1, <1>2, <1>3 DEF Bijection, Injection, Surjection, IsInjective
<1> QED
  BY <1>4, FS_Bijection DEF ExistsBijection

\* The stamps after a cutoff are finitely many of the deque.
LEMMA NewerIsFinite ==
    ASSUME NEW s \in Seq(Nat), NEW c
    PROVE  /\ Newer(s, c) \subseteq DOMAIN s /\ DOMAIN s = 1 .. Len(s) /\ Len(s) \in Nat
           /\ IsFiniteSet(Newer(s, c)) /\ Cardinality(Newer(s, c)) \in Nat
<1>1. Newer(s, c) \subseteq DOMAIN s /\ DOMAIN s = 1 .. Len(s) /\ Len(s) \in Nat
  BY DEF Newer
<1>2. IsFiniteSet(DOMAIN s)
  BY <1>1, FS_Interval
<1> QED
  BY <1>1, <1>2, FS_Subset, FS_CardinalityType

\* What pruning leaves has as many stamps after any later cutoff as before.
LEMMA PrunedCounts ==
    ASSUME NEW T, T \subseteq Nat, NEW s \in Seq(T), NEW k \in Int, NEW c \in Int, k <= c
    PROVE  Cardinality(Newer(Pruned(s, k), c)) = Cardinality(Newer(s, c))
<1>1. Newer(s, k) \subseteq DOMAIN s /\ s \in Seq(Nat)
  BY SeqOfPart DEF Newer
<1>2. PICK d \in 0 .. Len(s) :
        /\ Pruned(s, k) \in Seq(T) /\ Len(Pruned(s, k)) = Len(s) - d
        /\ \A i \in 1 .. Len(s) - d : Pruned(s, k)[i] = s[i + d]
        /\ \A i \in Newer(s, k) : i > d
  BY <1>1, FromFirstDrops DEF Pruned
<1>3. PICK p \in Seq(Nat) : p = Pruned(s, k)
  BY <1>2, SeqOfPart
<1>4. DOMAIN p = 1 .. Len(s) - d /\ DOMAIN s = 1 .. Len(s) /\ Len(s) \in Nat /\ d \in Int
  BY <1>2, <1>3
<1>5. Newer(s, c) \subseteq Newer(s, k)
  <2>1. \A i \in DOMAIN s : s[i] \in Int
    BY <1>1
  <2> QED
    BY <2>1 DEF Newer
<1>6. Newer(s, c) \subseteq Int /\ Newer(p, c) \subseteq Int /\ IsFiniteSet(Newer(s, c))
  BY <1>1, <1>4, NewerIsFinite
<1>7. \A i \in Int : i \in Newer(s, c) <=> i - d \in Newer(p, c)
  <2> TAKE i \in Int
  <2>1. ASSUME i \in Newer(s, c) PROVE i - d \in Newer(p, c)
    <3>1. i > d /\ i \in 1 .. Len(s) /\ s[i] > c
      BY <1>2, <1>4, <1>5, <2>1 DEF Newer
    <3>2. i - d \in 1 .. Len(s) - d /\ (i - d) + d = i
      BY <1>4, <3>1
    <3> QED
      BY <1>2, <1>3, <1>4, <3>1, <3>2 DEF Newer
  <2>2. ASSUME i - d \in Newer(p, c) PROVE i \in Newer(s, c)
    <3>1. i - d \in 1 .. Len(s) - d /\ p[i - d] > c
      BY <1>4, <2>2 DEF Newer
    <3>2. i \in 1 .. Len(s) /\ (i - d) + d = i
      BY <1>4, <3>1
    <3>3. p[i - d] = s[i]
      BY <1>2, <1>3, <3>1, <3>2
    <3> QED
      BY <1>4, <3>1, <3>2, <3>3 DEF Newer
  <2> QED
    BY <2>1, <2>2
<1> QED
  BY <1>3, <1>4, <1>6, <1>7, ShiftedCount

\* Of a deque that is oldest first, pruning leaves exactly what is after the cutoff.
LEMMA PrunedIsFresh ==
    ASSUME NEW T, T \subseteq Nat, NEW s \in Seq(T), NEW k \in Int, OldestFirst(s)
    PROVE  /\ Pruned(s, k) \in Seq(T) /\ OldestFirst(Pruned(s, k))
           /\ \A i \in DOMAIN Pruned(s, k) : Pruned(s, k)[i] > k
           /\ Len(Pruned(s, k)) = Cardinality(Newer(s, k))
<1>1. PICK n \in Nat :
        /\ n = Len(s) /\ DOMAIN s = 1 .. n /\ Newer(s, k) \subseteq DOMAIN s
        /\ \A i \in DOMAIN s : s[i] \in Int
  <2>1. Len(s) \in Nat /\ DOMAIN s = 1 .. Len(s) /\ \A i \in DOMAIN s : s[i] \in T
    BY SeqOfPart
  <2>2. \A i \in DOMAIN s : s[i] \in Int
    <3>1. \A x \in T : x \in Int
      OBVIOUS
    <3> QED
      BY ONLY <2>1, <3>1
  <2> QED
    BY <2>1, <2>2 DEF Newer
<1>2. PICK d \in 0 .. n :
        /\ Pruned(s, k) \in Seq(T) /\ Len(Pruned(s, k)) = n - d
        /\ \A i \in 1 .. n - d : Pruned(s, k)[i] = s[i + d]
        /\ Newer(s, k) = {} => d = n
        /\ Newer(s, k) # {} => d + 1 \in Newer(s, k)
  <2>1. PICK d \in 0 .. Len(s) :
          /\ Pruned(s, k) \in Seq(T) /\ Len(Pruned(s, k)) = Len(s) - d
          /\ \A i \in 1 .. Len(s) - d : Pruned(s, k)[i] = s[i + d]
          /\ Newer(s, k) = {} => d = Len(s)
          /\ Newer(s, k) # {} => d + 1 \in Newer(s, k)
    BY <1>1, FromFirstDrops DEF Pruned
  <2> QED
    BY <1>1, <2>1
<1>3. PICK p \in Seq(T) : p = Pruned(s, k)
  BY <1>2
<1>4. DOMAIN p = 1 .. n - d /\ Len(p) = n - d /\ \A i \in 1 .. n - d : p[i] = s[i + d]
  BY <1>2, <1>3, SeqOfPart
<1>5. \A i \in 1 .. n - d : i + d \in 1 .. n
  BY <1>1, <1>2
<1>6. OldestFirst(p)
  <2>1. \A i, j \in 1 .. n - d : i <= j => i + d <= j + d
    BY <1>1, <1>2
  <2> QED
    BY <1>1, <1>4, <1>5, <2>1 DEF OldestFirst
<1>7. \A i \in 1 .. n - d : s[i + d] > k
  <2> TAKE i \in 1 .. n - d
  <2>1. d # n
    OBVIOUS
  <2>2. d + 1 \in Newer(s, k)
    BY <1>2, <2>1
  <2>3. d + 1 <= i + d /\ i + d \in DOMAIN s /\ d + 1 \in DOMAIN s
    BY <1>1, <1>5, <2>2
  <2>4. s[d + 1] <= s[i + d] /\ s[d + 1] > k
    BY <2>2, <2>3 DEF OldestFirst, Newer
  <2>5. s[d + 1] \in Int /\ s[i + d] \in Int
    BY <1>1, <2>3
  <2> QED
    BY <2>4, <2>5
<1>8. \A i \in DOMAIN p : p[i] > k
  BY <1>4, <1>7
<1>9. Len(p) = Cardinality(Newer(s, k))
  <2>1. PICK m \in Nat : m = n - d
    OBVIOUS
  <2>2. Newer(p, k) = 1 .. m
    BY <1>4, <1>8, <2>1 DEF Newer
  <2>3. Cardinality(1 .. m) = m
    BY FS_Interval
  <2>4. Cardinality(Newer(Pruned(s, k), k)) = Cardinality(Newer(s, k))
    <3>1. k <= k
      OBVIOUS
    <3> QED
      BY <3>1, PrunedCounts
  <2> QED
    BY <1>3, <1>4, <2>1, <2>2, <2>3, <2>4
<1> QED
  BY <1>3, <1>6, <1>8, <1>9

\* One more stamp at the end is one more after every earlier cutoff.
LEMMA AppendCounts ==
    ASSUME NEW s \in Seq(Nat), NEW n \in Nat, NEW c \in Int
    PROVE  Cardinality(Newer(Append(s, n), c))
               = Cardinality(Newer(s, c)) + (IF n > c THEN 1 ELSE 0)
<1>1. /\ DOMAIN Append(s, n) = DOMAIN s \cup {Len(s) + 1} /\ Len(s) + 1 \notin DOMAIN s
      /\ \A i \in DOMAIN s : Append(s, n)[i] = s[i]
      /\ Append(s, n)[Len(s) + 1] = n
  <2>1. DOMAIN s = 1 .. Len(s) /\ DOMAIN Append(s, n) = 1 .. Len(s) + 1 /\ Len(s) \in Nat
    OBVIOUS
  <2> QED
    BY <2>1
<1>2. CASE n > c
  <2>1. Newer(Append(s, n), c) = Newer(s, c) \cup {Len(s) + 1} /\ Len(s) + 1 \notin Newer(s, c)
    BY <1>1, <1>2 DEF Newer
  <2> QED
    BY <1>2, <2>1, NewerIsFinite, FS_AddElement
<1>3. CASE ~(n > c)
  <2>1. Newer(Append(s, n), c) = Newer(s, c)
    BY <1>1, <1>3 DEF Newer
  <2> QED
    BY <1>3, <2>1, NewerIsFinite
<1> QED
  BY <1>2, <1>3

\* A deque stays oldest first when the present is appended.
LEMMA AppendSorted ==
    ASSUME NEW n \in Nat, NEW s \in Seq(0 .. n), OldestFirst(s)
    PROVE  Append(s, n) \in Seq(0 .. n) /\ OldestFirst(Append(s, n)) /\ Append(s, n) # <<>>
<1>1. /\ DOMAIN s = 1 .. Len(s) /\ DOMAIN Append(s, n) = 1 .. Len(s) + 1 /\ Len(s) \in Nat
      /\ \A i \in 1 .. Len(s) : Append(s, n)[i] = s[i] /\ s[i] \in 0 .. n
      /\ Append(s, n)[Len(s) + 1] = n
  OBVIOUS
<1>2. OldestFirst(Append(s, n))
  <2> SUFFICES ASSUME NEW i \in 1 .. Len(s) + 1, NEW j \in 1 .. Len(s) + 1, i <= j
               PROVE  Append(s, n)[i] <= Append(s, n)[j]
    BY <1>1 DEF OldestFirst
  <2>1. CASE j = Len(s) + 1
    <3>1. Append(s, n)[i] \in 0 .. n
      BY <1>1
    <3> QED
      BY <1>1, <2>1, <3>1
  <2>2. CASE j # Len(s) + 1
    <3>1. i \in 1 .. Len(s) /\ j \in 1 .. Len(s)
      BY <1>1, <2>2
    <3> QED
      BY <1>1, <3>1 DEF OldestFirst
  <2> QED
    BY <2>1, <2>2
<1> QED
  BY <1>2

--------------------------------------------------------------------------------
(* Sound deques and tables of them, up to the present n.                      *)
SoundDeque(s, n) == s \in Seq(0 .. n) /\ OldestFirst(s)
SoundBuckets(buckets, owners, n) ==
    /\ DOMAIN buckets \subseteq owners
    /\ IsFiniteSet(DOMAIN buckets)
    /\ \A ip \in DOMAIN buckets : SoundDeque(buckets[ip], n) /\ buckets[ip] # <<>>

\* How many stamps of an owner a table holds after a cutoff.
Count(buckets, ip, cutoff) == Cardinality(Newer(Bucket(buckets, ip), cutoff))

\* An absent bucket is an empty deque: sound like the others.
LEMMA BucketIsSound ==
    ASSUME NEW n \in Nat, NEW owners, NEW ips, SoundBuckets(ips, owners, n), NEW ip
    PROVE  SoundDeque(Bucket(ips, ip), n) /\ Bucket(ips, ip) \in Seq(Nat)
<1>1. SoundDeque(Bucket(ips, ip), n)
  <2>1. SoundDeque(<<>>, n)
    BY DEF SoundDeque, OldestFirst
  <2> QED
    BY <2>1 DEF SoundBuckets, Bucket
<1>2. 0 .. n \subseteq Nat
  OBVIOUS
<1> QED
  BY <1>1, <1>2, SeqOfPart DEF SoundDeque

\* Pruning a sound deque leaves a sound deque, of exactly the stamps after the cutoff.
LEMMA PruningASoundDeque ==
    ASSUME NEW n \in Nat, NEW s, SoundDeque(s, n), NEW k \in Int
    PROVE  /\ SoundDeque(Pruned(s, k), n)
           /\ Len(Pruned(s, k)) = Cardinality(Newer(s, k))
           /\ \A c \in Int : k <= c => Cardinality(Newer(Pruned(s, k), c)) = Cardinality(Newer(s, c))
<1>1. 0 .. n \subseteq Nat /\ s \in Seq(0 .. n) /\ OldestFirst(s)
  BY DEF SoundDeque
<1> QED
  BY <1>1, PrunedIsFresh, PrunedCounts DEF SoundDeque

\* A stamp of the present keeps a deque sound, whatever is pruned right after.
LEMMA AppendingThePresent ==
    ASSUME NEW n \in Nat, NEW s, SoundDeque(s, n), NEW k \in Int
    PROVE  /\ SoundDeque(Pruned(Append(s, n), k), n)
           /\ \A c \in Int : k <= c =>
                  Cardinality(Newer(Pruned(Append(s, n), k), c))
                      = Cardinality(Newer(s, c)) + (IF n > c THEN 1 ELSE 0)
<1>1. s \in Seq(0 .. n) /\ OldestFirst(s) /\ s \in Seq(Nat)
  <2>1. 0 .. n \subseteq Nat
    OBVIOUS
  <2> QED
    BY <2>1, SeqOfPart DEF SoundDeque
<1>2. PICK a : a = Append(s, n) /\ SoundDeque(a, n)
  BY <1>1, AppendSorted DEF SoundDeque
<1>3. /\ SoundDeque(Pruned(a, k), n)
      /\ \A c \in Int : k <= c => Cardinality(Newer(Pruned(a, k), c)) = Cardinality(Newer(a, c))
  BY <1>2, PruningASoundDeque
<1>4. \A c \in Int : Cardinality(Newer(a, c)) = Cardinality(Newer(s, c)) + (IF n > c THEN 1 ELSE 0)
  BY <1>1, <1>2, AppendCounts
<1> QED
  BY <1>2, <1>3, <1>4

\* Replacing a bucket by a sound deque leaves sound buckets, and the others as they were.
LEMMA ReplacingABucket ==
    ASSUME NEW n \in Nat, NEW owners, NEW ips, SoundBuckets(ips, owners, n),
           NEW ip \in owners, NEW s, SoundDeque(s, n)
    PROVE  /\ SoundBuckets(Replace(ips, ip, s), owners, n)
           /\ Bucket(Replace(ips, ip, s), ip) = s
           /\ \A x : x # ip => Bucket(Replace(ips, ip, s), x) = Bucket(ips, x)
<1>0. PICK R : R = Replace(ips, ip, s)
  OBVIOUS
<1>1. /\ Bucket(R, ip) = s
      /\ \A x : x # ip => Bucket(R, x) = Bucket(ips, x)
      /\ DOMAIN R = IF s = <<>> THEN DOMAIN ips \ {ip} ELSE DOMAIN ips \cup {ip}
      /\ \A x \in DOMAIN R : R[x] = IF x = ip THEN s ELSE ips[x]
  BY <1>0 DEF Bucket, Replace, With, Without
<1>2. DOMAIN R \subseteq owners /\ IsFiniteSet(DOMAIN R)
  <2>1. IsFiniteSet(DOMAIN ips \ {ip}) /\ IsFiniteSet(DOMAIN ips \cup {ip})
    BY FS_Difference, FS_AddElement DEF SoundBuckets
  <2> QED
    BY <1>1, <2>1 DEF SoundBuckets
<1>3. \A x \in DOMAIN R : SoundDeque(R[x], n) /\ R[x] # <<>>
  <2> TAKE x \in DOMAIN R
  <2>1. CASE s = <<>>
    BY <1>1, <2>1 DEF SoundBuckets
  <2>2. CASE s # <<>>
    BY <1>1, <2>2 DEF SoundBuckets
  <2> QED
    BY <2>1, <2>2
<1>4. SoundBuckets(R, owners, n)
  BY <1>2, <1>3 DEF SoundBuckets
<1> QED
  BY <1>0, <1>1, <1>4

\* Past a bucket's last stamp there is nothing; before it there is something.
LEMMA LastDecides ==
    ASSUME NEW n \in Nat, NEW s, SoundDeque(s, n), s # <<>>, NEW c \in Int
    PROVE  (s[Len(s)] <= c) <=> (Newer(s, c) = {})
<1>1. s \in Seq(0 .. n)
  BY DEF SoundDeque
<1>2. /\ Len(s) \in Nat /\ DOMAIN s = 1 .. Len(s) /\ Len(s) \in DOMAIN s
      /\ \A i \in DOMAIN s : s[i] \in Int
  <2>1. Len(s) \in Nat /\ DOMAIN s = 1 .. Len(s) /\ Len(s) # 0
    BY <1>1
  <2>2. \A i \in DOMAIN s : s[i] \in 0 .. n
    BY <1>1
  <2> QED
    BY <2>1, <2>2
<1>3. \A i \in DOMAIN s : s[i] <= s[Len(s)]
  <2>1. \A i \in DOMAIN s : i <= Len(s)
    BY <1>2
  <2> QED
    BY <1>2, <2>1 DEF SoundDeque, OldestFirst
<1>4. ASSUME s[Len(s)] <= c, NEW i \in DOMAIN s PROVE ~(s[i] > c)
  <2>1. s[i] <= s[Len(s)] /\ s[i] \in Int /\ s[Len(s)] \in Int
    BY <1>2, <1>3
  <2> QED
    BY <1>4, <2>1
<1>5. ASSUME ~(s[Len(s)] <= c) PROVE Newer(s, c) # {}
  <2>1. s[Len(s)] > c
    BY <1>2, <1>5
  <2> QED
    BY <1>2, <2>1 DEF Newer
<1> QED
  BY <1>4, <1>5 DEF Newer

\* Dropping buckets whose last stamp is old forgets nothing newer than that.
LEMMA DroppingOldBuckets ==
    ASSUME NEW n \in Nat, NEW owners, NEW ips, SoundBuckets(ips, owners, n), NEW k \in Int,
           NEW D, D = {ip \in DOMAIN ips : ips[ip][Len(ips[ip])] <= k}
    PROVE  /\ SoundBuckets(Without(ips, D), owners, n)
           /\ DOMAIN Without(ips, D) \subseteq DOMAIN ips
           /\ \A ip, c : c \in Int /\ k <= c => Count(Without(ips, D), ip, c) = Count(ips, ip, c)
           /\ \A ip \in DOMAIN Without(ips, D) : Newer(Bucket(Without(ips, D), ip), k) # {}
<1>1. PICK left : left = Without(ips, D)
  OBVIOUS
<1>2. DOMAIN left = DOMAIN ips \ D /\ \A ip \in DOMAIN left : left[ip] = ips[ip]
  BY <1>1 DEF Without
<1>3. SoundBuckets(left, owners, n)
  <2>1. IsFiniteSet(DOMAIN ips \ D)
    BY FS_Difference DEF SoundBuckets
  <2> QED
    BY <1>2, <2>1 DEF SoundBuckets
<1>4. ASSUME NEW ip, NEW c \in Int, k <= c PROVE Count(left, ip, c) = Count(ips, ip, c)
  <2>1. CASE ip \notin DOMAIN ips \/ ip \in DOMAIN left
    BY <1>2, <2>1 DEF Count, Bucket
  <2>2. CASE ip \in DOMAIN ips /\ ip \notin DOMAIN left
    <3>1. PICK s : s = ips[ip] /\ SoundDeque(s, n) /\ s # <<>> /\ s[Len(s)] <= k
      BY <1>2, <2>2 DEF SoundBuckets
    <3>2. s[Len(s)] <= c
      <4>1. s \in Seq(0 .. n) /\ s # <<>>
        BY <3>1 DEF SoundDeque
      <4>2. s[Len(s)] \in 0 .. n
        BY <4>1
      <4> QED
        BY <1>4, <3>1, <4>2
    <3>3. Newer(s, c) = {}
      BY <3>1, <3>2, LastDecides
    <3>4. Newer(Bucket(left, ip), c) = {}
      <4>1. Bucket(left, ip) = <<>>
        BY <2>2 DEF Bucket
      <4> QED
        BY <4>1 DEF Newer
    <3> QED
      BY <2>2, <3>1, <3>3, <3>4 DEF Count, Bucket
  <2> QED
    BY <2>1, <2>2
<1>5. ASSUME NEW ip \in DOMAIN left PROVE Newer(Bucket(left, ip), k) # {}
  <2>1. PICK s : s = left[ip] /\ SoundDeque(s, n) /\ s # <<>> /\ ~(s[Len(s)] <= k)
    BY <1>2, <1>3 DEF SoundBuckets
  <2> QED
    BY <2>1, LastDecides DEF Bucket
<1> QED
  BY <1>1, <1>2, <1>3, <1>4, <1>5

\* The oldest stamp popped: one less after the cutoffs it was after.
LEMMA PoppingTheOldest ==
    ASSUME NEW n \in Nat, NEW s, SoundDeque(s, n), s # <<>>
    PROVE  /\ SoundDeque(Tail(s), n)
           /\ \A i \in DOMAIN Tail(s) : i + 1 \in DOMAIN s /\ Tail(s)[i] = s[i + 1]
           /\ \A c \in Int : Cardinality(Newer(Tail(s), c))
                                 = Cardinality(Newer(s, c)) - (IF s[1] > c THEN 1 ELSE 0)
           /\ \A c \in Int : s[1] > c => Cardinality(Newer(s, c)) = Len(s)
<1>1. PICK T : T = 0 .. n /\ s \in Seq(T) /\ OldestFirst(s)
  BY DEF SoundDeque
<1>2. PICK m \in Nat : m = Len(s) /\ DOMAIN s = 1 .. m /\ 1 \in DOMAIN s
  <2>1. PICK m \in Nat : m = Len(s) /\ m # 0 /\ DOMAIN s = 1 .. m
    BY <1>1
  <2>2. 1 \in 1 .. m
    BY <2>1
  <2> QED
    BY <2>1, <2>2
<1>3. PICK t : t = Tail(s)
  OBVIOUS
<1>4. t \in Seq(T) /\ DOMAIN t = 1 .. m - 1 /\ \A i \in 1 .. m - 1 : t[i] = s[i + 1]
  BY <1>1, <1>2, <1>3
<1>5. \A i \in 1 .. m - 1 : i + 1 \in 1 .. m
  BY <1>2
<1>6. OldestFirst(t)
  <2> SUFFICES ASSUME NEW i \in 1 .. m - 1, NEW j \in 1 .. m - 1, i <= j PROVE t[i] <= t[j]
    BY <1>4 DEF OldestFirst
  <2>1. i + 1 \in DOMAIN s /\ j + 1 \in DOMAIN s /\ i + 1 <= j + 1
    BY <1>2, <1>5
  <2> QED
    BY <1>1, <1>4, <2>1 DEF OldestFirst
<1>7. s \in Seq(Nat) /\ t \in Seq(Nat)
  <2>1. T \subseteq Nat
    BY <1>1
  <2> QED
    BY <1>1, <1>4, <2>1, SeqOfPart
<1>8. ASSUME NEW c \in Int
      PROVE  Cardinality(Newer(t, c)) = Cardinality(Newer(s, c)) - (IF s[1] > c THEN 1 ELSE 0)
  <2> DEFINE rest == Newer(s, c) \ {1}
  <2>1. IsFiniteSet(Newer(s, c)) /\ Newer(s, c) \subseteq 1 .. m /\ Cardinality(Newer(s, c)) \in Nat
    BY <1>2, <1>7, NewerIsFinite
  <2>2. IsFiniteSet(rest) /\ rest \subseteq Int /\ Newer(t, c) \subseteq Int
    <3>1. IsFiniteSet(rest)
      BY <2>1, FS_Difference
    <3> QED
      BY <1>4, <2>1, <3>1 DEF Newer
  <2>3. \A i \in Int : (i \in rest) <=> (i - 1 \in Newer(t, c))
    <3> TAKE i \in Int
    <3>1. ASSUME i \in rest PROVE i - 1 \in Newer(t, c)
      <4>1. i \in 1 .. m /\ i # 1 /\ s[i] > c
        BY <1>2, <3>1 DEF Newer
      <4>2. i - 1 \in 1 .. m - 1 /\ (i - 1) + 1 = i
        BY <1>2, <4>1
      <4> QED
        BY <1>4, <4>1, <4>2 DEF Newer
    <3>2. ASSUME i - 1 \in Newer(t, c) PROVE i \in rest
      <4>1. i - 1 \in 1 .. m - 1 /\ t[i - 1] > c
        BY <1>4, <3>2 DEF Newer
      <4>2. i \in 1 .. m /\ i # 1 /\ (i - 1) + 1 = i
        BY <1>2, <4>1
      <4>3. t[i - 1] = s[i]
        BY <1>4, <4>1, <4>2
      <4> QED
        BY <1>2, <4>1, <4>2, <4>3 DEF Newer
    <3> QED
      BY <3>1, <3>2
  <2> HIDE DEF rest
  <2>4. Cardinality(Newer(t, c)) = Cardinality(rest)
    <3>1. 1 \in Int
      OBVIOUS
    <3> QED
      BY <2>2, <2>3, <3>1, ShiftedCount
  <2>5. CASE s[1] > c
    <3>1. 1 \in Newer(s, c)
      BY <1>2, <2>5 DEF Newer
    <3>2. Cardinality(rest) = Cardinality(Newer(s, c)) - 1
      BY <2>1, <3>1, FS_RemoveElement DEF rest
    <3> QED
      BY <2>4, <2>5, <3>2
  <2>6. CASE ~(s[1] > c)
    <3>1. rest = Newer(s, c)
      BY <2>6 DEF Newer, rest
    <3> QED
      BY <2>1, <2>4, <2>6, <3>1
  <2> QED
    BY <2>5, <2>6
<1>9. ASSUME NEW c \in Int, s[1] > c PROVE Cardinality(Newer(s, c)) = Len(s)
  <2>1. \A i \in DOMAIN s : s[1] <= s[i] /\ s[1] \in Int /\ s[i] \in Int
    <3>1. \A i \in DOMAIN s : s[i] \in Nat
      BY <1>7
    <3>2. \A i \in DOMAIN s : 1 <= i
      BY <1>2
    <3> QED
      BY <1>1, <1>2, <3>1, <3>2 DEF OldestFirst
  <2>2. Newer(s, c) = 1 .. m
    BY <1>2, <1>9, <2>1 DEF Newer
  <2> QED
    <3>1. Cardinality(1 .. m) = m
      BY FS_Interval
    <3> QED
      BY <1>2, <2>2, <3>1
<1> QED
  BY <1>1, <1>2, <1>3, <1>4, <1>5, <1>6, <1>8, <1>9 DEF SoundDeque

--------------------------------------------------------------------------------
(* Files: cut in equal slices, the last one shorter, and the pieces weighed.  *)

\* Division, as the provers need it.
LEMMA Divided ==
    ASSUME NEW a \in Nat, NEW c \in Nat \ {0}
    PROVE  /\ a \div c \in Nat /\ a % c \in 0 .. c - 1
           /\ a = c * (a \div c) + (a % c)
OBVIOUS

LEMMA DividedOnce ==
    ASSUME NEW c \in Nat \ {0}, NEW q \in Nat, NEW r \in 0 .. c - 1
    PROVE  (c * q + r) \div c = q /\ (c * q + r) % c = r
<1> DEFINE a == c * q + r
<1>1. a \in Nat
  OBVIOUS
<1>2. /\ a \div c \in Nat /\ a % c \in 0 .. c - 1
      /\ a = c * (a \div c) + (a % c)
  BY <1>1, Divided
<1>3. ASSUME NEW x \in Nat, NEW y \in Nat, NEW s \in 0 .. c - 1, NEW t \in 0 .. c - 1,
             c * x + s = c * y + t
      PROVE  ~(x < y)
  <2> SUFFICES ASSUME x < y PROVE FALSE
    OBVIOUS
  <2>1. c * x + c <= c * y
    <3>1. x + 1 <= y
      OBVIOUS
    <3>2. c * (x + 1) <= c * y
      BY <3>1
    <3> QED
      BY <3>2
  <2> QED
    BY <1>3, <2>1
<1>4. a \div c = q
  BY <1>2, <1>3
<1> QED
  BY <1>2, <1>4

\* A file of n bytes is cut in as many slices of c bytes as ceil(n / c) says.
LEMMA CutsNeeded ==
    ASSUME NEW n \in Nat \ {0}, NEW c \in Nat \ {0}, NEW k, k = (n + c - 1) \div c
    PROVE  k \in Nat \ {0} /\ (k - 1) * c < n /\ n <= k * c
<1>1. n + c - 1 \in Nat
  OBVIOUS
<1>2. PICK r \in 0 .. c - 1 : k \in Nat /\ n + c - 1 = c * k + r
  BY <1>1, Divided
<1>3. n <= k * c /\ (k - 1) * c < n
  <2>1. k * c = c * k /\ (k - 1) * c = c * k - c
    BY <1>2
  <2> QED
    BY <1>2, <2>1
<1> QED
  BY <1>2, <1>3

LEMMA CutsAreCounted ==
    ASSUME NEW n \in Nat, NEW c \in Nat \ {0}, NEW k \in Nat \ {0},
           (k - 1) * c < n, n <= k * c
    PROVE  LET starts == {at \in 0 .. n - 1 : at % c = 0}
           IN  IsFiniteSet(starts) /\ Cardinality(starts) = k
<1> DEFINE starts == {at \in 0 .. n - 1 : at % c = 0}
           f == [i \in 1 .. k |-> c * (i - 1)]
<1>1. ASSUME NEW i \in 1 .. k PROVE f[i] \in starts
  <2>1. c * (i - 1) <= (k - 1) * c
    <3>1. i - 1 <= k - 1 /\ i - 1 \in Nat /\ k - 1 \in Nat
      OBVIOUS
    <3>2. c * (i - 1) <= c * (k - 1)
      BY <3>1
    <3> QED
      BY <3>2
  <2>2. i - 1 \in Nat /\ 0 \in 0 .. c - 1 /\ c * (i - 1) + 0 = c * (i - 1)
    OBVIOUS
  <2>3. (c * (i - 1)) % c = 0
    BY <2>2, DividedOnce
  <2>4. c * (i - 1) \in 0 .. n - 1
    BY <2>1, <2>2
  <2> QED
    BY <2>3, <2>4
<1>2. ASSUME NEW i \in 1 .. k, NEW j \in 1 .. k, f[i] = f[j] PROVE i = j
  <2>1. i - 1 \in Nat /\ j - 1 \in Nat /\ 0 \in 0 .. c - 1 /\ c * (i - 1) + 0 = c * (j - 1) + 0
    BY <1>2
  <2>2. i - 1 = j - 1
    BY <2>1, DividedOnce
  <2> QED
    BY <2>2
<1>3. ASSUME NEW at \in starts PROVE \E i \in 1 .. k : f[i] = at
  <2>1. at \in Nat /\ at < n /\ at % c = 0
    OBVIOUS
  <2>2. at \div c \in Nat /\ at = c * (at \div c)
    BY <2>1, Divided
  <2>3. at \div c < k
    <3> SUFFICES ASSUME k <= at \div c PROVE FALSE
      BY <2>2
    <3>1. c * k <= c * (at \div c)
      BY <2>2
    <3> QED
      BY <2>1, <2>2, <3>1
  <2>4. at \div c + 1 \in 1 .. k /\ f[at \div c + 1] = at
    BY <2>2, <2>3
  <2> QED
    BY <2>4
<1>4. f \in Bijection(1 .. k, starts)
  BY <1>1, <1>2, <1>3 DEF Bijection, Injection, Surjection, IsInjective
<1>5. IsFiniteSet(1 .. k) /\ Cardinality(1 .. k) = k
  BY FS_Interval
<1> QED
  BY <1>4, <1>5, FS_Bijection DEF ExistsBijection


\* The slices of a file weigh what the file weighs.
LEMMA CutsAddUp ==
    ASSUME NEW n \in Nat, NEW c \in Nat \ {0}, NEW k \in Nat \ {0},
           (k - 1) * c < n, n <= k * c,
           NEW f \in [1 .. k -> Nat],
           \A i \in 1 .. k : /\ f[i] <= c /\ f[i] <= n - (i - 1) * c
                             /\ f[i] = c \/ f[i] = n - (i - 1) * c
    PROVE  Weighs(f) /\ Total(f) = n
<1> DEFINE H == [p \in Units(f) |-> c * (p[1] - 1) + (p[2] - 1) + 1]
<1>1. \A p : p \in Units(f) <=> \E i \in 1 .. k : \E b \in 1 .. f[i] : p = <<i, b>>
  BY DEF Units
<1>2. ASSUME NEW i \in 1 .. k, NEW b \in 1 .. f[i]
      PROVE  /\ i - 1 \in Nat /\ b - 1 \in 0 .. c - 1
             /\ c * (i - 1) + (b - 1) \in Nat /\ c * (i - 1) + (b - 1) < n
  <2>1. PICK x \in Nat : x = c * (i - 1)
    OBVIOUS
  <2>2. f[i] \in Nat /\ f[i] <= c /\ f[i] <= n - x
    <3>1. (i - 1) * c = x
      BY <2>1
    <3> QED
      BY <3>1
  <2>3. i - 1 \in Nat /\ b - 1 \in 0 .. c - 1 /\ x + (b - 1) \in Nat /\ x + (b - 1) < n
    BY <2>2
  <2> QED
    BY <2>1, <2>3
<1>3. ASSUME NEW p \in Units(f) PROVE H[p] \in 1 .. n
  <2>1. PICK i \in 1 .. k : \E b \in 1 .. f[i] : p = <<i, b>>
    BY <1>1
  <2>2. PICK b \in 1 .. f[i] : p = <<i, b>>
    BY <2>1
  <2>3. H[p] = c * (i - 1) + (b - 1) + 1
    BY <2>2
  <2> QED
    BY <1>2, <2>3
<1>4. ASSUME NEW p \in Units(f), NEW r \in Units(f), H[p] = H[r] PROVE p = r
  <2>1. PICK i \in 1 .. k : \E b \in 1 .. f[i] : p = <<i, b>>
    BY <1>1
  <2>2. PICK b \in 1 .. f[i] : p = <<i, b>>
    BY <2>1
  <2>3. PICK j \in 1 .. k : \E d \in 1 .. f[j] : r = <<j, d>>
    BY <1>1
  <2>4. PICK d \in 1 .. f[j] : r = <<j, d>>
    BY <2>3
  <2>5. H[p] = c * (i - 1) + (b - 1) + 1 /\ H[r] = c * (j - 1) + (d - 1) + 1
    BY <2>2, <2>4
  <2>6. c * (i - 1) + (b - 1) = c * (j - 1) + (d - 1)
    BY <1>2, <1>4, <2>5
  <2>7. /\ i - 1 \in Nat /\ b - 1 \in 0 .. c - 1
        /\ j - 1 \in Nat /\ d - 1 \in 0 .. c - 1
    BY <1>2
  <2>8. /\ (c * (i - 1) + (b - 1)) \div c = i - 1 /\ (c * (i - 1) + (b - 1)) % c = b - 1
        /\ (c * (j - 1) + (d - 1)) \div c = j - 1 /\ (c * (j - 1) + (d - 1)) % c = d - 1
    BY <2>7, DividedOnce
  <2>9. i - 1 = j - 1 /\ b - 1 = d - 1
    BY <2>6, <2>8
  <2> QED
    BY <2>2, <2>4, <2>9, f[i] \in Nat, f[j] \in Nat
<1>5. ASSUME NEW m \in 1 .. n PROVE \E p \in Units(f) : H[p] = m
  <2>1. m - 1 \in Nat
    OBVIOUS
  <2>2. PICK q, r : q = (m - 1) \div c /\ r = (m - 1) % c
    OBVIOUS
  <2>3. q \in Nat /\ r \in 0 .. c - 1 /\ m - 1 = c * q + r
    BY <2>1, <2>2, Divided
  <2>4. q < k
    <3> SUFFICES ASSUME k <= q PROVE FALSE
      BY <2>3
    <3>1. PICK x \in Nat : x = c * q
      BY <2>3
    <3>2. n <= x
      <4>1. k * c <= c * q
        BY <2>3
      <4> QED
        BY <3>1, <4>1
    <3> QED
      BY <2>3, <3>1, <3>2
  <2>5. q + 1 \in 1 .. k /\ q + 1 - 1 = q
    BY <2>3, <2>4
  <2>6. r + 1 \in 1 .. f[q + 1]
    <3>1. PICK x \in Nat : x = c * q /\ x = q * c
      BY <2>3
    <3>2. f[q + 1] = c \/ f[q + 1] = n - x
      <4>1. PICK i \in 1 .. k : i = q + 1
        BY <2>5
      <4>2. i - 1 = q
        BY <2>3, <4>1
      <4>3. f[i] = c \/ f[i] = n - (i - 1) * c
        OBVIOUS
      <4> QED
        BY <3>1, <4>1, <4>2, <4>3
    <3>3. r + 1 <= n - x /\ r + 1 <= c
      BY <2>3, <3>1
    <3> QED
      BY <2>3, <2>5, <3>2, <3>3
  <2>7. <<q + 1, r + 1>> \in Units(f)
    BY <1>1, <2>5, <2>6
  <2>8. H[<<q + 1, r + 1>>] = c * q + r + 1
    BY <2>3, <2>5, <2>7
  <2> QED
    BY <2>3, <2>7, <2>8
<1>6. Weighs(f)
  <2>1. DOMAIN f = 1 .. k
    OBVIOUS
  <2>2. IsFiniteSet(1 .. k)
    BY FS_Interval
  <2> QED
    BY <2>1, <2>2 DEF Weighs
<1>7. H \in [Units(f) -> 1 .. n]
  BY <1>3
<1> HIDE DEF H
<1>8. H \in Bijection(Units(f), 1 .. n)
  BY <1>4, <1>5, <1>7 DEF Bijection, Injection, Surjection, IsInjective
<1>9. IsFiniteSet(Units(f)) /\ Cardinality(1 .. n) = n
  BY <1>6, TotalType, FS_Interval
<1> QED
  BY <1>6, <1>8, <1>9, FS_Bijection DEF ExistsBijection, Total

\* As much more for every key.
LEMMA TotalOfRaised ==
    ASSUME NEW f, Weighs(f), NEW t \in Nat, NEW g, DOMAIN g = DOMAIN f,
           g \in [DOMAIN g -> Nat], \A c \in DOMAIN f : g[c] = f[c] + t
    PROVE  Weighs(g) /\ Total(g) = Total(f) + Cardinality(DOMAIN f) * t
<1> DEFINE D == DOMAIN f
           E == {p \in Units(g) : p[2] > f[p[1]]}
           H == [p \in D \X (1 .. t) |-> <<p[1], f[p[1]] + p[2]>>]
<1>1. Weighs(g) /\ \A c \in D : f[c] \in Nat
  BY DEF Weighs
<1>2. /\ \A p : p \in Units(f) <=> \E c \in D : \E b \in 1 .. f[c] : p = <<c, b>>
      /\ \A p : p \in Units(g) <=> \E c \in D : \E b \in 1 .. g[c] : p = <<c, b>>
  BY DEF Units
<1>3. \A p : p \in E <=> \E c \in D : \E b \in 1 .. t : p = <<c, f[c] + b>>
  <2>1. ASSUME NEW p \in E PROVE \E c \in D : \E b \in 1 .. t : p = <<c, f[c] + b>>
    <3>1. PICK c \in D : \E b \in 1 .. g[c] : p = <<c, b>>
      BY <1>2
    <3>2. PICK b \in 1 .. g[c] : p = <<c, b>>
      BY <3>1
    <3>3. b > f[c]
      BY <3>2
    <3>4. b - f[c] \in 1 .. t /\ b = f[c] + (b - f[c])
      BY <1>1, <3>3
    <3> QED
      BY <3>2, <3>4
  <2>2. ASSUME NEW c \in D, NEW b \in 1 .. t PROVE <<c, f[c] + b>> \in E
    <3>1. f[c] + b \in 1 .. g[c] /\ f[c] + b > f[c]
      BY <1>1
    <3>2. <<c, f[c] + b>> \in Units(g)
      BY <1>2, <3>1
    <3> QED
      BY <3>1, <3>2
  <2> QED
    BY <2>1, <2>2
<1>4. Units(g) = Units(f) \cup E
  <2>1. ASSUME NEW p \in Units(g), p \notin E PROVE p \in Units(f)
    <3>1. PICK c \in D : \E b \in 1 .. g[c] : p = <<c, b>>
      BY <1>2
    <3>2. PICK b \in 1 .. g[c] : p = <<c, b>>
      BY <3>1
    <3>3. b \in 1 .. f[c]
      BY <1>1, <2>1, <3>2
    <3> QED
      BY <1>2, <3>2, <3>3
  <2>2. ASSUME NEW p \in Units(f) PROVE p \in Units(g)
    <3>1. PICK c \in D : \E b \in 1 .. f[c] : p = <<c, b>>
      BY <1>2
    <3>2. PICK b \in 1 .. f[c] : p = <<c, b>>
      BY <3>1
    <3>3. b \in 1 .. g[c]
      BY <1>1
    <3> QED
      BY <1>2, <3>2, <3>3
  <2> QED
    BY <2>1, <2>2
<1>5. Units(f) \cap E = {}
  <2> SUFFICES ASSUME NEW p \in Units(f), p \in E PROVE FALSE
    OBVIOUS
  <2>1. PICK c \in D : \E b \in 1 .. f[c] : p = <<c, b>>
    BY <1>2
  <2>2. PICK b \in 1 .. f[c] : p = <<c, b>>
    BY <2>1
  <2> QED
    BY <1>1, <2>2
<1>6. H \in Bijection(D \X (1 .. t), E)
  <2>1. ASSUME NEW p \in D \X (1 .. t) PROVE H[p] \in E
    BY <1>3
  <2>2. ASSUME NEW p \in D \X (1 .. t), NEW r \in D \X (1 .. t), H[p] = H[r] PROVE p = r
    <3>1. PICK c \in D, b \in 1 .. t : p = <<c, b>>
      OBVIOUS
    <3>2. PICK d \in D, e \in 1 .. t : r = <<d, e>>
      OBVIOUS
    <3>3. <<c, f[c] + b>> = <<d, f[d] + e>>
      BY <2>2, <3>1, <3>2
    <3>4. c = d /\ f[c] + b = f[d] + e
      BY <3>3
    <3> QED
      BY <1>1, <3>1, <3>2, <3>4
  <2>3. ASSUME NEW r \in E PROVE \E p \in D \X (1 .. t) : H[p] = r
    <3>1. PICK c \in D : \E b \in 1 .. t : r = <<c, f[c] + b>>
      BY <1>3
    <3>2. PICK b \in 1 .. t : r = <<c, f[c] + b>>
      BY <3>1
    <3>3. <<c, b>> \in D \X (1 .. t) /\ H[<<c, b>>] = r
      BY <3>2
    <3> QED
      BY <3>3
  <2>4. H \in [D \X (1 .. t) -> E]
    BY <2>1
  <2> HIDE DEF H
  <2> QED
    BY <2>2, <2>3, <2>4 DEF Bijection, Injection, Surjection, IsInjective
<1>7. /\ IsFiniteSet(D) /\ IsFiniteSet(1 .. t) /\ Cardinality(1 .. t) = t
      /\ IsFiniteSet(Units(f))
  BY FS_Interval, TotalType DEF Weighs
<1>8. IsFiniteSet(E) /\ Cardinality(E) = Cardinality(D) * t
  <2>1. IsFiniteSet(D \X (1 .. t)) /\ Cardinality(D \X (1 .. t)) = Cardinality(D) * t
    BY <1>7, FS_Product
  <2> HIDE DEF H, E
  <2> QED
    BY <1>6, <2>1, FS_Bijection DEF ExistsBijection
<1> HIDE DEF E
<1> QED
  BY <1>1, <1>4, <1>5, <1>7, <1>8, DisjointUnion DEF Total

\* One number more in front.
LEMMA TotalOfPushed ==
    ASSUME NEW s \in Seq(Nat), NEW a \in Nat
    PROVE  /\ Weighs(s) /\ Weighs(<<a>> \o s)
           /\ Total(<<a>> \o s) = a + Total(s)
<1> DEFINE g == <<a>> \o s
           rest == Without(g, {1})
           h == [i \in DOMAIN s |-> i + 1]
<1>1. /\ Len(s) \in Nat /\ DOMAIN s = 1 .. Len(s) /\ s \in [1 .. Len(s) -> Nat]
      /\ g \in Seq(Nat) /\ Len(g) = Len(s) + 1 /\ DOMAIN g = 1 .. Len(s) + 1
      /\ g[1] = a /\ \A i \in 1 .. Len(s) : g[i + 1] = s[i]
  OBVIOUS
<1> HIDE DEF g
<1>2. Weighs(s) /\ Weighs(g)
  <2>1. IsFiniteSet(1 .. Len(s)) /\ IsFiniteSet(1 .. Len(s) + 1)
    BY <1>1, FS_Interval
  <2>2. g \in [1 .. Len(s) + 1 -> Nat]
    BY <1>1
  <2> QED
    BY <1>1, <2>1, <2>2 DEF Weighs
<1>3. Total(rest) = Total(g) - a
  BY <1>1, <1>2, TotalRemove
<1>4. DOMAIN rest = 2 .. Len(s) + 1 /\ \A i \in 2 .. Len(s) + 1 : rest[i] = g[i]
  BY <1>1 DEF Without
<1>5. h \in Bijection(DOMAIN s, DOMAIN rest)
  <2>1. ASSUME NEW j \in 2 .. Len(s) + 1 PROVE \E i \in 1 .. Len(s) : h[i] = j
    <3>1. j - 1 \in 1 .. Len(s) /\ h[j - 1] = j
      BY <1>1
    <3> QED
      BY <3>1
  <2>2. h \in [1 .. Len(s) -> 2 .. Len(s) + 1]
        /\ \A i, j \in 1 .. Len(s) : h[i] = h[j] => i = j
    BY <1>1
  <2> QED
    BY <1>1, <1>4, <2>1, <2>2 DEF Bijection, Injection, Surjection, IsInjective
<1>6. \A i \in DOMAIN s : rest[h[i]] = s[i]
  <2> SUFFICES ASSUME NEW i \in 1 .. Len(s) PROVE rest[i + 1] = s[i]
    BY <1>1
  <2>1. i + 1 \in 2 .. Len(s) + 1
    BY <1>1
  <2> QED
    BY <1>1, <1>4, <2>1
<1> HIDE DEF h, rest
<1>7. Total(rest) = Total(s)
  BY <1>2, <1>5, <1>6, TotalReindexed
<1> QED
  BY <1>2, <1>3, <1>7, TotalType DEF g

LEMMA TimesGrows ==
    ASSUME NEW x \in Nat, NEW y \in Nat, NEW c \in Nat, x <= y
    PROVE  x * c \in Nat /\ x * c <= y * c
<1>1. PICK d \in Nat : y = x + d
  BY y - x \in Nat
<1>2. x * c \in Nat /\ d * c \in Nat /\ y * c = x * c + d * c
  BY <1>1
<1> QED
  BY <1>2

LEMMA Pushed ==
    ASSUME NEW s \in Seq(Nat), NEW a \in Nat
    PROVE  /\ <<a>> \o s \in Seq(Nat) /\ Len(<<a>> \o s) = Len(s) + 1 /\ (<<a>> \o s)[1] = a
           /\ \A i \in 1 .. Len(s) : (<<a>> \o s)[i + 1] = s[i]
OBVIOUS

\* A function on 1 .. k is a sequence of k elements.
LEMMA FunctionIsSeq ==
    ASSUME NEW k \in Nat, NEW S, NEW f \in [1 .. k -> S]
    PROVE  f \in Seq(S) /\ Len(f) = k
<1>1. f \in Seq(S)
  <2>1. f = [i \in 1 .. k |-> f[i]] /\ \A i \in 1 .. k : f[i] \in S
    OBVIOUS
  <2> QED
    BY <2>1
<1>2. Len(f) \in Nat /\ 1 .. Len(f) = 1 .. k
  BY <1>1, LenProperties
<1> QED
  BY <1>1, <1>2

\* The slices tdSlice cuts of n bytes.
Slice(n, c, i) == Min({c, n - (i - 1) * c})

CutsOf(n, c) == (n + c - 1) \div c

Cut(n, c) ==
    LET starts == {at \in 0 .. n - 1 : at % c = 0}
    IN  [i \in 1 .. Cardinality(starts) |-> Slice(n, c, i)]

\* Slices that have each grown by a tag, behind a first piece.
Tagged(first, slices, tag) == <<first>> \o [i \in DOMAIN slices |-> slices[i] + tag]

\* What comes of cutting: how many slices, how long they are, and what they weigh with
\* their tags and the piece before them.
IsCut(n, c, t, a, k, slices, sealed) ==
    /\ k = CutsOf(n, c) /\ slices = Cut(n, c) /\ sealed = Tagged(a, slices, t)
    /\ k \in Nat \ {0} /\ (k - 1) * c < n /\ n <= k * c
    /\ slices \in Seq(Nat) /\ Len(slices) = k
    /\ \A i \in 1 .. k : slices[i] = Slice(n, c, i)
    /\ sealed \in Seq(Nat) /\ Len(sealed) = k + 1 /\ sealed[1] = a
    /\ \A i \in 1 .. k : sealed[i + 1] = Slice(n, c, i) + t
    /\ Total(sealed) = a + n + k * t

LEMMA CutFile ==
    ASSUME NEW n \in Nat \ {0}, NEW c \in Nat \ {0}, NEW t \in Nat, NEW a \in Nat
    PROVE  \E k, slices, sealed : IsCut(n, c, t, a, k, slices, sealed)
<1>0. PICK k, f, sealed : k = CutsOf(n, c) /\ f = Cut(n, c) /\ sealed = Tagged(a, f, t)
  OBVIOUS
<1> DEFINE g == [i \in DOMAIN f |-> f[i] + t]
<1>1. k \in Nat \ {0} /\ (k - 1) * c < n /\ n <= k * c
  BY <1>0, CutsNeeded DEF CutsOf
<1>2. f = [i \in 1 .. k |-> Slice(n, c, i)]
  BY <1>0, <1>1, CutsAreCounted DEF Cut
<1>3. ASSUME NEW i \in 1 .. k
      PROVE  /\ Slice(n, c, i) \in Nat
             /\ Slice(n, c, i) <= c
             /\ Slice(n, c, i) <= n - (i - 1) * c
             /\ \/ Slice(n, c, i) = c
                \/ Slice(n, c, i) = n - (i - 1) * c
  <2>0. i - 1 \in Nat /\ k - 1 \in Nat /\ i - 1 <= k - 1
    BY <1>1
  <2>1. (i - 1) * c \in Nat /\ (i - 1) * c <= (k - 1) * c
    BY <2>0, TimesGrows
  <2>2. PICK rest \in Nat : rest = n - (i - 1) * c
    BY <1>1, <2>1
  <2>3. Min({c, rest}) \in {c, rest} /\ \A m \in {c, rest} : Min({c, rest}) <= m
    BY MinIsLeast
  <2> QED
    BY <2>2, <2>3 DEF Slice
<1>4. f \in [1 .. k -> Nat] /\ \A i \in 1 .. k : f[i] = Slice(n, c, i)
  BY <1>2, <1>3
<1>5. Weighs(f) /\ Total(f) = n
  <2>1. \A i \in 1 .. k : /\ f[i] <= c /\ f[i] <= n - (i - 1) * c
                          /\ f[i] = c \/ f[i] = n - (i - 1) * c
    BY <1>3, <1>4, Zenon
  <2> QED
    BY <1>1, <1>4, <2>1, CutsAddUp
<1>6. DOMAIN f = 1 .. k /\ DOMAIN g = 1 .. k /\ Cardinality(1 .. k) = k
  BY <1>1, <1>4, FS_Interval
<1>7. g \in [1 .. k -> Nat] /\ \A i \in 1 .. k : g[i] = f[i] + t
  BY <1>4, <1>6
<1> HIDE DEF g
<1>8. Total(g) = n + k * t
  <2>1. DOMAIN g = DOMAIN f /\ g \in [DOMAIN g -> Nat] /\ \A i \in DOMAIN f : g[i] = f[i] + t
    BY <1>6, <1>7
  <2>2. Total(g) = Total(f) + Cardinality(DOMAIN f) * t
    BY <1>5, <2>1, TotalOfRaised
  <2> QED
    BY <1>5, <1>6, <2>2
<1>9. /\ f \in Seq(Nat) /\ Len(f) = k
      /\ g \in Seq(Nat) /\ Len(g) = k
  BY <1>1, <1>4, <1>7, FunctionIsSeq
<1>10. sealed = <<a>> \o g
  BY <1>0 DEF Tagged, g
<1>11. Total(sealed) = a + n + k * t
  <2>1. Total(sealed) = a + Total(g)
    BY <1>9, <1>10, TotalOfPushed
  <2>2. k * t \in Nat
    BY <1>1
  <2> QED
    BY <1>8, <2>1, <2>2
<1>12. /\ sealed \in Seq(Nat) /\ Len(sealed) = k + 1 /\ sealed[1] = a
       /\ \A i \in 1 .. k : sealed[i + 1] = g[i]
  <2>1. /\ <<a>> \o g \in Seq(Nat) /\ Len(<<a>> \o g) = Len(g) + 1 /\ (<<a>> \o g)[1] = a
        /\ \A i \in 1 .. Len(g) : (<<a>> \o g)[i + 1] = g[i]
    BY <1>9, Pushed
  <2>2. PICK p : p = <<a>> \o g
    OBVIOUS
  <2> QED
    BY <1>9, <1>10, <2>1, <2>2
<1>13. /\ \A i \in 1 .. k : f[i] = Slice(n, c, i)
       /\ \A i \in 1 .. k : sealed[i + 1] = Slice(n, c, i) + t
  BY <1>4, <1>7, <1>12
<1> QED
  BY <1>0, <1>1, <1>9, <1>11, <1>12, <1>13, Zenon DEF IsCut
================================================================================
