--------------------------- MODULE UploadLimiterProofs ---------------------------
(***************************************************************************)
(* Proofs that the bytes an IP may reserve and the uploads it may have in  *)
(* flight are limited, and that no IP is banned for good, for every set of *)
(* IPs, every limit, window and lifetime.                                  *)
(***************************************************************************)
EXTENDS UploadLimiter, TotalsProofs

\* The constants, one by one.
LEMMA Limits ==
    /\ MaxConcurrent \in Nat \ {0} /\ Window \in Nat \ {0} /\ MaxBytes \in Nat \ {0}
    /\ SlotTtl \in Nat \ {0} /\ UploadIdle \in Nat \ {0}
    /\ Sizes \subseteq Nat \ {0} /\ Horizon \in Nat
BY LimiterAssumption

--------------------------------------------------------------------------------
(* Deques of claims, as the lemmas on deques of stamps.                      *)
SoundClaims(s, n) == s \in Seq([at : 0 .. n, size : Sizes]) /\ InOrder(s)
SoundTable(map, n) ==
    /\ DOMAIN map \subseteq IPs
    /\ IsFiniteSet(DOMAIN map)
    /\ \A ip \in DOMAIN map : SoundClaims(map[ip], n) /\ map[ip] # <<>>

\* The bytes an IP declared after a cutoff, as a table remembers it.
Bytes(map, ip, cutoff) == SizesOf(Bucket(map, ip), After(Bucket(map, ip), cutoff))

\* What a deque of claims is made of.
LEMMA ClaimFields ==
    ASSUME NEW n \in Nat, NEW s \in Seq([at : 0 .. n, size : Sizes])
    PROVE  /\ Len(s) \in Nat /\ DOMAIN s = 1 .. Len(s) /\ IsFiniteSet(DOMAIN s)
           /\ \A i \in DOMAIN s : s[i].at \in Int /\ 0 <= s[i].at /\ s[i].at <= n /\ s[i].size \in Nat
<1>1. PICK T : T = [at : 0 .. n, size : Sizes] /\ s \in Seq(T)
  OBVIOUS
<1>2. Len(s) \in Nat /\ DOMAIN s = 1 .. Len(s)
  BY <1>1
<1>3. \A i \in DOMAIN s : s[i] \in T
  BY <1>1, <1>2, ElementOfSeq
<1>4. \A e \in T : e.at \in Int /\ 0 <= e.at /\ e.at <= n /\ e.size \in Nat
  <2>1. \A e \in T : e.at \in 0 .. n /\ e.size \in Sizes
    BY <1>1
  <2>2. \A x \in 0 .. n : x \in Int /\ 0 <= x /\ x <= n
    OBVIOUS
  <2>3. \A x \in Sizes : x \in Nat
    BY Limits
  <2> QED
    BY ONLY <2>1, <2>2, <2>3
<1>5. IsFiniteSet(DOMAIN s)
  BY <1>2, FS_Interval
<1> QED
  BY <1>2, <1>3, <1>4, <1>5

\* A sum of sizes is a number.
LEMMA SizesWeigh ==
    ASSUME NEW s, NEW S, IsFiniteSet(S), \A i \in S : s[i].size \in Nat
    PROVE  /\ Weighs([i \in S |-> s[i].size]) /\ SizesOf(s, S) \in Nat
           /\ \A R \in SUBSET S : SizesOf(s, R) \in Nat /\ SizesOf(s, R) <= SizesOf(s, S)
<1>1. Weighs([i \in S |-> s[i].size])
  BY DEF Weighs
<1>2. ASSUME NEW R \in SUBSET S PROVE SizesOf(s, R) \in Nat /\ SizesOf(s, R) <= SizesOf(s, S)
  <2> DEFINE f == [i \in S |-> s[i].size]
             g == [i \in R |-> s[i].size]
  <2>1. DOMAIN g \subseteq DOMAIN f /\ \A c \in DOMAIN g : g[c] = f[c]
    OBVIOUS
  <2>2. Total(g) <= Total(f) /\ Total(g) \in Nat
    BY <1>1, <2>1, TotalOfPart
  <2> QED
    BY <2>2 DEF SizesOf
<1>3. SizesOf(s, S) \in Nat
  BY <1>1, TotalType DEF SizesOf
<1> QED
  BY <1>1, <1>2, <1>3

\* Nothing declared weighs nothing.
LEMMA NoSizes == \A s : SizesOf(s, {}) = 0
BY TotalEmpty DEF SizesOf

\* Claims that are the same weigh the same.
SameSizes(s, t, S) == \A i \in S : s[i].size \in Nat /\ t[i] = s[i]
LEMMA SameSum ==
    ASSUME NEW s, NEW t, NEW S, SameSizes(s, t, S)
    PROVE  SizesOf(t, S) = SizesOf(s, S)
<1>1. [i \in S |-> t[i].size] = [i \in S |-> s[i].size]
  BY DEF SameSizes
<1> QED
  BY <1>1 DEF SizesOf

\* One more claim adds its size.
OneMore(R, S, k) == R = S \cup {k} /\ k \notin S
LEMMA OneMoreSize ==
    ASSUME NEW s, NEW t, NEW S, NEW k, NEW R, NEW w \in Nat,
           IsFiniteSet(S), SameSizes(s, t, S), t[k].size = w, OneMore(R, S, k)
    PROVE  SizesOf(t, R) = SizesOf(s, S) + w
<1> DEFINE f == [i \in S |-> s[i].size]
<1>1. [i \in R |-> t[i].size] = With(f, k, w)
  BY DEF With, SameSizes, OneMore
<1>2. Weighs(f) /\ k \notin DOMAIN f
  BY SizesWeigh DEF SameSizes, OneMore
<1>3. Total(With(f, k, w)) = Total(f) + w
  BY <1>2, TotalAdd
<1> QED
  BY <1>1, <1>3 DEF SizesOf

\* Pruning claims leaves, in order, exactly those after the cutoff, and changes no sum
\* after a later one.
LEMMA PruningClaims ==
    ASSUME NEW n \in Nat, NEW s, SoundClaims(s, n), NEW k \in Int, NEW p, p = FromFirst(s, After(s, k))
    PROVE  /\ SoundClaims(p, n)
           /\ DOMAIN p = After(p, k)
           /\ \A c \in Int : k <= c => SizesOf(p, After(p, c)) = SizesOf(s, After(s, c))
<1>1. PICK T : T = [at : 0 .. n, size : Sizes] /\ s \in Seq(T)
  BY DEF SoundClaims
<1>2. PICK m \in Nat :
        /\ m = Len(s) /\ DOMAIN s = 1 .. m /\ IsFiniteSet(DOMAIN s)
        /\ \A i \in DOMAIN s : s[i].at \in Int /\ s[i].size \in Nat
  BY <1>1, ClaimFields
<1>3. After(s, k) \subseteq DOMAIN s
  BY DEF After
<1>4. PICK d \in 0 .. m :
        /\ p \in Seq(T)
        /\ Len(p) = m - d
        /\ \A i \in 1 .. m - d : p[i] = s[i + d]
        /\ \A i \in After(s, k) : i > d
        /\ After(s, k) = {} => d = m
        /\ After(s, k) # {} => d + 1 \in After(s, k)
  <2>1. PICK d \in 0 .. Len(s) :
          /\ p \in Seq(T)
          /\ Len(p) = Len(s) - d
          /\ \A i \in 1 .. Len(s) - d : p[i] = s[i + d]
          /\ \A i \in After(s, k) : i > d
          /\ After(s, k) = {} => d = Len(s)
          /\ After(s, k) # {} => d + 1 \in After(s, k)
    BY ZenonT(30), <1>1, <1>3, FromFirstDrops
  <2> QED
    BY <1>2, <2>1
<1>5. DOMAIN p = 1 .. m - d /\ \A i \in 1 .. m - d : i + d \in 1 .. m
  BY <1>2, <1>4
<1>6. \A i, j \in DOMAIN s : i <= j => s[i].at <= s[j].at
  BY DEF SoundClaims, InOrder
<1>7. InOrder(p)
  <2> SUFFICES ASSUME NEW i \in 1 .. m - d, NEW j \in 1 .. m - d, i <= j PROVE p[i].at <= p[j].at
    BY <1>5 DEF InOrder
  <2>1. i + d \in DOMAIN s /\ j + d \in DOMAIN s /\ i + d <= j + d
    BY <1>2, <1>5
  <2> QED
    BY <1>4, <1>6, <2>1
<1>8. DOMAIN p = After(p, k)
  <2> SUFFICES ASSUME NEW i \in 1 .. m - d PROVE p[i].at > k
    BY <1>5 DEF After
  <2>1. d # m
    BY <1>2
  <2>2. d + 1 \in DOMAIN s /\ s[d + 1].at > k
    BY <1>4, <2>1 DEF After
  <2>3. d + 1 <= i + d /\ i + d \in DOMAIN s
    BY <1>2, <1>5
  <2>4. s[d + 1].at <= s[i + d].at /\ s[d + 1].at \in Int /\ s[i + d].at \in Int
    BY <1>2, <1>6, <2>2, <2>3
  <2> QED
    BY <1>4, <2>2, <2>4
<1>9. ASSUME NEW c \in Int, k <= c PROVE SizesOf(p, After(p, c)) = SizesOf(s, After(s, c))
  <2>1. After(s, c) \subseteq After(s, k)
    BY <1>2, <1>9 DEF After
  <2>2. \A i \in After(s, c) : i \in 1 .. m /\ i > d /\ s[i].at > c
    BY <1>2, <1>4, <2>1 DEF After
  <2> DEFINE f == [i \in After(s, c) |-> s[i].size]
             g == [i \in After(p, c) |-> p[i].size]
             h == [i \in After(s, c) |-> i - d]
  <2>3. ASSUME NEW i \in After(s, c) PROVE i - d \in After(p, c) /\ p[i - d] = s[i]
    <3>1. i - d \in 1 .. m - d /\ (i - d) + d = i
      BY <1>2, <2>2
    <3>2. p[i - d] = s[i]
      BY <1>4, <3>1
    <3> QED
      BY <1>5, <2>2, <3>1, <3>2 DEF After
  <2>4. ASSUME NEW j \in After(p, c) PROVE \E i \in After(s, c) : i - d = j
    <3>1. j \in 1 .. m - d /\ p[j].at > c
      BY <1>5 DEF After
    <3>2. j + d \in 1 .. m /\ p[j] = s[j + d] /\ (j + d) - d = j
      BY <1>4, <1>5, <3>1
    <3>3. j + d \in After(s, c)
      BY <1>2, <3>1, <3>2 DEF After
    <3> QED
      BY <3>2, <3>3
  <2>5. h \in Bijection(After(s, c), After(p, c))
    <3>1. h \in [After(s, c) -> After(p, c)]
      BY <2>3
    <3>2. \A i, j \in After(s, c) : h[i] = h[j] => i = j
      BY <2>2
    <3>3. \A j \in After(p, c) : \E i \in After(s, c) : h[i] = j
      BY <2>4
    <3> QED
      BY <3>1, <3>2, <3>3 DEF Bijection, Injection, Surjection, IsInjective
  <2>6. \A i \in DOMAIN f : g[h[i]] = f[i]
    BY <2>3
  <2>7. Weighs(f)
    <3>1. IsFiniteSet(After(s, c))
      BY <1>2, FS_Subset DEF After
    <3>2. \A i \in After(s, c) : s[i].size \in Nat
      BY <1>2 DEF After
    <3> QED
      BY <3>1, <3>2, SizesWeigh
  <2>8. DOMAIN f = After(s, c) /\ DOMAIN g = After(p, c)
    OBVIOUS
  <2> HIDE DEF f, g, h
  <2>9. Total(g) = Total(f)
    BY <2>5, <2>6, <2>7, <2>8, TotalReindexed
  <2> QED
    BY <2>9 DEF SizesOf, f, g
<1> QED
  BY <1>1, <1>4, <1>7, <1>8, <1>9 DEF SoundClaims

--------------------------------------------------------------------------------
(* The table of slots.  A deque of slots of an IP is backed by a history when  *)
(* every slot in it is the time of one of the IP's starts.                     *)
Backed(s, ip, history) ==
    \A i \in DOMAIN s : \E j \in DOMAIN history : history[j].ip = ip /\ history[j].at = s[i]
AllBacked(map, history) == \A ip \in DOMAIN map : Backed(map[ip], ip, history)

\* An absent bucket is backed by anything.
LEMMA BucketIsBacked ==
    ASSUME NEW map, NEW history, AllBacked(map, history), NEW ip
    PROVE  Backed(Bucket(map, ip), ip, history)
BY DEF AllBacked, Backed, Bucket

\* Replacing one deque by a sound and backed one keeps the table sound and backed.
LEMMA ReplacingSlots ==
    ASSUME NEW n \in Nat, NEW map, SoundBuckets(map, IPs, n), NEW history, AllBacked(map, history),
           NEW ip \in IPs, NEW s, SoundDeque(s, n), Backed(s, ip, history)
    PROVE  /\ SoundBuckets(Replace(map, ip, s), IPs, n) /\ AllBacked(Replace(map, ip, s), history)
           /\ \A c : Count(Replace(map, ip, s), ip, c) = Cardinality(Newer(s, c))
           /\ \A x, c : x # ip => Count(Replace(map, ip, s), x, c) = Count(map, x, c)
<1>1. PICK R : R = Replace(map, ip, s)
  OBVIOUS
<1>2. SoundBuckets(R, IPs, n) /\ Bucket(R, ip) = s /\ \A x : x # ip => Bucket(R, x) = Bucket(map, x)
  BY <1>1, ReplacingABucket
<1>3. AllBacked(R, history)
  <2>1. \A x \in DOMAIN R : Bucket(R, x) = R[x]
    BY DEF Bucket
  <2>2. \A x : Backed(Bucket(map, x), x, history)
    BY BucketIsBacked
  <2> QED
    BY <1>2, <2>1, <2>2 DEF AllBacked
<1> QED
  BY <1>1, <1>2, <1>3 DEF Count

\* The sweep forgets only slots that have expired.
LEMMA SweepingSlots ==
    ASSUME now \in Nat, SoundBuckets(active, IPs, now), AllBacked(active, begun)
    PROVE  /\ SoundBuckets(SweptActive, IPs, now) /\ AllBacked(SweptActive, begun)
           /\ \A x, c : c \in Int /\ now - SlotTtl <= c => Count(SweptActive, x, c) = Count(active, x, c)
<1>1. CASE Cardinality(DOMAIN active) <= MaxTrackedIPs
  <2>1. SweptActive = active
    BY <1>1 DEF SweptActive, Reclaimed
  <2> QED
    BY <2>1
<1>2. CASE ~(Cardinality(DOMAIN active) <= MaxTrackedIPs)
  <2>1. PICK D : /\ D = {ip \in DOMAIN active : active[ip][Len(active[ip])] <= now - SlotTtl}
                 /\ SweptActive = Without(active, D)
    BY <1>2 DEF SweptActive, Reclaimed, Last
  <2>2. now - SlotTtl \in Int
    BY Limits
  <2>3. SoundBuckets(Without(active, D), IPs, now)
    BY <2>1, <2>2, DroppingOldBuckets
  <2>4. \A x, c : c \in Int /\ now - SlotTtl <= c => Count(Without(active, D), x, c) = Count(active, x, c)
    BY <2>1, <2>2, DroppingOldBuckets
  <2>5. AllBacked(Without(active, D), begun)
    BY DEF AllBacked, Without
  <2> QED
    BY <2>1, <2>3, <2>4, <2>5
<1> QED
  BY <1>1, <1>2

\* The slots that still count.
LEMMA SlotsOfAnIP ==
    ASSUME now \in Nat, SoundBuckets(active, IPs, now), AllBacked(active, begun), NEW ip
    PROVE  /\ SoundDeque(Slots(ip), now) /\ Backed(Slots(ip), ip, begun)
           /\ Len(Slots(ip)) = Count(active, ip, now - SlotTtl)
           /\ \A i \in DOMAIN Slots(ip) : Slots(ip)[i] > now - SlotTtl
           /\ \A c \in Int : now - SlotTtl <= c =>
                  Cardinality(Newer(Slots(ip), c)) = Count(active, ip, c)
<1>1. PICK b : b = Bucket(active, ip) /\ SoundDeque(b, now) /\ Backed(b, ip, begun)
  BY BucketIsSound, BucketIsBacked
<1>2. PICK k \in Int : k = now - SlotTtl
  BY Limits
<1>3. PICK p : p = Pruned(b, k) /\ p = Slots(ip)
  BY <1>1, <1>2 DEF Slots
<1>4. /\ SoundDeque(p, now) /\ Len(p) = Cardinality(Newer(b, k))
      /\ \A c \in Int : k <= c => Cardinality(Newer(p, c)) = Cardinality(Newer(b, c))
  <2>1. /\ SoundDeque(Pruned(b, k), now) /\ Len(Pruned(b, k)) = Cardinality(Newer(b, k))
        /\ \A c \in Int : k <= c => Cardinality(Newer(Pruned(b, k), c)) = Cardinality(Newer(b, c))
    BY <1>1, PruningASoundDeque
  <2> QED
    BY <1>3, <2>1
<1>5. PICK T : T = 0 .. now /\ b \in Seq(T) /\ OldestFirst(b) /\ T \subseteq Nat
  BY <1>1 DEF SoundDeque
<1>6. \A i \in DOMAIN p : p[i] > k
  BY <1>3, <1>5, PrunedIsFresh
<1>7. Backed(p, ip, begun)
  <2>1. Newer(b, k) \subseteq DOMAIN b
    BY DEF Newer
  <2>2. PICK d \in 0 .. Len(b) : Len(p) = Len(b) - d /\ \A i \in 1 .. Len(b) - d : p[i] = b[i + d]
    <3>1. \E d \in 0 .. Len(b) :
            /\ Len(FromFirst(b, Newer(b, k))) = Len(b) - d
            /\ \A i \in 1 .. Len(b) - d : FromFirst(b, Newer(b, k))[i] = b[i + d]
      BY <1>5, <2>1, FromFirstDrops
    <3> QED
      BY <1>3, <3>1 DEF Pruned
  <2>3. PICK m \in Nat : m = Len(b) /\ DOMAIN b = 1 .. m
    BY <1>5
  <2>4. DOMAIN p = 1 .. m - d
    <3>1. DOMAIN p = 1 .. Len(p)
      BY <1>4 DEF SoundDeque
    <3> QED
      BY <2>2, <2>3, <3>1
  <2>5. \A i \in DOMAIN p : i + d \in DOMAIN b /\ p[i] = b[i + d]
    BY <2>2, <2>3, <2>4
  <2> QED
    BY <1>1, <2>5 DEF Backed
<1> QED
  BY <1>1, <1>2, <1>3, <1>4, <1>6, <1>7 DEF Count

\* Releasing pops an IP's oldest slot, if it has one, and touches no other.
LEMMA ReleasingASlot ==
    ASSUME NEW n \in Nat, NEW map, SoundBuckets(map, IPs, n), NEW history, AllBacked(map, history),
           NEW ip \in IPs
    PROVE  /\ SoundBuckets(Released(map, ip), IPs, n) /\ AllBacked(Released(map, ip), history)
           /\ \A x, c : x # ip => Count(Released(map, ip), x, c) = Count(map, x, c)
           /\ \A c \in Int : Count(Released(map, ip), ip, c)
                  = Count(map, ip, c)
                        - (IF Bucket(map, ip) # <<>> /\ Bucket(map, ip)[1] > c THEN 1 ELSE 0)
<1>1. CASE ip \notin DOMAIN map
  <2>1. Released(map, ip) = map /\ Bucket(map, ip) = <<>>
    BY <1>1 DEF Released, Bucket
  <2>2. ASSUME NEW c \in Int PROVE Count(map, ip, c) \in Nat
    BY BucketIsSound, NewerIsFinite DEF Count
  <2> QED
    BY <2>1, <2>2
<1>2. CASE ip \in DOMAIN map
  <2>1. PICK s : s = map[ip] /\ s = Bucket(map, ip) /\ SoundDeque(s, n) /\ s # <<>> /\ Backed(s, ip, history)
    BY <1>2 DEF SoundBuckets, AllBacked, Bucket
  <2>2. /\ SoundDeque(Tail(s), n)
        /\ \A i \in DOMAIN Tail(s) : i + 1 \in DOMAIN s /\ Tail(s)[i] = s[i + 1]
        /\ \A c \in Int : Cardinality(Newer(Tail(s), c))
                                 = Cardinality(Newer(s, c)) - (IF s[1] > c THEN 1 ELSE 0)
    BY <2>1, PoppingTheOldest
  <2>3. Backed(Tail(s), ip, history)
    BY <2>1, <2>2 DEF Backed
  <2>4. Released(map, ip) = Replace(map, ip, Tail(s))
    BY <1>2, <2>1 DEF Released
  <2>5. PICK t : t = Tail(s)
    OBVIOUS
  <2>6. /\ SoundBuckets(Replace(map, ip, t), IPs, n) /\ AllBacked(Replace(map, ip, t), history)
        /\ \A c : Count(Replace(map, ip, t), ip, c) = Cardinality(Newer(t, c))
        /\ \A x, c : x # ip => Count(Replace(map, ip, t), x, c) = Count(map, x, c)
    BY <2>2, <2>3, <2>5, ReplacingSlots
  <2> QED
    BY <2>1, <2>2, <2>4, <2>5, <2>6 DEF Count
<1> QED
  BY <1>1, <1>2

--------------------------------------------------------------------------------
(* The table of claims.                                                        *)

\* An absent bucket is an empty deque of claims: sound like the others.
LEMMA BucketOfClaims ==
    ASSUME NEW n \in Nat, NEW map, SoundTable(map, n), NEW ip
    PROVE  SoundClaims(Bucket(map, ip), n)
<1>1. SoundClaims(<<>>, n)
  BY DEF SoundClaims, InOrder
<1> QED
  BY <1>1 DEF SoundTable, Bucket

\* The claims of a sound deque after a cutoff are finitely many, and weigh something.
LEMMA ClaimsWeigh ==
    ASSUME NEW n \in Nat, NEW s, SoundClaims(s, n), NEW c
    PROVE  /\ IsFiniteSet(After(s, c)) /\ SizesOf(s, After(s, c)) \in Nat
           /\ \A i \in After(s, c) : s[i].size \in Nat
<1>1. /\ IsFiniteSet(DOMAIN s)
      /\ \A i \in DOMAIN s : s[i].size \in Nat
  BY ClaimFields DEF SoundClaims
<1>2. After(s, c) \subseteq DOMAIN s
  BY DEF After
<1>3. IsFiniteSet(After(s, c)) /\ \A i \in After(s, c) : s[i].size \in Nat
  BY <1>1, <1>2, FS_Subset
<1> QED
  BY <1>3, SizesWeigh

\* Replacing one deque of claims by a sound one keeps the table sound.
LEMMA ReplacingClaims ==
    ASSUME NEW n \in Nat, NEW map, SoundTable(map, n), NEW ip \in IPs, NEW s, SoundClaims(s, n)
    PROVE  /\ SoundTable(Replace(map, ip, s), n)
           /\ Bucket(Replace(map, ip, s), ip) = s
           /\ \A x : x # ip => Bucket(Replace(map, ip, s), x) = Bucket(map, x)
<1>0. PICK R : R = Replace(map, ip, s)
  OBVIOUS
<1>1. /\ Bucket(R, ip) = s
      /\ \A x : x # ip => Bucket(R, x) = Bucket(map, x)
      /\ DOMAIN R = IF s = <<>> THEN DOMAIN map \ {ip} ELSE DOMAIN map \cup {ip}
      /\ \A x \in DOMAIN R : R[x] = IF x = ip THEN s ELSE map[x]
  BY <1>0 DEF Bucket, Replace, With, Without
<1>2. DOMAIN R \subseteq IPs /\ IsFiniteSet(DOMAIN R)
  <2>1. IsFiniteSet(DOMAIN map \ {ip}) /\ IsFiniteSet(DOMAIN map \cup {ip})
    BY FS_Difference, FS_AddElement DEF SoundTable
  <2> QED
    BY <1>1, <2>1 DEF SoundTable
<1>3. \A x \in DOMAIN R : SoundClaims(R[x], n) /\ R[x] # <<>>
  <2> TAKE x \in DOMAIN R
  <2>1. CASE s = <<>>
    BY <1>1, <2>1 DEF SoundTable
  <2>2. CASE s # <<>>
    BY <1>1, <2>2 DEF SoundTable
  <2> QED
    BY <2>1, <2>2
<1>4. SoundTable(R, n)
  BY <1>2, <1>3 DEF SoundTable
<1> QED
  BY <1>0, <1>1, <1>4

\* The sweep forgets only bytes that no longer count.
LEMMA SweepingClaims ==
    ASSUME now \in Nat, SoundTable(declared, now)
    PROVE  /\ SoundTable(SweptDeclared, now)
           /\ \A x, c : c \in Int /\ now - Window <= c => Bytes(SweptDeclared, x, c) = Bytes(declared, x, c)
<1>1. CASE Cardinality(DOMAIN declared) <= MaxTrackedIPs
  <2>1. SweptDeclared = declared
    BY <1>1 DEF SweptDeclared, Reclaimed
  <2> QED
    BY <2>1
<1>2. CASE ~(Cardinality(DOMAIN declared) <= MaxTrackedIPs)
  <2>1. PICK D, left :
          /\ D = {ip \in DOMAIN declared : declared[ip][Len(declared[ip])].at <= now - Window}
          /\ left = Without(declared, D)
          /\ SweptDeclared = left
    BY <1>2 DEF SweptDeclared, Reclaimed, Last
  <2>2. DOMAIN left = DOMAIN declared \ D /\ \A ip \in DOMAIN left : left[ip] = declared[ip]
    BY <2>1 DEF Without
  <2>3. SoundTable(left, now)
    <3>1. IsFiniteSet(DOMAIN declared \ D)
      BY FS_Difference DEF SoundTable
    <3> QED
      BY <2>2, <3>1 DEF SoundTable
  <2>4. ASSUME NEW x, NEW c \in Int, now - Window <= c PROVE Bytes(left, x, c) = Bytes(declared, x, c)
    <3>1. CASE x \notin DOMAIN declared \/ x \in DOMAIN left
      BY <2>2, <3>1 DEF Bytes, Bucket
    <3>2. CASE x \in DOMAIN declared /\ x \notin DOMAIN left
      <4>1. PICK s : s = declared[x] /\ SoundClaims(s, now) /\ s # <<>> /\ s[Len(s)].at <= now - Window
        BY <2>1, <2>2, <3>2 DEF SoundTable
      <4>2. PICK m \in Nat : /\ m = Len(s) /\ DOMAIN s = 1 .. m /\ m \in DOMAIN s
                             /\ \A i \in DOMAIN s : s[i].at \in Int
        <5>1. s \in Seq([at : 0 .. now, size : Sizes])
          BY <4>1 DEF SoundClaims
        <5>2. Len(s) \in Nat /\ DOMAIN s = 1 .. Len(s) /\ \A i \in DOMAIN s : s[i].at \in Int
          BY <5>1, ClaimFields
        <5>3. Len(s) # 0
          BY <4>1, <5>1
        <5> QED
          BY <5>2, <5>3
      <4>3. \A i \in DOMAIN s : s[i].at <= s[m].at
        BY <4>1, <4>2 DEF SoundClaims, InOrder
      <4>4. After(s, c) = {}
        <5> SUFFICES ASSUME NEW i \in DOMAIN s PROVE ~(s[i].at > c)
          BY DEF After
        <5>1. s[i].at <= s[m].at /\ s[i].at \in Int /\ s[m].at \in Int /\ s[m].at <= now - Window
          BY <4>1, <4>2, <4>3
        <5> QED
          BY <2>4, <5>1, Limits
      <4>5. Bucket(declared, x) = s /\ Bucket(left, x) = <<>>
        BY <3>2, <4>1 DEF Bucket
      <4>6. After(<<>>, c) = {}
        BY DEF After
      <4> QED
        BY <4>4, <4>5, <4>6, NoSizes DEF Bytes
    <3> QED
      BY <3>1, <3>2
  <2> QED
    BY <2>1, <2>3, <2>4
<1> QED
  BY <1>1, <1>2

\* What an IP has spent, as start sees it, is what it declared within the window.
LEMMA SpentByAnIP ==
    ASSUME now \in Nat, SoundTable(declared, now), NEW ip
    PROVE  /\ SoundClaims(Spent(ip), now)
           /\ SumOfSizes(Spent(ip)) = Bytes(declared, ip, now - Window)
           /\ \A c \in Int : now - Window <= c =>
                  SizesOf(Spent(ip), After(Spent(ip), c)) = Bytes(declared, ip, c)
<1>1. PICK s : s = Bucket(declared, ip) /\ SoundClaims(s, now)
  BY BucketOfClaims
<1>2. PICK k \in Int : k = now - Window /\ k <= k
  BY Limits
<1>3. PICK p : p = FromFirst(s, After(s, k)) /\ p = Spent(ip)
  BY <1>1, <1>2 DEF Spent
<1>4. /\ SoundClaims(p, now) /\ DOMAIN p = After(p, k)
      /\ \A c \in Int : k <= c => SizesOf(p, After(p, c)) = SizesOf(s, After(s, c))
  <2>1. SoundClaims(s, now) /\ p = FromFirst(s, After(s, k))
    BY <1>1, <1>3
  <2>2. SoundClaims(p, now) /\ DOMAIN p = After(p, k)
    BY <2>1, PruningClaims
  <2>3. \A c \in Int : k <= c => SizesOf(p, After(p, c)) = SizesOf(s, After(s, c))
    BY <2>1, PruningClaims
  <2> QED
    BY <2>2, <2>3
<1> QED
  BY <1>1, <1>2, <1>3, <1>4 DEF Bytes, SumOfSizes

\* Appending a claim of the present adds its size after every earlier cutoff.
LEMMA AppendingAClaim ==
    ASSUME NEW n \in Nat, NEW s, SoundClaims(s, n), NEW z \in Sizes,
           NEW t, t = Append(s, [at |-> n, size |-> z])
    PROVE  /\ SoundClaims(t, n)
           /\ \A c \in Int : SizesOf(t, After(t, c))
                                 = SizesOf(s, After(s, c)) + (IF n > c THEN z ELSE 0)
<1>1. PICK e : e = [at |-> n, size |-> z]
  OBVIOUS
<1>2. e.at = n /\ e.size = z /\ e \in [at : 0 .. n, size : Sizes] /\ z \in Nat
  BY <1>1, Limits
<1>3. PICK T : T = [at : 0 .. n, size : Sizes] /\ s \in Seq(T) /\ e \in T
  BY <1>2 DEF SoundClaims
<1>4. PICK m \in Nat :
        /\ m = Len(s) /\ DOMAIN s = 1 .. m
        /\ \A i \in DOMAIN s : s[i].at \in Int /\ s[i].at <= n /\ s[i].size \in Nat
  BY <1>3, ClaimFields
<1>5. PICK k : k = m + 1 /\ k \notin DOMAIN s
  BY <1>4
<1>6. /\ t \in Seq(T) /\ DOMAIN t = 1 .. m + 1
      /\ \A i \in 1 .. m : t[i] = s[i]
      /\ t[k] = e
  BY <1>1, <1>3, <1>4, <1>5
<1>7. DOMAIN t = DOMAIN s \cup {k}
  BY <1>4, <1>5, <1>6
<1>8. InOrder(t)
  <2> SUFFICES ASSUME NEW i \in 1 .. m + 1, NEW j \in 1 .. m + 1, i <= j PROVE t[i].at <= t[j].at
    BY <1>6 DEF InOrder
  <2>1. CASE j = k
    <3>1. t[j].at = n
      BY <1>2, <1>6, <2>1
    <3>2. CASE i = k
      <4>1. t[i].at = n /\ n <= n
        BY <1>2, <1>6, <3>2
      <4> QED
        BY <3>1, <4>1
    <3>3. CASE i # k
      BY <1>4, <1>5, <1>6, <3>1, <3>3
    <3> QED
      BY <3>2, <3>3
  <2>2. CASE j # k
    <3>1. i \in 1 .. m /\ j \in 1 .. m
      BY <1>5, <2>2
    <3> QED
      BY <1>4, <1>6, <3>1 DEF SoundClaims, InOrder
  <2> QED
    BY <2>1, <2>2
<1>9. ASSUME NEW c \in Int
      PROVE  SizesOf(t, After(t, c)) = SizesOf(s, After(s, c)) + (IF n > c THEN z ELSE 0)
  <2>1. /\ IsFiniteSet(After(s, c)) /\ SizesOf(s, After(s, c)) \in Nat
        /\ \A i \in After(s, c) : s[i].size \in Nat
    BY ClaimsWeigh
  <2>2. k \notin After(s, c) /\ \A i \in After(s, c) : t[i] = s[i]
    BY <1>4, <1>5, <1>6 DEF After
  <2>3. SizesOf(t, After(s, c)) = SizesOf(s, After(s, c)) /\ SameSizes(s, t, After(s, c))
    BY <2>1, <2>2, SameSum DEF SameSizes
  <2>4. CASE n > c
    <3>1. After(t, c) = After(s, c) \cup {k}
      BY <1>2, <1>4, <1>6, <1>7, <2>4 DEF After
    <3>2. OneMore(After(t, c), After(s, c), k)
      BY <2>2, <3>1 DEF OneMore
    <3>3. t[k].size = z /\ z \in Nat
      BY <1>2, <1>6
    <3> QED
      <4>1. PICK S, R : S = After(s, c) /\ R = After(t, c)
        OBVIOUS
      <4>2. PICK w \in Nat : w = z
        BY <3>3
      <4>3. IsFiniteSet(S) /\ SameSizes(s, t, S) /\ t[k].size = w /\ OneMore(R, S, k)
        BY <2>1, <2>3, <3>2, <3>3, <4>1, <4>2
      <4>4. SizesOf(t, R) = SizesOf(s, S) + w
        BY ONLY <4>3, OneMoreSize
      <4> QED
        BY <2>4, <4>1, <4>2, <4>4
  <2>5. CASE ~(n > c)
    <3>1. After(t, c) = After(s, c)
      BY <1>2, <1>4, <1>6, <1>7, <2>5 DEF After
    <3> QED
      BY <2>1, <2>3, <2>5, <3>1
  <2> QED
    BY <2>4, <2>5
<1> QED
  BY <1>3, <1>6, <1>8, <1>9 DEF SoundClaims

--------------------------------------------------------------------------------
(* The history.                                                                *)
History(n) == Seq([ip : IPs, at : 0 .. n, size : Sizes])
BegunIn(h, x, cutoff) == {i \in DOMAIN h : h[i].ip = x /\ h[i].at > cutoff}

\* What a history is made of.
LEMMA HistoryFields ==
    ASSUME NEW n \in Nat, NEW h \in History(n)
    PROVE  /\ Len(h) \in Nat /\ DOMAIN h = 1 .. Len(h) /\ IsFiniteSet(DOMAIN h)
           /\ \A i \in DOMAIN h : /\ h[i].ip \in IPs /\ h[i].at \in Int /\ h[i].at <= n
                                  /\ h[i].size \in Nat
<1>1. PICK T : T = [ip : IPs, at : 0 .. n, size : Sizes] /\ h \in Seq(T)
  BY DEF History
<1>2. Len(h) \in Nat /\ DOMAIN h = 1 .. Len(h)
  BY <1>1
<1>3. \A i \in DOMAIN h : h[i] \in T
  BY <1>1, <1>2, ElementOfSeq
<1>4. \A e \in T : e.ip \in IPs /\ e.at \in Int /\ e.at <= n /\ e.size \in Nat
  <2>1. \A e \in T : e.ip \in IPs /\ e.at \in 0 .. n /\ e.size \in Sizes
    BY ONLY <1>1
  <2>2. \A x \in 0 .. n : x \in Int /\ x <= n
    OBVIOUS
  <2>3. \A x \in Sizes : x \in Nat
    BY Limits
  <2> QED
    BY ONLY <2>1, <2>2, <2>3
<1>5. IsFiniteSet(DOMAIN h)
  BY <1>2, FS_Interval
<1> QED
  BY <1>2, <1>3, <1>4, <1>5

\* What an IP began after a cutoff is finite and weighs something.
LEMMA HistoryWeighs ==
    ASSUME NEW n \in Nat, NEW h \in History(n), NEW x, NEW c
    PROVE  /\ IsFiniteSet(BegunIn(h, x, c)) /\ SizesOf(h, BegunIn(h, x, c)) \in Nat
           /\ \A i \in BegunIn(h, x, c) : h[i].size \in Nat
           /\ \A R \in SUBSET BegunIn(h, x, c) : SizesOf(h, R) \in Nat
                                                  /\ SizesOf(h, R) <= SizesOf(h, BegunIn(h, x, c))
<1>1. IsFiniteSet(DOMAIN h) /\ \A i \in DOMAIN h : h[i].size \in Nat
  BY HistoryFields
<1>2. BegunIn(h, x, c) \subseteq DOMAIN h
  BY DEF BegunIn
<1>3. IsFiniteSet(BegunIn(h, x, c)) /\ \A i \in BegunIn(h, x, c) : h[i].size \in Nat
  BY <1>1, <1>2, FS_Subset
<1> QED
  BY <1>3, SizesWeigh

\* One more start is one more in the history: its bytes count once, and what the history
\* backed it still backs, the new slot included.
Extends(t, h, who, n, z) == t = Append(h, [ip |-> who, at |-> n, size |-> z])
LEMMA ExtendingTheHistory ==
    ASSUME NEW n \in Nat, NEW h \in History(n), NEW who \in IPs, NEW z \in Sizes,
           NEW t, Extends(t, h, who, n, z)
    PROVE  /\ t \in History(n) /\ Len(t) = Len(h) + 1
           /\ \A x : \A c \in Int : SizesOf(t, BegunIn(t, x, c))
                  = SizesOf(h, BegunIn(h, x, c)) + (IF x = who /\ n > c THEN z ELSE 0)
           /\ \A s, x : Backed(s, x, h) => Backed(s, x, t)
           /\ \E j \in DOMAIN t : t[j].ip = who /\ t[j].at = n
<1>1. PICK e : e = [ip |-> who, at |-> n, size |-> z]
  OBVIOUS
<1>2. e.ip = who /\ e.at = n /\ e.size = z /\ e \in [ip : IPs, at : 0 .. n, size : Sizes] /\ z \in Nat
  <2>1. e.ip = who /\ e.at = n /\ e.size = z
    BY ONLY <1>1
  <2>2. e \in [ip : IPs, at : 0 .. n, size : Sizes]
    BY <1>1
  <2> QED
    BY <2>1, <2>2, Limits
<1>3. PICK T : T = [ip : IPs, at : 0 .. n, size : Sizes] /\ h \in Seq(T) /\ e \in T
  BY <1>2 DEF History
<1>4. PICK m \in Nat : m = Len(h) /\ DOMAIN h = 1 .. m
  BY <1>3
<1>5. PICK k : k = m + 1 /\ k \notin DOMAIN h
  BY <1>4
<1>6. /\ t \in Seq(T) /\ DOMAIN t = 1 .. m + 1 /\ Len(t) = m + 1
      /\ \A i \in DOMAIN h : t[i] = h[i]
      /\ t[k] = e
  BY <1>1, <1>3, <1>4, <1>5 DEF Extends
<1>7. DOMAIN t = DOMAIN h \cup {k}
  BY <1>4, <1>5, <1>6
<1>8. ASSUME NEW x, NEW c \in Int
      PROVE  SizesOf(t, BegunIn(t, x, c))
                 = SizesOf(h, BegunIn(h, x, c)) + (IF x = who /\ n > c THEN z ELSE 0)
  <2>1. PICK S, R : S = BegunIn(h, x, c) /\ R = BegunIn(t, x, c)
    OBVIOUS
  <2>2. IsFiniteSet(S) /\ SizesOf(h, S) \in Nat /\ \A i \in S : h[i].size \in Nat
    BY <2>1, HistoryWeighs
  <2>3. SameSizes(h, t, S) /\ k \notin S
    BY <1>5, <1>6, <2>1, <2>2 DEF SameSizes, BegunIn
  <2>4. CASE x = who /\ n > c
    <3>1. OneMore(R, S, k)
      BY <1>2, <1>5, <1>6, <1>7, <2>1, <2>4 DEF BegunIn, OneMore
    <3>2. PICK w \in Nat : w = z /\ t[k].size = w
      BY <1>2, <1>6
    <3>3. SizesOf(t, R) = SizesOf(h, S) + w
      BY ONLY <2>2, <2>3, <3>1, <3>2, w \in Nat, OneMoreSize
    <3> QED
      BY <2>1, <2>4, <3>2, <3>3
  <2>5. CASE ~(x = who /\ n > c)
    <3>1. R = S
      BY <1>2, <1>5, <1>6, <1>7, <2>1, <2>5 DEF BegunIn
    <3>2. SizesOf(t, S) = SizesOf(h, S)
      BY ONLY <2>3, SameSum
    <3> QED
      BY <2>1, <2>2, <2>5, <3>1, <3>2
  <2> QED
    BY <2>4, <2>5
<1>9. ASSUME NEW s, NEW x, Backed(s, x, h) PROVE Backed(s, x, t)
  BY <1>6, <1>7, <1>9 DEF Backed
<1>10. \E j \in DOMAIN t : t[j].ip = who /\ t[j].at = n
  BY <1>2, <1>6, <1>7
<1> QED
  BY <1>3, <1>4, <1>6, <1>8, <1>9, <1>10 DEF History

--------------------------------------------------------------------------------
(* LimiterInv, in the words of the lemmas.                                     *)
Uploads(f, n, len) ==
    /\ DOMAIN f \subseteq 1 .. len
    /\ \A u \in DOMAIN f : f[u] \in [ip : IPs, started : 0 .. n, touched : 0 .. n, told : BOOLEAN]
Dones(d, f, n, len) ==
    /\ DOMAIN d \subseteq 1 .. len
    /\ \A u \in DOMAIN d : d[u] \in [ip : IPs, started : 0 .. n, at : 0 .. n] /\ u \notin DOMAIN f
Remembered(map, h, n) ==
    \A x \in IPs : \A c \in (n - Window) .. Horizon : Bytes(map, x, c) = SizesOf(h, BegunIn(h, x, c))
Rationed(h, n) == \A x \in IPs : SizesOf(h, BegunIn(h, x, n - Window)) <= MaxBytes

Limited(n, slots, claims, uploads, dones, h) ==
    /\ n \in 0 .. Horizon
    /\ SoundBuckets(slots, IPs, n) /\ AllBacked(slots, h)
    /\ SoundTable(claims, n)
    /\ h \in History(n)
    /\ Uploads(uploads, n, Len(h)) /\ Dones(dones, uploads, n, Len(h))
    /\ Remembered(claims, h, n)
    /\ Rationed(h, n)

\* The invariant says just that of this state.
LEMMA LimiterIsLimited == LimiterInv <=> Limited(now, active, declared, inflight, finished, begun)
BY DEF LimiterInv, Limited, TypeOK, BucketsAreSorted, SlotsWereClaimed, BytesAreRemembered,
       BytesAreRationed, SoundBuckets, SoundDeque, AllBacked, Backed, SoundTable, SoundClaims,
       History, Uploads, Dones, Remembered, Rationed, Bytes, BegunBy, BegunIn

\* And of the next.
LEMMA LimiterIsLimitedNext == LimiterInv' <=> Limited(now', active', declared', inflight', finished', begun')
BY DEF LimiterInv, Limited, TypeOK, BucketsAreSorted, SlotsWereClaimed, BytesAreRemembered,
       BytesAreRationed, SoundBuckets, SoundDeque, AllBacked, Backed, SoundTable, SoundClaims,
       History, Uploads, Dones, Remembered, Rationed, Bytes, BegunBy, BegunIn

\* At start nothing is claimed and nothing was begun.
LEMMA InitLimited == Init => LimiterInv
<1> SUFFICES ASSUME Init PROVE Limited(now, active, declared, inflight, finished, begun)
  BY LimiterIsLimited
<1>1. now = 0 /\ active = <<>> /\ declared = <<>> /\ inflight = <<>> /\ begun = <<>> /\ finished = <<>>
  BY DEF Init
<1>2. DOMAIN <<>> = {} /\ Len(<<>>) = 0 /\ IsFiniteSet({})
  BY FS_EmptySet
<1>3. now \in 0 .. Horizon
  BY <1>1, Limits
<1>4. SoundBuckets(active, IPs, now) /\ AllBacked(active, begun) /\ SoundTable(declared, now)
  BY <1>1, <1>2 DEF SoundBuckets, AllBacked, SoundTable
<1>5. begun \in History(now) /\ Uploads(inflight, now, Len(begun)) /\ Dones(finished, inflight, now, Len(begun))
  BY <1>1, <1>2 DEF History, Uploads, Dones
<1>6. \A x, c : BegunIn(begun, x, c) = {} /\ After(Bucket(declared, x), c) = {}
  BY <1>1, <1>2 DEF BegunIn, Bucket, After
<1>7. Remembered(declared, begun, now) /\ Rationed(begun, now)
  <2>1. \A x, c : Bytes(declared, x, c) = 0 /\ SizesOf(begun, BegunIn(begun, x, c)) = 0
    BY <1>6, NoSizes DEF Bytes
  <2> QED
    BY <2>1, Limits DEF Remembered, Rationed
<1> QED
  BY <1>3, <1>4, <1>5, <1>7 DEF Limited

\* Time only takes bytes out of the window.
LEMMA TickKeepsLimited == LimiterInv /\ Tick => LimiterInv'
<1> SUFFICES ASSUME LimiterInv, Tick PROVE LimiterInv'
  OBVIOUS
<1>1. Limited(now, active, declared, inflight, finished, begun)
  BY LimiterIsLimited
<1>2. PICK n, later : n = now /\ later = n + 1 /\ n \in Nat /\ later \in 0 .. Horizon /\ later \in Nat
  BY <1>1, Limits DEF Limited, Tick
<1>3. Limited(n, active, declared, inflight, finished, begun)
  BY <1>1, <1>2
<1>4. 0 .. n \subseteq 0 .. later
  BY <1>2
<1>5. SoundBuckets(active, IPs, later)
  <2>1. ASSUME NEW ip \in DOMAIN active PROVE SoundDeque(active[ip], later) /\ active[ip] # <<>>
    <3>1. active[ip] \in Seq(0 .. n) /\ OldestFirst(active[ip]) /\ active[ip] # <<>>
      BY <1>3 DEF Limited, SoundBuckets, SoundDeque
    <3>2. active[ip] \in Seq(0 .. later)
      BY <1>4, <3>1, SeqOfPart
    <3> QED
      BY <3>1, <3>2 DEF SoundDeque
  <2> QED
    BY <1>3, <2>1 DEF Limited, SoundBuckets
<1>6. SoundTable(declared, later)
  <2>1. PICK T, U : /\ T = [at : 0 .. n, size : Sizes] /\ U = [at : 0 .. later, size : Sizes]
                    /\ T \subseteq U
    BY ZenonT(30), <1>4
  <2>2. ASSUME NEW ip \in DOMAIN declared PROVE SoundClaims(declared[ip], later) /\ declared[ip] # <<>>
    <3>1. PICK s : s = declared[ip] /\ s \in Seq(T) /\ InOrder(s) /\ s # <<>>
      BY <1>3, <2>1 DEF Limited, SoundTable, SoundClaims
    <3>2. T \subseteq U
      BY <2>1
    <3>3. s \in Seq(U)
      BY ONLY <3>1, <3>2, SeqOfPart
    <3> QED
      BY <2>1, <3>1, <3>3 DEF SoundClaims
  <2> QED
    BY <1>3, <2>2 DEF Limited, SoundTable
<1>7. begun \in History(n) /\ begun \in History(later)
  <2>1. PICK T, U : /\ T = [ip : IPs, at : 0 .. n, size : Sizes]
                    /\ U = [ip : IPs, at : 0 .. later, size : Sizes]
                    /\ T \subseteq U
    BY ZenonT(30), <1>4
  <2>2. begun \in Seq(T)
    BY <1>3, <2>1 DEF Limited, History
  <2>3. begun \in Seq(U)
    BY <2>1, <2>2, SeqOfPart
  <2> QED
    BY <2>1, <2>2, <2>3 DEF History
<1>8. Uploads(inflight, later, Len(begun)) /\ Dones(finished, inflight, later, Len(begun))
  BY <1>3, <1>4 DEF Limited, Uploads, Dones
<1>9. Remembered(declared, begun, later)
  <2>1. (later - Window) .. Horizon \subseteq (n - Window) .. Horizon
    BY <1>2, Limits
  <2> QED
    BY <1>3, <2>1 DEF Limited, Remembered
<1>10. Rationed(begun, later)
  <2> SUFFICES ASSUME NEW x \in IPs PROVE SizesOf(begun, BegunIn(begun, x, later - Window)) <= MaxBytes
    BY DEF Rationed
  <2>1. \A i \in DOMAIN begun : begun[i].at \in Int
    BY <1>2, <1>7, HistoryFields
  <2>2. BegunIn(begun, x, later - Window) \in SUBSET BegunIn(begun, x, n - Window)
    BY <1>2, <2>1, Limits DEF BegunIn
  <2>3. SizesOf(begun, BegunIn(begun, x, n - Window)) <= MaxBytes
    BY <1>3 DEF Limited, Rationed
  <2>4. /\ SizesOf(begun, BegunIn(begun, x, n - Window)) \in Nat
        /\ SizesOf(begun, BegunIn(begun, x, later - Window)) \in Nat
        /\ SizesOf(begun, BegunIn(begun, x, later - Window)) <= SizesOf(begun, BegunIn(begun, x, n - Window))
    BY <1>2, <1>7, <2>2, HistoryWeighs
  <2> QED
    BY <2>3, <2>4, Limits
<1>11. Limited(later, active, declared, inflight, finished, begun)
  BY <1>2, <1>3, <1>5, <1>6, <1>7, <1>8, <1>9, <1>10 DEF Limited
<1>12. /\ now' = later /\ active' = active /\ declared' = declared
       /\ inflight' = inflight /\ finished' = finished /\ begun' = begun
  BY <1>2 DEF Tick
<1> QED
  BY <1>11, <1>12, LimiterIsLimitedNext

\* A start that is admitted: its bytes are claimed and remembered, and fit the window.
LEMMA ClaimIsRemembered ==
    ASSUME Limited(now, active, declared, inflight, finished, begun), NEW who \in IPs, NEW z \in Sizes,
           Claim(who, z)
    PROVE  /\ now' = now /\ finished' = finished
           /\ SoundTable(declared', now) /\ begun' \in History(now) /\ Len(begun') = Len(begun) + 1
           /\ Remembered(declared', begun', now) /\ Rationed(begun', now)
           /\ \A s, x : Backed(s, x, begun) => Backed(s, x, begun')
           /\ \E j \in DOMAIN begun' : begun'[j].ip = who /\ begun'[j].at = now
<1>1. PICK n \in Nat : n = now /\ n \in 0 .. Horizon
  BY Limits DEF Limited
<1>2. PICK t : t = begun' /\ t = Append(begun, [ip |-> who, at |-> n, size |-> z])
  BY <1>1 DEF Claim
<1>3. begun \in History(n) /\ SoundTable(declared, n)
  BY <1>1 DEF Limited
<1>4. /\ t \in History(n) /\ Len(t) = Len(begun) + 1
      /\ \A x : \A c \in Int : SizesOf(t, BegunIn(t, x, c))
             = SizesOf(begun, BegunIn(begun, x, c)) + (IF x = who /\ n > c THEN z ELSE 0)
      /\ \A s, x : Backed(s, x, begun) => Backed(s, x, t)
      /\ \E j \in DOMAIN t : t[j].ip = who /\ t[j].at = n
  <2>1. begun \in History(n) /\ Extends(t, begun, who, n, z)
    BY <1>2, <1>3 DEF Extends
  <2>2. t \in History(n) /\ Len(t) = Len(begun) + 1
    BY ONLY <2>1, n \in Nat, who \in IPs, z \in Sizes, ExtendingTheHistory
  <2>3. \A x : \A c \in Int : SizesOf(t, BegunIn(t, x, c))
            = SizesOf(begun, BegunIn(begun, x, c)) + (IF x = who /\ n > c THEN z ELSE 0)
    BY ONLY <2>1, n \in Nat, who \in IPs, z \in Sizes, ExtendingTheHistory
  <2>4. \A s, x : Backed(s, x, begun) => Backed(s, x, t)
    BY ONLY <2>1, n \in Nat, who \in IPs, z \in Sizes, ExtendingTheHistory
  <2>5. \E j \in DOMAIN t : t[j].ip = who /\ t[j].at = n
    BY ONLY <2>1, n \in Nat, who \in IPs, z \in Sizes, ExtendingTheHistory
  <2> QED
    BY <2>2, <2>3, <2>4, <2>5
<1>5. PICK swept : /\ swept = SweptDeclared /\ SoundTable(swept, n)
                   /\ \A x, c : c \in Int /\ n - Window <= c => Bytes(swept, x, c) = Bytes(declared, x, c)
  BY <1>1, <1>3, SweepingClaims
<1>6. PICK p : /\ p = Spent(who) /\ SoundClaims(p, n)
               /\ SumOfSizes(p) = Bytes(declared, who, n - Window)
               /\ \A c \in Int : n - Window <= c => SizesOf(p, After(p, c)) = Bytes(declared, who, c)
  BY <1>1, <1>3, SpentByAnIP
<1>7. PICK q : q = Append(p, [at |-> n, size |-> z])
  OBVIOUS
<1>8. /\ SoundClaims(q, n)
      /\ \A c \in Int : SizesOf(q, After(q, c)) = SizesOf(p, After(p, c)) + (IF n > c THEN z ELSE 0)
  BY <1>6, <1>7, AppendingAClaim
<1>9. PICK R : R = declared' /\ R = Replace(swept, who, q)
  BY <1>1, <1>5, <1>6, <1>7 DEF Claim
<1>10. SoundTable(R, n) /\ Bucket(R, who) = q /\ \A x : x # who => Bucket(R, x) = Bucket(swept, x)
  BY <1>5, <1>8, <1>9, ReplacingClaims
<1>11. ASSUME NEW x \in IPs, NEW c \in (n - Window) .. Horizon
       PROVE  Bytes(R, x, c) = SizesOf(t, BegunIn(t, x, c))
  <2>1. c \in Int /\ n - Window <= c
    BY <1>1, Limits
  <2>2. Bytes(declared, x, c) = SizesOf(begun, BegunIn(begun, x, c))
    BY <1>1 DEF Limited, Remembered
  <2>3. SizesOf(begun, BegunIn(begun, x, c)) \in Nat
    BY <1>3, HistoryWeighs
  <2>4. CASE x = who
    <3>1. Bytes(R, x, c) = Bytes(declared, x, c) + (IF n > c THEN z ELSE 0)
      BY <1>6, <1>8, <1>10, <2>1, <2>4 DEF Bytes
    <3> QED
      BY <1>4, <2>1, <2>2, <2>4, <3>1
  <2>5. CASE x # who
    <3>1. Bytes(R, x, c) = Bytes(declared, x, c)
      BY <1>5, <1>10, <2>1, <2>5 DEF Bytes
    <3> QED
      BY <1>4, <2>1, <2>2, <2>3, <2>5, <3>1
  <2> QED
    BY <2>4, <2>5
<1>12. ASSUME NEW x \in IPs PROVE SizesOf(t, BegunIn(t, x, n - Window)) <= MaxBytes
  <2>1. n - Window \in Int /\ n - Window \in (n - Window) .. Horizon
    BY <1>1, Limits
  <2>2. SizesOf(begun, BegunIn(begun, x, n - Window)) \in Nat
    BY <1>3, HistoryWeighs
  <2>3. CASE x = who
    <3>1. SumOfSizes(p) + z <= MaxBytes
      BY <1>6 DEF Claim, Admits, HasBytes
    <3>2. SumOfSizes(p) = SizesOf(begun, BegunIn(begun, x, n - Window))
      BY <1>1, <1>6, <2>1, <2>3 DEF Limited, Remembered
    <3>3. SizesOf(t, BegunIn(t, x, n - Window)) = SizesOf(begun, BegunIn(begun, x, n - Window)) + z
      BY <1>1, <1>4, <2>1, <2>3, Limits
    <3> QED
      BY <3>1, <3>2, <3>3
  <2>4. CASE x # who
    <3>1. SizesOf(t, BegunIn(t, x, n - Window)) = SizesOf(begun, BegunIn(begun, x, n - Window))
      BY <1>4, <2>1, <2>2, <2>4
    <3> QED
      BY <1>1, <3>1 DEF Limited, Rationed
  <2> QED
    BY <2>3, <2>4
<1>13. now' = now /\ finished' = finished
  BY DEF Claim
<1>14. Remembered(R, t, n) /\ Rationed(t, n)
  BY <1>11, <1>12 DEF Remembered, Rationed
<1> QED
  BY <1>1, <1>2, <1>4, <1>9, <1>10, <1>13, <1>14

--------------------------------------------------------------------------------
(* The slots a start claims, and what each step does with the uploads.         *)

\* A claim forgets no slot that still counts, and adds one of the present.
LEMMA ClaimedSlots ==
    ASSUME now \in Nat, SoundBuckets(active, IPs, now), AllBacked(active, begun), NEW who \in IPs,
           NEW later, \A s, x : Backed(s, x, begun) => Backed(s, x, later),
           \E j \in DOMAIN later : later[j].ip = who /\ later[j].at = now
    PROVE  /\ SoundBuckets(Claimed(who), IPs, now) /\ AllBacked(Claimed(who), later)
           /\ Bucket(Claimed(who), who) = Append(Slots(who), now)
           /\ \A x, c : c \in Int /\ now - SlotTtl <= c =>
                  Count(Claimed(who), x, c)
                      = Count(active, x, c) + (IF x = who /\ now > c THEN 1 ELSE 0)
<1>1. PICK n \in Nat : n = now
  OBVIOUS
<1>2. PICK swept : /\ swept = SweptActive
                   /\ SoundBuckets(swept, IPs, n) /\ AllBacked(swept, begun)
                   /\ \A x, c : c \in Int /\ n - SlotTtl <= c => Count(swept, x, c) = Count(active, x, c)
  BY <1>1, SweepingSlots
<1>3. PICK s : /\ s = Slots(who) /\ SoundDeque(s, n) /\ Backed(s, who, begun)
               /\ \A c \in Int : n - SlotTtl <= c => Cardinality(Newer(s, c)) = Count(active, who, c)
  BY <1>1, SlotsOfAnIP
<1>4. PICK t : t = Append(s, n)
  OBVIOUS
<1>5. s \in Seq(0 .. n) /\ OldestFirst(s) /\ s \in Seq(Nat)
  BY <1>3 DEF SoundDeque
<1>6. SoundDeque(t, n)
  BY <1>4, <1>5, AppendSorted DEF SoundDeque
<1>7. \A c \in Int : Cardinality(Newer(t, c)) = Cardinality(Newer(s, c)) + (IF n > c THEN 1 ELSE 0)
  BY <1>4, <1>5, AppendCounts
<1>8. AllBacked(swept, later)
  BY <1>2 DEF AllBacked
<1>9. Backed(t, who, later)
  <2>1. Backed(s, who, later)
    BY <1>3
  <2>2. PICK m \in Nat : /\ m = Len(s) /\ DOMAIN s = 1 .. m /\ DOMAIN t = 1 .. m + 1
                         /\ t[m + 1] = n /\ \A i \in 1 .. m : t[i] = s[i]
    <3>1. PICK m \in Nat : m = Len(s) /\ DOMAIN s = 1 .. m
      BY <1>5
    <3>2. t = Append(s, n) /\ s \in Seq(Nat) /\ n \in Nat
      BY <1>1, <1>4, <1>5
    <3>3. DOMAIN t = 1 .. m + 1 /\ t[m + 1] = n /\ \A i \in 1 .. m : t[i] = s[i]
      BY ONLY <3>1, <3>2
    <3> QED
      BY <3>1, <3>3
  <2> SUFFICES ASSUME NEW i \in DOMAIN t
               PROVE  \E j \in DOMAIN later : later[j].ip = who /\ later[j].at = t[i]
    BY DEF Backed
  <2>3. CASE i = m + 1
    BY <1>1, <2>2, <2>3
  <2>4. CASE i # m + 1
    <3>1. i \in DOMAIN s /\ t[i] = s[i]
      BY <2>2, <2>4
    <3> QED
      BY <2>1, <3>1 DEF Backed
  <2> QED
    BY <2>3, <2>4
<1>10. PICK R : R = Replace(swept, who, t)
  OBVIOUS
<1>11. /\ SoundBuckets(R, IPs, n) /\ AllBacked(R, later)
       /\ \A c : Count(R, who, c) = Cardinality(Newer(t, c))
       /\ \A x, c : x # who => Count(R, x, c) = Count(swept, x, c)
  BY <1>2, <1>6, <1>8, <1>9, <1>10, ReplacingSlots
<1>12. Bucket(R, who) = t
  BY <1>2, <1>6, <1>10, ReplacingABucket
<1>13. R = Claimed(who)
  BY <1>1, <1>2, <1>3, <1>4, <1>10 DEF Claimed
<1>14. ASSUME NEW x, NEW c \in Int, n - SlotTtl <= c
       PROVE  Count(R, x, c) = Count(active, x, c) + (IF x = who /\ n > c THEN 1 ELSE 0)
  <2>1. CASE x = who
    BY <1>3, <1>7, <1>11, <1>14, <2>1
  <2>2. CASE x # who
    <3>1. Count(active, x, c) \in Nat
      BY <1>1, BucketIsSound, NewerIsFinite DEF Count
    <3> QED
      BY <1>2, <1>11, <1>14, <2>2, <3>1
  <2> QED
    BY <2>1, <2>2
<1> QED
  BY <1>1, <1>3, <1>4, <1>11, <1>12, <1>13, <1>14

\* Fewer uploads, or a longer history, are still uploads of the history.
LEMMA FewerUploads ==
    ASSUME NEW f, NEW g, NEW d, NEW n, NEW k \in Nat, NEW l \in Nat, k <= l,
           Uploads(f, n, k), Dones(d, f, n, k),
           DOMAIN g \subseteq DOMAIN f, \A u \in DOMAIN g : g[u] = f[u]
    PROVE  Uploads(g, n, l) /\ Dones(d, g, n, l)
BY DEF Uploads, Dones

\* The sweep keeps uploads, and keeps them as they were.
LEMMA KeptUploads == /\ DOMAIN Kept \subseteq DOMAIN inflight
                     /\ \A u \in DOMAIN Kept : Kept[u] = inflight[u]
                     /\ DOMAIN Kept = DOMAIN inflight \ Stale
BY DEF Kept, Without

\* Registering one more keeps them so, whether its sender is told of it or not.
LEMMA RegisteredUploads ==
    ASSUME LimiterInv, NEW who \in IPs, NEW told \in BOOLEAN,
           NEW t, t \in History(now), Len(t) = Len(begun) + 1
    PROVE  Uploads(Registered(who, told), now, Len(t)) /\ Dones(finished, Registered(who, told), now, Len(t))
<1>1. PICK n \in Nat, k \in Nat :
         /\ n = now /\ k = Len(begun) /\ Len(t) = k + 1
         /\ Uploads(inflight, n, k) /\ Dones(finished, inflight, n, k)
  <2>1. Limited(now, active, declared, inflight, finished, begun)
    BY LimiterIsLimited
  <2>2. now \in Nat /\ begun \in History(now)
    BY <2>1, Limits DEF Limited
  <2>3. Len(begun) \in Nat
    BY <2>2, HistoryFields
  <2> QED
    BY <2>1, <2>2, <2>3 DEF Limited
<1>2. PICK e : e = [ip |-> who, started |-> n, touched |-> n, told |-> told]
  OBVIOUS
<1>3. e \in [ip : IPs, started : 0 .. n, touched : 0 .. n, told : BOOLEAN]
  BY <1>2
<1>4. PICK g : g = Registered(who, told) /\ g = With(Kept, k + 1, e)
  BY <1>1, <1>2 DEF Registered
<1>5. DOMAIN g = DOMAIN Kept \cup {k + 1} /\ \A u \in DOMAIN g : g[u] = IF u = k + 1 THEN e ELSE Kept[u]
  BY <1>4 DEF With
<1>6. Uploads(g, n, k + 1)
  <2>1. DOMAIN g \subseteq 1 .. k + 1
    BY <1>1, <1>5, KeptUploads DEF Uploads
  <2>2. \A u \in DOMAIN g : g[u] \in [ip : IPs, started : 0 .. n, touched : 0 .. n, told : BOOLEAN]
    BY <1>1, <1>3, <1>5, KeptUploads DEF Uploads
  <2> QED
    BY <2>1, <2>2 DEF Uploads
<1>7. Dones(finished, g, n, k + 1)
  <2>1. k + 1 \notin 1 .. k /\ 1 .. k \subseteq 1 .. k + 1
    OBVIOUS
  <2> QED
    BY <1>1, <1>5, <2>1, KeptUploads DEF Dones
<1> QED
  BY <1>1, <1>4, <1>6, <1>7

--------------------------------------------------------------------------------
(* Each step keeps the invariant.                                              *)

\* A start: the bytes and the slot are claimed, and the upload is in flight.
LEMMA StartUploadKeepsLimited ==
    ASSUME LimiterInv, NEW who \in IPs, NEW z \in Sizes, StartUpload(who, z)
    PROVE  LimiterInv'
<1>1. Limited(now, active, declared, inflight, finished, begun)
  BY LimiterIsLimited
<1>2. now \in Nat /\ now \in 0 .. Horizon /\ SoundBuckets(active, IPs, now) /\ AllBacked(active, begun)
  BY <1>1, Limits DEF Limited
<1>3. Claim(who, z) /\ active' = Claimed(who) /\ inflight' = Registered(who, TRUE)
  BY DEF StartUpload
<1>4. /\ now' = now /\ finished' = finished
      /\ SoundTable(declared', now) /\ begun' \in History(now) /\ Len(begun') = Len(begun) + 1
      /\ Remembered(declared', begun', now) /\ Rationed(begun', now)
      /\ \A s, x : Backed(s, x, begun) => Backed(s, x, begun')
      /\ \E j \in DOMAIN begun' : begun'[j].ip = who /\ begun'[j].at = now
  BY <1>1, <1>3, ClaimIsRemembered
<1>5. SoundBuckets(Claimed(who), IPs, now) /\ AllBacked(Claimed(who), begun')
  BY <1>2, <1>4, ClaimedSlots
<1>6. Uploads(inflight', now, Len(begun')) /\ Dones(finished, inflight', now, Len(begun'))
  BY <1>3, <1>4, RegisteredUploads
<1>7. Limited(now', active', declared', inflight', finished', begun')
  BY <1>2, <1>3, <1>4, <1>5, <1>6 DEF Limited
<1> QED
  BY <1>7, LimiterIsLimitedNext

\* A start that begin refused, or that failed once it was registered: the bytes stay
\* claimed, a slot goes back.
LEMMA FailedStartKeepsLimited ==
    ASSUME LimiterInv, NEW who \in IPs, NEW z \in Sizes,
           StartUploadStoreFull(who, z) \/ StartUploadTouchRaises(who, z)
    PROVE  LimiterInv'
<1>1. Limited(now, active, declared, inflight, finished, begun)
  BY LimiterIsLimited
<1>2. now \in Nat /\ now \in 0 .. Horizon /\ SoundBuckets(active, IPs, now) /\ AllBacked(active, begun)
  BY <1>1, Limits DEF Limited
<1>3. /\ Claim(who, z) /\ active' = Released(Claimed(who), who)
      /\ inflight' = inflight \/ inflight' = Kept \/ inflight' = Registered(who, FALSE)
  BY DEF StartUploadStoreFull, StartUploadTouchRaises
<1>4. /\ now' = now /\ finished' = finished
      /\ SoundTable(declared', now) /\ begun' \in History(now) /\ Len(begun') = Len(begun) + 1
      /\ Remembered(declared', begun', now) /\ Rationed(begun', now)
      /\ \A s, x : Backed(s, x, begun) => Backed(s, x, begun')
      /\ \E j \in DOMAIN begun' : begun'[j].ip = who /\ begun'[j].at = now
  BY <1>1, <1>3, ClaimIsRemembered
<1>5. SoundBuckets(Claimed(who), IPs, now) /\ AllBacked(Claimed(who), begun')
  BY <1>2, <1>4, ClaimedSlots
<1>6. SoundBuckets(active', IPs, now) /\ AllBacked(active', begun')
  BY <1>2, <1>3, <1>5, ReleasingASlot
<1>7. Uploads(inflight', now, Len(begun')) /\ Dones(finished, inflight', now, Len(begun'))
  <2>1. PICK k \in Nat : k = Len(begun) /\ k <= k + 1
    BY <1>1, <1>2, HistoryFields DEF Limited
  <2>2. Uploads(inflight, now, k) /\ Dones(finished, inflight, now, k)
    BY <1>1, <2>1 DEF Limited
  <2>3. CASE inflight' = inflight \/ inflight' = Kept
    <3>1. PICK g : g = inflight' /\ DOMAIN g \subseteq DOMAIN inflight /\ \A u \in DOMAIN g : g[u] = inflight[u]
      BY <2>3, KeptUploads
    <3>2. Uploads(g, now, k + 1) /\ Dones(finished, g, now, k + 1)
      BY <2>1, <2>2, <3>1, FewerUploads
    <3> QED
      BY <1>4, <2>1, <3>1, <3>2
  <2>4. CASE inflight' = Registered(who, FALSE)
    BY <1>4, <2>4, RegisteredUploads
  <2> QED
    BY <1>3, <2>3, <2>4
<1>8. Limited(now', active', declared', inflight', finished', begun')
  BY <1>2, <1>4, <1>6, <1>7 DEF Limited
<1> QED
  BY <1>8, LimiterIsLimitedNext

\* A start that is refused: looking prunes, and forgets nothing that counts.
LEMMA RefusalKeepsLimited ==
    ASSUME LimiterInv, NEW who \in IPs, NEW z \in Sizes, StartRefused(who, z)
    PROVE  LimiterInv'
<1>1. Limited(now, active, declared, inflight, finished, begun)
  BY LimiterIsLimited
<1>2. PICK n \in Nat : n = now /\ n \in 0 .. Horizon
  BY <1>1, Limits DEF Limited
<1>3. SoundBuckets(active, IPs, n) /\ AllBacked(active, begun) /\ SoundTable(declared, n) /\ begun \in History(n)
  BY <1>1, <1>2 DEF Limited
<1>4. SoundBuckets(active', IPs, n) /\ AllBacked(active', begun)
  <2>1. SoundBuckets(SweptActive, IPs, n) /\ AllBacked(SweptActive, begun)
    BY <1>2, <1>3, SweepingSlots
  <2>2. SoundDeque(Slots(who), n) /\ Backed(Slots(who), who, begun)
    BY <1>2, <1>3, SlotsOfAnIP
  <2> QED
    BY <2>1, <2>2, ReplacingSlots DEF StartRefused
<1>5. PICK swept : /\ swept = SweptDeclared /\ SoundTable(swept, n)
                   /\ \A x, c : c \in Int /\ n - Window <= c => Bytes(swept, x, c) = Bytes(declared, x, c)
  BY <1>2, <1>3, SweepingClaims
<1>6. PICK p : /\ p = Spent(who) /\ SoundClaims(p, n)
               /\ \A c \in Int : n - Window <= c => SizesOf(p, After(p, c)) = Bytes(declared, who, c)
  BY <1>2, <1>3, SpentByAnIP
<1>7. PICK R : R = declared' /\ (R = swept \/ R = Replace(swept, who, p))
  BY <1>5, <1>6 DEF StartRefused
<1>8. /\ SoundTable(R, n)
      /\ \A x, c : c \in Int /\ n - Window <= c => Bytes(R, x, c) = Bytes(declared, x, c)
  <2>1. CASE R = swept
    BY <1>5, <2>1
  <2>2. CASE R = Replace(swept, who, p)
    <3>1. SoundTable(R, n) /\ Bucket(R, who) = p /\ \A x : x # who => Bucket(R, x) = Bucket(swept, x)
      BY <1>5, <1>6, <2>2, ReplacingClaims
    <3>2. ASSUME NEW x, NEW c \in Int, n - Window <= c PROVE Bytes(R, x, c) = Bytes(declared, x, c)
      <4>1. CASE x = who
        BY <1>6, <3>1, <3>2, <4>1 DEF Bytes
      <4>2. CASE x # who
        BY <1>5, <3>1, <3>2, <4>2 DEF Bytes
      <4> QED
        BY <4>1, <4>2
    <3> QED
      BY <3>1, <3>2
  <2> QED
    BY <1>7, <2>1, <2>2
<1>9. Remembered(R, begun, n)
  <2> SUFFICES ASSUME NEW x \in IPs, NEW c \in (n - Window) .. Horizon
               PROVE  Bytes(R, x, c) = SizesOf(begun, BegunIn(begun, x, c))
    BY DEF Remembered
  <2>1. c \in Int /\ n - Window <= c
    BY <1>2, Limits
  <2> QED
    BY <1>1, <1>2, <1>8, <2>1 DEF Limited, Remembered
<1>10. now' = n /\ inflight' = inflight /\ finished' = finished /\ begun' = begun
  BY <1>2 DEF StartRefused
<1>11. Limited(n, active', R, inflight, finished, begun)
  BY <1>1, <1>2, <1>4, <1>8, <1>9 DEF Limited
<1> QED
  BY <1>7, <1>10, <1>11, LimiterIsLimitedNext

\* Bytes that arrive move an upload's deadline and nothing of the limiter's.
LEMMA MoveKeepsLimited ==
    ASSUME LimiterInv, NEW u \in DOMAIN inflight, Move(u)
    PROVE  LimiterInv'
<1>1. Limited(now, active, declared, inflight, finished, begun)
  BY LimiterIsLimited
<1>2. now \in 0 .. now
  BY <1>1, Limits DEF Limited
<1>3. PICK len, n : len = Len(begun) /\ n = now /\ n \in 0 .. n
  BY <1>2
<1>4. Uploads(inflight, n, len) /\ Dones(finished, inflight, n, len)
  BY <1>1, <1>3 DEF Limited
<1>5. /\ inflight' = [inflight EXCEPT ![u].touched = n]
      /\ UNCHANGED <<now, active, declared, begun, finished>>
  BY <1>3 DEF Move
<1>6. Uploads(inflight', n, len) /\ Dones(finished, inflight', n, len)
  BY <1>3, <1>4, <1>5 DEF Uploads, Dones
<1>7. Limited(now', active', declared', inflight', finished', begun')
  BY <1>1, <1>3, <1>5, <1>6 DEF Limited
<1> QED
  BY <1>7, LimiterIsLimitedNext

\* Finishing an upload releases a slot and no bytes.
LEMMA DoneKeepsLimited ==
    ASSUME LimiterInv, NEW u \in DOMAIN inflight, Done(u)
    PROVE  LimiterInv'
<1>1. Limited(now, active, declared, inflight, finished, begun)
  BY LimiterIsLimited
<1>2. PICK n \in Nat, who \in IPs : n = now /\ who = inflight[u].ip
  <2>1. inflight[u] \in [ip : IPs, started : 0 .. now, touched : 0 .. now, told : BOOLEAN]
    BY <1>1 DEF Limited, Uploads
  <2>2. inflight[u].ip \in IPs
    BY <2>1
  <2> QED
    BY <1>1, <2>2, Limits DEF Limited
<1>3. SoundBuckets(active, IPs, n) /\ AllBacked(active, begun)
  BY <1>1, <1>2 DEF Limited
<1>4. SoundBuckets(Released(active, who), IPs, n) /\ AllBacked(Released(active, who), begun)
  BY <1>2, <1>3, ReleasingASlot
<1>5. /\ active' = Released(active, who) /\ inflight' = Without(inflight, {u})
      /\ finished' = With(finished, u, [ip |-> who, started |-> inflight[u].started, at |-> n])
      /\ UNCHANGED <<now, declared, begun>>
  BY <1>2 DEF Done
<1>6. PICK k \in Nat : k = Len(begun) /\ k <= k
  BY <1>1, <1>2, HistoryFields DEF Limited
<1>7. Uploads(Without(inflight, {u}), n, k) /\ Dones(finished', Without(inflight, {u}), n, k)
  <2>1. Uploads(inflight, n, k) /\ Dones(finished, inflight, n, k)
    BY <1>1, <1>2, <1>6 DEF Limited
  <2>2. Uploads(Without(inflight, {u}), n, k)
    BY <2>1 DEF Uploads, Without
  <2>3. PICK e : e = [ip |-> who, started |-> inflight[u].started, at |-> n]
    OBVIOUS
  <2>4. e \in [ip : IPs, started : 0 .. n, at : 0 .. n]
    <3>1. inflight[u] \in [ip : IPs, started : 0 .. n, touched : 0 .. n, told : BOOLEAN]
      BY <2>1 DEF Uploads
    <3>2. inflight[u].started \in 0 .. n
      BY <3>1
    <3>3. n \in 0 .. n
      BY <1>2
    <3> QED
      BY <1>2, <2>3, <3>2, <3>3
  <2>5. PICK d : d = finished' /\ DOMAIN d = DOMAIN finished \cup {u}
                 /\ \A v \in DOMAIN d : d[v] = IF v = u THEN e ELSE finished[v]
    BY <1>5, <2>3 DEF With
  <2>6. DOMAIN Without(inflight, {u}) = DOMAIN inflight \ {u}
    BY DEF Without
  <2>7. u \in 1 .. k
    BY <2>1 DEF Uploads
  <2>8. Dones(d, Without(inflight, {u}), n, k)
    BY <2>1, <2>4, <2>5, <2>6, <2>7 DEF Dones
  <2> QED
    BY <2>2, <2>5, <2>8
<1>8. Limited(now', active', declared', inflight', finished', begun')
  BY <1>1, <1>2, <1>4, <1>5, <1>6, <1>7 DEF Limited
<1> QED
  BY <1>8, LimiterIsLimitedNext

\* The store's sweep is none of the limiter's business.
LEMMA StoreSweepsKeepsLimited == LimiterInv /\ StoreSweeps => LimiterInv'
<1> SUFFICES ASSUME LimiterInv, StoreSweeps PROVE LimiterInv'
  OBVIOUS
<1>1. Limited(now, active, declared, inflight, finished, begun)
  BY LimiterIsLimited
<1>2. Uploads(Kept, now, Len(begun)) /\ Dones(finished, Kept, now, Len(begun))
  BY <1>1, KeptUploads DEF Limited, Uploads, Dones
<1>3. inflight' = Kept /\ UNCHANGED <<now, active, declared, begun, finished>>
  BY DEF StoreSweeps
<1>4. Limited(now', active', declared', inflight', finished', begun')
  BY <1>1, <1>2, <1>3 DEF Limited
<1> QED
  BY <1>4, LimiterIsLimitedNext

\* Every step keeps the invariant.
LEMMA StepKeepsLimited == LimiterInv /\ [Next]_vars => LimiterInv'
<1> SUFFICES ASSUME LimiterInv, [Next]_vars PROVE LimiterInv'
  OBVIOUS
<1>1. CASE Tick
  BY <1>1, TickKeepsLimited
<1>2. ASSUME NEW ip \in IPs, NEW size \in Sizes,
             \/ StartUpload(ip, size) \/ StartUploadStoreFull(ip, size)
             \/ StartUploadTouchRaises(ip, size) \/ StartRefused(ip, size)
      PROVE  LimiterInv'
  BY <1>2, StartUploadKeepsLimited, FailedStartKeepsLimited, RefusalKeepsLimited
<1>3. ASSUME NEW u \in DOMAIN inflight, Move(u) \/ Done(u) PROVE LimiterInv'
  BY <1>3, MoveKeepsLimited, DoneKeepsLimited
<1>4. CASE StoreSweeps
  BY <1>4, StoreSweepsKeepsLimited
<1>5. CASE UNCHANGED vars
  <2>1. /\ now' = now /\ active' = active /\ declared' = declared
        /\ inflight' = inflight /\ finished' = finished /\ begun' = begun
    BY <1>5 DEF vars
  <2> QED
    BY <2>1, LimiterIsLimited, LimiterIsLimitedNext
<1> QED
  BY <1>1, <1>2, <1>3, <1>4, <1>5 DEF Next

--------------------------------------------------------------------------------
(* What it all comes to.                                                       *)

\* LimiterInv holds in every state: what the limiter remembers as declared, after any
\* cutoff that can still matter, is what was begun, and what was begun fits the allowance.
THEOREM LimiterInvariance == Spec => []LimiterInv
<1>1. Init => LimiterInv
  BY InitLimited
<1>2. LimiterInv /\ [Next]_vars => LimiterInv'
  BY StepKeepsLimited
<1> QED
  BY <1>1, <1>2, PTL DEF Spec

\* The types: no IP is kept with an empty bucket, and no slot or claim is of the future.
THEOREM TypeCorrect == Spec => []TypeOK
<1>1. LimiterInv => TypeOK
  BY DEF LimiterInv
<1> QED
  BY <1>1, LimiterInvariance, PTL

\* In no window is an IP granted more bytes than its allowance, whatever the deques forgot,
\* pruned or lost to the sweep of drained buckets in between.
THEOREM WindowsAreRationed == Spec => []BytesAreRationed
<1>1. LimiterInv => BytesAreRationed
  BY DEF LimiterInv
<1> QED
  BY <1>1, LimiterInvariance, PTL

\* An IP that began nothing for a slot's lifetime and a window has no slot left and no
\* bytes: every slot it has is the time of a start of its own, and too old to count.
LEMMA TheIdleAreAdmitted == LimiterInv => NoPermanentBan
<1> SUFFICES ASSUME LimiterInv, NEW who \in IPs, NEW z \in Sizes, z <= MaxBytes,
                    \A i \in DOMAIN begun : begun[i].ip = who =>
                        begun[i].at <= now - SlotTtl /\ begun[i].at <= now - Window
             PROVE  Admits(who, z)
  BY DEF NoPermanentBan
<1>1. Limited(now, active, declared, inflight, finished, begun)
  BY LimiterIsLimited
<1>2. PICK n \in Nat : n = now /\ n \in 0 .. Horizon
  BY <1>1, Limits DEF Limited
<1>3. SoundBuckets(active, IPs, n) /\ AllBacked(active, begun) /\ SoundTable(declared, n) /\ begun \in History(n)
  BY <1>1, <1>2 DEF Limited
<1>4. \A i \in DOMAIN begun : begun[i].at \in Int
  BY <1>2, <1>3, HistoryFields
<1>5. HasSlot(who)
  <2>1. PICK s : /\ s = Slots(who) /\ SoundDeque(s, n) /\ Backed(s, who, begun)
                 /\ \A i \in DOMAIN s : s[i] > n - SlotTtl
    BY <1>2, <1>3, SlotsOfAnIP
  <2>2. ASSUME NEW i \in DOMAIN s PROVE FALSE
    <3>1. PICK j \in DOMAIN begun : begun[j].ip = who /\ begun[j].at = s[i]
      BY <2>1 DEF Backed
    <3>2. s[i] <= n - SlotTtl /\ s[i] \in Int
      BY <1>2, <1>4, <3>1
    <3> QED
      BY <1>2, <2>1, <3>2, Limits
  <2>3. Len(s) \in Nat /\ DOMAIN s = 1 .. Len(s)
    BY <2>1 DEF SoundDeque
  <2>4. Len(s) = 0
    <3>1. Len(s) # 0 => 1 \in 1 .. Len(s)
      BY <2>3
    <3> QED
      BY <2>2, <2>3, <3>1
  <2> QED
    BY <2>1, <2>4, Limits DEF HasSlot
<1>6. HasBytes(who, z)
  <2>1. SumOfSizes(Spent(who)) = Bytes(declared, who, n - Window)
    BY <1>2, <1>3, SpentByAnIP
  <2>2. n - Window \in (n - Window) .. Horizon
    BY <1>2, Limits
  <2>3. Bytes(declared, who, n - Window) = SizesOf(begun, BegunIn(begun, who, n - Window))
    BY <1>1, <1>2, <2>2 DEF Limited, Remembered
  <2>4. BegunIn(begun, who, n - Window) = {}
    BY <1>2, <1>4, Limits DEF BegunIn
  <2>5. SumOfSizes(Spent(who)) = 0
    BY <2>1, <2>3, <2>4, NoSizes
  <2>6. 0 + z <= MaxBytes
    BY Limits
  <2> QED
    BY <2>5, <2>6 DEF HasBytes
<1> QED
  BY <1>5, <1>6 DEF Admits

\* A dropped connection is not a ban.
THEOREM NobodyIsBannedForGood == Spec => []NoPermanentBan
<1>1. LimiterInv => NoPermanentBan
  BY TheIdleAreAdmitted
<1> QED
  BY <1>1, LimiterInvariance, PTL

--------------------------------------------------------------------------------
(* SlotsInv, in the words of the lemmas: f is who has which upload in flight,  *)
(* and since when; d is what was done, and when.                               *)
Running(f, x, c) == {u \in DOMAIN f : f[u].ip = x /\ f[u].told /\ f[u].started > c}
Late(d, x, c) == {u \in DOMAIN d : d[u].ip = x /\ d[u].started <= c /\ d[u].at > c}
Covered(f, d, slots, n) ==
    \A x \in IPs : \A c \in (n - SlotTtl) .. Horizon :
        Cardinality(Running(f, x, c)) <= Count(slots, x, c) + Cardinality(Late(d, x, c))
Few(slots) == \A x \in DOMAIN slots : Len(slots[x]) <= MaxConcurrent

\* The invariant says just that of this state.
LEMMA SlotsAreCovered == SlotsInv <=> Covered(inflight, finished, active, now) /\ Few(active)
BY DEF SlotsInv, SlotsAreFew, SlotsCoverUploads, StartedBy, FinishedLate, Covered, Few, Running, Late, Count

\* And of the next.
LEMMA SlotsAreCoveredNext == SlotsInv' <=> Covered(inflight', finished', active', now') /\ Few(active')
BY DEF SlotsInv, SlotsAreFew, SlotsCoverUploads, StartedBy, FinishedLate, Covered, Few, Running, Late, Count

\* The uploads in flight, and the uploads done, are finitely many.
LEMMA PartIsFinite ==
    ASSUME NEW k \in Nat, NEW T, T \subseteq 1 .. k
    PROVE  /\ IsFiniteSet(T) /\ Cardinality(T) \in Nat
           /\ \A R \in SUBSET T : /\ IsFiniteSet(R) /\ Cardinality(R) \in Nat
                                  /\ Cardinality(R) <= Cardinality(T)
<1>1. IsFiniteSet(T)
  <2>1. IsFiniteSet(1 .. k)
    BY FS_Interval
  <2> QED
    BY <2>1, FS_Subset
<1>2. Cardinality(T) \in Nat
  BY <1>1, FS_CardinalityType
<1>3. ASSUME NEW R \in SUBSET T
      PROVE  IsFiniteSet(R) /\ Cardinality(R) \in Nat /\ Cardinality(R) <= Cardinality(T)
  BY <1>1, <1>3, FS_Subset, FS_CardinalityType
<1> QED
  BY <1>1, <1>2, <1>3

\* How many slots an IP has after a cutoff is a number, and within the limit.
LEMMA SlotsAreCounted ==
    ASSUME NEW n \in Nat, NEW slots, SoundBuckets(slots, IPs, n), NEW x, NEW c
    PROVE  Count(slots, x, c) \in Nat /\ (Few(slots) => Count(slots, x, c) <= MaxConcurrent)
<1>1. PICK b : b = Bucket(slots, x) /\ b \in Seq(Nat)
  BY BucketIsSound
<1>2. PICK m, T : m \in Nat /\ m = Len(b) /\ T = Newer(b, c) /\ T \subseteq 1 .. m /\ Cardinality(T) \in Nat
  BY <1>1, NewerIsFinite
<1>3. Cardinality(T) <= m
  <2>1. IsFiniteSet(1 .. m) /\ Cardinality(1 .. m) = m
    <3>1. m \in Int /\ m >= 0 /\ 1 \in Int
      BY <1>2
    <3>2. IsFiniteSet(1 .. m) /\ Cardinality(1 .. m) = IF 1 > m THEN 0 ELSE m - 1 + 1
      BY <3>1, FS_Interval
    <3> QED
      BY <3>1, <3>2
  <2>2. Cardinality(T) <= Cardinality(1 .. m)
    BY <1>2, <2>1, FS_Subset
  <2> QED
    BY <2>1, <2>2
<1>4. ASSUME Few(slots) PROVE m <= MaxConcurrent
  <2>1. CASE x \in DOMAIN slots
    BY <1>1, <1>2, <1>4, <2>1 DEF Few, Bucket
  <2>2. CASE x \notin DOMAIN slots
    <3>1. b = <<>>
      BY <1>1, <2>2 DEF Bucket
    <3>2. m = 0
      BY <1>2, <3>1
    <3> QED
      BY <3>2, Limits
  <2> QED
    BY <2>1, <2>2
<1>5. Count(slots, x, c) = Cardinality(T)
  BY <1>1, <1>2 DEF Count
<1> QED
  BY <1>2, <1>3, <1>4, <1>5, Limits

\* Buckets stay few when some are dropped, and when one is replaced by another as short.
LEMMA FewerSlots ==
    ASSUME NEW map, Few(map)
    PROVE  /\ \A D : Few(Without(map, D))
           /\ \A ip, s : Len(s) <= MaxConcurrent => Few(Replace(map, ip, s))
           /\ map = active => Few(SweptActive)
<1>1. ASSUME NEW D PROVE Few(Without(map, D))
  BY DEF Few, Without
<1>2. ASSUME NEW ip, NEW s, Len(s) <= MaxConcurrent PROVE Few(Replace(map, ip, s))
  BY <1>2 DEF Few, Replace, With, Without
<1>3. ASSUME map = active PROVE Few(SweptActive)
  BY <1>1, <1>3 DEF SweptActive, Reclaimed
<1> QED
  BY <1>1, <1>2, <1>3

\* Releasing leaves them few.
LEMMA ReleasedSlots ==
    ASSUME NEW n \in Nat, NEW map, SoundBuckets(map, IPs, n), Few(map), NEW ip
    PROVE  Few(Released(map, ip))
<1>1. CASE ip \in DOMAIN map
  <2>1. PICK s : s = map[ip] /\ s \in Seq(0 .. n) /\ s # <<>> /\ Len(s) <= MaxConcurrent
    BY <1>1 DEF SoundBuckets, SoundDeque, Few
  <2>2. Len(Tail(s)) <= MaxConcurrent
    <3>1. Len(Tail(s)) = Len(s) - 1 /\ Len(s) \in Nat
      BY <2>1
    <3> QED
      BY <2>1, <3>1, Limits
  <2> QED
    BY <1>1, <2>1, <2>2, FewerSlots DEF Released
<1>2. CASE ip \notin DOMAIN map
  BY <1>2 DEF Released
<1> QED
  BY <1>1, <1>2

\* Fewer uploads need no more slots.
LEMMA FewerAreCovered ==
    ASSUME NEW n \in Nat, NEW k \in Nat, NEW f, DOMAIN f \subseteq 1 .. k,
           NEW d, DOMAIN d \subseteq 1 .. k,
           NEW slots, SoundBuckets(slots, IPs, n), Covered(f, d, slots, n),
           NEW g, \A x, c : Running(g, x, c) \subseteq Running(f, x, c),
           NEW left, SoundBuckets(left, IPs, n),
           \A x \in IPs : \A c \in (n - SlotTtl) .. Horizon : Count(slots, x, c) <= Count(left, x, c)
    PROVE  Covered(g, d, left, n)
<1> SUFFICES ASSUME NEW x \in IPs, NEW c \in (n - SlotTtl) .. Horizon
             PROVE  Cardinality(Running(g, x, c)) <= Count(left, x, c) + Cardinality(Late(d, x, c))
  BY DEF Covered
<1>1. PICK R, S, L : R = Running(g, x, c) /\ S = Running(f, x, c) /\ L = Late(d, x, c)
  OBVIOUS
<1>2. S \subseteq 1 .. k /\ L \subseteq 1 .. k /\ R \subseteq S
  BY <1>1 DEF Running, Late
<1>3. Cardinality(R) <= Cardinality(S) /\ Cardinality(R) \in Nat /\ Cardinality(S) \in Nat /\ Cardinality(L) \in Nat
  BY <1>2, PartIsFinite
<1>4. Cardinality(S) <= Count(slots, x, c) + Cardinality(L) /\ Count(slots, x, c) <= Count(left, x, c)
  BY <1>1 DEF Covered
<1>5. Count(slots, x, c) \in Nat /\ Count(left, x, c) \in Nat
  BY SlotsAreCounted
<1> QED
  BY <1>1, <1>3, <1>4, <1>5

\* This state, as the lemmas take it.
LEMMA CoveredNow ==
    ASSUME LimiterInv, SlotsInv
    PROVE  /\ now \in Nat /\ now \in 0 .. Horizon
           /\ SoundBuckets(active, IPs, now) /\ AllBacked(active, begun)
           /\ begun \in History(now) /\ Len(begun) \in Nat
           /\ Uploads(inflight, now, Len(begun)) /\ DOMAIN inflight \subseteq 1 .. Len(begun)
           /\ Dones(finished, inflight, now, Len(begun)) /\ DOMAIN finished \subseteq 1 .. Len(begun)
           /\ Covered(inflight, finished, active, now) /\ Few(active)
           /\ \A x, c : Count(active, x, c) \in Nat
<1>1. Limited(now, active, declared, inflight, finished, begun)
  BY LimiterIsLimited
<1>2. now \in Nat /\ now \in 0 .. Horizon
  BY <1>1, Limits DEF Limited
<1>3. /\ SoundBuckets(active, IPs, now) /\ AllBacked(active, begun)
      /\ begun \in History(now) /\ Uploads(inflight, now, Len(begun))
      /\ Dones(finished, inflight, now, Len(begun))
  BY <1>1 DEF Limited
<1>4. Len(begun) \in Nat
  BY <1>2, <1>3, HistoryFields
<1>5. DOMAIN inflight \subseteq 1 .. Len(begun) /\ DOMAIN finished \subseteq 1 .. Len(begun)
  BY <1>3 DEF Uploads, Dones
<1>6. \A x, c : Count(active, x, c) \in Nat
  BY <1>2, <1>3, SlotsAreCounted
<1> QED
  BY <1>2, <1>3, <1>4, <1>5, <1>6, SlotsAreCovered

\* What the store's purge leaves, and what it leaves and one more.
LEMMA RegisteredRunning ==
    /\ \A x, c : Running(Kept, x, c) \subseteq Running(inflight, x, c)
    /\ \A who, x, c : Running(Registered(who, FALSE), x, c) \subseteq Running(inflight, x, c)
    /\ \A who, x, c : Running(Registered(who, TRUE), x, c)
           \subseteq Running(inflight, x, c)
                         \cup (IF x = who /\ now > c THEN {Len(begun) + 1} ELSE {})
<1>1. \A x, c : Running(Kept, x, c) \subseteq Running(inflight, x, c)
  BY KeptUploads DEF Running
<1>2. ASSUME NEW who, NEW told \in BOOLEAN, NEW x, NEW c, NEW u \in Running(Registered(who, told), x, c),
             u \notin Running(inflight, x, c)
      PROVE  told /\ x = who /\ now > c /\ u = Len(begun) + 1
  <2>1. PICK e, new : /\ new = Len(begun) + 1
                      /\ e = [ip |-> who, started |-> now, touched |-> now, told |-> told]
    OBVIOUS
  <2>2. PICK g : /\ g = Registered(who, told) /\ DOMAIN g = DOMAIN Kept \cup {new}
                 /\ \A v \in DOMAIN g : g[v] = IF v = new THEN e ELSE Kept[v]
    <3>1. PICK g : g = Registered(who, told) /\ g = With(Kept, new, e)
      BY <2>1 DEF Registered
    <3>2. DOMAIN g = DOMAIN Kept \cup {new} /\ \A v \in DOMAIN g : g[v] = IF v = new THEN e ELSE Kept[v]
      BY <3>1 DEF With
    <3> QED
      BY <3>1, <3>2
  <2>3. u \in DOMAIN g /\ g[u].ip = x /\ g[u].told /\ g[u].started > c
    BY <1>2, <2>2 DEF Running
  <2>4. u = new
    <3>1. ASSUME u # new PROVE u \in Running(inflight, x, c)
      BY <2>2, <2>3, <3>1, KeptUploads DEF Running
    <3> QED
      BY <1>2, <3>1
  <2>5. e.ip = who /\ e.started = now /\ e.told = told
    BY ONLY <2>1
  <2> QED
    BY <2>1, <2>2, <2>3, <2>4, <2>5
<1>3. ASSUME NEW who, NEW x, NEW c
      PROVE  Running(Registered(who, FALSE), x, c) \subseteq Running(inflight, x, c)
  BY <1>2
<1>4. ASSUME NEW who, NEW x, NEW c
      PROVE  Running(Registered(who, TRUE), x, c)
                 \subseteq Running(inflight, x, c)
                               \cup (IF x = who /\ now > c THEN {Len(begun) + 1} ELSE {})
  <2>1. ASSUME NEW u \in Running(Registered(who, TRUE), x, c), u \notin Running(inflight, x, c)
        PROVE  x = who /\ now > c /\ u = Len(begun) + 1
    <3>1. PICK told \in BOOLEAN : told = TRUE
      OBVIOUS
    <3>2. u \in Running(Registered(who, told), x, c)
      BY <3>1
    <3> QED
      BY <1>2, <2>1, <3>2
  <2> QED
    BY <2>1
<1> QED
  BY <1>1, <1>3, <1>4

\* At start nothing is in flight.
LEMMA InitCovered == Init => SlotsInv
<1> SUFFICES ASSUME Init PROVE Covered(inflight, finished, active, now) /\ Few(active)
  BY SlotsAreCovered
<1>1. now = 0 /\ active = <<>> /\ inflight = <<>> /\ finished = <<>>
  BY DEF Init
<1>2. \A x, c : Running(inflight, x, c) = {} /\ Late(finished, x, c) = {} /\ Newer(Bucket(active, x), c) = {}
  BY <1>1 DEF Running, Late, Newer, Bucket
<1>3. Cardinality({}) = 0
  BY FS_EmptySet
<1>4. \A x, c : Cardinality(Running(inflight, x, c)) = 0 /\ Cardinality(Late(finished, x, c)) = 0
                 /\ Count(active, x, c) = 0
  BY <1>2, <1>3 DEF Count
<1> QED
  BY <1>1, <1>4 DEF Covered, Few

\* Time only takes cutoffs away.
LEMMA TickKeepsCovered ==
    ASSUME LimiterInv, SlotsInv, Tick
    PROVE  SlotsInv'
<1>1. PICK n, later :
         n = now /\ n \in Nat /\ later = n + 1 /\ Covered(inflight, finished, active, n) /\ Few(active)
  BY CoveredNow
<1>2. (later - SlotTtl) .. Horizon \subseteq (n - SlotTtl) .. Horizon
  BY <1>1, Limits
<1>3. Covered(inflight, finished, active, later)
  BY <1>1, <1>2 DEF Covered
<1>4. now' = later /\ active' = active /\ inflight' = inflight /\ finished' = finished
  BY <1>1 DEF Tick
<1> QED
  BY <1>1, <1>3, <1>4, SlotsAreCoveredNext

\* Bytes that arrive leave who started what, and when, as it was.
LEMMA MoveKeepsCovered ==
    ASSUME LimiterInv, SlotsInv, NEW u \in DOMAIN inflight, Move(u)
    PROVE  SlotsInv'
<1>1. PICK n \in Nat, k \in Nat :
         n = now /\ Uploads(inflight, n, k) /\ Covered(inflight, finished, active, n) /\ Few(active)
  BY CoveredNow
<1>2. PICK g : g = [inflight EXCEPT ![u].touched = n] /\ g = inflight'
  BY <1>1 DEF Move
<1>3. /\ DOMAIN g = DOMAIN inflight
      /\ \A v \in DOMAIN g : /\ g[v].ip = inflight[v].ip /\ g[v].started = inflight[v].started
                             /\ g[v].told = inflight[v].told
  <2>1. \A v \in DOMAIN inflight :
            inflight[v] \in [ip : IPs, started : 0 .. n, touched : 0 .. n, told : BOOLEAN]
    BY <1>1 DEF Uploads
  <2> QED
    BY <1>2, <2>1
<1>4. \A x, c : Running(g, x, c) = Running(inflight, x, c)
  BY <1>3 DEF Running
<1>5. Covered(g, finished, active, n)
  BY <1>1, <1>4 DEF Covered
<1>6. now' = n /\ active' = active /\ finished' = finished
  BY <1>1 DEF Move
<1> QED
  BY <1>1, <1>2, <1>5, <1>6, SlotsAreCoveredNext

\* The store's sweep takes uploads and no slots.
LEMMA StoreSweepsKeepsCovered ==
    ASSUME LimiterInv, SlotsInv, StoreSweeps
    PROVE  SlotsInv'
<1>1. PICK n, k, f, d, slots :
         /\ n \in Nat /\ k \in Nat /\ n = now /\ f = inflight /\ d = finished /\ slots = active /\ SoundBuckets(slots, IPs, n)
         /\ DOMAIN f \subseteq 1 .. k /\ DOMAIN d \subseteq 1 .. k
         /\ Covered(f, d, slots, n) /\ Few(slots) /\ \A x, c : Count(slots, x, c) \in Nat
  BY CoveredNow
<1>2. \A x \in IPs : \A c \in (n - SlotTtl) .. Horizon : Count(slots, x, c) <= Count(slots, x, c)
  BY <1>1
<1>3. \A x, c : Running(Kept, x, c) \subseteq Running(f, x, c)
  BY <1>1, RegisteredRunning
<1>4. Covered(Kept, d, slots, n)
  BY <1>1, <1>2, <1>3, FewerAreCovered
<1>5. now' = n /\ active' = slots /\ inflight' = Kept /\ finished' = d
  BY <1>1 DEF StoreSweeps
<1> QED
  BY <1>1, <1>4, <1>5, SlotsAreCoveredNext

\* A refusal forgets no slot that still counts.
LEMMA RefusalKeepsCovered ==
    ASSUME LimiterInv, SlotsInv, NEW who \in IPs, NEW z \in Sizes, StartRefused(who, z)
    PROVE  SlotsInv'
<1>1. PICK n \in Nat :
         /\ n = now /\ n \in 0 .. Horizon /\ SoundBuckets(active, IPs, n) /\ AllBacked(active, begun)
         /\ Covered(inflight, finished, active, n) /\ Few(active)
  BY CoveredNow
<1>2. PICK swept : /\ swept = SweptActive /\ Few(swept)
                   /\ SoundBuckets(swept, IPs, n) /\ AllBacked(swept, begun)
                   /\ \A x, c : c \in Int /\ n - SlotTtl <= c => Count(swept, x, c) = Count(active, x, c)
  BY <1>1, SweepingSlots, FewerSlots
<1>3. PICK s : /\ s = Slots(who) /\ SoundDeque(s, n) /\ Backed(s, who, begun)
               /\ Len(s) = Count(active, who, n - SlotTtl)
               /\ \A c \in Int : n - SlotTtl <= c => Cardinality(Newer(s, c)) = Count(active, who, c)
  BY <1>1, SlotsOfAnIP
<1>4. PICK R : R = Replace(swept, who, s)
  OBVIOUS
<1>5. /\ SoundBuckets(R, IPs, n)
      /\ \A c : Count(R, who, c) = Cardinality(Newer(s, c))
      /\ \A x, c : x # who => Count(R, x, c) = Count(swept, x, c)
  BY <1>2, <1>3, <1>4, ReplacingSlots
<1>6. ASSUME NEW x \in IPs, NEW c \in (n - SlotTtl) .. Horizon PROVE Count(R, x, c) = Count(active, x, c)
  <2>1. c \in Int /\ n - SlotTtl <= c
    BY <1>1, Limits
  <2> QED
    BY <1>2, <1>3, <1>5, <2>1
<1>7. Covered(inflight, finished, R, n)
  BY <1>1, <1>6 DEF Covered
<1>8. Few(R)
  <2>1. Len(s) <= MaxConcurrent
    BY <1>1, <1>3, SlotsAreCounted
  <2> QED
    BY <1>2, <1>4, <2>1, FewerSlots
<1>9. now' = n /\ active' = R /\ inflight' = inflight /\ finished' = finished
  BY <1>1, <1>2, <1>3, <1>4 DEF StartRefused
<1> QED
  BY <1>1, <1>7, <1>8, <1>9, SlotsAreCoveredNext

\* What a start claims: one slot more after every cutoff before now, and still few.
LEMMA ClaimedAreFew ==
    ASSUME LimiterInv, SlotsInv, NEW who \in IPs, NEW z \in Sizes, Claim(who, z)
    PROVE  /\ SoundBuckets(Claimed(who), IPs, now) /\ AllBacked(Claimed(who), begun') /\ Few(Claimed(who))
           /\ Bucket(Claimed(who), who) = Append(Slots(who), now)
           /\ \A x, c : c \in Int /\ now - SlotTtl <= c =>
                 Count(Claimed(who), x, c) = Count(active, x, c) + (IF x = who /\ now > c THEN 1 ELSE 0)
<1>1. now \in Nat /\ SoundBuckets(active, IPs, now) /\ AllBacked(active, begun) /\ Few(active)
  BY CoveredNow
<1>2. /\ \A s, x : Backed(s, x, begun) => Backed(s, x, begun')
      /\ \E j \in DOMAIN begun' : begun'[j].ip = who /\ begun'[j].at = now
  BY LimiterIsLimited, ClaimIsRemembered
<1>3. Few(Claimed(who))
  <2>1. PICK s : s = Slots(who) /\ s \in Seq(0 .. now) /\ Len(s) < MaxConcurrent
    <3>1. SoundDeque(Slots(who), now)
      BY <1>1, SlotsOfAnIP
    <3>2. Len(Slots(who)) < MaxConcurrent
      BY DEF Claim, Admits, HasSlot
    <3> QED
      BY <3>1, <3>2 DEF SoundDeque
  <2>2. Len(Append(s, now)) <= MaxConcurrent
    <3>1. Len(Append(s, now)) = Len(s) + 1 /\ Len(s) \in Nat
      BY <2>1
    <3> QED
      BY <2>1, <3>1, Limits
  <2> QED
    BY <1>1, <2>1, <2>2, FewerSlots DEF Claimed
<1> QED
  BY <1>1, <1>2, <1>3, ClaimedSlots

\* A start: one upload more, and one slot more, after every cutoff before now.
LEMMA StartUploadKeepsCovered ==
    ASSUME LimiterInv, SlotsInv, NEW who \in IPs, NEW z \in Sizes, StartUpload(who, z)
    PROVE  SlotsInv'
<1>1. PICK n \in Nat, k \in Nat :
         /\ n = now /\ k = Len(begun) /\ n \in 0 .. Horizon
         /\ DOMAIN inflight \subseteq 1 .. k /\ DOMAIN finished \subseteq 1 .. k
         /\ Covered(inflight, finished, active, n) /\ \A x, c : Count(active, x, c) \in Nat
  BY CoveredNow
<1>2. Claim(who, z) /\ inflight' = Registered(who, TRUE) /\ active' = Claimed(who)
  BY DEF StartUpload
<1>3. PICK slots : /\ slots = active' /\ SoundBuckets(slots, IPs, n) /\ Few(slots)
                   /\ \A x, c : c \in Int /\ n - SlotTtl <= c =>
                         Count(slots, x, c) = Count(active, x, c) + (IF x = who /\ n > c THEN 1 ELSE 0)
  BY <1>1, <1>2, ClaimedAreFew
<1>4. PICK g : /\ g = inflight'
               /\ \A x, c : Running(g, x, c) \subseteq Running(inflight, x, c)
                                \cup (IF x = who /\ n > c THEN {k + 1} ELSE {})
  <2>1. PICK g : g = inflight' /\ g = Registered(who, TRUE)
    BY <1>2
  <2>2. \A x, c : Running(g, x, c) \subseteq Running(inflight, x, c)
                       \cup (IF x = who /\ n > c THEN {k + 1} ELSE {})
    BY <1>1, <2>1, RegisteredRunning
  <2> QED
    BY <2>1, <2>2
<1>5. Covered(g, finished, slots, n)
  <2> SUFFICES ASSUME NEW x \in IPs, NEW c \in (n - SlotTtl) .. Horizon
               PROVE  Cardinality(Running(g, x, c)) <= Count(slots, x, c) + Cardinality(Late(finished, x, c))
    BY DEF Covered
  <2>1. c \in Int /\ n - SlotTtl <= c
    BY <1>1, Limits
  <2>2. PICK R, S, L : R = Running(g, x, c) /\ S = Running(inflight, x, c) /\ L = Late(finished, x, c)
    OBVIOUS
  <2>3. S \subseteq 1 .. k /\ L \subseteq 1 .. k
    BY <1>1, <2>2 DEF Running, Late
  <2>4. IsFiniteSet(S) /\ Cardinality(S) \in Nat /\ Cardinality(L) \in Nat
    BY <2>3, PartIsFinite
  <2>5. Cardinality(S) <= Count(active, x, c) + Cardinality(L) /\ Count(active, x, c) \in Nat
    BY <1>1, <2>2 DEF Covered
  <2>6. CASE x = who /\ n > c
    <3>1. R \subseteq S \cup {k + 1} /\ k + 1 \notin S
      BY <1>4, <2>2, <2>3, <2>6
    <3>2. IsFiniteSet(S \cup {k + 1}) /\ Cardinality(S \cup {k + 1}) = Cardinality(S) + 1
      BY <2>4, <3>1, FS_AddElement
    <3>3. Cardinality(R) <= Cardinality(S \cup {k + 1}) /\ Cardinality(R) \in Nat
      BY <3>1, <3>2, FS_Subset, FS_CardinalityType
    <3> QED
      BY <1>3, <2>1, <2>2, <2>4, <2>5, <2>6, <3>2, <3>3
  <2>7. CASE ~(x = who /\ n > c)
    <3>1. R \subseteq S
      BY <1>4, <2>2, <2>7
    <3>2. Cardinality(R) <= Cardinality(S) /\ Cardinality(R) \in Nat
      BY <2>3, <3>1, PartIsFinite
    <3> QED
      BY <1>3, <2>1, <2>2, <2>4, <2>5, <2>7, <3>2
  <2> QED
    BY <2>6, <2>7
<1>6. now' = n /\ finished' = finished
  BY <1>1, <1>2 DEF Claim
<1> QED
  BY <1>3, <1>4, <1>5, <1>6, SlotsAreCoveredNext

\* A start that failed gives back the oldest slot: never a later one than the slot it
\* claimed.  An upload it left in the store is nobody's to go on with.
LEMMA FailedStartKeepsCovered ==
    ASSUME LimiterInv, SlotsInv, NEW who \in IPs, NEW z \in Sizes,
           StartUploadStoreFull(who, z) \/ StartUploadTouchRaises(who, z)
    PROVE  SlotsInv'
<1>1. PICK n, k, f, d :
         /\ n \in Nat /\ k \in Nat /\ n = now /\ n \in 0 .. Horizon /\ f = inflight /\ d = finished
         /\ SoundBuckets(active, IPs, n) /\ AllBacked(active, begun)
         /\ DOMAIN f \subseteq 1 .. k /\ DOMAIN d \subseteq 1 .. k
         /\ Covered(f, d, active, n) /\ \A x, c : Count(active, x, c) \in Nat
  BY CoveredNow
<1>2. /\ Claim(who, z) /\ active' = Released(Claimed(who), who)
      /\ inflight' = inflight \/ inflight' = Kept \/ inflight' = Registered(who, FALSE)
  BY DEF StartUploadStoreFull, StartUploadTouchRaises
<1>3. PICK slots : /\ slots = Claimed(who) /\ SoundBuckets(slots, IPs, n) /\ AllBacked(slots, begun') /\ Few(slots)
                   /\ Bucket(slots, who) = Append(Slots(who), n)
                   /\ \A x, c : c \in Int /\ n - SlotTtl <= c =>
                         Count(slots, x, c) = Count(active, x, c) + (IF x = who /\ n > c THEN 1 ELSE 0)
  BY <1>1, <1>2, ClaimedAreFew
<1>4. PICK head : head = Bucket(slots, who)[1] /\ head \in Int /\ head <= n /\ Bucket(slots, who) # <<>>
  <2>1. PICK s : s = Slots(who) /\ s \in Seq(0 .. n)
    BY <1>1, SlotsOfAnIP DEF SoundDeque
  <2>2. Append(s, n)[1] \in 0 .. n /\ Append(s, n) # <<>>
    <3>1. PICK m, r : m \in Nat /\ m = n /\ r = s /\ m \in 0 .. m /\ r \in Seq(0 .. m)
      BY <1>1, <2>1
    <3> QED
      BY <3>1
  <2> QED
    BY <1>3, <2>1, <2>2
<1>5. PICK left : /\ left = Released(slots, who) /\ SoundBuckets(left, IPs, n) /\ Few(left)
                  /\ \A x, c : x # who => Count(left, x, c) = Count(slots, x, c)
                  /\ \A c \in Int : Count(left, who, c)
                         = Count(slots, who, c) - (IF head > c THEN 1 ELSE 0)
  <2>1. PICK left : left = Released(slots, who)
    OBVIOUS
  <2>2. /\ SoundBuckets(left, IPs, n)
        /\ \A x, c : x # who => Count(left, x, c) = Count(slots, x, c)
        /\ \A c \in Int : Count(left, who, c)
               = Count(slots, who, c)
                     - (IF Bucket(slots, who) # <<>> /\ Bucket(slots, who)[1] > c THEN 1 ELSE 0)
    BY SMTT(30), <1>1, <1>3, <2>1, ReleasingASlot
  <2>3. Few(left)
    BY <1>1, <1>3, <2>1, ReleasedSlots
  <2> QED
    BY <1>4, <2>1, <2>2, <2>3
<1>6. ASSUME NEW x \in IPs, NEW c \in (n - SlotTtl) .. Horizon PROVE Count(active, x, c) <= Count(left, x, c)
  <2>1. c \in Int /\ n - SlotTtl <= c
    BY <1>1, Limits
  <2>2. Count(active, x, c) \in Nat
    BY <1>1
  <2>3. CASE x = who
    BY <1>1, <1>3, <1>4, <1>5, <2>1, <2>2, <2>3
  <2>4. CASE x # who
    BY <1>3, <1>5, <2>1, <2>2, <2>4
  <2> QED
    BY <2>3, <2>4
<1>7. PICK g : g = inflight' /\ \A x, c : Running(g, x, c) \subseteq Running(f, x, c)
  BY <1>1, <1>2, RegisteredRunning
<1>8. Covered(g, d, left, n)
  BY <1>1, <1>5, <1>6, <1>7, FewerAreCovered
<1>9. now' = n /\ active' = left /\ finished' = d
  BY <1>1, <1>2, <1>3, <1>5 DEF Claim
<1> QED
  BY <1>5, <1>7, <1>8, <1>9, SlotsAreCoveredNext

\* Finishing an upload takes the oldest slot, whosever it was.  Should that slot be later
\* than a cutoff, the upload either started after it as well, or is finished late.
LEMMA DoneKeepsCovered ==
    ASSUME LimiterInv, SlotsInv, NEW u \in DOMAIN inflight, Done(u)
    PROVE  SlotsInv'
<1>1. PICK n \in Nat, k \in Nat :
         /\ n = now /\ n \in 0 .. Horizon
         /\ SoundBuckets(active, IPs, n) /\ AllBacked(active, begun)
         /\ Uploads(inflight, n, k) /\ DOMAIN inflight \subseteq 1 .. k
         /\ Dones(finished, inflight, n, k) /\ DOMAIN finished \subseteq 1 .. k
         /\ Covered(inflight, finished, active, n) /\ Few(active) /\ \A x, c : Count(active, x, c) \in Nat
  BY CoveredNow
<1>2. PICK who \in IPs, started \in Nat :
         who = inflight[u].ip /\ started = inflight[u].started /\ started <= n /\ inflight[u].told
  <2>1. inflight[u] \in [ip : IPs, started : 0 .. n, touched : 0 .. n, told : BOOLEAN]
    BY <1>1 DEF Uploads
  <2>2. inflight[u].ip \in IPs /\ inflight[u].started \in 0 .. n
    BY <2>1
  <2> QED
    BY <2>2 DEF Done
<1>3. PICK g : g = inflight' /\ DOMAIN g = DOMAIN inflight \ {u} /\ \A v \in DOMAIN g : g[v] = inflight[v]
  BY DEF Done, Without
<1>4. PICK e : e = [ip |-> who, started |-> started, at |-> n] /\ e.ip = who /\ e.started = started /\ e.at = n
  <2>1. PICK e : e = [ip |-> who, started |-> started, at |-> n]
    OBVIOUS
  <2>2. e.ip = who /\ e.started = started /\ e.at = n
    BY ONLY <2>1
  <2> QED
    BY <2>1, <2>2
<1>5. PICK d : /\ d = finished' /\ DOMAIN d = DOMAIN finished \cup {u} /\ u \notin DOMAIN finished
               /\ \A v \in DOMAIN d : d[v] = IF v = u THEN e ELSE finished[v]
  <2>1. u \notin DOMAIN finished
    BY <1>1 DEF Dones
  <2> QED
    BY <1>1, <1>2, <1>4, <2>1 DEF Done, With
<1>6. PICK b : b = Bucket(active, who) /\ SoundDeque(b, n)
  BY <1>1, BucketIsSound
<1>7. PICK left : /\ left = active' /\ SoundBuckets(left, IPs, n) /\ Few(left)
                  /\ \A x, c : x # who => Count(left, x, c) = Count(active, x, c)
                  /\ \A c \in Int : Count(left, who, c)
                         = Count(active, who, c) - (IF b # <<>> /\ b[1] > c THEN 1 ELSE 0)
  <2>1. PICK slots : slots = active /\ SoundBuckets(slots, IPs, n) /\ AllBacked(slots, begun) /\ Few(slots)
    BY <1>1
  <2>2. PICK popped : popped = Released(slots, who) /\ popped = active'
    BY <1>2, <2>1 DEF Done
  <2>3. SoundBuckets(popped, IPs, n) /\ Few(popped)
    BY <2>1, <2>2, ReleasingASlot, ReleasedSlots
  <2>4. ASSUME NEW x, NEW c, x # who PROVE Count(popped, x, c) = Count(slots, x, c)
    <3>1. Bucket(popped, x) = Bucket(slots, x)
      BY <2>2, <2>4 DEF Released, Replace, With, Without, Bucket
    <3> QED
      BY <3>1 DEF Count
  <2>5. ASSUME NEW c \in Int
        PROVE  Count(popped, who, c) = Count(slots, who, c) - (IF b # <<>> /\ b[1] > c THEN 1 ELSE 0)
    BY ZenonT(30), <1>6, <2>1, <2>2, ReleasingASlot
  <2> QED
    BY <2>1, <2>2, <2>3, <2>4, <2>5
<1>8. Covered(g, d, left, n)
  <2> SUFFICES ASSUME NEW x \in IPs, NEW c \in (n - SlotTtl) .. Horizon
               PROVE  Cardinality(Running(g, x, c)) <= Count(left, x, c) + Cardinality(Late(d, x, c))
    BY DEF Covered
  <2>1. c \in Int /\ n - SlotTtl <= c
    BY <1>1, Limits
  <2>2. PICK R, S, L, M : /\ R = Running(g, x, c) /\ S = Running(inflight, x, c)
                          /\ L = Late(finished, x, c) /\ M = Late(d, x, c)
    OBVIOUS
  <2>3. S \subseteq 1 .. k /\ L \subseteq 1 .. k /\ R \subseteq S
    BY <1>1, <1>3, <2>2 DEF Running, Late
  <2>4. /\ IsFiniteSet(S) /\ Cardinality(S) \in Nat /\ IsFiniteSet(L) /\ Cardinality(L) \in Nat
        /\ Cardinality(R) <= Cardinality(S) /\ Cardinality(R) \in Nat
    BY <2>3, PartIsFinite
  <2>5. L \subseteq M /\ u \notin L /\ M \subseteq L \cup {u} /\ M \subseteq 1 .. k
    <3>1. u \in 1 .. k
      BY <1>1
    <3> QED
      BY <1>5, <2>2, <2>3, <3>1 DEF Late
  <2>6. Cardinality(L) <= Cardinality(M) /\ Cardinality(M) \in Nat
    BY <2>5, PartIsFinite
  <2>7. Cardinality(S) <= Count(active, x, c) + Cardinality(L) /\ Count(active, x, c) \in Nat
    BY <1>1, <2>2 DEF Covered
  <2>8. CASE ~(x = who /\ b # <<>> /\ b[1] > c)
    <3>1. Count(left, x, c) = Count(active, x, c)
      BY <1>7, <2>1, <2>7, <2>8
    <3> QED
      BY <2>2, <2>4, <2>6, <2>7, <3>1
  <2>9. CASE x = who /\ b # <<>> /\ b[1] > c /\ started > c
    <3>1. R = S \ {u} /\ u \in S
      BY <1>2, <1>3, <2>2, <2>9 DEF Running
    <3>2. Cardinality(R) = Cardinality(S) - 1
      BY <2>4, <3>1, FS_RemoveElement
    <3>3. Count(left, x, c) = Count(active, x, c) - 1
      BY <1>7, <2>1, <2>9
    <3> QED
      BY <2>2, <2>4, <2>6, <2>7, <3>2, <3>3
  <2>10. CASE x = who /\ b # <<>> /\ b[1] > c /\ ~(started > c)
    <3>1. n > c
      <4>1. b \in Seq(0 .. n)
        BY <1>6 DEF SoundDeque
      <4>2. b[1] \in 0 .. n
        BY <2>10, <4>1
      <4> QED
        BY <2>1, <2>10, <4>2
    <3>2. u \in M
      <4>1. started <= c
        BY <2>1, <2>10
      <4> QED
        BY <1>4, <1>5, <2>2, <2>10, <3>1, <4>1 DEF Late
    <3>3. M = L \cup {u}
      BY <2>5, <3>2
    <3>4. Cardinality(M) = Cardinality(L) + 1
      BY <2>4, <2>5, <3>3, FS_AddElement
    <3>5. Count(left, x, c) = Count(active, x, c) - 1
      BY <1>7, <2>1, <2>10
    <3> QED
      BY <2>2, <2>4, <2>7, <3>4, <3>5
  <2> QED
    BY <2>8, <2>9, <2>10
<1>9. now' = n
  BY <1>1 DEF Done
<1> QED
  BY <1>3, <1>5, <1>7, <1>8, <1>9, SlotsAreCoveredNext

\* Every step keeps the uploads covered.
LEMMA StepKeepsCovered == LimiterInv /\ SlotsInv /\ [Next]_vars => SlotsInv'
<1> SUFFICES ASSUME LimiterInv, SlotsInv, [Next]_vars PROVE SlotsInv'
  OBVIOUS
<1>1. CASE Tick
  BY <1>1, TickKeepsCovered
<1>2. ASSUME NEW ip \in IPs, NEW size \in Sizes,
             \/ StartUpload(ip, size) \/ StartUploadStoreFull(ip, size)
             \/ StartUploadTouchRaises(ip, size) \/ StartRefused(ip, size)
      PROVE  SlotsInv'
  BY <1>2, StartUploadKeepsCovered, FailedStartKeepsCovered, RefusalKeepsCovered
<1>3. ASSUME NEW u \in DOMAIN inflight, Move(u) \/ Done(u) PROVE SlotsInv'
  BY <1>3, MoveKeepsCovered, DoneKeepsCovered
<1>4. CASE StoreSweeps
  BY <1>4, StoreSweepsKeepsCovered
<1>5. CASE UNCHANGED vars
  <2>1. now' = now /\ active' = active /\ inflight' = inflight /\ finished' = finished
    BY <1>5 DEF vars
  <2> QED
    BY <2>1, SlotsAreCovered, SlotsAreCoveredNext
<1> QED
  BY <1>1, <1>2, <1>3, <1>4, <1>5 DEF Next

\* The slots cover the uploads, and they are few.
LEMMA CoveredIsLimited == LimiterInv /\ SlotsInv => ConcurrencyIsLimited
<1> SUFFICES ASSUME LimiterInv, SlotsInv, NEW x \in IPs, NEW c \in (now - SlotTtl) .. now
             PROVE  Cardinality(StartedBy(x, c)) <= MaxConcurrent + Cardinality(FinishedLate(x, c))
  BY DEF ConcurrencyIsLimited
<1>1. PICK n \in Nat, k \in Nat :
         /\ n = now /\ n \in 0 .. Horizon /\ SoundBuckets(active, IPs, n) /\ Few(active)
         /\ DOMAIN inflight \subseteq 1 .. k /\ DOMAIN finished \subseteq 1 .. k
         /\ Covered(inflight, finished, active, n) /\ \A y, d : Count(active, y, d) \in Nat
  BY CoveredNow
<1>2. c \in (n - SlotTtl) .. Horizon
  BY <1>1, Limits
<1>3. PICK S, L : S = Running(inflight, x, c) /\ L = Late(finished, x, c)
  OBVIOUS
<1>4. S = StartedBy(x, c) /\ L = FinishedLate(x, c)
  BY <1>3 DEF StartedBy, FinishedLate, Running, Late
<1>5. Cardinality(S) \in Nat /\ Cardinality(L) \in Nat
  <2>1. S \subseteq 1 .. k /\ L \subseteq 1 .. k
    BY <1>1, <1>3 DEF Running, Late
  <2> QED
    BY <2>1, PartIsFinite
<1>6. Cardinality(S) <= Count(active, x, c) + Cardinality(L)
  BY <1>1, <1>2, <1>3 DEF Covered
<1>7. Count(active, x, c) <= MaxConcurrent /\ Count(active, x, c) \in Nat
  BY <1>1, SlotsAreCounted
<1> QED
  BY <1>4, <1>5, <1>6, <1>7, Limits

\* The uploads an IP has in flight are limited, though the limiter never hears of an
\* abandoned one, forgets the slots of the long ones, and releases the oldest slot at a
\* finish, whosever it was: after any cutoff a slot can outlast, the only uploads beyond
\* the limit are those that the finish of an older one made room for.
THEOREM ConcurrencyHolds == Spec => []ConcurrencyIsLimited
<1>1. Init => SlotsInv
  BY InitCovered
<1>2. LimiterInv /\ SlotsInv /\ [Next]_vars => SlotsInv'
  BY StepKeepsCovered
<1>3. LimiterInv /\ SlotsInv => ConcurrencyIsLimited
  BY CoveredIsLimited
<1> QED
  BY <1>1, <1>2, <1>3, LimiterInvariance, PTL DEF Spec
================================================================================
