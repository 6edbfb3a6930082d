---------------------------- MODULE GatekeeperProofs ----------------------------
(***************************************************************************)
(* Proofs that what the gate forgets never changes what it answers, and    *)
(* that quick misses are rationed, for every set of IPs, window, budget,   *)
(* threshold and ceiling.                                                  *)
(***************************************************************************)
EXTENDS Gatekeeper, TotalsProofs

\* The constants, one by one.
LEMMA Limits ==
    /\ Window \in Nat /\ Window > 0 /\ MissBudget \in Nat /\ MissBudget > 0
    /\ GlobalWindow \in Nat /\ GlobalWindow > 0
    /\ GlobalMissThreshold \in Nat /\ GlobalMissThreshold > 0
    /\ MaxTrackedIPs \in Nat /\ Horizon \in Nat
BY GateAssumption

--------------------------------------------------------------------------------
\* The sweep takes only buckets that count for nothing, and when it has run,
\* and too many are left, each of those counts for something.
LEMMA SweepForgetsNothing ==
    ASSUME NEW ips, SoundBuckets(ips, IPs, now), now \in Nat
    PROVE  /\ SoundBuckets(SweptIfCrowded(ips), IPs, now)
           /\ DOMAIN SweptIfCrowded(ips) \subseteq DOMAIN ips
           /\ \A ip, c : c \in Int /\ now - Window <= c =>
                  Count(SweptIfCrowded(ips), ip, c) = Count(ips, ip, c)
           /\ Cardinality(DOMAIN SweptIfCrowded(ips)) > MaxTrackedIPs =>
                  \A ip \in DOMAIN SweptIfCrowded(ips) :
                      Newer(Bucket(SweptIfCrowded(ips), ip), now - Window) # {}
<1>1. CASE Cardinality(DOMAIN ips) <= MaxTrackedIPs
  <2>1. SweptIfCrowded(ips) = ips
    BY <1>1 DEF SweptIfCrowded
  <2>2. Cardinality(DOMAIN ips) \in Nat
    BY FS_CardinalityType DEF SoundBuckets
  <2> QED
    BY <1>1, <2>1, <2>2, Limits
<1>2. CASE ~(Cardinality(DOMAIN ips) <= MaxTrackedIPs)
  <2>1. PICK D : D = Drained(ips) /\ SweptIfCrowded(ips) = Without(ips, D)
    BY <1>2 DEF SweptIfCrowded
  <2>2. D = {ip \in DOMAIN ips : ips[ip][Len(ips[ip])] <= now - Window}
    BY <2>1 DEF Drained, Last
  <2>3. now - Window \in Int
    BY Limits
  <2>4. /\ SoundBuckets(Without(ips, D), IPs, now)
        /\ DOMAIN Without(ips, D) \subseteq DOMAIN ips
    BY <2>2, <2>3, DroppingOldBuckets
  <2>5. \A ip, c : c \in Int /\ now - Window <= c => Count(Without(ips, D), ip, c) = Count(ips, ip, c)
    BY <2>2, <2>3, DroppingOldBuckets
  <2>6. \A ip \in DOMAIN Without(ips, D) : Newer(Bucket(Without(ips, D), ip), now - Window) # {}
    BY <2>2, <2>3, DroppingOldBuckets
  <2> QED
    BY <2>1, <2>4, <2>5, <2>6
<1> QED
  BY <1>1, <1>2

\* record counts the miss, once, against its IP and against everyone.
LEMMA RecordCountsOnce ==
    ASSUME NEW gate, SoundBuckets(gate.ips, IPs, now), SoundDeque(gate.all, now), NEW ip \in IPs, now \in Nat
    PROVE  /\ SoundBuckets(Recorded(gate, ip).ips, IPs, now) /\ SoundDeque(Recorded(gate, ip).all, now)
           /\ \A x, c : c \in Int /\ now - Window <= c =>
                  Count(Recorded(gate, ip).ips, x, c)
                      = Count(gate.ips, x, c) + (IF x = ip /\ now > c THEN 1 ELSE 0)
           /\ \A c \in Int : now - GlobalWindow <= c =>
                  Cardinality(Newer(Recorded(gate, ip).all, c))
                      = Cardinality(Newer(gate.all, c)) + (IF now > c THEN 1 ELSE 0)
<1>1. now - Window \in Int /\ now - GlobalWindow \in Int
  BY Limits
<1>2. PICK b : b = Bucket(gate.ips, ip) /\ SoundDeque(b, now)
  BY BucketIsSound
<1>3. PICK s : s = Pruned(Append(b, now), now - Window)
  OBVIOUS
<1>4. SoundDeque(s, now)
  BY <1>1, <1>2, <1>3, AppendingThePresent
<1>5. \A c \in Int : now - Window <= c =>
          Cardinality(Newer(s, c)) = Cardinality(Newer(b, c)) + (IF now > c THEN 1 ELSE 0)
  BY <1>1, <1>2, <1>3, AppendingThePresent
<1>6. PICK mid : mid = Replace(gate.ips, ip, s)
  OBVIOUS
<1>7. SoundBuckets(mid, IPs, now) /\ Bucket(mid, ip) = s /\ \A x : x # ip => Bucket(mid, x) = Bucket(gate.ips, x)
  BY <1>4, <1>6, ReplacingABucket
<1>8. /\ Recorded(gate, ip).ips = SweptIfCrowded(mid)
      /\ Recorded(gate, ip).all = Pruned(Append(gate.all, now), now - GlobalWindow)
  BY <1>2, <1>3, <1>6 DEF Recorded
<1>9. SoundDeque(Recorded(gate, ip).all, now)
  BY <1>1, <1>8, AppendingThePresent
<1>10. \A c \in Int : now - GlobalWindow <= c =>
          Cardinality(Newer(Recorded(gate, ip).all, c))
              = Cardinality(Newer(gate.all, c)) + (IF now > c THEN 1 ELSE 0)
  BY <1>1, <1>8, AppendingThePresent
<1>11. \A x, c : c \in Int /\ now - Window <= c =>
          Count(mid, x, c) = Count(gate.ips, x, c) + (IF x = ip /\ now > c THEN 1 ELSE 0)
  <2> SUFFICES ASSUME NEW x, NEW c \in Int, now - Window <= c
               PROVE  Count(mid, x, c) = Count(gate.ips, x, c) + (IF x = ip /\ now > c THEN 1 ELSE 0)
    OBVIOUS
  <2>1. Count(gate.ips, x, c) \in Nat
    BY BucketIsSound, NewerIsFinite DEF Count
  <2> QED
    BY <1>2, <1>5, <1>7, <2>1 DEF Count
<1>12. /\ SoundBuckets(SweptIfCrowded(mid), IPs, now)
       /\ \A x, c : c \in Int /\ now - Window <= c => Count(SweptIfCrowded(mid), x, c) = Count(mid, x, c)
  BY <1>7, SweepForgetsNothing
<1> QED
  BY <1>8, <1>9, <1>10, <1>11, <1>12

\* allow forgets nothing that counts, and answers by what counts.
LEMMA AskingChangesNoCount ==
    ASSUME NEW gate, SoundBuckets(gate.ips, IPs, now), SoundDeque(gate.all, now), NEW ip \in IPs, now \in Nat
    PROVE  /\ SoundBuckets(Asked(gate, ip).ips, IPs, now) /\ SoundDeque(Asked(gate, ip).all, now)
           /\ \A x, c : c \in Int /\ now - Window <= c =>
                  Count(Asked(gate, ip).ips, x, c) = Count(gate.ips, x, c)
           /\ \A c \in Int : now - GlobalWindow <= c =>
                  Cardinality(Newer(Asked(gate, ip).all, c)) = Cardinality(Newer(gate.all, c))
           /\ Asked(gate, ip).allowed <=>
                  /\ Cardinality(Newer(gate.all, now - GlobalWindow)) < GlobalMissThreshold
                  /\ Count(gate.ips, ip, now - Window) < MissBudget
<1>1. now - Window \in Int /\ now - GlobalWindow \in Int /\ now - Window <= now - Window
  BY Limits
<1>2. PICK all : all = Pruned(gate.all, now - GlobalWindow)
  OBVIOUS
<1>3. /\ SoundDeque(all, now) /\ Len(all) = Cardinality(Newer(gate.all, now - GlobalWindow))
      /\ \A c \in Int : now - GlobalWindow <= c =>
             Cardinality(Newer(all, c)) = Cardinality(Newer(gate.all, c))
  BY <1>1, <1>2, PruningASoundDeque
<1>4. PICK ips : ips = SweptIfCrowded(gate.ips)
  OBVIOUS
<1>5. /\ SoundBuckets(ips, IPs, now)
      /\ \A x, c : c \in Int /\ now - Window <= c => Count(ips, x, c) = Count(gate.ips, x, c)
  BY <1>4, SweepForgetsNothing
<1>6. PICK own : own = Pruned(Bucket(ips, ip), now - Window)
  OBVIOUS
<1>7. /\ SoundDeque(own, now) /\ Len(own) = Count(ips, ip, now - Window)
      /\ \A c \in Int : now - Window <= c => Cardinality(Newer(own, c)) = Count(ips, ip, c)
  <2>1. PICK b : b = Bucket(ips, ip) /\ SoundDeque(b, now)
    BY <1>5, BucketIsSound
  <2> QED
    BY <1>1, <1>6, <2>1, PruningASoundDeque DEF Count
<1>8. PICK kept : kept = Replace(ips, ip, own)
  OBVIOUS
<1>9. SoundBuckets(kept, IPs, now) /\ Bucket(kept, ip) = own /\ \A x : x # ip => Bucket(kept, x) = Bucket(ips, x)
  BY <1>5, <1>7, <1>8, ReplacingABucket
<1>10. \A x, c : c \in Int /\ now - Window <= c => Count(kept, x, c) = Count(ips, x, c)
  BY <1>7, <1>9 DEF Count
<1>11. /\ Asked(gate, ip).all = all
       /\ Asked(gate, ip).ips = ips \/ Asked(gate, ip).ips = kept
       /\ Asked(gate, ip).allowed <=> Len(all) < GlobalMissThreshold /\ Len(own) < MissBudget
  BY <1>2, <1>4, <1>6, <1>8 DEF Asked
<1>12. Count(ips, ip, now - Window) = Count(gate.ips, ip, now - Window)
  BY <1>1, <1>5
<1> QED
  BY <1>3, <1>5, <1>7, <1>9, <1>10, <1>11, <1>12

--------------------------------------------------------------------------------
\* GateInv says of the gate's two tables what the lemmas above ask of them.
LEMMA GateIsSound ==
    ASSUME GateInv
    PROVE  /\ now \in Nat /\ now \in 0 .. Horizon
           /\ SoundBuckets(Gate.ips, IPs, now) /\ SoundDeque(Gate.all, now)
           /\ Gate.ips = ip_misses /\ Gate.all = global_misses
<1>1. /\ now \in 0 .. Horizon /\ DOMAIN ip_misses \subseteq IPs /\ IsFiniteSet(DOMAIN ip_misses)
      /\ \A ip \in DOMAIN ip_misses :
             ip_misses[ip] \in Seq(0 .. now) /\ ip_misses[ip] # <<>> /\ OldestFirst(ip_misses[ip])
      /\ global_misses \in Seq(0 .. now) /\ OldestFirst(global_misses)
  BY DEF GateInv, TypeOK, BucketsAreSorted
<1>2. now \in Nat
  BY <1>1, Limits
<1> QED
  BY <1>1, <1>2 DEF Gate, SoundBuckets, SoundDeque

\* Asked at any moment, the gate answers what the full history implies.
LEMMA AnswerIsExact == GateInv => AnswersLikeFullHistory
<1> SUFFICES ASSUME GateInv, NEW ip \in IPs
             PROVE  Asked(Gate, ip).allowed <=>
                        /\ Cardinality(RecentOfAll) < GlobalMissThreshold
                        /\ Cardinality(RecentOf(ip)) < MissBudget
  BY DEF AnswersLikeFullHistory
<1>1. /\ now \in Nat /\ now \in 0 .. Horizon /\ SoundBuckets(Gate.ips, IPs, now) /\ SoundDeque(Gate.all, now)
      /\ Gate.ips = ip_misses /\ Gate.all = global_misses
  BY GateIsSound
<1>2. now - Window \in (now - Window) .. Horizon /\ now - GlobalWindow \in (now - GlobalWindow) .. Horizon
  BY <1>1, Limits
<1>3. Count(ip_misses, ip, now - Window) = Cardinality(RecentOf(ip))
  BY <1>2 DEF GateInv, BucketsRemember, Count, RecentOf
<1>4. Cardinality(Newer(global_misses, now - GlobalWindow)) = Cardinality(RecentOfAll)
  BY <1>2 DEF GateInv, AllIsRemembered, RecentOfAll
<1>5. Asked(Gate, ip).allowed <=>
          /\ Cardinality(Newer(Gate.all, now - GlobalWindow)) < GlobalMissThreshold
          /\ Count(Gate.ips, ip, now - Window) < MissBudget
  BY <1>1, AskingChangesNoCount
<1> QED
  BY <1>1, <1>3, <1>4, <1>5

--------------------------------------------------------------------------------
\* The history, as sets of positions in it.
QuickOf(ip, cutoff) == {i \in MissesOf(ip, cutoff) : log[i].quick}
QuickOfAll(cutoff) == {i \in MissesOfAll(cutoff) : log[i].quick}

\* The history is finite, and so is any part of it.
LEMMA HistoryIsFinite ==
    ASSUME TypeOK, NEW ip, NEW c
    PROVE  /\ IsFiniteSet(MissesOf(ip, c)) /\ IsFiniteSet(MissesOfAll(c))
           /\ IsFiniteSet(QuickOf(ip, c)) /\ IsFiniteSet(QuickOfAll(c))
           /\ Cardinality(MissesOf(ip, c)) \in Nat /\ Cardinality(MissesOfAll(c)) \in Nat
           /\ Cardinality(QuickOf(ip, c)) \in Nat /\ Cardinality(QuickOfAll(c)) \in Nat
<1>1. Len(log) \in Nat /\ DOMAIN log = 1 .. Len(log)
  BY DEF TypeOK
<1>2. IsFiniteSet(DOMAIN log)
  BY <1>1, FS_Interval
<1>3. /\ MissesOf(ip, c) \subseteq DOMAIN log /\ MissesOfAll(c) \subseteq DOMAIN log
      /\ QuickOf(ip, c) \subseteq DOMAIN log /\ QuickOfAll(c) \subseteq DOMAIN log
  BY DEF MissesOf, MissesOfAll, QuickOf, QuickOfAll
<1> QED
  BY <1>2, <1>3, FS_Subset, FS_CardinalityType

\* A miss that is logged is one more of its IP, and one more of all, after any earlier
\* cutoff; the quick ones do not change by a miss that is slow.
LEMMA LoggedOnce ==
    ASSUME TypeOK, now \in Nat, NEW ip \in IPs, NEW q \in BOOLEAN,
           log' = Append(log, [ip |-> ip, at |-> now, quick |-> q])
    PROVE  \A c \in Int :
              /\ \A x : Cardinality(MissesOf(x, c)')
                            = Cardinality(MissesOf(x, c)) + (IF x = ip /\ now > c THEN 1 ELSE 0)
              /\ Cardinality(MissesOfAll(c)')
                     = Cardinality(MissesOfAll(c)) + (IF now > c THEN 1 ELSE 0)
              /\ \A x : (q = FALSE \/ x # ip) => QuickOf(x, c)' = QuickOf(x, c)
              /\ q = FALSE => QuickOfAll(c)' = QuickOfAll(c)
<1>0. PICK n \in Nat : n = Len(log) /\ DOMAIN log = 1 .. n
  BY SMTT(30) DEF TypeOK
<1>1. PICK last \in Nat : last = n + 1 /\ last \notin DOMAIN log
  BY <1>0
<1>2. DOMAIN log' = 1 .. last /\ log'[last] = [ip |-> ip, at |-> now, quick |-> q]
  BY <1>0, <1>1 DEF TypeOK
<1>3. \A i \in DOMAIN log : log'[i] = log[i]
  BY <1>0, <1>1 DEF TypeOK
<1>4. DOMAIN log' = DOMAIN log \cup {last}
  BY <1>0, <1>1, <1>2
<1>5. log'[last].ip = ip /\ log'[last].at = now /\ log'[last].quick = q
  <2>1. PICK m : m = [ip |-> ip, at |-> now, quick |-> q]
    OBVIOUS
  <2>2. m.ip = ip
    BY ONLY <2>1
  <2>3. m.at = now
    BY ONLY <2>1
  <2>4. m.quick = q
    BY ONLY <2>1
  <2>5. log'[last] = m
    BY <1>2, <2>1
  <2> QED
    BY <2>2, <2>3, <2>4, <2>5
<1> SUFFICES ASSUME NEW c \in Int
             PROVE  /\ \A x : Cardinality(MissesOf(x, c)')
                            = Cardinality(MissesOf(x, c)) + (IF x = ip /\ now > c THEN 1 ELSE 0)
                    /\ Cardinality(MissesOfAll(c)')
                           = Cardinality(MissesOfAll(c)) + (IF now > c THEN 1 ELSE 0)
                    /\ \A x : (q = FALSE \/ x # ip) => QuickOf(x, c)' = QuickOf(x, c)
                    /\ q = FALSE => QuickOfAll(c)' = QuickOfAll(c)
  OBVIOUS
<1>6. ASSUME NEW x
      PROVE  /\ MissesOf(x, c)' = MissesOf(x, c) \cup (IF x = ip /\ now > c THEN {last} ELSE {})
             /\ last \notin MissesOf(x, c)
  BY <1>1, <1>3, <1>4, <1>5 DEF MissesOf
<1>7. /\ MissesOfAll(c)' = MissesOfAll(c) \cup (IF now > c THEN {last} ELSE {})
      /\ last \notin MissesOfAll(c)
  BY <1>1, <1>3, <1>4, <1>5 DEF MissesOfAll
<1>8. ASSUME NEW x
      PROVE  Cardinality(MissesOf(x, c)')
                 = Cardinality(MissesOf(x, c)) + (IF x = ip /\ now > c THEN 1 ELSE 0)
  <2>1. CASE x = ip /\ now > c
    BY ZenonT(30), <1>6, <2>1, HistoryIsFinite, FS_AddElement
  <2>2. CASE ~(x = ip /\ now > c)
    <3>1. MissesOf(x, c)' = MissesOf(x, c)
      BY <1>6, <2>2, Zenon
    <3> QED
      BY <2>2, <3>1, HistoryIsFinite
  <2> QED
    BY <2>1, <2>2
<1>9. Cardinality(MissesOfAll(c)') = Cardinality(MissesOfAll(c)) + (IF now > c THEN 1 ELSE 0)
  <2>1. CASE now > c
    BY <1>7, <2>1, HistoryIsFinite, FS_AddElement
  <2>2. CASE ~(now > c)
    BY <1>7, <2>2, HistoryIsFinite
  <2> QED
    BY <2>1, <2>2
<1>10. ASSUME NEW x, q = FALSE \/ x # ip PROVE QuickOf(x, c)' = QuickOf(x, c)
  <2>1. \A i \in MissesOf(x, c) : log'[i] = log[i]
    BY <1>3 DEF MissesOf
  <2>2. CASE x # ip
    BY <1>6, <2>1, <2>2 DEF QuickOf
  <2>3. CASE q = FALSE
    BY <1>5, <1>6, <2>1, <2>3 DEF QuickOf
  <2> QED
    BY <1>10, <2>2, <2>3
<1>11. ASSUME q = FALSE PROVE QuickOfAll(c)' = QuickOfAll(c)
  <2>1. \A i \in MissesOfAll(c) : log'[i] = log[i]
    BY <1>3 DEF MissesOfAll
  <2> QED
    BY <1>5, <1>7, <1>11, <2>1 DEF QuickOfAll
<1> QED
  BY <1>8, <1>9, <1>10, <1>11

--------------------------------------------------------------------------------
\* At start nothing is remembered and nothing happened.
LEMMA InitGate == Init => GateInv
<1> SUFFICES ASSUME Init PROVE GateInv
  OBVIOUS
<1>1. now = 0 /\ ip_misses = <<>> /\ global_misses = <<>> /\ log = <<>>
  BY DEF Init
<1>2. DOMAIN ip_misses = {} /\ Len(<<>>) = 0 /\ DOMAIN log = {} /\ DOMAIN global_misses = {}
  BY <1>1
<1>3. TypeOK
  BY <1>1, <1>2, Limits DEF TypeOK
<1>4. IsFiniteSet(DOMAIN ip_misses) /\ BucketsAreSorted
  BY <1>2, FS_EmptySet DEF BucketsAreSorted, OldestFirst
<1>5. BucketsRemember /\ AllIsRemembered
  <2>1. \A ip, c : Newer(Bucket(ip_misses, ip), c) = {} /\ MissesOf(ip, c) = {}
    BY <1>1, <1>2 DEF Bucket, Newer, MissesOf
  <2>2. \A c : Newer(global_misses, c) = {} /\ MissesOfAll(c) = {}
    BY <1>2 DEF Newer, MissesOfAll
  <2> QED
    BY <2>1, <2>2 DEF BucketsRemember, AllIsRemembered
<1>6. QuickMissesAreRationed
  <2>1. \A ip : {i \in RecentOf(ip) : log[i].quick} = {}
    BY <1>2 DEF RecentOf, MissesOf
  <2>2. {i \in RecentOfAll : log[i].quick} = {}
    BY <1>2 DEF RecentOfAll, MissesOfAll
  <2>3. Cardinality({}) = 0
    BY FS_EmptySet
  <2> QED
    BY <2>1, <2>2, <2>3, Limits DEF QuickMissesAreRationed
<1> QED
  BY <1>3, <1>4, <1>5, <1>6 DEF GateInv

\* Rationing, in the words of the lemmas.
LEMMA RationingInQuicks ==
    QuickMissesAreRationed <=>
        /\ \A ip \in IPs : Cardinality(QuickOf(ip, now - Window)) < MissBudget
        /\ Cardinality(QuickOfAll(now - GlobalWindow)) < GlobalMissThreshold
BY DEF QuickMissesAreRationed, QuickOf, QuickOfAll, RecentOf, RecentOfAll

\* Time only takes misses out of the windows.
LEMMA TickKeepsGate == GateInv /\ Tick => GateInv'
<1> SUFFICES ASSUME GateInv, Tick PROVE GateInv'
  OBVIOUS
<1>1. now \in Nat /\ now < Horizon /\ now' = now + 1
  BY GateIsSound DEF Tick
<1>2. ip_misses' = ip_misses /\ global_misses' = global_misses /\ log' = log
  BY DEF Tick
<1>3. PICK later : later = now + 1 /\ later \in 0 .. Horizon /\ 0 .. now \subseteq 0 .. later
  BY <1>1, Limits
<1>4. TypeOK'
  <2>1. global_misses \in Seq(0 .. later)
    BY <1>3, SeqOfPart DEF GateInv, TypeOK
  <2>2. \A ip \in DOMAIN ip_misses : ip_misses[ip] \in Seq(0 .. later)
    BY <1>3, SeqOfPart DEF GateInv, TypeOK
  <2>3. log \in Seq([ip : IPs, at : 0 .. later, quick : BOOLEAN])
    <3>1. [ip : IPs, at : 0 .. now, quick : BOOLEAN] \subseteq [ip : IPs, at : 0 .. later, quick : BOOLEAN]
      BY <1>3
    <3>2. log \in Seq([ip : IPs, at : 0 .. now, quick : BOOLEAN])
      BY DEF GateInv, TypeOK
    <3> QED
      BY ONLY <3>1, <3>2, SeqOfPart
  <2> QED
    BY <1>1, <1>2, <1>3, <2>1, <2>2, <2>3 DEF GateInv, TypeOK
<1>5. IsFiniteSet(DOMAIN ip_misses)' /\ BucketsAreSorted'
  BY <1>2 DEF GateInv, BucketsAreSorted, OldestFirst
<1>6. BucketsRemember' /\ AllIsRemembered'
  <2>1. /\ (later - Window) .. Horizon \subseteq (now - Window) .. Horizon
        /\ (later - GlobalWindow) .. Horizon \subseteq (now - GlobalWindow) .. Horizon
    BY <1>1, <1>3, Limits
  <2>2. \A ip, c : MissesOf(ip, c)' = MissesOf(ip, c) /\ MissesOfAll(c)' = MissesOfAll(c)
    BY <1>2 DEF MissesOf, MissesOfAll
  <2>3. now' = later
    BY <1>1, <1>3
  <2> QED
    BY <1>2, <2>1, <2>2, <2>3 DEF GateInv, BucketsRemember, AllIsRemembered
<1>7. QuickMissesAreRationed'
  <2>1. \A i \in DOMAIN log : log[i].at \in Int
    <3>1. PICK Miss : Miss = [ip : IPs, at : 0 .. now, quick : BOOLEAN] /\ log \in Seq(Miss)
      BY DEF GateInv, TypeOK
    <3>2. \A i \in DOMAIN log : log[i] \in Miss
      <4>1. DOMAIN log = 1 .. Len(log)
        BY <3>1
      <4> QED
        BY <3>1, <4>1, ElementOfSeq
    <3>3. \A m \in Miss : m.at \in Int
      BY <1>1, <3>1
    <3> QED
      BY <3>2, <3>3
  <2>2. /\ \A ip : RecentOf(ip)' \subseteq RecentOf(ip)
        /\ RecentOfAll' \subseteq RecentOfAll
    BY <1>1, <1>2, <2>1, Limits DEF RecentOf, RecentOfAll, MissesOf, MissesOfAll
  <2>3. ASSUME NEW ip \in IPs PROVE Cardinality({i \in RecentOf(ip)' : log'[i].quick}) < MissBudget
    <3>1. {i \in RecentOf(ip)' : log'[i].quick} \subseteq QuickOf(ip, now - Window)
      BY <1>2, <2>2 DEF QuickOf, RecentOf
    <3>2. /\ IsFiniteSet(QuickOf(ip, now - Window)) /\ Cardinality(QuickOf(ip, now - Window)) \in Nat
          /\ Cardinality(QuickOf(ip, now - Window)) < MissBudget
      BY HistoryIsFinite, RationingInQuicks DEF GateInv
    <3> QED
      BY <3>1, <3>2, FS_Subset, FS_CardinalityType, Limits
  <2>4. Cardinality({i \in RecentOfAll' : log'[i].quick}) < GlobalMissThreshold
    <3>1. {i \in RecentOfAll' : log'[i].quick} \subseteq QuickOfAll(now - GlobalWindow)
      BY <1>2, <2>2 DEF QuickOfAll, RecentOfAll
    <3>2. /\ IsFiniteSet(QuickOfAll(now - GlobalWindow)) /\ Cardinality(QuickOfAll(now - GlobalWindow)) \in Nat
          /\ Cardinality(QuickOfAll(now - GlobalWindow)) < GlobalMissThreshold
      BY HistoryIsFinite, RationingInQuicks DEF GateInv
    <3> QED
      BY <3>1, <3>2, FS_Subset, FS_CardinalityType, Limits
  <2> QED
    BY <2>3, <2>4 DEF QuickMissesAreRationed
<1> QED
  BY <1>4, <1>5, <1>6, <1>7 DEF GateInv

\* What the lemmas about the tables leave to say of a step that does not move the clock:
\* that the two tables remember the history, and that the quick misses are rationed.
LEMMA StillSound ==
    ASSUME GateInv, now' = now, log' \in Seq([ip : IPs, at : 0 .. now, quick : BOOLEAN]),
           SoundBuckets(ip_misses, IPs, now)', SoundDeque(global_misses, now)',
           BucketsRemember', AllIsRemembered', QuickMissesAreRationed'
    PROVE  GateInv'
<1>1. TypeOK' /\ IsFiniteSet(DOMAIN ip_misses)' /\ BucketsAreSorted'
  BY DEF GateInv, TypeOK, BucketsAreSorted, SoundBuckets, SoundDeque
<1> QED
  BY <1>1 DEF GateInv

\* A miss under a closed address is not counted, and asking forgets nothing.
LEMMA ClosedMissKeepsGate ==
    ASSUME GateInv, NEW ip \in IPs, ClosedMiss(ip)
    PROVE  GateInv'
<1>1. /\ now \in Nat /\ SoundBuckets(Gate.ips, IPs, now) /\ SoundDeque(Gate.all, now)
      /\ Gate.ips = ip_misses /\ Gate.all = global_misses
  BY GateIsSound
<1>2. PICK a : a = Asked(Gate, ip)
  OBVIOUS
<1>3. ip_misses' = a.ips /\ global_misses' = a.all /\ now' = now /\ log' = log
  BY <1>2 DEF ClosedMiss, Becomes
<1>4. /\ SoundBuckets(a.ips, IPs, now) /\ SoundDeque(a.all, now)
      /\ \A x, c : c \in Int /\ now - Window <= c => Count(a.ips, x, c) = Count(ip_misses, x, c)
      /\ \A c \in Int : now - GlobalWindow <= c =>
             Cardinality(Newer(a.all, c)) = Cardinality(Newer(global_misses, c))
  BY <1>1, <1>2, AskingChangesNoCount
<1>5. SoundBuckets(ip_misses, IPs, now)' /\ SoundDeque(global_misses, now)'
  BY <1>3, <1>4 DEF SoundBuckets, SoundDeque
<1>6. \A x, c : MissesOf(x, c)' = MissesOf(x, c) /\ MissesOfAll(c)' = MissesOfAll(c)
  BY <1>3 DEF MissesOf, MissesOfAll
<1>7. /\ \A c \in (now - Window) .. Horizon : c \in Int /\ now - Window <= c
      /\ \A c \in (now - GlobalWindow) .. Horizon : c \in Int /\ now - GlobalWindow <= c
  BY <1>1, Limits
<1>8. BucketsRemember'
  <2> SUFFICES ASSUME NEW x \in IPs, NEW c \in (now - Window) .. Horizon
               PROVE  Cardinality(Newer(Bucket(ip_misses', x), c)) = Cardinality(MissesOf(x, c)')
    BY <1>3 DEF BucketsRemember
  <2>1. Count(a.ips, x, c) = Count(ip_misses, x, c)
    BY <1>4, <1>7
  <2>2. Count(ip_misses, x, c) = Cardinality(MissesOf(x, c))
    BY DEF GateInv, BucketsRemember, Count
  <2> QED
    BY <1>3, <1>6, <2>1, <2>2 DEF Count
<1>9. AllIsRemembered'
  <2> SUFFICES ASSUME NEW c \in (now - GlobalWindow) .. Horizon
               PROVE  Cardinality(Newer(global_misses', c)) = Cardinality(MissesOfAll(c)')
    BY <1>3 DEF AllIsRemembered
  <2>1. Cardinality(Newer(a.all, c)) = Cardinality(Newer(global_misses, c))
    BY <1>4, <1>7
  <2>2. Cardinality(Newer(global_misses, c)) = Cardinality(MissesOfAll(c))
    BY DEF GateInv, AllIsRemembered
  <2> QED
    BY <1>3, <1>6, <2>1, <2>2
<1>10. QuickMissesAreRationed'
  BY <1>3, <1>6 DEF GateInv, QuickMissesAreRationed, RecentOf, RecentOfAll
<1>11. log' \in Seq([ip : IPs, at : 0 .. now, quick : BOOLEAN])
  BY <1>3 DEF GateInv, TypeOK
<1> QED
  BY <1>3, <1>5, <1>8, <1>9, <1>10, <1>11, StillSound

\* A miss under an open code is counted before the gate is asked: the tables follow the
\* history, and the answer is quick only if this very miss is within the budget.
LEMMA OpenMissCounts ==
    ASSUME GateInv, NEW ip \in IPs, OpenMiss(ip)
    PROVE  /\ now \in Nat /\ now' = now
           /\ SoundBuckets(ip_misses, IPs, now)' /\ SoundDeque(global_misses, now)'
           /\ \A x, c : c \in Int /\ now - Window <= c =>
                  Count(ip_misses', x, c)
                      = Count(ip_misses, x, c) + (IF x = ip /\ now > c THEN 1 ELSE 0)
           /\ \A c \in Int : now - GlobalWindow <= c =>
                  Cardinality(Newer(global_misses', c))
                      = Cardinality(Newer(global_misses, c)) + (IF now > c THEN 1 ELSE 0)
           /\ \E q \in BOOLEAN :
                  /\ log' = Append(log, [ip |-> ip, at |-> now, quick |-> q])
                  /\ q => /\ Cardinality(Newer(global_misses', now - GlobalWindow)) < GlobalMissThreshold
                          /\ Count(ip_misses', ip, now - Window) < MissBudget
<1>1. /\ now \in Nat /\ SoundBuckets(Gate.ips, IPs, now) /\ SoundDeque(Gate.all, now)
      /\ Gate.ips = ip_misses /\ Gate.all = global_misses
  BY GateIsSound
<1>2. PICK r : r = Recorded(Gate, ip)
  OBVIOUS
<1>3. /\ SoundBuckets(r.ips, IPs, now) /\ SoundDeque(r.all, now)
      /\ \A x, c : c \in Int /\ now - Window <= c =>
             Count(r.ips, x, c) = Count(ip_misses, x, c) + (IF x = ip /\ now > c THEN 1 ELSE 0)
      /\ \A c \in Int : now - GlobalWindow <= c =>
             Cardinality(Newer(r.all, c))
                 = Cardinality(Newer(global_misses, c)) + (IF now > c THEN 1 ELSE 0)
  BY ZenonT(30), <1>1, <1>2, RecordCountsOnce
<1>4. PICK a : a = Asked(r, ip)
  OBVIOUS
<1>5. /\ SoundBuckets(Asked(r, ip).ips, IPs, now) /\ SoundDeque(Asked(r, ip).all, now)
      /\ \A x, c : c \in Int /\ now - Window <= c => Count(Asked(r, ip).ips, x, c) = Count(r.ips, x, c)
      /\ \A c \in Int : now - GlobalWindow <= c =>
             Cardinality(Newer(Asked(r, ip).all, c)) = Cardinality(Newer(r.all, c))
      /\ Asked(r, ip).allowed <=>
             /\ Cardinality(Newer(r.all, now - GlobalWindow)) < GlobalMissThreshold
             /\ Count(r.ips, ip, now - Window) < MissBudget
  BY <1>1, <1>3, AskingChangesNoCount
<1>6. Verdict(ip) = a
  BY <1>2, <1>4 DEF Verdict
<1>7. ip_misses' = a.ips /\ global_misses' = a.all /\ now' = now
  BY <1>6 DEF OpenMiss, Becomes
<1>8. SoundBuckets(ip_misses, IPs, now)' /\ SoundDeque(global_misses, now)'
  BY <1>4, <1>5, <1>7 DEF SoundBuckets, SoundDeque
<1>9. PICK q : q = a.allowed
  OBVIOUS
<1>10. q \in BOOLEAN
  BY <1>4, <1>9 DEF Asked
<1>11. log' = Append(log, [ip |-> ip, at |-> now, quick |-> q])
  BY <1>6, <1>9 DEF OpenMiss
<1>12. /\ now - Window \in Int /\ now - Window <= now - Window
       /\ now - GlobalWindow \in Int /\ now - GlobalWindow <= now - GlobalWindow
  BY <1>1, Limits
<1>13. q => /\ Cardinality(Newer(global_misses', now - GlobalWindow)) < GlobalMissThreshold
            /\ Count(ip_misses', ip, now - Window) < MissBudget
  <2> SUFFICES ASSUME q
               PROVE  /\ Cardinality(Newer(global_misses', now - GlobalWindow)) < GlobalMissThreshold
                      /\ Count(ip_misses', ip, now - Window) < MissBudget
    OBVIOUS
  <2>1. Asked(r, ip).allowed
    BY <1>4, <1>9
  <2> QED
    BY <1>4, <1>5, <1>7, <1>12, <2>1
<1> QED
  BY <1>1, <1>3, <1>4, <1>5, <1>7, <1>8, <1>10, <1>11, <1>13

\* Counting a miss keeps the tables true to the history, and the quick misses rationed.
LEMMA OpenMissKeepsGate ==
    ASSUME GateInv, NEW ip \in IPs, OpenMiss(ip)
    PROVE  GateInv'
<1>1. /\ now \in Nat /\ now' = now
      /\ SoundBuckets(ip_misses, IPs, now)' /\ SoundDeque(global_misses, now)'
      /\ \A x, c : c \in Int /\ now - Window <= c =>
             Count(ip_misses', x, c)
                 = Count(ip_misses, x, c) + (IF x = ip /\ now > c THEN 1 ELSE 0)
      /\ \A c \in Int : now - GlobalWindow <= c =>
             Cardinality(Newer(global_misses', c))
                 = Cardinality(Newer(global_misses, c)) + (IF now > c THEN 1 ELSE 0)
  BY OpenMissCounts
<1>2. PICK q \in BOOLEAN :
        /\ log' = Append(log, [ip |-> ip, at |-> now, quick |-> q])
        /\ q => /\ Cardinality(Newer(global_misses', now - GlobalWindow)) < GlobalMissThreshold
                /\ Count(ip_misses', ip, now - Window) < MissBudget
  BY OpenMissCounts
<1>3. TypeOK
  BY DEF GateInv
<1>4. \A c \in Int :
        /\ \A x : Cardinality(MissesOf(x, c)')
                      = Cardinality(MissesOf(x, c)) + (IF x = ip /\ now > c THEN 1 ELSE 0)
        /\ Cardinality(MissesOfAll(c)') = Cardinality(MissesOfAll(c)) + (IF now > c THEN 1 ELSE 0)
        /\ \A x : (q = FALSE \/ x # ip) => QuickOf(x, c)' = QuickOf(x, c)
        /\ q = FALSE => QuickOfAll(c)' = QuickOfAll(c)
  BY <1>1, <1>2, <1>3, LoggedOnce
<1>5. log' \in Seq([ip : IPs, at : 0 .. now, quick : BOOLEAN])
  <2>1. PICK m : m = [ip |-> ip, at |-> now, quick |-> q]
    OBVIOUS
  <2>2. m \in [ip : IPs, at : 0 .. now, quick : BOOLEAN]
    BY <1>1, <2>1
  <2>3. PICK Miss : Miss = [ip : IPs, at : 0 .. now, quick : BOOLEAN] /\ log \in Seq(Miss) /\ m \in Miss
    BY <1>3, <2>2 DEF TypeOK
  <2>4. log' = Append(log, m)
    BY <1>2, <2>1
  <2> QED
    BY <2>3, <2>4
<1>6. IsFiniteSet(DOMAIN log')
  <2>1. Len(log') \in Nat /\ DOMAIN log' = 1 .. Len(log')
    BY <1>5
  <2> QED
    BY <2>1, FS_Interval
<1>7. BucketsRemember'
  <2> SUFFICES ASSUME NEW x \in IPs, NEW c \in (now - Window) .. Horizon
               PROVE  Cardinality(Newer(Bucket(ip_misses', x), c)) = Cardinality(MissesOf(x, c)')
    BY <1>1 DEF BucketsRemember
  <2>1. c \in Int /\ now - Window <= c
    BY <1>1, Limits
  <2>2. Count(ip_misses, x, c) = Cardinality(MissesOf(x, c))
    BY DEF GateInv, BucketsRemember, Count
  <2> QED
    BY <1>1, <1>4, <2>1, <2>2 DEF Count
<1>8. AllIsRemembered'
  <2> SUFFICES ASSUME NEW c \in (now - GlobalWindow) .. Horizon
               PROVE  Cardinality(Newer(global_misses', c)) = Cardinality(MissesOfAll(c)')
    BY <1>1 DEF AllIsRemembered
  <2>1. c \in Int /\ now - GlobalWindow <= c
    BY <1>1, Limits
  <2>2. Cardinality(Newer(global_misses, c)) = Cardinality(MissesOfAll(c))
    BY DEF GateInv, AllIsRemembered
  <2> QED
    BY <1>1, <1>4, <2>1, <2>2
<1>9. now - Window \in (now - Window) .. Horizon /\ now - GlobalWindow \in (now - GlobalWindow) .. Horizon
  BY GateIsSound, Limits
<1>10. ASSUME NEW x \in IPs PROVE Cardinality(QuickOf(x, now - Window)') < MissBudget
  <2>1. CASE q = FALSE \/ x # ip
    <3>1. QuickOf(x, now - Window)' = QuickOf(x, now - Window)
      <4>1. PICK c \in Int : c = now - Window /\ c = now' - Window
        BY <1>1, Limits
      <4>2. QuickOf(x, c)' = QuickOf(x, c)
        BY <1>4, <2>1
      <4> QED
        BY <1>1, <4>1, <4>2 DEF QuickOf, MissesOf
    <3> QED
      BY <3>1, RationingInQuicks DEF GateInv
  <2>2. CASE q = TRUE /\ x = ip
    <3>1. QuickOf(x, now - Window)' \subseteq MissesOf(x, now - Window)'
      BY DEF QuickOf
    <3>2. IsFiniteSet(MissesOf(x, now - Window)')
      BY <1>6, FS_Subset DEF MissesOf
    <3>3. Cardinality(MissesOf(x, now - Window)') < MissBudget
      BY <1>1, <1>2, <1>7, <1>9, <2>2 DEF BucketsRemember, Count
    <3> QED
      BY <3>1, <3>2, <3>3, FS_Subset, FS_CardinalityType, Limits
  <2> QED
    BY <2>1, <2>2
<1>11. Cardinality(QuickOfAll(now - GlobalWindow)') < GlobalMissThreshold
  <2>1. CASE q = FALSE
    <3>1. PICK c \in Int : c = now - GlobalWindow /\ c = now' - GlobalWindow
      BY <1>1, Limits
    <3>2. QuickOfAll(c)' = QuickOfAll(c)
      BY <1>4, <2>1
    <3>3. QuickOfAll(now - GlobalWindow)' = QuickOfAll(now - GlobalWindow)
      BY <1>1, <3>1, <3>2 DEF QuickOfAll, MissesOfAll
    <3> QED
      BY <3>3, RationingInQuicks DEF GateInv
  <2>2. CASE q = TRUE
    <3>1. QuickOfAll(now - GlobalWindow)' \subseteq MissesOfAll(now - GlobalWindow)'
      BY DEF QuickOfAll
    <3>2. IsFiniteSet(MissesOfAll(now - GlobalWindow)')
      BY <1>6, FS_Subset DEF MissesOfAll
    <3>3. Cardinality(MissesOfAll(now - GlobalWindow)') < GlobalMissThreshold
      BY <1>1, <1>2, <1>8, <1>9, <2>2 DEF AllIsRemembered
    <3> QED
      BY <3>1, <3>2, <3>3, FS_Subset, FS_CardinalityType, Limits
  <2> QED
    BY <2>1, <2>2
<1>12. QuickMissesAreRationed'
  BY <1>10, <1>11 DEF QuickMissesAreRationed, QuickOf, QuickOfAll, RecentOf, RecentOfAll
<1> QED
  BY <1>1, <1>5, <1>7, <1>8, <1>12, StillSound

\* Every step of the gate keeps its invariant.
LEMMA StepKeepsGate == GateInv /\ [Next]_vars => GateInv'
<1> SUFFICES ASSUME GateInv, [Next]_vars PROVE GateInv'
  OBVIOUS
<1>1. CASE Tick
  BY <1>1, TickKeepsGate
<1>2. ASSUME NEW ip \in IPs, OpenMiss(ip) PROVE GateInv'
  BY <1>2, OpenMissKeepsGate
<1>3. ASSUME NEW ip \in IPs, ClosedMiss(ip) PROVE GateInv'
  BY <1>3, ClosedMissKeepsGate
<1>4. CASE UNCHANGED vars
  BY <1>4 DEF vars, GateInv, TypeOK, BucketsAreSorted, BucketsRemember, AllIsRemembered,
         QuickMissesAreRationed, MissesOf, MissesOfAll, RecentOf, RecentOfAll, OldestFirst
<1> QED
  BY <1>1, <1>2, <1>3, <1>4 DEF Next

--------------------------------------------------------------------------------
\* The gate's deques are sound and remember, after every cutoff that can still matter,
\* as many misses as there were, whatever was pruned or swept.
THEOREM GateInvariance == Spec => []GateInv
BY InitGate, StepKeepsGate, PTL DEF Spec

\* Asked about any IP at any moment, Gatekeeper.allow answers what a gate that
\* remembers every miss would answer.
THEOREM GateAnswersExactly == Spec => []AnswersLikeFullHistory
BY GateInvariance, AnswerIsExact, PTL

\* Inside any window an IP gets fewer misses without the tarpit than its budget, and all
\* IPs together fewer than the threshold.
THEOREM QuickMissesRationed == Spec => []QuickMissesAreRationed
<1>1. GateInv => QuickMissesAreRationed
  BY DEF GateInv
<1> QED
  BY <1>1, GateInvariance, PTL

--------------------------------------------------------------------------------
\* Once its miss is counted, asking for an IP leaves more than the ceiling only if the
\* sweep ran and every bucket it left counts for something.
LEMMA PastTheCeilingAllCount ==
    ASSUME NEW gate, SoundBuckets(gate.ips, IPs, now), SoundDeque(gate.all, now), NEW ip \in IPs, now \in Nat,
           Count(gate.ips, ip, now - Window) > 0,
           Cardinality(DOMAIN Asked(gate, ip).ips) > MaxTrackedIPs
    PROVE  \A x \in DOMAIN Asked(gate, ip).ips : Newer(Bucket(Asked(gate, ip).ips, x), now - Window) # {}
<1>1. now - Window \in Int /\ now - Window <= now - Window
  BY Limits
<1>2. PICK ips : ips = SweptIfCrowded(gate.ips)
  OBVIOUS
<1>3. /\ SoundBuckets(ips, IPs, now)
      /\ \A x, c : c \in Int /\ now - Window <= c => Count(ips, x, c) = Count(gate.ips, x, c)
      /\ Cardinality(DOMAIN ips) > MaxTrackedIPs =>
             \A x \in DOMAIN ips : Newer(Bucket(ips, x), now - Window) # {}
  BY <1>2, SweepForgetsNothing
<1>4. PICK left : left = Asked(gate, ip).ips
  OBVIOUS
<1>5. /\ SoundBuckets(left, IPs, now)
      /\ \A x, c : c \in Int /\ now - Window <= c => Count(left, x, c) = Count(gate.ips, x, c)
  BY <1>4, AskingChangesNoCount
<1>6. ip \in DOMAIN ips
  <2> SUFFICES ASSUME ip \notin DOMAIN ips PROVE FALSE
    OBVIOUS
  <2>1. Newer(Bucket(ips, ip), now - Window) = {}
    <3>1. Bucket(ips, ip) = <<>>
      BY DEF Bucket
    <3> QED
      BY <3>1 DEF Newer
  <2>2. Count(ips, ip, now - Window) = 0
    BY <2>1, FS_EmptySet DEF Count
  <2> QED
    BY <1>1, <1>3, <2>2
<1>7. DOMAIN left \subseteq DOMAIN ips
  <2>1. left = ips \/ left = Replace(ips, ip, Pruned(Bucket(ips, ip), now - Window))
    BY <1>2, <1>4 DEF Asked
  <2>2. ASSUME NEW s PROVE DOMAIN Replace(ips, ip, s) \subseteq DOMAIN ips
    BY <1>6 DEF Replace, With, Without
  <2> QED
    BY <2>1, <2>2
<1>8. Cardinality(DOMAIN ips) > MaxTrackedIPs
  <2>1. Cardinality(DOMAIN left) <= Cardinality(DOMAIN ips) /\ Cardinality(DOMAIN left) \in Nat
        /\ Cardinality(DOMAIN ips) \in Nat
    BY <1>3, <1>5, <1>7, FS_Subset, FS_CardinalityType DEF SoundBuckets
  <2>2. Cardinality(DOMAIN left) > MaxTrackedIPs
    BY <1>4
  <2> QED
    BY <2>1, <2>2, Limits
<1>9. ASSUME NEW x \in DOMAIN left PROVE Newer(Bucket(left, x), now - Window) # {}
  <2>1. Newer(Bucket(ips, x), now - Window) # {}
    BY <1>3, <1>7, <1>8
  <2>2. IsFiniteSet(Newer(Bucket(ips, x), now - Window)) /\ IsFiniteSet(Newer(Bucket(left, x), now - Window))
    BY <1>3, <1>5, BucketIsSound, NewerIsFinite
  <2>3. Count(ips, x, now - Window) # 0
    BY <2>1, <2>2, FS_EmptySet DEF Count
  <2>4. Count(left, x, now - Window) = Count(ips, x, now - Window)
    BY <1>1, <1>3, <1>5
  <2> QED
    BY <2>2, <2>3, <2>4, FS_EmptySet DEF Count
<1> QED
  BY <1>4, <1>9

\* The sweep that ends a crowded record leaves only IPs that missed within the window.
LEMMA StepKeepsTheCeiling ==
    ASSUME GateInv, [Next]_vars, log' # log, Cardinality(DOMAIN ip_misses') > MaxTrackedIPs
    PROVE  \A x \in DOMAIN ip_misses' : RecentOf(x)' # {}
<1>1. PICK ip \in IPs : OpenMiss(ip)
  BY DEF Next, Tick, ClosedMiss, vars
<1>2. /\ now \in Nat /\ SoundBuckets(Gate.ips, IPs, now) /\ SoundDeque(Gate.all, now)
      /\ Gate.ips = ip_misses /\ Gate.all = global_misses
  BY GateIsSound
<1>3. PICK r : r = Recorded(Gate, ip)
  OBVIOUS
<1>4. now - Window \in Int /\ now - Window <= now - Window /\ now > now - Window
  BY <1>2, Limits
<1>5. /\ SoundBuckets(r.ips, IPs, now) /\ SoundDeque(r.all, now)
      /\ Count(r.ips, ip, now - Window) = Count(ip_misses, ip, now - Window) + 1
  BY <1>2, <1>3, <1>4, RecordCountsOnce
<1>6. Count(ip_misses, ip, now - Window) \in Nat
  BY <1>2, BucketIsSound, NewerIsFinite DEF Count
<1>7. ip_misses' = Asked(r, ip).ips /\ now' = now
  BY <1>1, <1>3 DEF OpenMiss, Becomes, Verdict
<1>8. \A x \in DOMAIN ip_misses' : Newer(Bucket(ip_misses', x), now - Window) # {}
  BY <1>2, <1>5, <1>6, <1>7, PastTheCeilingAllCount
<1>9. GateInv'
  BY StepKeepsGate
<1>10. ASSUME NEW x \in DOMAIN ip_misses' PROVE RecentOf(x)' # {}
  <2>1. x \in IPs /\ now - Window \in (now' - Window) .. Horizon
    BY <1>2, <1>7, <1>9, GateIsSound, Limits DEF GateInv, TypeOK
  <2>2. Cardinality(Newer(Bucket(ip_misses', x), now - Window)) = Cardinality(RecentOf(x)')
    BY <1>7, <1>9, <2>1 DEF GateInv, BucketsRemember, RecentOf, MissesOf
  <2>3. IsFiniteSet(Newer(Bucket(ip_misses', x), now - Window))
    <3>1. SoundBuckets(ip_misses', IPs, now)
      BY <1>2, <1>5, <1>7, AskingChangesNoCount
    <3> QED
      BY <1>2, <3>1, BucketIsSound, NewerIsFinite
  <2>4. Cardinality(RecentOf(x)') # 0
    BY <1>8, <2>2, <2>3, FS_EmptySet
  <2> QED
    BY <2>4, FS_EmptySet
<1> QED
  BY <1>10

\* After a recorded miss the gate tracks more IPs than its ceiling only if every one of
\* them missed within the window.
THEOREM OnlyActiveIPsAreTracked == Spec => OnlyActiveIPsPastTheCeiling
<1>1. GateInv /\ [Next]_vars =>
          [(log' # log /\ Cardinality(DOMAIN ip_misses') > MaxTrackedIPs) =>
              \A ip \in DOMAIN ip_misses' : RecentOf(ip)' # {}]_vars
  BY StepKeepsTheCeiling
<1> QED
  BY <1>1, GateInvariance, PTL DEF Spec, OnlyActiveIPsPastTheCeiling
================================================================================
