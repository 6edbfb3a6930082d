------------------------------ MODULE UploadLimiter ------------------------------
(***************************************************************************)
(* The brake on filling the disk: UploadLimiter in src/app/gatekeeper.py,  *)
(* used by start_upload and finish_upload in src/app/main.py.              *)
(*                                                                         *)
(* The limiter counts slots by the time they were claimed and is told of   *)
(* an upload's end only when it is finished.  The store keeps an upload    *)
(* for as long as its bytes keep arriving, and sweeps it when they stop.   *)
(* `inflight` is the store's side of it, reduced to who each upload is     *)
(* charged to, when it started and last moved, and whether its sender was  *)
(* told of it; `begun` and `finished` are history.                         *)
(***************************************************************************)
EXTENDS Buckets, SequencesExt

CONSTANTS
    IPs,
    Sizes,              \* declared sizes of the uploads people start
    MaxConcurrent,
    Window, MaxBytes,   \* declared bytes per IP per window
    SlotTtl,
    UploadIdle,         \* the store's idle window
    MaxTrackedIPs,
    MaxUploads,         \* bound: uploads begun
    Horizon             \* bound: the clock stops there

ASSUME LimiterAssumption ==
    /\ {MaxConcurrent, Window, MaxBytes, SlotTtl, UploadIdle, MaxTrackedIPs} \subseteq Nat \ {0}
    /\ Sizes \subseteq Nat \ {0}
    /\ {MaxUploads, Horizon} \subseteq Nat
    /\ UploadIdle <= SlotTtl

VARIABLES
    now,
    active,         \* _active: ip -> when each slot was claimed, oldest first
    declared,       \* _declared: ip -> [at, size], oldest first
    inflight,       \* upload -> [ip, started, touched, told]
    begun,          \* history: [ip, at, size] of every start that said yes
    finished        \* history: upload -> [ip, started, at] of its done

vars == <<now, active, declared, inflight, begun, finished>>

Slots_Immortal(ip) == Bucket(active, ip)                                   \* mutant
Slots(ip) == Pruned(Bucket(active, ip), now - SlotTtl)

After(claims, cutoff) == {i \in DOMAIN claims : claims[i].at > cutoff}
Spent_OneTickShort(ip) ==                                                   \* mutant
    FromFirst(Bucket(declared, ip), After(Bucket(declared, ip), now - Window + 1))
Spent(ip) == FromFirst(Bucket(declared, ip), After(Bucket(declared, ip), now - Window))

SizesOf(claims, indices) == Total([i \in indices |-> claims[i].size])
SumOfSizes(claims) == SizesOf(claims, DOMAIN claims)

\* Drained buckets are dropped, but only once there are too many.
Reclaimed(map, drained) ==
    IF Cardinality(DOMAIN map) <= MaxTrackedIPs THEN map ELSE Without(map, drained)
SweptActive ==
    Reclaimed(active, {ip \in DOMAIN active : Last(active[ip]) <= now - SlotTtl})
SweptDeclared ==
    Reclaimed(declared, {ip \in DOMAIN declared : Last(declared[ip]).at <= now - Window})

HasSlot_OneMore(ip) == Len(Slots(ip)) <= MaxConcurrent                     \* mutant
HasSlot(ip) == Len(Slots(ip)) < MaxConcurrent
HasBytes(ip, size) == SumOfSizes(Spent(ip)) + size <= MaxBytes
Admits(ip, size) == HasSlot(ip) /\ HasBytes(ip, size)

\* finish(ip): the oldest slot goes, whosever it was.
Released(map, ip) ==
    IF ip \in DOMAIN map THEN Replace(map, ip, Tail(map[ip])) ELSE map

--------------------------------------------------------------------------------
Init ==
    /\ now = 0
    /\ active = <<>> /\ declared = <<>>
    /\ inflight = <<>>
    /\ begun = <<>> /\ finished = <<>>

Tick ==
    /\ now < Horizon
    /\ now' = now + 1
    /\ UNCHANGED <<active, declared, inflight, begun, finished>>

\* start(ip, size) said yes: a slot and the bytes are claimed.
Claimed(ip) == Replace(SweptActive, ip, Append(Slots(ip), now))
Claim(ip, size) ==
    /\ Len(begun) < MaxUploads
    /\ Admits(ip, size)
    /\ declared' = Replace(SweptDeclared, ip, Append(Spent(ip), [at |-> now, size |-> size]))
    /\ begun' = Append(begun, [ip |-> ip, at |-> now, size |-> size])
    /\ UNCHANGED <<now, finished>>

\* The store purges on the way into begin.
Stale == {u \in DOMAIN inflight : inflight[u].touched <= now - UploadIdle}
Kept == Without(inflight, Stale)

Registered(ip, told) ==
    With(Kept, Len(begun) + 1, [ip |-> ip, started |-> now, touched |-> now, told |-> told])

\* start_upload: admitted, and the store took it.
StartUpload(ip, size) ==
    /\ Claim(ip, size)
    /\ active' = Claimed(ip)
    /\ inflight' = Registered(ip, TRUE)

\* start_upload: admitted, but begin refused.  A slot goes back at once; the bytes stay
\* spent.  A ValueError, or an OSError of prepare, comes before the purge.
StartUploadStoreFull(ip, size) ==
    /\ Claim(ip, size)
    /\ active' = Released(Claimed(ip), ip)
    /\ inflight' \in {inflight, Kept}

\* start_upload: admitted and registered, but then path.touch raised.  A slot goes back,
\* and the store keeps an upload whose id nobody was told.
StartUploadTouchRaises(ip, size) ==
    /\ Claim(ip, size)
    /\ active' = Released(Claimed(ip), ip)
    /\ inflight' = Registered(ip, FALSE)

\* start_upload: 429.  Looking is still pruning, and only as far as it looked.
StartRefused(ip, size) ==
    /\ ~Admits(ip, size)
    /\ active' = Replace(SweptActive, ip, Slots(ip))
    /\ declared' = IF HasSlot(ip) THEN Replace(SweptDeclared, ip, Spent(ip))
                                  ELSE SweptDeclared
    /\ UNCHANGED <<now, inflight, begun, finished>>

\* Bytes of a chunk arrive, and the store pushes the idle deadline back; it does
\* so even past that deadline, if nothing has purged since.
Move(u) ==
    /\ inflight[u].told
    /\ inflight' = [inflight EXCEPT ![u].touched = now]
    /\ UNCHANGED <<now, active, declared, begun, finished>>

\* finish_upload: a slot of the IP that was charged is released.
Done(u) ==
    /\ inflight[u].told
    /\ inflight' = Without(inflight, {u})
    /\ active' = Released(active, inflight[u].ip)
    /\ finished' =
           With(finished, u, [ip |-> inflight[u].ip, started |-> inflight[u].started, at |-> now])
    /\ UNCHANGED <<now, declared, begun>>

\* The store sweeps the uploads that went quiet.  The limiter is not told.
StoreSweeps ==
    /\ Stale # {}
    /\ inflight' = Kept
    /\ UNCHANGED <<now, active, declared, begun, finished>>

Next ==
    \/ Tick
    \/ \E ip \in IPs, size \in Sizes :
          \/ StartUpload(ip, size) \/ StartUploadStoreFull(ip, size)
          \/ StartUploadTouchRaises(ip, size) \/ StartRefused(ip, size)
    \/ \E u \in DOMAIN inflight : Move(u) \/ Done(u)
    \/ StoreSweeps

Spec == Init /\ [][Next]_vars

--------------------------------------------------------------------------------
\* The types; no IP is kept with an empty bucket.
TypeOK ==
    /\ now \in 0 .. Horizon
    /\ DOMAIN active \subseteq IPs /\ DOMAIN declared \subseteq IPs
    /\ \A ip \in DOMAIN active : active[ip] \in Seq(0 .. now) /\ active[ip] # <<>>
    /\ \A ip \in DOMAIN declared :
          declared[ip] \in Seq([at : 0 .. now, size : Sizes]) /\ declared[ip] # <<>>
    /\ begun \in Seq([ip : IPs, at : 0 .. now, size : Sizes])
    /\ DOMAIN inflight \subseteq 1 .. Len(begun)
    /\ \A u \in DOMAIN inflight :
          inflight[u] \in [ip : IPs, started : 0 .. now, touched : 0 .. now, told : BOOLEAN]
    /\ DOMAIN finished \subseteq 1 .. Len(begun)
    /\ \A u \in DOMAIN finished :
          /\ finished[u] \in [ip : IPs, started : 0 .. now, at : 0 .. now]
          /\ u \notin DOMAIN inflight

\* What an IP has really begun after a cutoff.
BegunBy(ip, cutoff) == {i \in DOMAIN begun : begun[i].ip = ip /\ begun[i].at > cutoff}

\* In no window does an IP get more bytes reserved than its allowance, counted
\* from what it began and not from what the limiter still remembers.
BytesAreRationed == \A ip \in IPs : SizesOf(begun, BegunBy(ip, now - Window)) <= MaxBytes

\* The uploads of an IP that started after a cutoff and that it may go on with, whether
\* their bytes still move or no sweep has met them yet; and the dones since then of
\* uploads that were older.
StartedBy(ip, cutoff) ==
    {u \in DOMAIN inflight :
        inflight[u].ip = ip /\ inflight[u].told /\ inflight[u].started > cutoff}
FinishedLate(ip, cutoff) ==
    {u \in DOMAIN finished :
        finished[u].ip = ip /\ finished[u].started <= cutoff /\ finished[u].at > cutoff}

\* "How many uploads one IP may have in flight" is limited for uploads younger than a
\* slot lives, and for every younger age as well.  The slot of an older one is forgotten
\* while it moves on, and if it is finished after all a younger one's slot is released
\* in its stead: each done of that kind, and nothing else, makes room for one more.
ConcurrencyIsLimited ==
    \A ip \in IPs : \A cutoff \in (now - SlotTtl) .. now :
        Cardinality(StartedBy(ip, cutoff)) <= MaxConcurrent + Cardinality(FinishedLate(ip, cutoff))

\* A dropped connection is not a ban: an IP that started nothing for as long as
\* a slot and a window last is admitted, however its uploads ended.
NoPermanentBan ==
    \A ip \in IPs, size \in Sizes :
        (size <= MaxBytes /\ \A i \in DOMAIN begun :
             begun[i].ip = ip => begun[i].at <= now - SlotTtl /\ begun[i].at <= now - Window)
        => Admits(ip, size)

\* Why these hold, as inductive invariants.  Of the bytes: both kinds of deque are oldest
\* first, every slot was claimed by a start, and what the limiter remembers as declared
\* after any cutoff that can still matter is what was begun.
InOrder(claims) == \A i, j \in DOMAIN claims : i <= j => claims[i].at <= claims[j].at
BucketsAreSorted ==
    /\ \A ip \in DOMAIN active : OldestFirst(active[ip])
    /\ \A ip \in DOMAIN declared : InOrder(declared[ip])
SlotsWereClaimed ==
    \A ip \in DOMAIN active : \A i \in DOMAIN active[ip] :
        \E j \in DOMAIN begun : begun[j].ip = ip /\ begun[j].at = active[ip][i]
BytesAreRemembered ==
    \A ip \in IPs : \A cutoff \in (now - Window) .. Horizon :
        SizesOf(Bucket(declared, ip), After(Bucket(declared, ip), cutoff))
            = SizesOf(begun, BegunBy(ip, cutoff))

LimiterInv ==
    /\ TypeOK
    /\ IsFiniteSet(DOMAIN active) /\ IsFiniteSet(DOMAIN declared)
    /\ BucketsAreSorted
    /\ SlotsWereClaimed
    /\ BytesAreRemembered
    /\ BytesAreRationed

\* Of the uploads: a bucket never holds more slots than the limit, and after any cutoff
\* that can still matter as many slots as uploads were started, but for those that an
\* older upload released.
SlotsAreFew == \A ip \in DOMAIN active : Len(active[ip]) <= MaxConcurrent
SlotsCoverUploads ==
    \A ip \in IPs : \A cutoff \in (now - SlotTtl) .. Horizon :
        Cardinality(StartedBy(ip, cutoff))
            <= Cardinality(Newer(Bucket(active, ip), cutoff)) + Cardinality(FinishedLate(ip, cutoff))

SlotsInv == SlotsAreFew /\ SlotsCoverUploads
================================================================================
