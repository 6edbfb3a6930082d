------------------------------- MODULE Gatekeeper -------------------------------
(***************************************************************************)
(* The brake on guessing codes: Gatekeeper in src/app/gatekeeper.py, and   *)
(* the way take_throw in src/app/main.py asks it about a miss.             *)
(*                                                                         *)
(* The gate forgets as it goes: stamps are pruned when a bucket is looked  *)
(* at, and whole buckets are reclaimed once there are too many.  `log` is  *)
(* the history it forgets, every miss that was recorded and whether it was *)
(* answered without the tarpit, so that the properties can compare what    *)
(* the gate says with what a gate that forgets nothing would say.          *)
(*                                                                         *)
(* A handler runs on the event loop: the record and the allow of one miss  *)
(* are one step.                                                           *)
(***************************************************************************)
EXTENDS Buckets, SequencesExt

CONSTANTS
    IPs,
    Window, MissBudget,                 \* per IP
    GlobalWindow, GlobalMissThreshold,  \* over all of them
    MaxTrackedIPs,
    MaxMisses,      \* bound: misses recorded
    Horizon         \* bound: the clock stops there

ASSUME GateAssumption ==
    /\ {Window, MissBudget, GlobalWindow, GlobalMissThreshold, MaxTrackedIPs} \subseteq Nat \ {0}
    /\ {MaxMisses, Horizon} \subseteq Nat

VARIABLES
    now,
    ip_misses,      \* _ip_misses: ip -> stamps, oldest first
    global_misses,  \* _global_misses
    log             \* history: [ip, at, quick], oldest first

vars == <<now, ip_misses, global_misses, log>>

Gate == [ips |-> ip_misses, all |-> global_misses]

--------------------------------------------------------------------------------
Drained_ByOldest(ips) == {ip \in DOMAIN ips : ips[ip][1] <= now - Window}  \* mutant
Drained(ips) == {ip \in DOMAIN ips : Last(ips[ip]) <= now - Window}

SweptIfCrowded_Never(ips) == ips                                           \* mutant
SweptIfCrowded(ips) ==
    IF Cardinality(DOMAIN ips) <= MaxTrackedIPs THEN ips ELSE Without(ips, Drained(ips))

\* record(ip, MISS); a hit changes nothing.
Recorded(gate, ip) ==
    LET stamps == Pruned(Append(Bucket(gate.ips, ip), now), now - Window)
    IN  [ips |-> SweptIfCrowded(Replace(gate.ips, ip, stamps)),
         all |-> Pruned(Append(gate.all, now), now - GlobalWindow)]

\* allow(ip): what it leaves behind, and what it answers.  In a flood it turns
\* the caller away before looking at the caller's own bucket.
Asked(gate, ip) ==
    LET all == Pruned(gate.all, now - GlobalWindow)
        ips == SweptIfCrowded(gate.ips)
        own == Pruned(Bucket(ips, ip), now - Window)
    IN  [ips |-> IF Len(all) >= GlobalMissThreshold THEN ips ELSE Replace(ips, ip, own),
         all |-> all,
         allowed |-> Len(all) < GlobalMissThreshold /\ Len(own) < MissBudget]

Becomes(gate) == ip_misses' = gate.ips /\ global_misses' = gate.all

--------------------------------------------------------------------------------
Init ==
    /\ now = 0
    /\ ip_misses = <<>>
    /\ global_misses = <<>>
    /\ log = <<>>

Tick ==
    /\ now < Horizon
    /\ now' = now + 1
    /\ UNCHANGED <<ip_misses, global_misses, log>>

\* "A miss: count it, then let the (now-updated) gate decide."
Verdict_BeforeCounting(ip) ==                                              \* mutant
    [ips |-> Recorded(Gate, ip).ips, all |-> Recorded(Gate, ip).all,
     allowed |-> Asked(Gate, ip).allowed]
Verdict(ip) == Asked(Recorded(Gate, ip), ip)

\* take_throw found nothing under an open code.
OpenMiss(ip) ==
    /\ Len(log) < MaxMisses
    /\ Becomes(Verdict(ip))
    /\ log' = Append(log, [ip |-> ip, at |-> now, quick |-> Verdict(ip).allowed])
    /\ UNCHANGED now

\* take_throw found nothing under a closed address: the gate is asked but the
\* miss is not counted.
ClosedMiss(ip) ==
    /\ Becomes(Asked(Gate, ip))
    /\ UNCHANGED <<now, log>>

Next == Tick \/ \E ip \in IPs : OpenMiss(ip) \/ ClosedMiss(ip)

Spec == Init /\ [][Next]_vars

--------------------------------------------------------------------------------
\* The types; no bucket is empty, so no IP is tracked for nothing.
TypeOK ==
    /\ now \in 0 .. Horizon
    /\ DOMAIN ip_misses \subseteq IPs
    /\ \A ip \in DOMAIN ip_misses : ip_misses[ip] \in Seq(0 .. now) /\ ip_misses[ip] # <<>>
    /\ global_misses \in Seq(0 .. now)
    /\ log \in Seq([ip : IPs, at : 0 .. now, quick : BOOLEAN])

\* The misses of an IP, and of everyone, after a cutoff; those that count at this moment.
MissesOf(ip, cutoff) == {i \in DOMAIN log : log[i].ip = ip /\ log[i].at > cutoff}
MissesOfAll(cutoff) == {i \in DOMAIN log : log[i].at > cutoff}
RecentOf(ip) == MissesOf(ip, now - Window)
RecentOfAll == MissesOfAll(now - GlobalWindow)

\* The gate forgets nothing that matters and remembers nothing that does not:
\* asked about any IP at any moment, it answers what the full history of misses
\* implies, whatever was pruned, swept or left stale on the way.
AnswersLikeFullHistory ==
    \A ip \in IPs :
        Asked(Gate, ip).allowed <=>
            /\ Cardinality(RecentOfAll) < GlobalMissThreshold
            /\ Cardinality(RecentOf(ip)) < MissBudget

\* What the gate is for: inside any window an IP gets fewer quick misses than
\* its budget, and all IPs together fewer than the threshold.  The miss that
\* fills the budget is already slow.
QuickMissesAreRationed ==
    /\ \A ip \in IPs : Cardinality({i \in RecentOf(ip) : log[i].quick}) < MissBudget
    /\ Cardinality({i \in RecentOfAll : log[i].quick}) < GlobalMissThreshold

\* Memory stays bounded by the IPs that are really missing: after a recorded
\* miss the gate tracks more than its ceiling only if every one of them missed
\* within the window.
OnlyActiveIPsPastTheCeiling ==
    [][(log' # log /\ Cardinality(DOMAIN ip_misses') > MaxTrackedIPs) =>
          \A ip \in DOMAIN ip_misses' : RecentOf(ip)' # {}]_vars

\* Why these hold, as an inductive invariant: every deque is oldest first, and the misses
\* it remembers after any cutoff that can still matter are as many as there were.
BucketsAreSorted ==
    /\ \A ip \in DOMAIN ip_misses : OldestFirst(ip_misses[ip])
    /\ OldestFirst(global_misses)
BucketsRemember ==
    \A ip \in IPs : \A cutoff \in (now - Window) .. Horizon :
        Cardinality(Newer(Bucket(ip_misses, ip), cutoff)) = Cardinality(MissesOf(ip, cutoff))
AllIsRemembered ==
    \A cutoff \in (now - GlobalWindow) .. Horizon :
        Cardinality(Newer(global_misses, cutoff)) = Cardinality(MissesOfAll(cutoff))

GateInv ==
    /\ TypeOK
    /\ IsFiniteSet(DOMAIN ip_misses)
    /\ BucketsAreSorted
    /\ BucketsRemember
    /\ AllIsRemembered
    /\ QuickMissesAreRationed
================================================================================
