------------------------------- MODULE ThrowStore -------------------------------
(***************************************************************************)
(* The text store, src/app/throwstore.py.  A throw is put under a code,    *)
(* taken at most once, and dies at its deadline.                           *)
(*                                                                         *)
(* put, take and the sweeps (purge_expired, size, total_bytes) read the    *)
(* clock BEFORE they wait for the lock, and do the rest in one critical    *)
(* section.  A call is therefore two steps: Call<Op> reads the clock, and  *)
(* <Op>Step is everything done under the lock, by which time the clock may *)
(* have moved on and any other call may have gone first.                   *)
(*                                                                         *)
(* reads and issued are history, kept to state the properties: when the    *)
(* calls that got a throw were made, and what its sender was handed.       *)
(***************************************************************************)
EXTENDS Totals, Sequences

CONSTANTS
    Throws,         \* every throw anyone sends; each is put at most once
    Closed,         \* the ones put with encrypted=True
    Size,           \* bytes of the UTF-8 text of each
    Words,          \* two-word codes, picked for open throws
    Addresses,      \* closed addresses, picked for closed ones
    Callers,        \* request threads
    Sweeper,        \* the application's timer task
    Ttl,
    MaxEntries,
    MaxTotalBytes,
    Horizon         \* bound: the clock stops there

Codes == Words \cup Addresses
Threads == Callers \cup {Sweeper}
Clock == 0 .. Horizon

ASSUME StoreAssumption ==
    /\ Closed \subseteq Throws
    /\ Size \in [Throws -> Nat]
    /\ IsFiniteSet(Words) /\ IsFiniteSet(Addresses)
    /\ Sweeper \notin Callers
    /\ Ttl \in Nat \ {0}
    /\ MaxEntries \in Nat \ {0}
    /\ MaxTotalBytes \in Nat \ {0}
    /\ Horizon \in Nat

VARIABLES
    now,            \* time.monotonic()
    entries,        \* _entries: code -> [throw, expires_at, size]
    total_bytes,    \* _total_bytes
    calls,          \* thread -> the call it is in
    issued,         \* throw -> what put returned for it, or NotIssued
    reads           \* throw -> the clock readings of the takes that got it

vars == <<now, entries, total_bytes, calls, issued, reads>>

Idle == [op |-> "idle"]
NotIssued == [code |-> "none"]

Entry == [throw : Throws, expires_at : Nat, size : Nat]
Call == {Idle}
        \cup [op : {"put"}, throw : Throws, seen : Clock]
        \cup [op : {"take"}, code : Codes, seen : Clock]
        \cup [op : {"sweep"}, seen : Clock]
Issue == {NotIssued} \cup [code : Codes, expires_at : Nat]

--------------------------------------------------------------------------------
\* The bytes of text resident.
Bytes(es) == Total([c \in DOMAIN es |-> es[c].size])

\* What _purge_expired(t) drops.
Expired_KeepsDeadline(es, t) == {c \in DOMAIN es : es[c].expires_at < t}  \* mutant
Expired_Never(es, t) == {}                                                \* mutant
Expired(es, t) == {c \in DOMAIN es : es[c].expires_at <= t}

\* What a purge at t leaves: the entries, and the running byte count.
Purged(t) == Without(entries, Expired(entries, t))
DeadBytes(t) == Bytes(Only(entries, Expired(entries, t)))
PurgedBytes(t) == total_bytes - DeadBytes(t)

\* The generator a throw of this mode draws from.
Pool(x) == IF x \in Closed THEN Addresses ELSE Words

\* Neither live here nor, as far as `reserved` says, in the other store.
FreeCodes_Overwriting(x, es, reserved) == Pool(x) \ reserved               \* mutant
FreeCodes(x, es, reserved) == Pool(x) \ (DOMAIN es \cup reserved)

HasRoom_WithoutNewcomer(es, bytes, x) ==                                  \* mutant
    Cardinality(DOMAIN es) < MaxEntries /\ bytes <= MaxTotalBytes
HasRoom(es, bytes, x) ==
    Cardinality(DOMAIN es) < MaxEntries /\ bytes + Size[x] <= MaxTotalBytes

--------------------------------------------------------------------------------
Init ==
    /\ now = 0
    /\ entries = <<>>
    /\ total_bytes = 0
    /\ calls = [k \in Threads |-> Idle]
    /\ issued = [x \in Throws |-> NotIssued]
    /\ reads = [x \in Throws |-> <<>>]

\* Bound: the clock stops at Horizon, and nothing is put that would outlive it.
Tick ==
    /\ now < Horizon
    /\ now' = now + 1
    /\ UNCHANGED <<entries, total_bytes, calls, issued, reads>>

Begin(k, call) ==
    /\ calls[k] = Idle
    /\ calls' = [calls EXCEPT ![k] = call]
    /\ UNCHANGED <<now, entries, total_bytes, issued, reads>>

Return(k) == calls' = [calls EXCEPT ![k] = Idle]

CallPut(k, x) ==
    /\ now + Ttl <= Horizon
    /\ issued[x] = NotIssued
    /\ \A j \in Threads : calls[j].op = "put" => calls[j].throw # x
    /\ Begin(k, [op |-> "put", throw |-> x, seen |-> now])

CallTake(k, c) == Begin(k, [op |-> "take", code |-> c, seen |-> now])

CallSweep(k) == Begin(k, [op |-> "sweep", seen |-> now])

Stored(x, c, t) ==
    With(Purged(t), c, [throw |-> x, expires_at |-> t + Ttl, size |-> Size[x]])

\* put found room and, within its attempts, a code nobody is using.
PutStores(k, reserved) ==
    LET x == calls[k].throw
        t == calls[k].seen
    IN  /\ calls[k].op = "put"
        /\ HasRoom(Purged(t), PurgedBytes(t), x)
        /\ \E c \in FreeCodes(x, Purged(t), reserved) :
              /\ entries' = Stored(x, c, t)
              /\ issued' = [issued EXCEPT ![x] = [code |-> c, expires_at |-> t + Ttl]]
        /\ total_bytes' = PurgedBytes(t) + Size[x]
        /\ Return(k)
        /\ UNCHANGED <<now, reads>>

\* put raised StoreFull, or OutOfCodes after drawing only codes in use.
PutRefused(k, reserved) ==
    LET x == calls[k].throw
        t == calls[k].seen
    IN  /\ calls[k].op = "put"
        /\ \/ ~HasRoom(Purged(t), PurgedBytes(t), x)
           \/ Pool(x) # FreeCodes(x, Purged(t), reserved)
        /\ entries' = Purged(t)
        /\ total_bytes' = PurgedBytes(t)
        /\ Return(k)
        /\ UNCHANGED <<now, issued, reads>>

Popped_Kept(c, t) == Purged(t)                                            \* mutant
Popped(c, t) == Without(Purged(t), {c})

\* take pops the entry and hands the text out: that is the read.
TakeHits(k) ==
    LET c == calls[k].code
        t == calls[k].seen
        e == entries[c]
    IN  /\ calls[k].op = "take"
        /\ c \in DOMAIN Purged(t)
        /\ entries' = Popped(c, t)
        /\ total_bytes' = PurgedBytes(t) - e.size
        /\ reads' = [reads EXCEPT ![e.throw] = Append(@, t)]
        /\ Return(k)
        /\ UNCHANGED <<now, issued>>

\* Unknown, expired or already read: one answer for all three.
TakeMisses(k) ==
    LET t == calls[k].seen
    IN  /\ calls[k].op = "take"
        /\ calls[k].code \notin DOMAIN Purged(t)
        /\ entries' = Purged(t)
        /\ total_bytes' = PurgedBytes(t)
        /\ Return(k)
        /\ UNCHANGED <<now, issued, reads>>

\* purge_expired, size and total_bytes change the same state.
SweepStep(k) ==
    LET t == calls[k].seen
    IN  /\ calls[k].op = "sweep"
        /\ entries' = Purged(t)
        /\ total_bytes' = PurgedBytes(t)
        /\ Return(k)
        /\ UNCHANGED <<now, issued, reads>>

LockStep(k) ==
    \/ \E reserved \in SUBSET Codes : PutStores(k, reserved) \/ PutRefused(k, reserved)
    \/ TakeHits(k)
    \/ TakeMisses(k)
    \/ SweepStep(k)

Next ==
    \/ Tick
    \/ \E k \in Callers :
          \/ \E x \in Throws : CallPut(k, x)
          \/ \E c \in Codes : CallTake(k, c)
    \/ \E k \in Threads : CallSweep(k)
    \/ \E k \in Threads : LockStep(k)

\* Time passes, a thread that waits for the lock gets it, and the sweeper
\* goes round forever.  No caller is obliged to call.
Fairness ==
    /\ WF_vars(Tick)
    /\ \A k \in Threads : WF_vars(LockStep(k))
    /\ WF_vars(CallSweep(Sweeper))

Spec == Init /\ [][Next]_vars /\ Fairness

--------------------------------------------------------------------------------
(* What is true of the store.                                                *)

\* The types; in particular the byte count never goes below zero.
TypeOK ==
    /\ now \in Clock
    /\ DOMAIN entries \subseteq Codes
    /\ entries \in [DOMAIN entries -> Entry]
    /\ total_bytes \in Nat
    /\ calls \in [Threads -> Call]
    /\ issued \in [Throws -> Issue]
    /\ reads \in [Throws -> Seq(Clock)]

\* The running counter agrees with the texts resident, so a leak can never
\* close the store to new throws and a double release can never open it too far.
AccountingExact == total_bytes = Bytes(entries)

\* Both ceilings hold of what is really in the map, not of the counter.
WithinCeilings ==
    /\ Cardinality(DOMAIN entries) <= MaxEntries
    /\ Bytes(entries) <= MaxTotalBytes

\* A throw is read by at most one take, whatever calls race for its code.
ReadOnce == \A x \in Throws : Len(reads[x]) <= 1

\* No take that was made at or past the deadline gets the throw, even when
\* the purge had not yet passed.
NoLateRead ==
    \A x \in Throws : \A i \in 1 .. Len(reads[x]) : reads[x][i] < issued[x].expires_at

\* The code a sender was handed works until its deadline, unless somebody read
\* the throw: no purge by a thread with another reading of the clock, and no
\* later put that draws the same code, takes it away.
CodeWorksUntilDeadline ==
    \A x \in Throws :
        (issued[x] # NotIssued /\ reads[x] = <<>> /\ now < issued[x].expires_at) =>
            /\ issued[x].code \in DOMAIN entries
            /\ entries[issued[x].code].throw = x

\* An unread throw does not stay in memory: the sweeper gets to it even if
\* nobody ever calls the store again.
NothingLingers ==
    \A c \in Codes : (c \in DOMAIN entries) ~> (c \notin DOMAIN entries)

\* Why the properties above hold, as an inductive invariant: every entry is the
\* one its sender was told about and nobody has read it; a throw being put has
\* not been put before, and nobody else is putting it; and no thread's reading
\* of the clock is ahead of the clock.
EntriesAreIssued ==
    \A c \in DOMAIN entries :
        LET e == entries[c]
        IN  /\ issued[e.throw] = [code |-> c, expires_at |-> e.expires_at]
            /\ reads[e.throw] = <<>>
            /\ e.size = Size[e.throw]
UnissuedIsUnread == \A x \in Throws : issued[x] = NotIssued => reads[x] = <<>>
PutsAreDistinct ==
    \A k \in Threads : calls[k].op = "put" =>
        /\ issued[calls[k].throw] = NotIssued
        /\ \A j \in Threads :
              (calls[j].op = "put" /\ calls[j].throw = calls[k].throw) => j = k
SeenIsPast == \A k \in Threads : calls[k] # Idle => calls[k].seen <= now

IInv ==
    /\ TypeOK
    /\ AccountingExact
    /\ WithinCeilings
    /\ EntriesAreIssued
    /\ UnissuedIsUnread
    /\ PutsAreDistinct
    /\ SeenIsPast
    /\ ReadOnce
    /\ NoLateRead
    /\ CodeWorksUntilDeadline

--------------------------------------------------------------------------------
\* The abstract throw each entry stands for.
Fate(x) ==
    IF issued[x] = NotIssued THEN "unborn"
    ELSE IF reads[x] # <<>> THEN "read"
    ELSE IF \E c \in DOMAIN entries : entries[c].throw = x THEN "live"
    ELSE "lapsed"

OneTime == INSTANCE OneTimeThrow
    WITH fate <- [x \in Throws |-> Fate(x)], handed <- [x \in Throws |-> Len(reads[x])]

\* The store implements the one-time throw: read once or lapsed, never both,
\* and never back from either.
ImplementsOneTimeThrow == OneTime!Spec
================================================================================
