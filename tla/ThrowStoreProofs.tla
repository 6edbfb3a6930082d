---------------------------- MODULE ThrowStoreProofs ----------------------------
(* Proofs, for every set of throws, codes and threads and every ceiling,     *)
(* lifetime and horizon, that the invariants of ThrowStore hold and that it  *)
(* implements the safety part of OneTimeThrow.                               *)
EXTENDS ThrowStore, TotalsProofs

USE DEF Clock, Threads, Codes

Sizes(es) == [c \in DOMAIN es |-> es[c].size]

\* A map that only names codes can be weighed.
LEMMA EntriesWeigh ==
    ASSUME NEW es, DOMAIN es \subseteq Codes, es \in [DOMAIN es -> Entry]
    PROVE  /\ IsFiniteSet(DOMAIN es)
           /\ Weighs(Sizes(es))
           /\ Bytes(es) = Total(Sizes(es))
           /\ Bytes(es) \in Nat
<1>1. IsFiniteSet(DOMAIN es)
  <2>1. IsFiniteSet(Codes)
    BY StoreAssumption, FS_Union
  <2> QED
    BY <2>1, FS_Subset
<1>2. Weighs(Sizes(es))
  BY <1>1 DEF Weighs, Sizes, Entry
<1>3. Bytes(es) = Total(Sizes(es))
  BY DEF Bytes, Sizes
<1> QED
  BY <1>1, <1>2, <1>3, TotalType

\* A call in progress carries what it was called with.
LEMMA CallFields ==
    ASSUME TypeOK, NEW k \in Threads
    PROVE  /\ calls[k].op \in {"put", "take", "sweep"} => calls[k].seen \in Clock /\ calls[k] # Idle
           /\ calls[k].op = "put" => calls[k].throw \in Throws
           /\ calls[k].op = "take" => calls[k].code \in Codes
BY DEF TypeOK, Call, Idle

\* What a purge leaves: the entries whose deadline is still ahead, counted right.
LEMMA PurgeLeavesTheLive ==
    ASSUME TypeOK, AccountingExact, WithinCeilings, NEW t \in Clock
    PROVE  /\ DOMAIN Purged(t) = {c \in DOMAIN entries : entries[c].expires_at > t}
           /\ \A c \in DOMAIN Purged(t) : Purged(t)[c] = entries[c]
           /\ Purged(t) \in [DOMAIN Purged(t) -> Entry]
           /\ IsFiniteSet(DOMAIN Purged(t))
           /\ Cardinality(DOMAIN Purged(t)) \in Nat
           /\ Cardinality(DOMAIN Purged(t)) <= MaxEntries
           /\ Bytes(Purged(t)) \in Nat
           /\ PurgedBytes(t) = Bytes(Purged(t))
           /\ Bytes(Purged(t)) <= MaxTotalBytes
<1> DEFINE P == Purged(t)
           dead == Expired(entries, t)
           D == Only(entries, dead)
<1> USE StoreAssumption
<1>1. DOMAIN P = {c \in DOMAIN entries : entries[c].expires_at > t}
  BY DEF Purged, Without, Expired, TypeOK, Entry
<1>2. \A c \in DOMAIN P : P[c] = entries[c]
  BY DEF Purged, Without
<1>3. P \in [DOMAIN P -> Entry] /\ DOMAIN P \subseteq Codes
  BY <1>1, <1>2 DEF TypeOK, Purged, Without
<1>4. D \in [DOMAIN D -> Entry] /\ DOMAIN D \subseteq Codes
  BY DEF TypeOK, Only
<1>5. Sizes(P) = Without(Sizes(entries), dead)
  BY DEF Sizes, Purged, Without
<1>6. Sizes(D) = Only(Sizes(entries), dead)
  BY DEF Sizes, Only
<1>7. Bytes(entries) = Bytes(D) + Bytes(P)
  <2>1. Weighs(Sizes(entries)) /\ Bytes(entries) = Total(Sizes(entries))
    BY EntriesWeigh DEF TypeOK
  <2>2. Bytes(D) = Total(Sizes(D)) /\ Bytes(P) = Total(Sizes(P))
    BY DEF Bytes, Sizes
  <2>3. Total(Sizes(entries)) = Total(Only(Sizes(entries), dead)) + Total(Without(Sizes(entries), dead))
    BY <2>1, TotalSplit
  <2> QED
    BY ONLY <2>1, <2>2, <2>3, <1>5, <1>6
<1>8. Bytes(P) \in Nat /\ Bytes(D) \in Nat /\ IsFiniteSet(DOMAIN P)
  BY <1>3, <1>4, EntriesWeigh
<1>9. PurgedBytes(t) = Bytes(P)
  BY <1>7, <1>8 DEF PurgedBytes, DeadBytes, AccountingExact, TypeOK
<1>10. Cardinality(DOMAIN P) \in Nat /\ Cardinality(DOMAIN P) <= MaxEntries
  <2>1. IsFiniteSet(DOMAIN entries)
    BY EntriesWeigh DEF TypeOK
  <2>2. Cardinality(DOMAIN entries) \in Nat /\ Cardinality(DOMAIN P) \in Nat
    BY <2>1, <1>8, FS_CardinalityType
  <2>3. Cardinality(DOMAIN P) <= Cardinality(DOMAIN entries)
    BY <1>1, <2>1, FS_Subset
  <2> QED
    BY <2>2, <2>3 DEF WithinCeilings
<1>11. Bytes(P) <= MaxTotalBytes
  BY <1>7, <1>8 DEF WithinCeilings
<1> QED
  BY <1>1, <1>2, <1>3, <1>8, <1>9, <1>10, <1>11

\* What put hands out is never mistaken for nothing.
LEMMA IssuedIsSomething ==
    \A c, d : [code |-> c, expires_at |-> d] # NotIssued
<1> SUFFICES ASSUME NEW c, NEW d, [code |-> c, expires_at |-> d] = [code |-> "none"]
             PROVE  FALSE
  BY DEF NotIssued
<1>1. DOMAIN [code |-> c, expires_at |-> d] = DOMAIN [code |-> "none"]
  OBVIOUS
<1> QED
  BY <1>1

\* Two codes never lead to the same throw.
LEMMA OneCodeEach ==
    ASSUME EntriesAreIssued, NEW c \in DOMAIN entries, NEW d \in DOMAIN entries,
           entries[c].throw = entries[d].throw
    PROVE  c = d
<1>1. issued[entries[c].throw] = [code |-> c, expires_at |-> entries[c].expires_at]
  BY DEF EntriesAreIssued
<1>2. issued[entries[d].throw] = [code |-> d, expires_at |-> entries[d].expires_at]
  BY DEF EntriesAreIssued
<1> QED
  BY <1>1, <1>2

--------------------------------------------------------------------------------
\* The initial state satisfies the invariant.
LEMMA InitEstablishes == Init => IInv
<1> SUFFICES ASSUME Init PROVE IInv
  OBVIOUS
<1> USE StoreAssumption DEF Init
<1>1. DOMAIN entries = {}
  OBVIOUS
<1>2. Bytes(entries) = 0 /\ Cardinality(DOMAIN entries) = 0
  BY <1>1, TotalEmpty, FS_EmptySet DEF Bytes
<1>3. TypeOK
  BY <1>1 DEF TypeOK, Call, Issue
<1>4. AccountingExact /\ WithinCeilings
  BY <1>2 DEF AccountingExact, WithinCeilings
<1>5. EntriesAreIssued /\ UnissuedIsUnread /\ CodeWorksUntilDeadline
  BY <1>1 DEF EntriesAreIssued, UnissuedIsUnread, CodeWorksUntilDeadline
<1>6. PutsAreDistinct /\ SeenIsPast
  BY DEF PutsAreDistinct, SeenIsPast, Idle
<1>7. ReadOnce /\ NoLateRead
  BY DEF ReadOnce, NoLateRead
<1> QED
  BY <1>3, <1>4, <1>5, <1>6, <1>7 DEF IInv

\* Time passing breaks nothing: every deadline and every reading stays put.
LEMMA TickPreserves == IInv /\ Tick => IInv'
<1> SUFFICES ASSUME IInv, Tick PROVE IInv'
  OBVIOUS
<1> USE StoreAssumption DEF Tick, IInv, TypeOK
<1>1. TypeOK'
  OBVIOUS
<1>2. AccountingExact' /\ WithinCeilings' /\ EntriesAreIssued' /\ UnissuedIsUnread'
  BY DEF AccountingExact, WithinCeilings, EntriesAreIssued, UnissuedIsUnread
<1>3. PutsAreDistinct' /\ ReadOnce' /\ NoLateRead'
  BY DEF PutsAreDistinct, ReadOnce, NoLateRead
<1>4. SeenIsPast'
  BY DEF SeenIsPast, Call
<1>5. CodeWorksUntilDeadline'
  BY DEF CodeWorksUntilDeadline, Issue
<1> QED
  BY <1>1, <1>2, <1>3, <1>4, <1>5 DEF IInv

\* A call that reads the clock changes nothing but its own thread.
LEMMA BeginPreserves ==
    ASSUME IInv, NEW k \in Threads, NEW call \in Call, Begin(k, call),
           call # Idle, call.seen = now,
           call.op = "put" => /\ issued[call.throw] = NotIssued
                              /\ \A j \in Threads : calls[j].op = "put"
                                                    => calls[j].throw # call.throw
    PROVE  IInv'
<1> USE DEF Begin, IInv
<1>1. TypeOK'
  BY DEF TypeOK
<1>2. AccountingExact' /\ WithinCeilings' /\ EntriesAreIssued' /\ UnissuedIsUnread'
  BY DEF AccountingExact, WithinCeilings, EntriesAreIssued, UnissuedIsUnread
<1>3. ReadOnce' /\ NoLateRead' /\ CodeWorksUntilDeadline'
  BY DEF ReadOnce, NoLateRead, CodeWorksUntilDeadline
<1>4. SeenIsPast'
  BY DEF SeenIsPast, TypeOK
<1>5. PutsAreDistinct'
  BY DEF PutsAreDistinct, TypeOK
<1> QED
  BY <1>1, <1>2, <1>3, <1>4, <1>5 DEF IInv

\* What every call that only purges does to the state.
OnlyPurges(k) ==
    /\ entries' = Purged(calls[k].seen)
    /\ total_bytes' = PurgedBytes(calls[k].seen)
    /\ Return(k)
    /\ UNCHANGED <<now, issued, reads>>

\* A purge with any earlier reading of the clock takes only what is dead by now.
LEMMA PurgePreserves ==
    ASSUME IInv, NEW k \in Threads, OnlyPurges(k), calls[k].op \in {"put", "take", "sweep"}
    PROVE  IInv'
<1> USE StoreAssumption DEF OnlyPurges, IInv
<1> DEFINE t == calls[k].seen
<1>0. t \in Clock /\ t <= now
  BY CallFields DEF SeenIsPast
<1>1. PICK P : P = Purged(t)
  OBVIOUS
<1>2. /\ entries' = P
      /\ DOMAIN P = {c \in DOMAIN entries : entries[c].expires_at > t}
      /\ \A c \in DOMAIN P : P[c] = entries[c]
      /\ P \in [DOMAIN P -> Entry]
      /\ Cardinality(DOMAIN P) <= MaxEntries
      /\ Bytes(P) \in Nat
      /\ total_bytes' = Bytes(P)
      /\ Bytes(P) <= MaxTotalBytes
  BY <1>0, <1>1, PurgeLeavesTheLive
<1>3. TypeOK'
  BY <1>2 DEF TypeOK, Return, Call
<1>4. AccountingExact' /\ WithinCeilings'
  BY <1>2 DEF AccountingExact, WithinCeilings
<1>5. EntriesAreIssued' /\ UnissuedIsUnread'
  BY <1>2 DEF EntriesAreIssued, UnissuedIsUnread
<1>6. ReadOnce' /\ NoLateRead'
  BY DEF ReadOnce, NoLateRead
<1>7. SeenIsPast' /\ PutsAreDistinct'
  BY DEF SeenIsPast, PutsAreDistinct, Return, TypeOK, Idle
<1>8. CodeWorksUntilDeadline'
  <2> SUFFICES ASSUME NEW x \in Throws, issued[x] # NotIssued, reads[x] = <<>>,
                      now < issued[x].expires_at
               PROVE  issued[x].code \in DOMAIN P /\ P[issued[x].code].throw = x
    BY <1>2 DEF CodeWorksUntilDeadline
  <2>1. issued[x].code \in DOMAIN entries /\ entries[issued[x].code].throw = x
    BY DEF CodeWorksUntilDeadline
  <2>2. PICK c \in DOMAIN entries : c = issued[x].code /\ entries[c].throw = x
    BY <2>1
  <2>3. issued[x] = [code |-> c, expires_at |-> entries[c].expires_at]
    BY <2>2 DEF EntriesAreIssued
  <2>4. entries[c].expires_at > t
    BY <2>3, <1>0 DEF TypeOK, Entry
  <2> QED
    BY <2>2, <2>4, <1>2
<1> QED
  BY <1>3, <1>4, <1>5, <1>6, <1>7, <1>8 DEF IInv

\* A put that finds room and a free code: the counter, the ceilings and the
\* ownership of every other code survive the new entry.
LEMMA PutPreserves ==
    ASSUME IInv, NEW k \in Threads, NEW reserved, PutStores(k, reserved)
    PROVE  IInv'
<1> USE StoreAssumption DEF IInv
<1> DEFINE t == calls[k].seen
           x == calls[k].throw
<1>1. /\ calls[k].op = "put" /\ t \in Clock /\ t <= now /\ x \in Throws
      /\ issued[x] = NotIssued /\ reads[x] = <<>>
  BY CallFields DEF PutStores, SeenIsPast, PutsAreDistinct, UnissuedIsUnread
<1>2. PICK P : P = Purged(t)
  OBVIOUS
<1>3. /\ DOMAIN P = {c \in DOMAIN entries : entries[c].expires_at > t}
      /\ \A c \in DOMAIN P : P[c] = entries[c]
      /\ P \in [DOMAIN P -> Entry]
      /\ IsFiniteSet(DOMAIN P)
      /\ Cardinality(DOMAIN P) \in Nat
      /\ Bytes(P) \in Nat
      /\ PurgedBytes(t) = Bytes(P)
  BY <1>1, <1>2, PurgeLeavesTheLive
<1> DEFINE e == [throw |-> x, expires_at |-> t + Ttl, size |-> Size[x]]
<1>4. PICK c \in Codes :
        /\ c \notin DOMAIN P
        /\ entries' = With(P, c, e)
        /\ issued' = [issued EXCEPT ![x] = [code |-> c, expires_at |-> t + Ttl]]
  BY <1>2 DEF PutStores, FreeCodes, Pool, Stored
<1>5. /\ total_bytes' = Bytes(P) + Size[x]
      /\ Cardinality(DOMAIN P) < MaxEntries
      /\ Bytes(P) + Size[x] <= MaxTotalBytes
      /\ now' = now /\ reads' = reads
      /\ calls' = [calls EXCEPT ![k] = Idle]
  BY <1>2, <1>3 DEF PutStores, HasRoom, Return
<1>6. e \in Entry /\ Size[x] \in Nat
  BY <1>1 DEF Entry
<1>7. /\ DOMAIN entries' = DOMAIN P \cup {c}
      /\ entries'[c] = e
      /\ \A d \in DOMAIN P : entries'[d] = entries[d] /\ d # c
      /\ entries' \in [DOMAIN entries' -> Entry]
  BY <1>3, <1>4, <1>6 DEF With
<1>8. Bytes(entries') = Bytes(P) + Size[x]
  <2>1. Weighs(Sizes(P)) /\ Bytes(P) = Total(Sizes(P))
    BY <1>3, EntriesWeigh DEF TypeOK
  <2>2. Sizes(entries') = With(Sizes(P), c, Size[x])
    BY <1>4, <1>3 DEF Sizes, With
  <2>3. Bytes(entries') = Total(Sizes(entries'))
    BY DEF Bytes, Sizes
  <2>4. c \notin DOMAIN Sizes(P)
    BY <1>4 DEF Sizes
  <2> QED
    BY <2>1, <2>2, <2>3, <2>4, <1>6, TotalAdd
<1>9. Cardinality(DOMAIN entries') = Cardinality(DOMAIN P) + 1
  BY <1>3, <1>4, <1>7, FS_AddElement
<1>10. TypeOK'
  <2>1. DOMAIN entries' \subseteq Codes
    BY <1>3, <1>4, <1>7 DEF TypeOK
  <2>2. issued' \in [Throws -> Issue]
    BY <1>1, <1>4 DEF TypeOK, Issue
  <2>3. calls' \in [Threads -> Call]
    BY <1>5 DEF TypeOK, Call
  <2> QED
    BY <2>1, <2>2, <2>3, <1>3, <1>5, <1>6, <1>7 DEF TypeOK
<1>11. AccountingExact' /\ WithinCeilings'
  BY <1>3, <1>5, <1>6, <1>8, <1>9 DEF AccountingExact, WithinCeilings
<1>12. \A d \in DOMAIN P : entries[d].throw # x
  <2> TAKE d \in DOMAIN P
  <2>1. issued[entries[d].throw] = [code |-> d, expires_at |-> entries[d].expires_at]
    BY <1>3 DEF EntriesAreIssued
  <2> QED
    BY <2>1, <1>1, IssuedIsSomething
<1>13. EntriesAreIssued'
  <2> SUFFICES ASSUME NEW d \in DOMAIN entries'
               PROVE  /\ issued'[entries'[d].throw]
                           = [code |-> d, expires_at |-> entries'[d].expires_at]
                      /\ reads'[entries'[d].throw] = <<>>
                      /\ entries'[d].size = Size[entries'[d].throw]
    BY DEF EntriesAreIssued
  <2>1. CASE d = c
    BY <2>1, <1>1, <1>4, <1>5, <1>7 DEF TypeOK
  <2>2. CASE d \in DOMAIN P
    BY SMTT(30), <2>2, <1>3, <1>4, <1>5, <1>7, <1>12 DEF EntriesAreIssued
  <2> QED
    BY <2>1, <2>2, <1>7
<1>14. UnissuedIsUnread' /\ ReadOnce'
  BY <1>1, <1>4, <1>5 DEF UnissuedIsUnread, ReadOnce
<1>15. NoLateRead'
  <2>1. \A y \in Throws : y = x \/ issued'[y] = issued[y]
    BY <1>4 DEF TypeOK
  <2>2. Len(reads[x]) = 0
    BY <1>1
  <2> QED
    BY <2>1, <2>2, <1>5 DEF NoLateRead
<1>16. SeenIsPast'
  BY <1>5 DEF SeenIsPast, TypeOK
<1>17. PutsAreDistinct'
  BY <1>1, <1>4, <1>5 DEF PutsAreDistinct, TypeOK, Idle
<1>18. CodeWorksUntilDeadline'
  <2> SUFFICES ASSUME NEW y \in Throws, issued'[y] # NotIssued, reads[y] = <<>>,
                      now < issued'[y].expires_at
               PROVE  /\ issued'[y].code \in DOMAIN entries'
                      /\ entries'[issued'[y].code].throw = y
    BY <1>5 DEF CodeWorksUntilDeadline
  <2>1. CASE y = x
    BY <2>1, <1>1, <1>4, <1>7 DEF TypeOK
  <2>2. CASE y # x
    <3>1. issued'[y] = issued[y]
      BY <2>2, <1>4 DEF TypeOK
    <3>2. PICK d \in DOMAIN entries : d = issued[y].code /\ entries[d].throw = y
      BY <3>1 DEF CodeWorksUntilDeadline
    <3>3. issued[y] = [code |-> d, expires_at |-> entries[d].expires_at]
      BY <3>2 DEF EntriesAreIssued
    <3>4. entries[d].expires_at > t
      BY <3>1, <3>3, <1>1 DEF TypeOK, Entry
    <3> QED
      BY <3>1, <3>2, <3>4, <1>3, <1>7
  <2> QED
    BY <2>1, <2>2
<1> QED
  BY <1>10, <1>11, <1>13, <1>14, <1>15, <1>16, <1>17, <1>18 DEF IInv

\* A take that finds its code: the entry goes, the counter follows, and the
\* throw it named had not been read and is not past its deadline.
LEMMA TakePreserves ==
    ASSUME IInv, NEW k \in Threads, TakeHits(k)
    PROVE  IInv'
<1> USE StoreAssumption DEF IInv
<1> DEFINE t == calls[k].seen
           c == calls[k].code
           e == entries[c]
           x == e.throw
<1>1. calls[k].op = "take" /\ t \in Clock /\ t <= now /\ c \in Codes
  BY CallFields DEF TakeHits, SeenIsPast
<1>2. PICK P : P = Purged(t)
  OBVIOUS
<1>3. /\ DOMAIN P = {d \in DOMAIN entries : entries[d].expires_at > t}
      /\ \A d \in DOMAIN P : P[d] = entries[d]
      /\ P \in [DOMAIN P -> Entry]
      /\ IsFiniteSet(DOMAIN P)
      /\ Cardinality(DOMAIN P) \in Nat
      /\ Cardinality(DOMAIN P) <= MaxEntries
      /\ Bytes(P) \in Nat
      /\ Bytes(P) <= MaxTotalBytes
      /\ PurgedBytes(t) = Bytes(P)
  BY <1>1, <1>2, PurgeLeavesTheLive
<1>4. /\ c \in DOMAIN P
      /\ entries' = Without(P, {c})
      /\ total_bytes' = Bytes(P) - e.size
      /\ reads' = [reads EXCEPT ![x] = Append(@, t)]
      /\ calls' = [calls EXCEPT ![k] = Idle]
      /\ now' = now /\ issued' = issued
  BY <1>2, <1>3 DEF TakeHits, Popped, Return
<1>5. /\ x \in Throws /\ reads[x] = <<>> /\ e.expires_at > t
      /\ issued[x] = [code |-> c, expires_at |-> e.expires_at]
  BY <1>3, <1>4 DEF EntriesAreIssued, TypeOK, Entry
<1>6. /\ DOMAIN entries' = DOMAIN P \ {c}
      /\ \A d \in DOMAIN entries' : entries'[d] = entries[d]
      /\ entries' \in [DOMAIN entries' -> Entry]
  BY <1>3, <1>4 DEF Without
<1>7. Bytes(entries') = Bytes(P) - e.size /\ Bytes(entries') \in Nat /\ e.size \in Nat
  <2>1. Weighs(Sizes(P)) /\ Bytes(P) = Total(Sizes(P))
    BY <1>3, EntriesWeigh DEF TypeOK
  <2>2. Sizes(entries') = Without(Sizes(P), {c}) /\ Sizes(P)[c] = e.size
    BY <1>3, <1>4 DEF Sizes, Without
  <2>3. Bytes(entries') = Total(Sizes(entries'))
    BY DEF Bytes, Sizes
  <2>4. c \in DOMAIN Sizes(P)
    BY <1>4 DEF Sizes
  <2>5. Bytes(entries') \in Nat
    BY <2>1, <2>2, <2>3, PartsWeigh, TotalType
  <2>6. e.size \in Nat
    BY <1>3, <1>4 DEF Entry
  <2> QED
    BY <2>1, <2>2, <2>3, <2>4, <2>5, <2>6, TotalRemove
<1>8. /\ Cardinality(DOMAIN entries') \in Nat
      /\ Cardinality(DOMAIN entries') <= MaxEntries
  <2>1. Cardinality(DOMAIN entries') = Cardinality(DOMAIN P) - 1
    <3>1. Cardinality(DOMAIN P \ {c}) = IF c \in DOMAIN P THEN Cardinality(DOMAIN P) - 1
                                                          ELSE Cardinality(DOMAIN P)
      BY <1>3, FS_RemoveElement
    <3> QED
      BY <3>1, <1>4, <1>6
  <2>2. IsFiniteSet(DOMAIN entries')
    BY <1>3, <1>6, FS_RemoveElement
  <2> QED
    BY <2>1, <2>2, <1>3, FS_CardinalityType
<1>9. TypeOK'
  <2>1. reads' \in [Throws -> Seq(Clock)]
    BY <1>1, <1>4, <1>5 DEF TypeOK
  <2>2. calls' \in [Threads -> Call]
    BY <1>4 DEF TypeOK, Call
  <2>3. DOMAIN entries' \subseteq Codes
    BY <1>3, <1>6 DEF TypeOK
  <2> QED
    BY <2>1, <2>2, <2>3, <1>4, <1>6, <1>7 DEF TypeOK
<1>10. AccountingExact' /\ WithinCeilings'
  BY SMTT(30), <1>3, <1>4, <1>7, <1>8 DEF AccountingExact, WithinCeilings
<1>11. \A d \in DOMAIN entries' : d \in DOMAIN entries /\ entries[d].throw # x
  BY <1>3, <1>4, <1>6, OneCodeEach
<1>12. EntriesAreIssued'
  <2> SUFFICES ASSUME NEW d \in DOMAIN entries'
               PROVE  /\ issued[entries[d].throw]
                           = [code |-> d, expires_at |-> entries[d].expires_at]
                      /\ reads'[entries[d].throw] = <<>>
                      /\ entries[d].size = Size[entries[d].throw]
    BY ZenonT(30), <1>4, <1>6 DEF EntriesAreIssued
  <2>1. d \in DOMAIN entries /\ entries[d].throw \in Throws /\ entries[d].throw # x
    BY <1>11 DEF TypeOK, Entry
  <2>2. reads'[entries[d].throw] = reads[entries[d].throw]
    BY <2>1, <1>4 DEF TypeOK
  <2> QED
    BY <2>1, <2>2 DEF EntriesAreIssued
<1>13. reads'[x] = <<t>> /\ \A y \in Throws \ {x} : reads'[y] = reads[y]
  BY SMTT(30), <1>4, <1>5 DEF TypeOK
<1>14. UnissuedIsUnread'
  BY SMTT(30), <1>4, <1>5, <1>13, IssuedIsSomething DEF UnissuedIsUnread
<1>15. ReadOnce'
  <2> SUFFICES ASSUME NEW y \in Throws PROVE Len(reads'[y]) <= 1
    BY DEF ReadOnce
  <2>1. CASE y = x
    BY <2>1, <1>13
  <2>2. CASE y # x
    BY <2>2, <1>13 DEF ReadOnce
  <2> QED
    BY <2>1, <2>2
<1>16. NoLateRead'
  <2> SUFFICES ASSUME NEW y \in Throws, NEW i \in 1 .. Len(reads'[y])
               PROVE  reads'[y][i] < issued[y].expires_at
    BY <1>4 DEF NoLateRead
  <2>1. CASE y = x
    <3>1. P[c] \in Entry /\ P[c] = e
      BY <1>3, <1>4
    <3>2. e.expires_at \in Nat /\ issued[x].expires_at = e.expires_at
      BY <3>1, <1>5 DEF Entry
    <3>3. t \in Nat
      BY <1>1, StoreAssumption DEF Clock
    <3>4. reads'[y] = <<t>> /\ i = 1
      BY <2>1, <1>13
    <3> QED
      BY <2>1, <3>2, <3>3, <3>4, <1>5
  <2>2. CASE y # x
    BY <2>2, <1>13 DEF NoLateRead
  <2> QED
    BY <2>1, <2>2
<1>17. SeenIsPast' /\ PutsAreDistinct'
  BY <1>1, <1>4 DEF SeenIsPast, PutsAreDistinct, TypeOK, Idle
<1>18. CodeWorksUntilDeadline'
  <2> SUFFICES ASSUME NEW y \in Throws, issued[y] # NotIssued, reads'[y] = <<>>,
                      now < issued[y].expires_at
               PROVE  /\ issued[y].code \in DOMAIN entries'
                      /\ entries'[issued[y].code].throw = y
    BY <1>4 DEF CodeWorksUntilDeadline
  <2>1. y # x /\ reads[y] = <<>>
    BY <1>13
  <2>2. PICK d \in DOMAIN entries : d = issued[y].code /\ entries[d].throw = y
    BY <2>1 DEF CodeWorksUntilDeadline
  <2>3. issued[y] = [code |-> d, expires_at |-> entries[d].expires_at]
    BY <2>2 DEF EntriesAreIssued
  <2>4. entries[d].expires_at > t
    BY <2>3, <1>1 DEF TypeOK, Entry
  <2>5. d # c
    BY <2>1, <2>2
  <2> QED
    BY <2>2, <2>4, <2>5, <1>3, <1>6
<1> QED
  BY <1>9, <1>10, <1>12, <1>14, <1>15, <1>16, <1>17, <1>18 DEF IInv

--------------------------------------------------------------------------------
\* Every step preserves the invariant.
LEMMA NextPreserves == IInv /\ [Next]_vars => IInv'
<1> SUFFICES ASSUME IInv, [Next]_vars PROVE IInv'
  OBVIOUS
<1>1. CASE Tick
  BY <1>1, TickPreserves
<1>2. ASSUME NEW k \in Callers, NEW x \in Throws, CallPut(k, x) PROVE IInv'
  <2> DEFINE call == [op |-> "put", throw |-> x, seen |-> now]
  <2>1. call \in Call /\ call # Idle
    BY DEF IInv, TypeOK, Call, Idle
  <2>2. \A j \in Threads : calls[j].op = "put" => calls[j].throw # x
    BY <1>2 DEF CallPut
  <2> QED
    BY <1>2, <2>1, <2>2, BeginPreserves DEF CallPut
<1>3. ASSUME NEW k \in Callers, NEW c \in Codes, CallTake(k, c) PROVE IInv'
  <2> DEFINE call == [op |-> "take", code |-> c, seen |-> now]
  <2>1. call \in Call /\ call # Idle
    BY DEF IInv, TypeOK, Call, Idle
  <2> QED
    BY <1>3, <2>1, BeginPreserves DEF CallTake
<1>4. ASSUME NEW k \in Threads, CallSweep(k) PROVE IInv'
  <2> DEFINE call == [op |-> "sweep", seen |-> now]
  <2>1. call \in Call /\ call # Idle
    BY DEF IInv, TypeOK, Call, Idle
  <2> QED
    BY <1>4, <2>1, BeginPreserves DEF CallSweep
<1>5. ASSUME NEW k \in Threads, LockStep(k) PROVE IInv'
  <2>1. ASSUME NEW reserved, PutStores(k, reserved) PROVE IInv'
    BY <2>1, PutPreserves
  <2>2. ASSUME NEW reserved, PutRefused(k, reserved) PROVE IInv'
    BY <2>2, PurgePreserves DEF PutRefused, OnlyPurges
  <2>3. CASE TakeHits(k)
    BY <2>3, TakePreserves
  <2>4. CASE TakeMisses(k)
    BY <2>4, PurgePreserves DEF TakeMisses, OnlyPurges
  <2>5. CASE SweepStep(k)
    BY <2>5, PurgePreserves DEF SweepStep, OnlyPurges
  <2> QED
    BY <1>5, <2>1, <2>2, <2>3, <2>4, <2>5 DEF LockStep
<1>6. CASE UNCHANGED vars
  BY <1>6 DEF vars, IInv, TypeOK, AccountingExact, WithinCeilings, EntriesAreIssued,
              UnissuedIsUnread, PutsAreDistinct, SeenIsPast, ReadOnce, NoLateRead,
              CodeWorksUntilDeadline
<1> QED
  BY <1>1, <1>2, <1>3, <1>4, <1>5, <1>6 DEF Next

\* The inductive invariant holds of every behaviour of the text store.
THEOREM Invariance == Spec => []IInv
<1>1. Init => IInv
  BY InitEstablishes
<1>2. IInv /\ [Next]_vars => IInv'
  BY NextPreserves
<1> QED
  BY <1>1, <1>2, PTL DEF Spec

\* Type correctness of the text store, for any number of racing threads.
THEOREM TypeCorrect == Spec => []TypeOK
BY Invariance, PTL DEF IInv

\* The byte counter never drifts from the texts resident, and both ceilings
\* hold of the texts themselves.
THEOREM CeilingsHold == Spec => [](AccountingExact /\ WithinCeilings)
BY Invariance, PTL DEF IInv

\* No throw is ever handed to two takes.
THEOREM NeverReadTwice == Spec => []ReadOnce
BY Invariance, PTL DEF IInv

\* No take made at or past a throw's deadline gets it.
THEOREM NeverReadLate == Spec => []NoLateRead
BY Invariance, PTL DEF IInv

\* Until its deadline, the code a sender was handed leads to that sender's
\* throw, unless the throw was read.
THEOREM CodeWorks == Spec => []CodeWorksUntilDeadline
BY Invariance, PTL DEF IInv

--------------------------------------------------------------------------------
(* The refinement: initial states map to initial states, and every step of   *)
(* the store is a step of the abstract throw or a stutter.                   *)

\* A throw whose own history does not change, and which no entry newly names,
\* keeps its fate or lapses.
LEMMA StaysOrLapses ==
    ASSUME NEW y \in Throws,
           issued'[y] = issued[y], reads'[y] = reads[y],
           \A c \in DOMAIN entries' : entries'[c].throw = y =>
               c \in DOMAIN entries /\ entries[c].throw = y
    PROVE  Fate(y)' = Fate(y) \/ (Fate(y) = "live" /\ Fate(y)' = "lapsed")
BY DEF Fate

\* The throws that lapse in a step.
Lapsing == {y \in Throws : Fate(y) = "live" /\ Fate(y)' = "lapsed"}

\* Only what was live lapses.
LEMMA LapsingWasLive == Lapsing \in SUBSET OneTime!Live
BY DEF Lapsing, OneTime!Live

\* A step that leaves every throw's own history alone and adds no entry is a
\* lapse, possibly of nothing.
LEMMA PurgeLapses ==
    ASSUME UNCHANGED <<issued, reads>>,
           \A c \in DOMAIN entries' : c \in DOMAIN entries /\ entries'[c] = entries[c]
    PROVE  OneTime!Next
<1>1. \A y \in Throws : Fate(y)' = IF y \in Lapsing THEN "lapsed" ELSE Fate(y)
  BY StaysOrLapses DEF Lapsing
<1>2. OneTime!Lapse(Lapsing)
  BY <1>1 DEF OneTime!Lapse
<1> QED
  BY <1>2, LapsingWasLive DEF OneTime!Next

\* A put that stores is the birth of its throw; the purge on its way in may
\* lapse others.
LEMMA PutIsBirth ==
    ASSUME IInv, NEW k \in Threads, NEW reserved, PutStores(k, reserved)
    PROVE  OneTime!Next
<1> USE StoreAssumption
<1>1. PICK x \in Throws, t \in Clock :
        x = calls[k].throw /\ t = calls[k].seen /\ issued[x] = NotIssued
  BY CallFields DEF PutStores, IInv, PutsAreDistinct
<1> DEFINE e == [throw |-> x, expires_at |-> t + Ttl, size |-> Size[x]]
<1>2. PICK P : P = Purged(t)
  OBVIOUS
<1>3. \A c \in DOMAIN P : c \in DOMAIN entries /\ P[c] = entries[c]
  BY <1>1, <1>2, PurgeLeavesTheLive DEF IInv
<1>4. PICK c \in Codes :
        /\ entries' = With(P, c, e)
        /\ issued' = [issued EXCEPT ![x] = [code |-> c, expires_at |-> t + Ttl]]
  BY <1>1, <1>2 DEF PutStores, FreeCodes, Pool, Stored
<1>5. reads' = reads /\ reads[x] = <<>>
  BY <1>1 DEF PutStores, IInv, UnissuedIsUnread
<1>6. issued'[x] = [code |-> c, expires_at |-> t + Ttl]
  BY <1>1, <1>4 DEF IInv, TypeOK
<1>7. Fate(x) = "unborn"
  BY <1>1 DEF Fate
<1>8. Fate(x)' = "live"
  <2>1. c \in DOMAIN entries' /\ entries'[c].throw = x
    BY <1>4 DEF With
  <2>2. issued'[x] # NotIssued
    BY <1>6, IssuedIsSomething
  <2> QED
    BY <2>1, <2>2, <1>5 DEF Fate
<1>9. \A y \in Throws \ {x} : Fate(y)' = Fate(y) \/ y \in Lapsing
  <2> TAKE y \in Throws \ {x}
  <2>1. issued'[y] = issued[y] /\ reads'[y] = reads[y]
    BY <1>4, <1>5 DEF IInv, TypeOK
  <2>2. \A d \in DOMAIN entries' : entries'[d].throw = y =>
            d \in DOMAIN entries /\ entries[d].throw = y
    BY <1>3, <1>4 DEF With
  <2> QED
    BY <2>1, <2>2, StaysOrLapses DEF Lapsing
<1>10. OneTime!Born(x, Lapsing)
  <2>1. \A y \in Throws :
          Fate(y)' = IF y = x THEN "live" ELSE IF y \in Lapsing THEN "lapsed" ELSE Fate(y)
    BY <1>8, <1>9 DEF Lapsing
  <2> QED
    BY <2>1, <1>1, <1>5, <1>7 DEF OneTime!Born, OneTime!Move
<1> QED
  BY <1>10, <1>1, LapsingWasLive DEF OneTime!Next

\* A take that hits is the read of its throw.
LEMMA TakeIsRead ==
    ASSUME IInv, NEW k \in Threads, TakeHits(k)
    PROVE  OneTime!Next
<1> USE StoreAssumption
<1>1. PICK c \in Codes, t \in Clock : c = calls[k].code /\ t = calls[k].seen
  BY CallFields DEF TakeHits, IInv
<1>2. PICK P : P = Purged(t)
  OBVIOUS
<1>3. \A d \in DOMAIN P : d \in DOMAIN entries /\ P[d] = entries[d]
  BY <1>1, <1>2, PurgeLeavesTheLive DEF IInv
<1>4. /\ c \in DOMAIN P
      /\ entries' = Without(P, {c})
      /\ reads' = [reads EXCEPT ![entries[c].throw] = Append(@, t)]
      /\ issued' = issued
  BY <1>1, <1>2 DEF TakeHits, Popped
<1>5. PICK x \in Throws :
        /\ x = entries[c].throw /\ reads[x] = <<>>
        /\ issued[x] = [code |-> c, expires_at |-> entries[c].expires_at]
  BY <1>3, <1>4 DEF IInv, EntriesAreIssued, TypeOK, Entry
<1>6. issued[x] # NotIssued
  BY <1>5, IssuedIsSomething
<1>7. reads'[x] = <<t>> /\ \A y \in Throws \ {x} : reads'[y] = reads[y]
  BY <1>4, <1>5 DEF IInv, TypeOK
<1>8. Fate(x) = "live"
  BY <1>3, <1>4, <1>5, <1>6 DEF Fate
<1>9. Fate(x)' = "read"
  <2>1. issued'[x] # NotIssued
    BY <1>4, <1>6
  <2>2. reads'[x] # <<>>
    BY <1>7
  <2> QED
    BY <2>1, <2>2 DEF Fate
<1>10. \A y \in Throws \ {x} : Fate(y)' = Fate(y) \/ y \in Lapsing
  <2> TAKE y \in Throws \ {x}
  <2>1. \A d \in DOMAIN entries' : d \in DOMAIN entries /\ entries'[d] = entries[d]
    BY <1>3, <1>4 DEF Without
  <2> QED
    BY <2>1, <1>4, <1>7, StaysOrLapses DEF Lapsing
<1>11. PICK L \in SUBSET OneTime!Live : L = Lapsing
  BY LapsingWasLive
<1>12. OneTime!Read(x, L)
  <2>1. \A y \in Throws :
          Fate(y)' = IF y = x THEN "read" ELSE IF y \in L THEN "lapsed" ELSE Fate(y)
    BY <1>9, <1>10, <1>11 DEF Lapsing
  <2>2. OneTime!Move(x, "live", "read", L)
    BY <2>1, <1>8 DEF OneTime!Move
  <2>3. Len(reads'[x]) = Len(reads[x]) + 1
    <3>1. Len(reads[x]) = 0 /\ Len(<<t>>) = 1
      BY <1>5
    <3> QED
      BY <3>1, <1>7
  <2>4. \A y \in Throws : Len(reads'[y]) = IF y = x THEN Len(reads[x]) + 1 ELSE Len(reads[y])
    BY <2>3, <1>7
  <2> QED
    BY <2>2, <2>4 DEF OneTime!Read
<1> QED
  BY <1>12 DEF OneTime!Next

--------------------------------------------------------------------------------
\* Every step of the store is a step of the abstract throw, or changes nothing
\* it can see.
LEMMA StepRefines == IInv /\ [Next]_vars => [OneTime!Next]_OneTime!vars
<1> SUFFICES ASSUME IInv, [Next]_vars PROVE OneTime!Next \/ UNCHANGED OneTime!vars
  OBVIOUS
<1>1. ASSUME UNCHANGED <<entries, issued, reads>> PROVE OneTime!Next \/ UNCHANGED OneTime!vars
  BY <1>1, PurgeLapses
<1>2. ASSUME NEW k \in Threads, OnlyPurges(k), calls[k].op \in {"put", "take", "sweep"}
      PROVE  OneTime!Next
  <2>1. calls[k].seen \in Clock
    BY <1>2, CallFields DEF IInv
  <2>2. \A c \in DOMAIN entries' : c \in DOMAIN entries /\ entries'[c] = entries[c]
    BY <1>2, <2>1, PurgeLeavesTheLive DEF IInv, OnlyPurges
  <2> QED
    BY <1>2, <2>2, PurgeLapses DEF OnlyPurges
<1>3. CASE Tick \/ UNCHANGED vars
  BY <1>1, <1>3 DEF Tick, vars
<1>4. CASE \E k \in Callers : (\E x \in Throws : CallPut(k, x)) \/ (\E c \in Codes : CallTake(k, c))
  BY <1>1, <1>4 DEF CallPut, CallTake, Begin
<1>5. CASE \E k \in Threads : CallSweep(k)
  BY <1>1, <1>5 DEF CallSweep, Begin
<1>6. ASSUME NEW k \in Threads, LockStep(k) PROVE OneTime!Next
  <2>1. ASSUME NEW reserved, PutStores(k, reserved) PROVE OneTime!Next
    BY <2>1, PutIsBirth
  <2>2. ASSUME NEW reserved, PutRefused(k, reserved) PROVE OneTime!Next
    BY <2>2, <1>2 DEF PutRefused, OnlyPurges
  <2>3. CASE TakeHits(k)
    BY <2>3, TakeIsRead
  <2>4. CASE TakeMisses(k)
    BY <2>4, <1>2 DEF TakeMisses, OnlyPurges
  <2>5. CASE SweepStep(k)
    BY <2>5, <1>2 DEF SweepStep, OnlyPurges
  <2> QED
    BY <1>6, <2>1, <2>2, <2>3, <2>4, <2>5 DEF LockStep
<1> QED
  BY <1>3, <1>4, <1>5, <1>6 DEF Next

\* The text store implements the one-time throw's safety part: a throw is born
\* once, and is then handed out once or lapses, never both and never back.
THEOREM StoreRefinesOneTime == Spec => OneTime!Safety
<1>1. Init => OneTime!Init
  BY DEF Init, OneTime!Init, Fate
<1> QED
  BY <1>1, StepRefines, Invariance, PTL DEF Spec, OneTime!Safety

--------------------------------------------------------------------------------
(* The promise on the front page follows from the abstract specification, so *)
(* it holds of every store that implements it, whatever its variables.       *)

VARIABLES fate, handed
Promise == INSTANCE OneTimeThrow

Promised == Promise!TypeOK /\ Promise!HandedOnce

\* Only a live throw can be read, and reading it ends its life.
LEMMA PromiseIsKept == Promised /\ [Promise!Next]_Promise!vars => Promised'
<1> SUFFICES ASSUME Promised, [Promise!Next]_Promise!vars PROVE Promised'
  OBVIOUS
<1> USE DEF Promised, Promise!TypeOK, Promise!HandedOnce
<1>1. CASE UNCHANGED Promise!vars
  BY <1>1 DEF Promise!vars
<1>2. ASSUME NEW lapsing \in SUBSET Promise!Live, Promise!Lapse(lapsing) PROVE Promised'
  BY <1>2 DEF Promise!Lapse, Promise!Live
<1>3. ASSUME NEW lapsing \in SUBSET Promise!Live, NEW x \in Throws, Promise!Born(x, lapsing)
      PROVE  Promised'
  BY <1>3 DEF Promise!Born, Promise!Move, Promise!Live
<1>4. ASSUME NEW lapsing \in SUBSET Promise!Live, NEW x \in Throws, Promise!Read(x, lapsing)
      PROVE  Promised'
  BY <1>4 DEF Promise!Read, Promise!Move, Promise!Live
<1> QED
  BY <1>1, <1>2, <1>3, <1>4 DEF Promise!Next

\* A throw is handed out once if it was read and never if it was not.
THEOREM ReadIsHandedOnce == Promise!Safety => []Promise!HandedOnce
<1>1. Promise!Init => Promised
  BY DEF Promise!Init, Promised, Promise!TypeOK, Promise!HandedOnce
<1> QED
  BY <1>1, PromiseIsKept, PTL DEF Promise!Safety, Promised
================================================================================
