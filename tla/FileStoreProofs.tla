----------------------------- MODULE FileStoreProofs -----------------------------
(* Proofs that the invariants of FileStore hold for every set of files,      *)
(* codes, tickets and threads, every ceiling and lifetime: those about the   *)
(* three maps whatever the disk does, those about the bytes while it does as *)
(* it is told.  And the maps implement the one-time throw, restarts included.*)
EXTENDS FileStore, TotalsProofs

Upload == [received : Nat, next : Nat, touched_at : Nat]
Entry == [file : Ids, expires_at : Nat]
Ticket == [file : Ids, idle_until : Nat, delivered : Nat]
Filing == [code : Codes, expires_at : Nat, boot : Nat]

\* The plain facts about the constants that the steps below need.
LEMMA Limits ==
    /\ \A i \in Ids : Declared[i] \in Nat /\ Declared[i] > 0 /\ Chunks[i] \in Nat /\ Chunks[i] > 0
    /\ Ttl \in Nat /\ UploadIdle \in Nat /\ TicketIdle \in Nat
    /\ Ttl > 0 /\ UploadIdle > 0 /\ TicketIdle > 0
    /\ MaxEntries \in Nat /\ MaxTotalBytes \in Nat
    /\ Lengths \subseteq Nat
    /\ Horizon \in Nat /\ MaxRestarts \in Nat
BY FileStoreAssumption

\* What an upload, and what a throw or a ticket, weighs.
UploadWeights(us) == [i \in DOMAIN us |-> Declared[i]]
FileWeights(fs) == [k \in DOMAIN fs |-> Declared[fs[k].file]]

\* What is reserved is what the three maps weigh.
LEMMA HeldIsThreeTotals ==
    ASSUME NEW us, NEW es, NEW ts
    PROVE  Held(us, es, ts) = Total(UploadWeights(us)) + Total(FileWeights(es))
                                                       + Total(FileWeights(ts))
BY DEF Held, UploadWeights, FileWeights

\* Each stage holds finitely many things, and they can be weighed.
LEMMA UploadsWeigh ==
    ASSUME NEW us, DOMAIN us \subseteq Ids
    PROVE  /\ IsFiniteSet(DOMAIN us)
           /\ Weighs(UploadWeights(us))
           /\ Total(UploadWeights(us)) \in Nat
<1>1. IsFiniteSet(DOMAIN us)
  BY FileStoreAssumption, FS_Subset
<1>2. Weighs(UploadWeights(us))
  BY <1>1, FileStoreAssumption DEF Weighs, UploadWeights
<1> QED
  BY <1>1, <1>2, TotalType

\* A map of files weighs a number.
LEMMA FilesWeigh ==
    ASSUME NEW fs, \A k \in DOMAIN fs : fs[k].file \in Ids,
           DOMAIN fs \subseteq Codes \/ DOMAIN fs \subseteq Tickets
    PROVE  /\ IsFiniteSet(DOMAIN fs)
           /\ Weighs(FileWeights(fs))
           /\ Total(FileWeights(fs)) \in Nat
<1>1. IsFiniteSet(DOMAIN fs)
  <2>1. IsFiniteSet(Codes)
    BY FileStoreAssumption, FS_Union DEF Codes
  <2> QED
    BY <2>1, FileStoreAssumption, FS_Subset
<1>2. Weighs(FileWeights(fs))
  BY <1>1, FileStoreAssumption DEF Weighs, FileWeights
<1> QED
  BY <1>1, <1>2, TotalType

\* One more upload, or one less.
LEMMA UploadAdded ==
    ASSUME NEW us, DOMAIN us \subseteq Ids, NEW i \in Ids \ DOMAIN us, NEW u
    PROVE  Total(UploadWeights(With(us, i, u))) = Total(UploadWeights(us)) + Declared[i]
<1>1. UploadWeights(With(us, i, u)) = With(UploadWeights(us), i, Declared[i])
  BY DEF UploadWeights, With
<1>2. Declared[i] \in Nat /\ i \notin DOMAIN UploadWeights(us)
  BY FileStoreAssumption DEF UploadWeights
<1> QED
  BY <1>1, <1>2, UploadsWeigh, TotalAdd

\* Dropping an upload takes its declared bytes off.
LEMMA UploadDropped ==
    ASSUME NEW us, DOMAIN us \subseteq Ids, NEW i \in DOMAIN us
    PROVE  Total(UploadWeights(Without(us, {i}))) = Total(UploadWeights(us)) - Declared[i]
<1>1. UploadWeights(Without(us, {i})) = Without(UploadWeights(us), {i})
  BY DEF UploadWeights, Without
<1>2. i \in DOMAIN UploadWeights(us) /\ UploadWeights(us)[i] = Declared[i]
  BY DEF UploadWeights
<1> QED
  BY <1>1, <1>2, UploadsWeigh, TotalRemove

\* One more throw or ticket, or one less.
LEMMA FileAdded ==
    ASSUME NEW fs, \A k \in DOMAIN fs : fs[k].file \in Ids,
           DOMAIN fs \subseteq Codes \/ DOMAIN fs \subseteq Tickets,
           NEW k, k \notin DOMAIN fs, NEW e, e.file \in Ids
    PROVE  Total(FileWeights(With(fs, k, e))) = Total(FileWeights(fs)) + Declared[e.file]
<1>1. FileWeights(With(fs, k, e)) = With(FileWeights(fs), k, Declared[e.file])
  BY DEF FileWeights, With
<1>2. Declared[e.file] \in Nat /\ k \notin DOMAIN FileWeights(fs)
  BY FileStoreAssumption DEF FileWeights
<1> QED
  BY <1>1, <1>2, FilesWeigh, TotalAdd

\* Dropping a code or a ticket takes its file's bytes off.
LEMMA FileDropped ==
    ASSUME NEW fs, \A k \in DOMAIN fs : fs[k].file \in Ids,
           DOMAIN fs \subseteq Codes \/ DOMAIN fs \subseteq Tickets,
           NEW k \in DOMAIN fs
    PROVE  Total(FileWeights(Without(fs, {k}))) = Total(FileWeights(fs)) - Declared[fs[k].file]
<1>1. FileWeights(Without(fs, {k})) = Without(FileWeights(fs), {k})
  BY DEF FileWeights, Without
<1>2. k \in DOMAIN FileWeights(fs) /\ FileWeights(fs)[k] = Declared[fs[k].file]
  BY DEF FileWeights
<1> QED
  BY <1>1, <1>2, FilesWeigh, TotalRemove

\* A map that keeps its keys and their files keeps its weight.
LEMMA SameFilesWeighTheSame ==
    ASSUME NEW fs, NEW gs, DOMAIN gs = DOMAIN fs,
           \A k \in DOMAIN fs : gs[k].file = fs[k].file
    PROVE  FileWeights(gs) = FileWeights(fs) /\ FilesOf(gs) = FilesOf(fs)
BY DEF FileWeights, FilesOf

\* What an upload has received so far does not change what it reserves.
LEMMA SameUploadsWeighTheSame ==
    ASSUME NEW us, NEW vs, DOMAIN vs = DOMAIN us
    PROVE  UploadWeights(vs) = UploadWeights(us)
BY DEF UploadWeights

--------------------------------------------------------------------------------
\* What a purge leaves: of each map the part whose deadline is ahead, unchanged.
LEMMA PurgeKeepsTheLive ==
    ASSUME TypeOK
    PROVE  /\ DOMAIN LiveUploads = DOMAIN uploads \ DeadUploads
           /\ \A i \in DOMAIN LiveUploads : i \in DOMAIN uploads /\ LiveUploads[i] = uploads[i]
           /\ LiveUploads \in [DOMAIN LiveUploads -> Upload]
           /\ DOMAIN LiveUploads \subseteq used
           /\ DOMAIN LiveEntries = {c \in DOMAIN entries : entries[c].expires_at > now}
           /\ \A c \in DOMAIN LiveEntries : c \in DOMAIN entries /\ LiveEntries[c] = entries[c]
           /\ LiveEntries \in [DOMAIN LiveEntries -> Entry]
           /\ DOMAIN LiveEntries \subseteq Codes
           /\ DOMAIN LiveTickets = {t \in DOMAIN tickets : tickets[t].idle_until > now}
           /\ \A t \in DOMAIN LiveTickets : t \in DOMAIN tickets /\ LiveTickets[t] = tickets[t]
           /\ LiveTickets \in [DOMAIN LiveTickets -> Ticket]
           /\ DOMAIN LiveTickets \subseteq Tickets
<1>1. /\ DOMAIN LiveUploads = DOMAIN uploads \ DeadUploads
      /\ \A i \in DOMAIN LiveUploads : i \in DOMAIN uploads /\ LiveUploads[i] = uploads[i]
      /\ LiveUploads \in [DOMAIN LiveUploads -> Upload]
      /\ DOMAIN LiveUploads \subseteq used
  BY DEF TypeOK, LiveUploads, Without, Upload
<1>2. DOMAIN LiveEntries = {c \in DOMAIN entries : entries[c].expires_at > now}
  <2>1. \A c \in DOMAIN entries : entries[c].expires_at \in Nat
    BY DEF TypeOK
  <2> QED
    BY <2>1 DEF TypeOK, LiveEntries, Without, DeadEntries
<1>3. /\ \A c \in DOMAIN LiveEntries : c \in DOMAIN entries /\ LiveEntries[c] = entries[c]
      /\ LiveEntries \in [DOMAIN LiveEntries -> Entry]
      /\ DOMAIN LiveEntries \subseteq Codes
  BY DEF TypeOK, LiveEntries, Without, Entry
<1>4. DOMAIN LiveTickets = {t \in DOMAIN tickets : tickets[t].idle_until > now}
  <2>1. \A t \in DOMAIN tickets : tickets[t].idle_until \in Nat
    BY DEF TypeOK
  <2> QED
    BY <2>1 DEF TypeOK, LiveTickets, Without, DeadTickets
<1>5. /\ \A t \in DOMAIN LiveTickets : t \in DOMAIN tickets /\ LiveTickets[t] = tickets[t]
      /\ LiveTickets \in [DOMAIN LiveTickets -> Ticket]
      /\ DOMAIN LiveTickets \subseteq Tickets
  BY DEF TypeOK, LiveTickets, Without, Ticket
<1> QED
  BY <1>1, <1>2, <1>3, <1>4, <1>5

\* A purge gives back exactly what the dead weighed, and only makes room.
LEMMA PurgeCountsRight ==
    ASSUME TypeOK, WithinCeilings
    PROVE  /\ reserved_bytes - FreedBytes = Held(LiveUploads, LiveEntries, LiveTickets)
           /\ Held(LiveUploads, LiveEntries, LiveTickets) \in Nat
           /\ Held(LiveUploads, LiveEntries, LiveTickets) <= MaxTotalBytes
           /\ LiveCount \in Nat /\ LiveCount <= MaxEntries
<1> DEFINE du == Only(uploads, DeadUploads)
           de == Only(entries, DeadEntries)
           dt == Only(tickets, DeadTickets)
<1>1. /\ DOMAIN uploads \subseteq Ids /\ DOMAIN du \subseteq Ids
      /\ DOMAIN LiveUploads \subseteq Ids
  BY PurgeKeepsTheLive DEF TypeOK, Only
<1>2. /\ DOMAIN entries \subseteq Codes /\ \A c \in DOMAIN entries : entries[c].file \in Ids
      /\ DOMAIN de \subseteq Codes /\ \A c \in DOMAIN de : de[c].file \in Ids
      /\ DOMAIN LiveEntries \subseteq Codes
      /\ \A c \in DOMAIN LiveEntries : LiveEntries[c].file \in Ids
  BY PurgeKeepsTheLive DEF TypeOK, Only, Entry
<1>3. /\ DOMAIN tickets \subseteq Tickets /\ \A t \in DOMAIN tickets : tickets[t].file \in Ids
      /\ DOMAIN dt \subseteq Tickets /\ \A t \in DOMAIN dt : dt[t].file \in Ids
      /\ DOMAIN LiveTickets \subseteq Tickets
      /\ \A t \in DOMAIN LiveTickets : LiveTickets[t].file \in Ids
  BY PurgeKeepsTheLive DEF TypeOK, Only, Ticket
<1>4. Total(UploadWeights(uploads)) = Total(UploadWeights(du)) + Total(UploadWeights(LiveUploads))
  <2>1. UploadWeights(du) = Only(UploadWeights(uploads), DeadUploads)
    BY DEF UploadWeights, Only
  <2>2. UploadWeights(LiveUploads) = Without(UploadWeights(uploads), DeadUploads)
    BY DEF UploadWeights, LiveUploads, Without
  <2> QED
    BY <1>1, <2>1, <2>2, UploadsWeigh, TotalSplit
<1>5. Total(FileWeights(entries)) = Total(FileWeights(de)) + Total(FileWeights(LiveEntries))
  <2>1. FileWeights(de) = Only(FileWeights(entries), DeadEntries)
    BY DEF FileWeights, Only
  <2>2. FileWeights(LiveEntries) = Without(FileWeights(entries), DeadEntries)
    BY DEF FileWeights, LiveEntries, Without
  <2> QED
    BY <1>2, <2>1, <2>2, FilesWeigh, TotalSplit
<1>6. Total(FileWeights(tickets)) = Total(FileWeights(dt)) + Total(FileWeights(LiveTickets))
  <2>1. FileWeights(dt) = Only(FileWeights(tickets), DeadTickets)
    BY DEF FileWeights, Only
  <2>2. FileWeights(LiveTickets) = Without(FileWeights(tickets), DeadTickets)
    BY DEF FileWeights, LiveTickets, Without
  <2> QED
    BY <1>3, <2>1, <2>2, FilesWeigh, TotalSplit
<1>7. /\ Total(UploadWeights(du)) \in Nat /\ Total(UploadWeights(LiveUploads)) \in Nat
      /\ IsFiniteSet(DOMAIN uploads)
  BY <1>1, UploadsWeigh
<1>8. /\ Total(FileWeights(de)) \in Nat /\ Total(FileWeights(LiveEntries)) \in Nat
      /\ IsFiniteSet(DOMAIN entries)
  BY <1>2, FilesWeigh
<1>9. /\ Total(FileWeights(dt)) \in Nat /\ Total(FileWeights(LiveTickets)) \in Nat
      /\ IsFiniteSet(DOMAIN tickets)
  BY <1>3, FilesWeigh
<1>10. Held(uploads, entries, tickets)
          = Held(du, de, dt) + Held(LiveUploads, LiveEntries, LiveTickets)
  BY <1>4, <1>5, <1>6, <1>7, <1>8, <1>9, HeldIsThreeTotals
<1>11. /\ Held(du, de, dt) \in Nat
       /\ Held(LiveUploads, LiveEntries, LiveTickets) \in Nat
  BY <1>7, <1>8, <1>9, HeldIsThreeTotals
<1>12. FreedBytes = Held(du, de, dt)
  BY DEF FreedBytes
<1>13. LiveCount \in Nat /\ LiveCount <= MaxEntries
  <2>1. /\ DOMAIN LiveUploads \subseteq DOMAIN uploads
        /\ DOMAIN LiveEntries \subseteq DOMAIN entries
        /\ DOMAIN LiveTickets \subseteq DOMAIN tickets
    BY PurgeKeepsTheLive
  <2>2. /\ Cardinality(DOMAIN LiveUploads) <= Cardinality(DOMAIN uploads)
        /\ Cardinality(DOMAIN LiveUploads) \in Nat /\ Cardinality(DOMAIN uploads) \in Nat
    BY <2>1, <1>7, FS_Subset, FS_CardinalityType
  <2>3. /\ Cardinality(DOMAIN LiveEntries) <= Cardinality(DOMAIN entries)
        /\ Cardinality(DOMAIN LiveEntries) \in Nat /\ Cardinality(DOMAIN entries) \in Nat
    BY <2>1, <1>8, FS_Subset, FS_CardinalityType
  <2>4. /\ Cardinality(DOMAIN LiveTickets) <= Cardinality(DOMAIN tickets)
        /\ Cardinality(DOMAIN LiveTickets) \in Nat /\ Cardinality(DOMAIN tickets) \in Nat
    BY <2>1, <1>9, FS_Subset, FS_CardinalityType
  <2> QED
    BY <2>2, <2>3, <2>4, FileStoreAssumption DEF WithinCeilings, LiveCount
<1>14. /\ reserved_bytes = Held(uploads, entries, tickets)
       /\ Held(uploads, entries, tickets) <= MaxTotalBytes
       /\ MaxTotalBytes \in Nat
  BY FileStoreAssumption DEF WithinCeilings, AccountingExact
<1>15. Held(LiveUploads, LiveEntries, LiveTickets) <= MaxTotalBytes
  BY ONLY <1>10, <1>11, <1>14
<1>16. reserved_bytes - FreedBytes = Held(LiveUploads, LiveEntries, LiveTickets)
  BY ONLY <1>10, <1>11, <1>12, <1>14
<1> QED
  BY <1>11, <1>13, <1>15, <1>16

\* What a purge condemns is what it takes from the maps, so nothing live.
LEMMA PurgeCondemnsTheDead ==
    ASSUME MapsInv
    PROVE  /\ FilesOf(LiveEntries) \subseteq FilesOf(entries)
           /\ FilesOf(LiveTickets) \subseteq FilesOf(tickets)
           /\ Condemned \subseteq used
           /\ (DOMAIN LiveUploads \cup FilesOf(LiveEntries) \cup FilesOf(LiveTickets))
                  \cap (Condemned \cup unlinking) = {}
           /\ DOMAIN uploads \cup FilesOf(entries) \cup FilesOf(tickets) \subseteq
                  DOMAIN LiveUploads \cup FilesOf(LiveEntries) \cup FilesOf(LiveTickets) \cup Condemned
<1> DEFINE de == Only(entries, DeadEntries)
           dt == Only(tickets, DeadTickets)
<1> USE DEF MapsInv
<1>1. FilesOf(LiveEntries) \subseteq FilesOf(entries) /\ FilesOf(LiveTickets) \subseteq FilesOf(tickets)
  BY PurgeKeepsTheLive DEF FilesOf
<1>2. FilesOf(entries) = FilesOf(LiveEntries) \cup FilesOf(de)
  BY DEF FilesOf, LiveEntries, Only, Without
<1>3. FilesOf(tickets) = FilesOf(LiveTickets) \cup FilesOf(dt)
  BY DEF FilesOf, LiveTickets, Only, Without
<1>4. FilesOf(LiveEntries) \cap FilesOf(de) = {}
  <2> SUFFICES ASSUME NEW c \in DOMAIN LiveEntries, NEW d \in DOMAIN de,
                      LiveEntries[c].file = de[d].file
               PROVE  FALSE
    BY DEF FilesOf
  <2>1. c \in DOMAIN entries /\ d \in DOMAIN entries /\ c # d
    BY DEF LiveEntries, Only, Without
  <2>2. entries[c].file = entries[d].file
    BY DEF LiveEntries, Only, Without
  <2> QED
    BY <2>1, <2>2 DEF OneOwner
<1>5. FilesOf(LiveTickets) \cap FilesOf(dt) = {}
  <2> SUFFICES ASSUME NEW s \in DOMAIN LiveTickets, NEW t \in DOMAIN dt,
                      LiveTickets[s].file = dt[t].file
               PROVE  FALSE
    BY DEF FilesOf
  <2>1. s \in DOMAIN tickets /\ t \in DOMAIN tickets /\ s # t
    BY DEF LiveTickets, Only, Without
  <2>2. tickets[s].file = tickets[t].file
    BY DEF LiveTickets, Only, Without
  <2> QED
    BY <2>1, <2>2 DEF OneOwner
<1>6. DOMAIN LiveUploads = DOMAIN uploads \ DeadUploads /\ DeadUploads \subseteq DOMAIN uploads
  BY DEF LiveUploads, Without, DeadUploads
<1>7. Condemned = doomed \cup DeadUploads \cup FilesOf(de) \cup FilesOf(dt)
  BY DEF Condemned
<1>8. DOMAIN uploads \subseteq used
  BY DEF TypeOK
<1> HIDE DEF de, dt
<1>9. Condemned \subseteq used
  BY <1>2, <1>3, <1>6, <1>7, <1>8 DEF PathsAreUsed
<1>10. DOMAIN uploads \cup FilesOf(entries) \cup FilesOf(tickets) \subseteq
           DOMAIN LiveUploads \cup FilesOf(LiveEntries) \cup FilesOf(LiveTickets) \cup Condemned
  BY <1>2, <1>3, <1>6, <1>7
<1>11. (DOMAIN LiveUploads \cup FilesOf(LiveEntries) \cup FilesOf(LiveTickets))
           \cap (Condemned \cup unlinking) = {}
  BY <1>2, <1>3, <1>4, <1>5, <1>6, <1>7 DEF OneOwner
<1> QED
  BY <1>1, <1>9, <1>10, <1>11

\* What finish returns is never mistaken for nothing.
LEMMA FilingIsSomething ==
    \A c, d, b : [code |-> c, expires_at |-> d, boot |-> b] # NotFiled
<1> SUFFICES ASSUME NEW c, NEW d, NEW b,
                    [code |-> c, expires_at |-> d, boot |-> b] = [code |-> "none"]
             PROVE  FALSE
  BY DEF NotFiled
<1>1. DOMAIN [code |-> c, expires_at |-> d, boot |-> b] = DOMAIN [code |-> "none"]
  OBVIOUS
<1> QED
  BY <1>1

--------------------------------------------------------------------------------
\* The initial state satisfies the invariant.
LEMMA InitMaps == Init => MapsInv
<1> SUFFICES ASSUME Init PROVE MapsInv
  OBVIOUS
<1> USE Limits DEF Init
<1>1. DOMAIN uploads = {} /\ DOMAIN entries = {} /\ DOMAIN tickets = {} /\ DOMAIN disk = {}
  OBVIOUS
<1>2. FilesOf(entries) = {} /\ FilesOf(tickets) = {}
  BY <1>1 DEF FilesOf
<1>3. Held(uploads, entries, tickets) = 0
  BY <1>1, TotalEmpty DEF Held
<1>4. TypeOK
  BY <1>1 DEF TypeOK
<1>5. WithinCeilings
  BY <1>1, <1>3, FS_EmptySet DEF WithinCeilings, AccountingExact
<1>6. OneOwner /\ PathsAreUsed
  BY <1>1, <1>2 DEF OneOwner, PathsAreUsed
<1>7. EntriesAreFiled /\ FiledAreFinished /\ UnfiledIsUngranted /\ CodeWorksUntilDeadline
  BY <1>1 DEF EntriesAreFiled, FiledAreFinished, UnfiledIsUngranted, CodeWorksUntilDeadline
<1> QED
  BY <1>4, <1>5, <1>6, <1>7 DEF MapsInv

\* A step that lets time pass, finishes unlinks, or renews what is there: every file
\* stays with its owner.
LEMMA NothingMoves ==
    ASSUME MapsInv, TypeOK', now <= now',
           DOMAIN uploads' = DOMAIN uploads, entries' = entries,
           DOMAIN tickets' = DOMAIN tickets,
           \A t \in DOMAIN tickets : tickets'[t].file = tickets[t].file,
           UNCHANGED <<reserved_bytes, doomed, history>>, unlinking' \subseteq unlinking
    PROVE  MapsInv'
<1> USE DEF MapsInv, history
<1>1. /\ UploadWeights(uploads') = UploadWeights(uploads)
      /\ FileWeights(tickets') = FileWeights(tickets) /\ FilesOf(tickets') = FilesOf(tickets)
  BY SameUploadsWeighTheSame, SameFilesWeighTheSame
<1>2. Held(uploads', entries', tickets') = Held(uploads, entries, tickets)
  BY <1>1, HeldIsThreeTotals
<1>3. WithinCeilings'
  BY <1>2 DEF WithinCeilings, AccountingExact
<1>4. OneOwner' /\ PathsAreUsed'
  BY <1>1 DEF OneOwner, PathsAreUsed
<1>5. EntriesAreFiled' /\ FiledAreFinished' /\ UnfiledIsUngranted'
  BY DEF EntriesAreFiled, FiledAreFinished, UnfiledIsUngranted
<1>6. CodeWorksUntilDeadline'
  <2> SUFFICES ASSUME NEW i \in Ids, filed[i] # NotFiled, granted[i] = 0,
                      now' < filed[i].expires_at, filed[i].boot = boot
               PROVE  filed[i].code \in DOMAIN entries /\ entries[filed[i].code].file = i
    BY DEF CodeWorksUntilDeadline
  <2>1. now \in Int /\ now' \in Int /\ filed[i].expires_at \in Int
    BY Limits DEF TypeOK
  <2>2. now < filed[i].expires_at
    BY <2>1
  <2> QED
    BY <2>2 DEF CodeWorksUntilDeadline
<1> QED
  BY <1>3, <1>4, <1>5, <1>6

\* A step that only purges, and may renew a ticket: what goes from the maps is queued
\* for its unlink, and no entry goes before its deadline.
LEMMA OnlyThePurgeMoves ==
    ASSUME MapsInv, TypeOK', now' = now,
           uploads' = LiveUploads, entries' = LiveEntries,
           DOMAIN tickets' = DOMAIN LiveTickets,
           \A t \in DOMAIN LiveTickets : tickets'[t].file = LiveTickets[t].file,
           reserved_bytes' = reserved_bytes - FreedBytes, UNCHANGED history,
           doomed' \cup unlinking' \subseteq Condemned \cup unlinking
    PROVE  MapsInv'
<1> USE DEF MapsInv, history
<1>1. FileWeights(tickets') = FileWeights(LiveTickets) /\ FilesOf(tickets') = FilesOf(LiveTickets)
  BY SameFilesWeighTheSame
<1>2. Held(uploads', entries', tickets') = Held(LiveUploads, LiveEntries, LiveTickets)
  BY <1>1, HeldIsThreeTotals
<1>3. WithinCeilings'
  BY <1>2, PurgeCountsRight DEF WithinCeilings, AccountingExact, LiveCount
<1>4. OneOwner' /\ PathsAreUsed'
  <2>1. PathsAreUsed'
    BY <1>1, PurgeCondemnsTheDead DEF PathsAreUsed
  <2>2. \A c, d \in DOMAIN entries' : entries'[c].file = entries'[d].file => c = d
    BY PurgeKeepsTheLive DEF OneOwner
  <2>3. \A s, t \in DOMAIN tickets' : tickets'[s].file = tickets'[t].file => s = t
    BY PurgeKeepsTheLive DEF OneOwner
  <2>4. DOMAIN uploads' \subseteq DOMAIN uploads
    BY PurgeKeepsTheLive
  <2> QED
    BY <1>1, <2>1, <2>2, <2>3, <2>4, PurgeCondemnsTheDead DEF OneOwner
<1>5. EntriesAreFiled' /\ FiledAreFinished' /\ UnfiledIsUngranted'
  BY PurgeKeepsTheLive DEF EntriesAreFiled, FiledAreFinished, UnfiledIsUngranted
<1>6. CodeWorksUntilDeadline'
  <2> SUFFICES ASSUME NEW i \in Ids, filed[i] # NotFiled, granted[i] = 0,
                      now < filed[i].expires_at, filed[i].boot = boot
               PROVE  filed[i].code \in DOMAIN LiveEntries /\ LiveEntries[filed[i].code].file = i
    BY DEF CodeWorksUntilDeadline
  <2>1. PICK c \in DOMAIN entries : c = filed[i].code /\ entries[c].file = i
    BY DEF CodeWorksUntilDeadline
  <2>2. filed[i] = [code |-> c, expires_at |-> entries[c].expires_at, boot |-> boot]
    BY <2>1 DEF EntriesAreFiled
  <2>3. entries[c].expires_at = filed[i].expires_at
    BY <2>2
  <2> QED
    BY <2>1, <2>3, PurgeKeepsTheLive
<1> QED
  BY <1>3, <1>4, <1>5, <1>6

\* A new upload: what is reserved for it fits, and its path is like no other.
LEMMA BeginKeepsMaps ==
    ASSUME MapsInv, NEW i \in Ids, BeginCore(i),
           disk' \in [DOMAIN disk' -> Seq([index : Nat, len : Nat])], DOMAIN disk' \subseteq Ids
    PROVE  MapsInv'
<1> USE Limits DEF MapsInv
<1> DEFINE u == [received |-> 0, next |-> 0, touched_at |-> now]
<1>1. /\ i \notin used /\ used' = used \cup {i}
      /\ uploads' = With(LiveUploads, i, u)
      /\ entries' = LiveEntries /\ tickets' = LiveTickets
      /\ reserved_bytes' = reserved_bytes - FreedBytes + Declared[i]
      /\ doomed' = {} /\ unlinking' = unlinking \cup Condemned
      /\ UNCHANGED <<now, prepared, writers, filed, granted, boot>>
      /\ LiveCount < MaxEntries
      /\ reserved_bytes - FreedBytes + Declared[i] <= MaxTotalBytes
  BY DEF BeginCore, Registered, Drain, HasRoom
<1>2. /\ i \notin DOMAIN LiveUploads /\ DOMAIN uploads' = DOMAIN LiveUploads \cup {i}
      /\ DOMAIN LiveUploads \subseteq DOMAIN uploads
  BY <1>1, PurgeKeepsTheLive DEF With, TypeOK
<1>3. TypeOK'
  <2>1. now \in Nat
    BY DEF TypeOK
  <2>2. uploads' \in [DOMAIN uploads' -> Upload]
    BY <1>1, <2>1, PurgeKeepsTheLive DEF With, Upload
  <2>3. reserved_bytes' \in Nat
    BY <1>1, PurgeCountsRight
  <2>4. /\ DOMAIN uploads' \subseteq used' /\ used' \subseteq Ids
        /\ doomed' \subseteq Ids /\ unlinking' \subseteq Ids
    BY ZenonT(30), <1>1, <1>2, PurgeKeepsTheLive, PurgeCondemnsTheDead DEF TypeOK, PathsAreUsed
  <2>5. /\ entries' \in [DOMAIN entries' -> Entry] /\ DOMAIN entries' \subseteq Codes
        /\ tickets' \in [DOMAIN tickets' -> Ticket] /\ DOMAIN tickets' \subseteq Tickets
    BY <1>1, PurgeKeepsTheLive
  <2> QED
    BY <1>1, <2>2, <2>3, <2>4, <2>5 DEF TypeOK, Upload, Entry, Ticket
<1>4. WithinCeilings'
  <2>1. Total(UploadWeights(uploads')) = Total(UploadWeights(LiveUploads)) + Declared[i]
    BY <1>1, <1>2, PurgeKeepsTheLive, UploadAdded DEF TypeOK
  <2>2. /\ Total(UploadWeights(LiveUploads)) \in Nat
        /\ IsFiniteSet(DOMAIN LiveUploads)
    BY PurgeKeepsTheLive, UploadsWeigh DEF TypeOK
  <2>3. /\ Total(FileWeights(LiveEntries)) \in Nat /\ IsFiniteSet(DOMAIN LiveEntries)
        /\ Total(FileWeights(LiveTickets)) \in Nat /\ IsFiniteSet(DOMAIN LiveTickets)
    BY PurgeKeepsTheLive, FilesWeigh DEF Entry, Ticket
  <2>4. Held(uploads', entries', tickets')
            = Held(LiveUploads, LiveEntries, LiveTickets) + Declared[i]
    <3>1. Held(uploads', entries', tickets') = Total(UploadWeights(uploads'))
              + Total(FileWeights(LiveEntries)) + Total(FileWeights(LiveTickets))
      BY <1>1, HeldIsThreeTotals
    <3>2. Held(LiveUploads, LiveEntries, LiveTickets) = Total(UploadWeights(LiveUploads))
              + Total(FileWeights(LiveEntries)) + Total(FileWeights(LiveTickets))
      BY HeldIsThreeTotals
    <3>3. Declared[i] \in Nat
      OBVIOUS
    <3> QED
      BY ONLY <2>1, <2>2, <2>3, <3>1, <3>2, <3>3
  <2>5. reserved_bytes' = Held(uploads', entries', tickets') /\ reserved_bytes' <= MaxTotalBytes
    BY <1>1, <2>4, PurgeCountsRight
  <2>6. Cardinality(DOMAIN uploads') = Cardinality(DOMAIN LiveUploads) + 1
    BY <1>2, <2>2, FS_AddElement
  <2>7. /\ Cardinality(DOMAIN LiveUploads) \in Nat /\ Cardinality(DOMAIN LiveEntries) \in Nat
        /\ Cardinality(DOMAIN LiveTickets) \in Nat
    BY <2>2, <2>3, FS_CardinalityType
  <2>8. Cardinality(DOMAIN uploads') + Cardinality(DOMAIN entries')
            + Cardinality(DOMAIN tickets') <= MaxEntries
    <3>1. Cardinality(DOMAIN LiveUploads) + Cardinality(DOMAIN LiveEntries)
              + Cardinality(DOMAIN LiveTickets) < MaxEntries
      BY <1>1 DEF LiveCount
    <3>2. DOMAIN entries' = DOMAIN LiveEntries /\ DOMAIN tickets' = DOMAIN LiveTickets
      BY <1>1
    <3>3. MaxEntries \in Nat
      OBVIOUS
    <3> QED
      BY ONLY <2>6, <2>7, <3>1, <3>2, <3>3
  <2> QED
    BY <2>5, <2>8 DEF WithinCeilings, AccountingExact
<1>5. PathsAreUsed' /\ OneOwner'
  <2>1. /\ i \notin DOMAIN uploads \cup FilesOf(entries) \cup FilesOf(tickets)
        /\ i \notin Condemned \cup unlinking
    BY <1>1, PurgeCondemnsTheDead DEF PathsAreUsed, TypeOK
  <2>2. PathsAreUsed'
    BY <1>1, PurgeCondemnsTheDead DEF PathsAreUsed
  <2>3. \A c, d \in DOMAIN entries' : entries'[c].file = entries'[d].file => c = d
    BY <1>1, PurgeKeepsTheLive DEF OneOwner
  <2>4. \A s, t \in DOMAIN tickets' : tickets'[s].file = tickets'[t].file => s = t
    BY <1>1, PurgeKeepsTheLive DEF OneOwner
  <2> QED
    BY <1>1, <1>2, <2>1, <2>2, <2>3, <2>4, PurgeCondemnsTheDead DEF OneOwner
<1>6. EntriesAreFiled'
  BY <1>1, PurgeKeepsTheLive DEF EntriesAreFiled
<1>7. FiledAreFinished' /\ UnfiledIsUngranted'
  BY <1>1, <1>2 DEF FiledAreFinished, UnfiledIsUngranted
<1>8. CodeWorksUntilDeadline'
  <2> SUFFICES ASSUME NEW j \in Ids, filed[j] # NotFiled, granted[j] = 0,
                      now < filed[j].expires_at, filed[j].boot = boot
               PROVE  filed[j].code \in DOMAIN LiveEntries /\ LiveEntries[filed[j].code].file = j
    BY <1>1 DEF CodeWorksUntilDeadline
  <2>1. PICK c \in DOMAIN entries : c = filed[j].code /\ entries[c].file = j
    BY DEF CodeWorksUntilDeadline
  <2>2. filed[j] = [code |-> c, expires_at |-> entries[c].expires_at, boot |-> boot]
    BY <2>1 DEF EntriesAreFiled
  <2>3. entries[c].expires_at = filed[j].expires_at
    BY <2>2
  <2> QED
    BY <2>1, <2>3, PurgeKeepsTheLive
<1> QED
  BY <1>3, <1>4, <1>5, <1>6, <1>7, <1>8

\* An upload becomes a throw: the bytes change hands, the count stays.
LEMMA FinishKeepsMaps ==
    ASSUME MapsInv, NEW i \in Ids, NEW reserved, Finish(i, reserved)
    PROVE  MapsInv'
<1> USE Limits DEF MapsInv
<1>1. PICK c \in Codes :
        /\ i \in DOMAIN uploads /\ c \notin DOMAIN entries
        /\ uploads' = Without(uploads, {i})
        /\ entries' = With(entries, c, [file |-> i, expires_at |-> now + Ttl])
        /\ filed' = [filed EXCEPT ![i] = [code |-> c, expires_at |-> now + Ttl, boot |-> boot]]
        /\ UNCHANGED <<now, prepared, tickets, reserved_bytes, doomed, unlinking, disk,
                       writers, used, granted, boot>>
  BY DEF Finish, FreeCodes, Pool, Codes, queues
<1> DEFINE e == [file |-> i, expires_at |-> now + Ttl]
<1>2. now \in Nat /\ now + Ttl \in Nat /\ e \in Entry /\ boot \in Nat
  BY DEF TypeOK, Entry
<1>3. /\ DOMAIN uploads' = DOMAIN uploads \ {i}
      /\ DOMAIN entries' = DOMAIN entries \cup {c} /\ entries'[c] = e
      /\ \A d \in DOMAIN entries : entries'[d] = entries[d]
  BY <1>1 DEF With, Without
<1>4. FilesOf(entries') = FilesOf(entries) \cup {i}
  BY <1>1, <1>3 DEF FilesOf
<1>5. filed'[i] = [code |-> c, expires_at |-> now + Ttl, boot |-> boot]
      /\ \A j \in Ids \ {i} : filed'[j] = filed[j]
  BY <1>1 DEF TypeOK
<1>6. TypeOK'
  <2>1. uploads' \in [DOMAIN uploads' -> Upload] /\ DOMAIN uploads' \subseteq used'
    BY <1>1 DEF TypeOK, Without, Upload
  <2>2. entries' \in [DOMAIN entries' -> Entry] /\ DOMAIN entries' \subseteq Codes
    BY <1>1, <1>2 DEF TypeOK, With, Entry
  <2>3. filed' \in [Ids -> {NotFiled} \cup Filing]
    BY <1>1, <1>2 DEF TypeOK, Filing
  <2> QED
    BY <1>1, <2>1, <2>2, <2>3 DEF TypeOK, Upload, Entry, Filing
<1>7. WithinCeilings'
  <2>1. /\ DOMAIN uploads \subseteq Ids
        /\ \A d \in DOMAIN entries : entries[d].file \in Ids
        /\ DOMAIN entries \subseteq Codes
        /\ \A t \in DOMAIN tickets : tickets[t].file \in Ids
        /\ DOMAIN tickets \subseteq Tickets
    BY DEF TypeOK
  <2>2. Total(UploadWeights(uploads')) = Total(UploadWeights(uploads)) - Declared[i]
    BY <1>1, <2>1, UploadDropped
  <2>3. Total(FileWeights(entries')) = Total(FileWeights(entries)) + Declared[i]
    <3>1. e.file = i
      OBVIOUS
    <3> QED
      BY <1>1, <2>1, <3>1, FileAdded
  <2>4. /\ Total(UploadWeights(uploads)) \in Nat /\ IsFiniteSet(DOMAIN uploads)
        /\ Total(FileWeights(entries)) \in Nat /\ IsFiniteSet(DOMAIN entries)
        /\ Total(FileWeights(tickets)) \in Nat /\ IsFiniteSet(DOMAIN tickets)
    BY <2>1, UploadsWeigh, FilesWeigh
  <2>5. Held(uploads', entries', tickets') = Held(uploads, entries, tickets)
    BY <1>1, <2>2, <2>3, <2>4, HeldIsThreeTotals
  <2>6. /\ Cardinality(DOMAIN uploads') = Cardinality(DOMAIN uploads) - 1
        /\ Cardinality(DOMAIN entries') = Cardinality(DOMAIN entries) + 1
    <3>1. DOMAIN uploads' = DOMAIN uploads \ {i} /\ i \in DOMAIN uploads
      BY <1>1, <1>3
    <3>2. DOMAIN entries' = DOMAIN entries \cup {c} /\ c \notin DOMAIN entries
      BY <1>1, <1>3
    <3> QED
      BY ONLY <2>4, <3>1, <3>2, FS_AddElement, FS_RemoveElement
  <2>7. /\ Cardinality(DOMAIN uploads) \in Nat /\ Cardinality(DOMAIN entries) \in Nat
        /\ Cardinality(DOMAIN tickets) \in Nat
    BY <2>4, FS_CardinalityType
  <2> QED
    BY <1>1, <2>5, <2>6, <2>7 DEF WithinCeilings, AccountingExact
<1>8. PathsAreUsed' /\ OneOwner'
  <2>1. i \notin FilesOf(entries) \cup FilesOf(tickets) \cup doomed \cup unlinking /\ i \in used
    BY <1>1 DEF OneOwner, TypeOK
  <2>2. PathsAreUsed'
    BY <1>1, <1>4, <2>1 DEF PathsAreUsed
  <2>3. \A d \in DOMAIN entries : entries[d].file # i
    BY <2>1 DEF FilesOf
  <2>4. \A d, b \in DOMAIN entries' : entries'[d].file = entries'[b].file => d = b
    BY <1>3, <2>3 DEF OneOwner
  <2>5. DOMAIN uploads' = DOMAIN uploads \ {i} /\ UNCHANGED <<tickets, doomed, unlinking>>
    BY <1>1, <1>3
  <2>6. FilesOf(tickets') = FilesOf(tickets)
    BY <2>5
  <2> QED
    BY <1>4, <2>1, <2>2, <2>4, <2>5, <2>6 DEF OneOwner
<1>9. filed[i] = NotFiled /\ granted[i] = 0
  BY <1>1 DEF FiledAreFinished, UnfiledIsUngranted
<1>10. EntriesAreFiled'
  <2> SUFFICES ASSUME NEW d \in DOMAIN entries'
               PROVE  /\ filed'[entries'[d].file]
                            = [code |-> d, expires_at |-> entries'[d].expires_at, boot |-> boot]
                      /\ granted[entries'[d].file] = 0
    BY <1>1 DEF EntriesAreFiled
  <2>1. CASE d = c
    BY <2>1, <1>3, <1>5, <1>9
  <2>2. CASE d \in DOMAIN entries
    <3>1. /\ filed[entries[d].file]
               = [code |-> d, expires_at |-> entries[d].expires_at, boot |-> boot]
          /\ granted[entries[d].file] = 0 /\ entries[d].file \in Ids
      BY <2>2 DEF EntriesAreFiled, TypeOK
    <3>2. entries[d].file # i
      BY <1>9, <3>1, FilingIsSomething
    <3> QED
      BY <1>3, <1>5, <2>2, <3>1, <3>2
  <2> QED
    BY <1>3, <2>1, <2>2
<1>11. FiledAreFinished' /\ UnfiledIsUngranted'
  BY SMTT(30), <1>1, <1>3, <1>5, <1>9 DEF FiledAreFinished, UnfiledIsUngranted, TypeOK
<1>12. CodeWorksUntilDeadline'
  <2> SUFFICES ASSUME NEW j \in Ids, filed'[j] # NotFiled, granted[j] = 0,
                      now < filed'[j].expires_at, filed'[j].boot = boot
               PROVE  filed'[j].code \in DOMAIN entries' /\ entries'[filed'[j].code].file = j
    BY <1>1 DEF CodeWorksUntilDeadline
  <2>1. CASE j = i
    BY <2>1, <1>3, <1>5
  <2>2. CASE j # i
    <3>1. filed[j].code \in DOMAIN entries /\ entries[filed[j].code].file = j
      BY <1>5, <2>2 DEF CodeWorksUntilDeadline
    <3> QED
      BY <1>3, <1>5, <2>2, <3>1
  <2> QED
    BY <2>1, <2>2
<1> QED
  BY <1>6, <1>7, <1>8, <1>10, <1>11, <1>12

\* An upload given up: its bytes go back, its path is claimed for the unlink.
LEMMA AbandonKeepsMaps ==
    ASSUME MapsInv, NEW i \in Ids, Abandon(i)
    PROVE  MapsInv'
<1> USE Limits DEF MapsInv
<1>1. /\ i \in DOMAIN uploads /\ uploads' = Without(uploads, {i})
      /\ reserved_bytes' = reserved_bytes - Declared[i]
      /\ unlinking' = unlinking \cup {i}
      /\ UNCHANGED <<now, prepared, entries, tickets, doomed, disk, writers,
                     used, filed, granted, boot>>
  BY DEF Abandon, history
<1>2. DOMAIN uploads' = DOMAIN uploads \ {i}
  BY <1>1 DEF Without
<1>3. i \in used /\ i \notin FilesOf(entries) \cup FilesOf(tickets) \cup doomed \cup unlinking
  BY <1>1 DEF TypeOK, OneOwner
<1>4. /\ Held(uploads', entries', tickets') = Held(uploads, entries, tickets) - Declared[i]
      /\ Held(uploads', entries', tickets') \in Nat
      /\ Cardinality(DOMAIN uploads') = Cardinality(DOMAIN uploads) - 1
      /\ Cardinality(DOMAIN uploads) \in Nat /\ Cardinality(DOMAIN entries) \in Nat
      /\ Cardinality(DOMAIN tickets) \in Nat
  <2>1. DOMAIN uploads \subseteq Ids /\ DOMAIN uploads' \subseteq Ids
    BY <1>2 DEF TypeOK
  <2>2. Total(UploadWeights(uploads')) = Total(UploadWeights(uploads)) - Declared[i]
    BY <1>1, <2>1, UploadDropped
  <2>3. /\ Total(UploadWeights(uploads)) \in Nat /\ IsFiniteSet(DOMAIN uploads)
        /\ Total(UploadWeights(uploads')) \in Nat
        /\ Total(FileWeights(entries)) \in Nat /\ IsFiniteSet(DOMAIN entries)
        /\ Total(FileWeights(tickets)) \in Nat /\ IsFiniteSet(DOMAIN tickets)
    BY <2>1, UploadsWeigh, FilesWeigh DEF TypeOK
  <2>4. /\ Held(uploads', entries', tickets') = Total(UploadWeights(uploads'))
              + Total(FileWeights(entries)) + Total(FileWeights(tickets))
        /\ Held(uploads, entries, tickets) = Total(UploadWeights(uploads))
              + Total(FileWeights(entries)) + Total(FileWeights(tickets))
    BY <1>1, HeldIsThreeTotals
  <2>5. Declared[i] \in Nat
    BY <1>1, <2>1
  <2>6. Cardinality(DOMAIN uploads') = Cardinality(DOMAIN uploads) - 1
    BY <1>1, <1>2, <2>3, FS_RemoveElement
  <2>7. /\ Cardinality(DOMAIN uploads) \in Nat /\ Cardinality(DOMAIN entries) \in Nat
        /\ Cardinality(DOMAIN tickets) \in Nat
    BY <2>3, FS_CardinalityType
  <2> QED
    BY ONLY <2>2, <2>3, <2>4, <2>5, <2>6, <2>7
<1>5. TypeOK'
  <2>1. uploads' \in [DOMAIN uploads' -> Upload] /\ DOMAIN uploads' \subseteq used'
    BY <1>1 DEF TypeOK, Without, Upload
  <2>2. reserved_bytes' \in Nat
    BY <1>1, <1>4 DEF WithinCeilings, AccountingExact
  <2> QED
    BY <1>1, <2>1, <2>2 DEF TypeOK, Upload
<1>6. WithinCeilings'
  <2>1. Declared[i] \in Nat /\ Held(uploads, entries, tickets) \in Nat
    BY DEF WithinCeilings, AccountingExact, TypeOK
  <2> QED
    BY <1>1, <1>4, <2>1 DEF WithinCeilings, AccountingExact
<1>7. PathsAreUsed' /\ OneOwner'
  BY ZenonT(30), <1>1, <1>2, <1>3 DEF PathsAreUsed, OneOwner
<1>8. EntriesAreFiled' /\ FiledAreFinished' /\ UnfiledIsUngranted' /\ CodeWorksUntilDeadline'
  BY <1>1, <1>2 DEF EntriesAreFiled, FiledAreFinished, UnfiledIsUngranted, CodeWorksUntilDeadline
<1> QED
  BY <1>5, <1>6, <1>7, <1>8

\* A file handed out: its code dies and a ticket takes over, in one step.
LEMMA TakeKeepsMaps ==
    ASSUME MapsInv, NEW c \in Codes, Take(c)
    PROVE  MapsInv'
<1> USE Limits DEF MapsInv
<1> DEFINE i == entries[c].file
           e == [file |-> i, idle_until |-> now + TicketIdle, delivered |-> 0]
<1>1. PICK t \in Tickets \ DOMAIN LiveTickets :
        /\ c \in DOMAIN LiveEntries
        /\ tickets' = With(LiveTickets, t, e)
        /\ entries' = Without(LiveEntries, {c})
        /\ uploads' = LiveUploads
        /\ reserved_bytes' = reserved_bytes - FreedBytes
        /\ granted' = [granted EXCEPT ![i] = @ + 1]
        /\ doomed' = {} /\ unlinking' = unlinking \cup Condemned
        /\ UNCHANGED <<now, prepared, disk, writers, used, filed, boot>>
  BY DEF Take, Popped, Drain
<1>2. c \in DOMAIN entries /\ LiveEntries[c] = entries[c] /\ i \in Ids
  BY <1>1, PurgeKeepsTheLive DEF Entry
<1>3. /\ DOMAIN entries' = DOMAIN LiveEntries \ {c}
      /\ \A d \in DOMAIN entries' : d \in DOMAIN entries /\ entries'[d] = entries[d]
  BY <1>1, PurgeKeepsTheLive DEF Without
<1>4. /\ DOMAIN tickets' = DOMAIN LiveTickets \cup {t} /\ tickets'[t] = e
      /\ \A s \in DOMAIN LiveTickets : s \in DOMAIN tickets /\ s # t /\ tickets'[s] = tickets[s]
  BY <1>1, PurgeKeepsTheLive DEF With
<1>5. FilesOf(entries') \subseteq FilesOf(LiveEntries) \ {i}
  BY <1>2, <1>3, PurgeKeepsTheLive DEF FilesOf, OneOwner
<1>6. FilesOf(tickets') = FilesOf(LiveTickets) \cup {i} /\ i \in FilesOf(LiveEntries)
  <2>1. \A s \in DOMAIN LiveTickets : tickets'[s] = LiveTickets[s]
    BY <1>4, PurgeKeepsTheLive
  <2> QED
    BY <1>1, <1>2, <1>4, <2>1 DEF FilesOf
<1>7. granted'[i] = granted[i] + 1 /\ \A j \in Ids \ {i} : granted'[j] = granted[j]
  BY <1>1, <1>2 DEF TypeOK
<1>8. TypeOK'
  <2>1. /\ uploads' \in [DOMAIN uploads' -> Upload] /\ DOMAIN uploads' \subseteq used'
        /\ entries' \in [DOMAIN entries' -> Entry] /\ DOMAIN entries' \subseteq Codes
    BY <1>1, PurgeKeepsTheLive DEF Without
  <2>2. e \in Ticket
    BY <1>2 DEF TypeOK, Ticket
  <2>3. tickets' \in [DOMAIN tickets' -> Ticket] /\ DOMAIN tickets' \subseteq Tickets
    BY <1>1, <2>2, PurgeKeepsTheLive DEF With
  <2>4. reserved_bytes' \in Nat /\ unlinking' \subseteq Ids /\ doomed' \subseteq Ids
    BY <1>1, PurgeCountsRight, PurgeCondemnsTheDead DEF TypeOK
  <2>5. granted' \in [Ids -> Nat]
    BY SMTT(30), <1>1, <1>2 DEF TypeOK
  <2> QED
    BY <1>1, <2>1, <2>3, <2>4, <2>5 DEF TypeOK, Upload, Entry, Ticket
<1>9. WithinCeilings'
  <2>1. /\ \A d \in DOMAIN LiveEntries : LiveEntries[d].file \in Ids
        /\ DOMAIN LiveEntries \subseteq Codes
        /\ \A s \in DOMAIN LiveTickets : LiveTickets[s].file \in Ids
        /\ DOMAIN LiveTickets \subseteq Tickets
        /\ DOMAIN LiveUploads \subseteq Ids
    BY PurgeKeepsTheLive DEF Entry, Ticket, TypeOK
  <2>2. Total(FileWeights(entries')) = Total(FileWeights(LiveEntries)) - Declared[i]
    BY <1>1, <1>2, <2>1, FileDropped
  <2>3. Total(FileWeights(tickets')) = Total(FileWeights(LiveTickets)) + Declared[i]
    <3>1. e.file = i /\ t \notin DOMAIN LiveTickets
      BY <1>1
    <3> QED
      BY <1>1, <1>2, <2>1, <3>1, FileAdded
  <2>4. /\ Total(UploadWeights(LiveUploads)) \in Nat /\ IsFiniteSet(DOMAIN LiveUploads)
        /\ Total(FileWeights(LiveEntries)) \in Nat /\ IsFiniteSet(DOMAIN LiveEntries)
        /\ Total(FileWeights(LiveTickets)) \in Nat /\ IsFiniteSet(DOMAIN LiveTickets)
    BY <2>1, UploadsWeigh, FilesWeigh
  <2>5. /\ Held(uploads', entries', tickets') = Total(UploadWeights(LiveUploads))
              + Total(FileWeights(entries')) + Total(FileWeights(tickets'))
        /\ Held(LiveUploads, LiveEntries, LiveTickets) = Total(UploadWeights(LiveUploads))
              + Total(FileWeights(LiveEntries)) + Total(FileWeights(LiveTickets))
    BY <1>1, HeldIsThreeTotals
  <2>6. Declared[i] \in Nat
    BY <1>2
  <2>7. Held(uploads', entries', tickets') = Held(LiveUploads, LiveEntries, LiveTickets)
    BY ONLY <2>2, <2>3, <2>4, <2>5, <2>6
  <2>8. /\ Cardinality(DOMAIN entries') = Cardinality(DOMAIN LiveEntries) - 1
        /\ Cardinality(DOMAIN tickets') = Cardinality(DOMAIN LiveTickets) + 1
    BY <1>1, <1>3, <1>4, <2>4, FS_AddElement, FS_RemoveElement
  <2>9. /\ Cardinality(DOMAIN LiveUploads) \in Nat /\ Cardinality(DOMAIN LiveEntries) \in Nat
        /\ Cardinality(DOMAIN LiveTickets) \in Nat
    BY <2>4, FS_CardinalityType
  <2>10. Cardinality(DOMAIN uploads') + Cardinality(DOMAIN entries')
            + Cardinality(DOMAIN tickets') = LiveCount
    <3>1. LiveCount = Cardinality(DOMAIN LiveUploads) + Cardinality(DOMAIN LiveEntries)
                        + Cardinality(DOMAIN LiveTickets)
      BY DEF LiveCount
    <3>2. uploads' = LiveUploads
      BY <1>1
    <3> QED
      BY ONLY <2>8, <2>9, <3>1, <3>2
  <2> QED
    BY <1>1, <2>7, <2>10, PurgeCountsRight DEF WithinCeilings, AccountingExact
<1>10. PathsAreUsed' /\ OneOwner'
  <2>1. PathsAreUsed'
    <3>1. /\ FilesOf(LiveEntries) \subseteq used /\ FilesOf(LiveTickets) \subseteq used
          /\ Condemned \subseteq used /\ unlinking \subseteq used
      BY PurgeCondemnsTheDead DEF PathsAreUsed
    <3>2. doomed' = {} /\ unlinking' = unlinking \cup Condemned /\ used' = used
      BY <1>1
    <3> QED
      BY <1>5, <1>6, <3>1, <3>2 DEF PathsAreUsed
  <2>2. \A d, b \in DOMAIN entries' : entries'[d].file = entries'[b].file => d = b
    BY <1>3 DEF OneOwner
  <2>3. i \notin FilesOf(tickets) /\ i \notin DOMAIN uploads
    BY <1>2 DEF OneOwner, FilesOf
  <2>4. \A s, r \in DOMAIN tickets' : tickets'[s].file = tickets'[r].file => s = r
    <3> SUFFICES ASSUME NEW s \in DOMAIN tickets', NEW r \in DOMAIN tickets',
                        tickets'[s].file = tickets'[r].file, s # r
                 PROVE  FALSE
      OBVIOUS
    <3>1. \A q \in DOMAIN LiveTickets : tickets'[q].file # i
      BY <1>4, <2>3 DEF FilesOf
    <3>2. tickets'[t].file = i
      BY <1>4
    <3>3. s \in DOMAIN LiveTickets /\ r \in DOMAIN LiveTickets
      BY <1>4, <3>1, <3>2
    <3> QED
      BY <1>4, <3>3 DEF OneOwner
  <2>5. DOMAIN uploads' \subseteq DOMAIN uploads /\ DOMAIN uploads' = DOMAIN LiveUploads
    BY <1>1, PurgeKeepsTheLive
  <2>6. doomed' \cup unlinking' = unlinking \cup Condemned
    BY <1>1
  <2>7. /\ DOMAIN uploads \cap FilesOf(entries) = {}
        /\ DOMAIN uploads \cap FilesOf(tickets) = {}
        /\ FilesOf(entries) \cap FilesOf(tickets) = {}
    BY DEF OneOwner
  <2>8. (DOMAIN uploads' \cup FilesOf(entries') \cup FilesOf(tickets'))
            \cap (doomed' \cup unlinking') = {}
    BY <1>5, <1>6, <2>5, <2>6, PurgeCondemnsTheDead
  <2>9. /\ DOMAIN uploads' \cap FilesOf(entries') = {}
        /\ DOMAIN uploads' \cap FilesOf(tickets') = {}
        /\ FilesOf(entries') \cap FilesOf(tickets') = {}
    BY <1>5, <1>6, <2>3, <2>5, <2>7, PurgeCondemnsTheDead
  <2> QED
    BY <2>1, <2>2, <2>4, <2>8, <2>9 DEF OneOwner
<1>11. EntriesAreFiled'
  <2> SUFFICES ASSUME NEW d \in DOMAIN entries'
               PROVE  /\ filed[entries[d].file]
                            = [code |-> d, expires_at |-> entries[d].expires_at, boot |-> boot]
                      /\ granted'[entries[d].file] = 0
    BY <1>1, <1>3 DEF EntriesAreFiled
  <2>1. d \in DOMAIN entries /\ entries[d].file \in Ids
    BY <1>3 DEF TypeOK
  <2>2. entries[d].file # i
    BY <1>2, <1>3, <2>1 DEF OneOwner
  <2> QED
    BY <1>7, <2>1, <2>2 DEF EntriesAreFiled
<1>12. filed[i] # NotFiled
  <2>1. filed[i] = [code |-> c, expires_at |-> entries[c].expires_at, boot |-> boot]
    BY <1>2 DEF EntriesAreFiled
  <2> QED
    BY <2>1, FilingIsSomething
<1>13. FiledAreFinished' /\ UnfiledIsUngranted'
  BY <1>1, <1>7, <1>12, PurgeKeepsTheLive DEF FiledAreFinished, UnfiledIsUngranted
<1>14. CodeWorksUntilDeadline'
  <2> SUFFICES ASSUME NEW j \in Ids, filed[j] # NotFiled, granted'[j] = 0,
                      now < filed[j].expires_at, filed[j].boot = boot
               PROVE  filed[j].code \in DOMAIN entries' /\ entries'[filed[j].code].file = j
    BY <1>1 DEF CodeWorksUntilDeadline
  <2>1. j # i /\ granted[j] = 0
    BY SMTT(30), <1>2, <1>7 DEF TypeOK
  <2>2. PICK d \in DOMAIN entries : d = filed[j].code /\ entries[d].file = j
    BY <2>1 DEF CodeWorksUntilDeadline
  <2>3. filed[j] = [code |-> d, expires_at |-> entries[d].expires_at, boot |-> boot]
    BY <2>2 DEF EntriesAreFiled
  <2>4. entries[d].expires_at = filed[j].expires_at
    BY <2>3
  <2>5. d \in DOMAIN LiveEntries /\ d # c
    BY <2>1, <2>2, <2>4, PurgeKeepsTheLive
  <2> QED
    BY <1>3, <2>2, <2>5
<1> QED
  BY <1>8, <1>9, <1>10, <1>11, <1>13, <1>14

\* A file delivered whole: the ticket ends, its bytes go back and its path is claimed.
LEMMA CompleteKeepsMaps ==
    ASSUME MapsInv, NEW t \in DOMAIN tickets, Complete(t)
    PROVE  MapsInv'
<1> USE Limits DEF MapsInv
<1> DEFINE i == tickets[t].file
<1>1. /\ tickets' = Without(tickets, {t})
      /\ reserved_bytes' = reserved_bytes - Declared[i]
      /\ unlinking' = unlinking \cup {i}
      /\ UNCHANGED <<now, prepared, uploads, entries, doomed, disk, writers,
                     used, filed, granted, boot>>
  BY DEF Complete, Released, history
<1>2. /\ DOMAIN tickets' = DOMAIN tickets \ {t}
      /\ \A s \in DOMAIN tickets' : tickets'[s] = tickets[s]
      /\ i \in Ids
  BY <1>1 DEF Without, TypeOK
<1>3. FilesOf(tickets') \subseteq FilesOf(tickets) \ {i} /\ i \in FilesOf(tickets)
  BY <1>2 DEF FilesOf, OneOwner
<1>4. /\ Held(uploads', entries', tickets') = Held(uploads, entries, tickets) - Declared[i]
      /\ Held(uploads', entries', tickets') \in Nat
      /\ Cardinality(DOMAIN tickets') = Cardinality(DOMAIN tickets) - 1
      /\ Cardinality(DOMAIN uploads) \in Nat /\ Cardinality(DOMAIN entries) \in Nat
      /\ Cardinality(DOMAIN tickets) \in Nat
  <2>1. /\ DOMAIN uploads \subseteq Ids
        /\ DOMAIN entries \subseteq Codes /\ \A c \in DOMAIN entries : entries[c].file \in Ids
        /\ DOMAIN tickets \subseteq Tickets /\ \A s \in DOMAIN tickets : tickets[s].file \in Ids
    BY DEF TypeOK
  <2>2. DOMAIN tickets' \subseteq Tickets /\ \A s \in DOMAIN tickets' : tickets'[s].file \in Ids
    BY <1>2, <2>1
  <2>3. Total(FileWeights(tickets')) = Total(FileWeights(tickets)) - Declared[i]
    BY <1>1, <2>1, FileDropped
  <2>4. /\ Total(UploadWeights(uploads)) \in Nat /\ IsFiniteSet(DOMAIN uploads)
        /\ Total(FileWeights(entries)) \in Nat /\ IsFiniteSet(DOMAIN entries)
        /\ Total(FileWeights(tickets)) \in Nat /\ IsFiniteSet(DOMAIN tickets)
    BY <2>1, UploadsWeigh, FilesWeigh
  <2>5. Total(FileWeights(tickets')) \in Nat
    BY <2>2, FilesWeigh
  <2>6. /\ Held(uploads', entries', tickets') = Total(UploadWeights(uploads))
              + Total(FileWeights(entries)) + Total(FileWeights(tickets'))
        /\ Held(uploads, entries, tickets) = Total(UploadWeights(uploads))
              + Total(FileWeights(entries)) + Total(FileWeights(tickets))
    BY <1>1, HeldIsThreeTotals
  <2>7. Declared[i] \in Nat
    BY <1>2
  <2>8. Cardinality(DOMAIN tickets') = Cardinality(DOMAIN tickets) - 1
    BY <1>2, <2>4, FS_RemoveElement
  <2>9. /\ Cardinality(DOMAIN uploads) \in Nat /\ Cardinality(DOMAIN entries) \in Nat
        /\ Cardinality(DOMAIN tickets) \in Nat
    BY <2>4, FS_CardinalityType
  <2> QED
    BY ONLY <2>3, <2>4, <2>5, <2>6, <2>7, <2>8, <2>9
<1>5. TypeOK'
  <2>1. tickets' \in [DOMAIN tickets' -> Ticket] /\ DOMAIN tickets' \subseteq Tickets
    BY <1>1 DEF TypeOK, Without, Ticket
  <2>2. reserved_bytes' \in Nat
    BY <1>1, <1>4 DEF WithinCeilings, AccountingExact
  <2> QED
    BY <1>1, <1>2, <2>1, <2>2 DEF TypeOK, Ticket
<1>6. WithinCeilings'
  <2>1. Declared[i] \in Nat /\ Held(uploads, entries, tickets) \in Nat
    BY <1>2 DEF WithinCeilings, AccountingExact, TypeOK
  <2> QED
    BY <1>1, <1>4, <2>1 DEF WithinCeilings, AccountingExact
<1>7. PathsAreUsed' /\ OneOwner'
  <2>1. \A s, r \in DOMAIN tickets' : tickets'[s].file = tickets'[r].file => s = r
    BY <1>2 DEF OneOwner
  <2>2. /\ i \notin DOMAIN uploads /\ i \notin FilesOf(entries) /\ i \in used
        /\ FilesOf(entries') = FilesOf(entries)
    BY <1>1, <1>3 DEF PathsAreUsed, OneOwner
  <2>3. PathsAreUsed'
    BY <1>1, <1>3, <2>2 DEF PathsAreUsed
  <2>4. /\ uploads' = uploads /\ entries' = entries /\ doomed' = doomed
        /\ unlinking' = unlinking \cup {i} /\ OneOwner
    BY <1>1
  <2>5. i \notin DOMAIN uploads' \cup FilesOf(entries') \cup FilesOf(tickets')
    BY <1>3, <2>2, <2>4
  <2>6. (DOMAIN uploads' \cup FilesOf(entries') \cup FilesOf(tickets'))
            \cap (doomed' \cup unlinking') = {}
    BY <1>3, <2>2, <2>4, <2>5 DEF OneOwner
  <2> HIDE DEF MapsInv
  <2> QED
    BY <1>3, <2>1, <2>2, <2>3, <2>4, <2>6 DEF OneOwner
<1>8. EntriesAreFiled' /\ FiledAreFinished' /\ UnfiledIsUngranted' /\ CodeWorksUntilDeadline'
  BY <1>1 DEF EntriesAreFiled, FiledAreFinished, UnfiledIsUngranted, CodeWorksUntilDeadline
<1> QED
  BY <1>5, <1>6, <1>7, <1>8

\* A crash forgets all three maps at once; what was filed before it promises nothing.
LEMMA CrashKeepsMaps == MapsInv /\ Crash => MapsInv'
<1> SUFFICES ASSUME MapsInv, Crash PROVE MapsInv'
  OBVIOUS
<1> USE Limits DEF MapsInv, Crash
<1>1. DOMAIN uploads' = {} /\ DOMAIN entries' = {} /\ DOMAIN tickets' = {}
  OBVIOUS
<1>2. FilesOf(entries') = {} /\ FilesOf(tickets') = {}
  BY <1>1 DEF FilesOf
<1>3. Held(uploads', entries', tickets') = 0
  BY <1>1, TotalEmpty DEF Held
<1>4. TypeOK'
  <2>1. boot' \in 0 .. MaxRestarts
    BY DEF TypeOK
  <2>2. writers' \in [Writers -> {Idle}]
    OBVIOUS
  <2>3. /\ uploads' \in [DOMAIN uploads' -> Upload]
        /\ entries' \in [DOMAIN entries' -> Entry]
        /\ tickets' \in [DOMAIN tickets' -> Ticket]
    OBVIOUS
  <2>4. doomed' = {} /\ unlinking' = {} /\ reserved_bytes' = 0 /\ prepared' = FALSE
    OBVIOUS
  <2>5. UNCHANGED <<now, disk, used, filed, granted>> /\ TypeOK
    OBVIOUS
  <2> HIDE DEF MapsInv, Crash
  <2> QED
    BY <1>1, <2>1, <2>2, <2>3, <2>4, <2>5 DEF TypeOK, Upload, Entry, Ticket
<1>5. WithinCeilings'
  BY <1>1, <1>3, FS_EmptySet DEF WithinCeilings, AccountingExact
<1>6. OneOwner' /\ PathsAreUsed'
  BY <1>1, <1>2 DEF OneOwner, PathsAreUsed
<1>7. EntriesAreFiled' /\ FiledAreFinished' /\ UnfiledIsUngranted'
  BY <1>1 DEF EntriesAreFiled, FiledAreFinished, UnfiledIsUngranted, TypeOK
<1>8. CodeWorksUntilDeadline'
  <2>1. boot \in Nat /\ boot' = boot + 1 /\ filed' = filed
    BY DEF TypeOK
  <2>2. \A j \in Ids : filed[j] # NotFiled => filed[j].boot \in Nat /\ filed[j].boot <= boot
    BY DEF TypeOK, FiledAreFinished
  <2> QED
    BY <2>1, <2>2 DEF CodeWorksUntilDeadline
<1> QED
  BY <1>4, <1>5, <1>6, <1>7, <1>8

--------------------------------------------------------------------------------
PieceOnDisk == [index : Nat, len : Nat]
Busy == [pc : {"waiting", "appending", "appended"}, file : Ids, index : Nat, len : Lengths]

\* The clock reads a number.
LEMMA ClockIsANumber == TypeOK => now \in Nat /\ now \in Int
BY DEF TypeOK

\* A thread in write_chunk carries what it was called with.
LEMMA WriterFields ==
    ASSUME TypeOK, NEW w \in Writers, writers[w].pc \in {"waiting", "appending", "appended"}
    PROVE  /\ writers[w] \in Busy
           /\ writers[w].file \in Ids /\ writers[w].index \in Nat
           /\ writers[w].len \in Lengths /\ writers[w].len \in Nat
<1>1. writers[w] \in {Idle} \cup Busy
  BY DEF TypeOK, Busy
<1>2. writers[w] # Idle
  BY DEF Idle
<1> QED
  BY <1>1, <1>2, Limits DEF Busy

\* What an append leaves in the file is again a sequence of pieces.
LEMMA AppendTyped ==
    ASSUME TypeOK, NEW i \in Ids, NEW p \in PieceOnDisk
    PROVE  /\ OnDisk(i) \in Seq(PieceOnDisk)
           /\ Append(OnDisk(i), p) \in Seq(PieceOnDisk)
<1>1. OnDisk(i) \in Seq(PieceOnDisk)
  BY DEF OnDisk, TypeOK, PieceOnDisk
<1> QED
  BY <1>1

\* A file replaced on the volume, and files removed from it.
LEMMA DiskTyped ==
    ASSUME TypeOK, NEW i \in Ids, NEW pieces \in Seq(PieceOnDisk), NEW keys
    PROVE  /\ With(disk, i, pieces) \in [DOMAIN With(disk, i, pieces) -> Seq(PieceOnDisk)]
           /\ DOMAIN With(disk, i, pieces) \subseteq Ids
           /\ Only(disk, keys) \in [DOMAIN Only(disk, keys) -> Seq(PieceOnDisk)]
           /\ DOMAIN Only(disk, keys) \subseteq Ids
           /\ Without(disk, keys) \in [DOMAIN Without(disk, keys) -> Seq(PieceOnDisk)]
           /\ DOMAIN Without(disk, keys) \subseteq Ids
BY DEF TypeOK, With, Only, Without, PieceOnDisk

\* Time passes.
LEMMA TickKeepsMaps == MapsInv /\ Tick => MapsInv'
<1> SUFFICES ASSUME MapsInv, Tick PROVE MapsInv'
  OBVIOUS
<1>1. now \in Int /\ TypeOK
  BY ClockIsANumber DEF MapsInv
<1>2. now' \in 0 .. Horizon
  BY <1>1, Limits DEF TypeOK, Tick
<1>3. UNCHANGED <<prepared, memory, queues, disk, writers, history>>
  BY DEF Tick
<1>4. TypeOK'
  BY <1>1, <1>2, <1>3 DEF TypeOK, memory, queues, history
<1> QED
  BY <1>1, <1>4, NothingMoves DEF Tick, memory, queues, history

\* The volume, and a writer's place, are not in the maps.
LEMMA DiskStepKeepsMaps ==
    ASSUME MapsInv, TypeOK', UNCHANGED <<now, memory, doomed, history>>,
           unlinking' \subseteq unlinking
    PROVE  MapsInv'
<1>1. now <= now'
  BY ClockIsANumber DEF MapsInv
<1> QED
  BY <1>1, NothingMoves DEF memory

\* Startup wipes the volume.
LEMMA PrepareKeepsMaps == MapsInv /\ Prepare => MapsInv'
<1> SUFFICES ASSUME MapsInv, Prepare PROVE MapsInv'
  OBVIOUS
<1>1. disk' \in [DOMAIN disk' -> Seq(PieceOnDisk)] /\ DOMAIN disk' \subseteq Ids
  <2>1. CASE disk' = Leftovers
    BY <2>1 DEF Leftovers
  <2>2. ASSUME NEW kept \in SUBSET DOMAIN disk, disk' = Only(disk, kept)
        PROVE  disk' \in [DOMAIN disk' -> Seq(PieceOnDisk)] /\ DOMAIN disk' \subseteq Ids
    BY <2>2 DEF MapsInv, TypeOK, Only, PieceOnDisk
  <2> QED
    BY <2>1, <2>2 DEF Prepare
<1>2. prepared' = TRUE /\ UNCHANGED <<now, memory, queues, writers, history>> /\ TypeOK
  BY DEF Prepare, MapsInv
<1>3. TypeOK'
  BY <1>1, <1>2 DEF TypeOK, memory, queues, history, PieceOnDisk
<1> QED
  BY <1>2, <1>3, DiskStepKeepsMaps DEF queues

\* An unlink removes a file or raises; no map hears of it.
LEMMA UnlinkKeepsMaps ==
    ASSUME MapsInv, NEW p \in Ids, Unlink(p) \/ UnlinkRaises(p)
    PROVE  MapsInv'
<1>1. /\ UNCHANGED <<now, prepared, memory, doomed, writers, history>>
      /\ unlinking' = unlinking \ {p} /\ TypeOK
      /\ disk' = disk \/ disk' = Without(disk, {p})
  BY DEF Unlink, UnlinkRaises, MapsInv
<1>2. disk' \in [DOMAIN disk' -> Seq(PieceOnDisk)] /\ DOMAIN disk' \subseteq Ids
  BY <1>1 DEF TypeOK, Without, PieceOnDisk
<1>3. TypeOK'
  BY <1>1, <1>2 DEF TypeOK, memory, history, PieceOnDisk
<1> QED
  BY <1>1, <1>3, DiskStepKeepsMaps

\* A purge leaves maps of the same types, and a smaller counter.
LEMMA PurgeTyped ==
    ASSUME MapsInv, now' = now, uploads' = LiveUploads, entries' = LiveEntries,
           tickets' \in [DOMAIN tickets' -> Ticket], DOMAIN tickets' \subseteq Tickets,
           reserved_bytes' = reserved_bytes - FreedBytes,
           doomed' \cup unlinking' \subseteq Condemned \cup unlinking,
           UNCHANGED <<prepared, disk, writers, history>>
    PROVE  TypeOK'
<1> USE DEF MapsInv
<1>1. /\ LiveUploads \in [DOMAIN LiveUploads -> Upload] /\ DOMAIN LiveUploads \subseteq used
      /\ LiveEntries \in [DOMAIN LiveEntries -> Entry] /\ DOMAIN LiveEntries \subseteq Codes
  BY PurgeKeepsTheLive
<1>2. reserved_bytes' \in Nat
  BY PurgeCountsRight
<1>3. doomed' \subseteq Ids /\ unlinking' \subseteq Ids
  BY PurgeCondemnsTheDead DEF TypeOK
<1> HIDE DEF MapsInv
<1>4. TypeOK
  BY DEF MapsInv
<1> QED
  BY <1>1, <1>2, <1>3, <1>4 DEF TypeOK, history, Upload, Entry, Ticket

\* Sweeps, refusals and a take that found no free ticket: the purge and no more.
LEMMA PurgeKeepsMaps ==
    ASSUME MapsInv, PurgeOnly, UNCHANGED <<now, prepared, disk, writers, history>>,
           doomed' \cup unlinking' \subseteq Condemned \cup unlinking
    PROVE  MapsInv'
<1>1. /\ uploads' = LiveUploads /\ entries' = LiveEntries /\ tickets' = LiveTickets
      /\ reserved_bytes' = reserved_bytes - FreedBytes
  BY DEF PurgeOnly
<1>2. tickets' \in [DOMAIN tickets' -> Ticket] /\ DOMAIN tickets' \subseteq Tickets
  BY <1>1, PurgeKeepsTheLive DEF MapsInv
<1>3. TypeOK'
  BY <1>1, <1>2, PurgeTyped
<1> QED
  BY <1>1, <1>3, OnlyThePurgeMoves

\* checkout purges, and pushes a ticket's deadline.
LEMMA CheckoutKeepsMaps ==
    ASSUME MapsInv, NEW t \in DOMAIN tickets, Checkout(t)
    PROVE  MapsInv'
<1>1. /\ t \in DOMAIN LiveTickets
      /\ tickets' = [LiveTickets EXCEPT ![t].idle_until = now + TicketIdle]
      /\ uploads' = LiveUploads /\ entries' = LiveEntries
      /\ reserved_bytes' = reserved_bytes - FreedBytes
      /\ doomed' \cup unlinking' \subseteq Condemned \cup unlinking
      /\ UNCHANGED <<now, prepared, disk, writers, history>>
  BY DEF Checkout, Renewed, Drain
<1>2. /\ LiveTickets \in [DOMAIN LiveTickets -> Ticket] /\ DOMAIN LiveTickets \subseteq Tickets
      /\ now + TicketIdle \in Nat
  BY PurgeKeepsTheLive, Limits DEF MapsInv, TypeOK
<1>3. /\ DOMAIN tickets' = DOMAIN LiveTickets
      /\ tickets' \in [DOMAIN tickets' -> Ticket]
      /\ \A s \in DOMAIN LiveTickets : tickets'[s].file = LiveTickets[s].file
  BY <1>1, <1>2 DEF Ticket
<1>4. TypeOK'
  BY <1>1, <1>2, <1>3, PurgeTyped
<1> QED
  BY <1>1, <1>3, <1>4, OnlyThePurgeMoves

\* A stream renews its ticket, or reports what went out.
LEMMA TicketStepKeepsMaps ==
    ASSUME MapsInv, NEW t \in DOMAIN tickets,
           \/ Touch(t)
           \/ \E last \in Nat : \E first \in Nat : Delivered(t, first, last)
    PROVE  MapsInv'
<1>1. /\ UNCHANGED <<now, prepared, uploads, entries, reserved_bytes, queues, disk, writers, history>>
      /\ \/ tickets' = [tickets EXCEPT ![t].idle_until = now + TicketIdle]
         \/ \E n \in Nat : tickets' = [tickets EXCEPT ![t].delivered = n]
  <2>1. CASE Touch(t)
    BY <2>1 DEF Touch, Renewed
  <2>2. ASSUME NEW last \in Nat, NEW first \in Nat, Delivered(t, first, last)
        PROVE  <1>1
    <3>1. Covered(t, first, last) \in Nat
      BY DEF Covered, MapsInv, TypeOK
    <3> QED
      BY <2>2, <3>1 DEF Delivered
  <2> QED
    BY <2>1, <2>2
<1>2. /\ tickets \in [DOMAIN tickets -> Ticket] /\ DOMAIN tickets \subseteq Tickets
      /\ now + TicketIdle \in Nat /\ now \in Int /\ TypeOK
  <2>1. TypeOK
    BY DEF MapsInv
  <2>2. tickets \in [DOMAIN tickets -> Ticket] /\ DOMAIN tickets \subseteq Tickets
    BY <2>1 DEF TypeOK, Ticket
  <2> QED
    BY <2>1, <2>2, ClockIsANumber, Limits
<1>3. /\ DOMAIN tickets' = DOMAIN tickets
      /\ tickets' \in [DOMAIN tickets' -> Ticket]
      /\ \A s \in DOMAIN tickets : tickets'[s].file = tickets[s].file
  BY <1>1, <1>2 DEF Ticket
<1>4. TypeOK'
  BY <1>1, <1>2, <1>3 DEF TypeOK, queues, history, Ticket
<1> QED
  BY <1>1, <1>2, <1>3, <1>4, NothingMoves DEF queues

\* An upload is touched, or a chunk is counted.
LEMMA UploadStepKeepsMaps ==
    ASSUME MapsInv, NEW i \in DOMAIN uploads, NEW u \in Upload,
           uploads' = [uploads EXCEPT ![i] = u],
           writers' \in [Writers -> {Idle} \cup Busy],
           UNCHANGED <<now, prepared, entries, tickets, reserved_bytes, queues, disk, history>>
    PROVE  MapsInv'
<1>1. TypeOK /\ now \in Int
  BY ClockIsANumber DEF MapsInv
<1>2. DOMAIN uploads' = DOMAIN uploads /\ uploads' \in [DOMAIN uploads' -> Upload]
  BY <1>1 DEF TypeOK, Upload
<1>3. TypeOK'
  BY <1>1, <1>2 DEF TypeOK, queues, history, Upload, Busy
<1> QED
  BY <1>1, <1>2, <1>3, NothingMoves DEF queues

\* touch_upload pushes an upload's deadline.
LEMMA TouchUploadKeepsMaps ==
    ASSUME MapsInv, NEW i \in Ids, TouchUpload(i)
    PROVE  MapsInv'
<1> DEFINE u == [uploads[i] EXCEPT !.touched_at = now]
<1>1. uploads[i] \in Upload /\ now \in Nat /\ writers \in [Writers -> {Idle} \cup Busy]
  BY DEF TouchUpload, MapsInv, TypeOK, Upload, Busy
<1>2. u \in Upload
  BY <1>1 DEF Upload
<1>3. uploads' = [uploads EXCEPT ![i] = u] /\ i \in DOMAIN uploads
  BY DEF TouchUpload
<1> QED
  BY <1>1, <1>2, <1>3, UploadStepKeepsMaps DEF TouchUpload

\* No step of write_chunk moves a file from one map to another.
LEMMA WriterStepKeepsMaps ==
    ASSUME MapsInv, NEW w \in Writers, WriterStep(w)
    PROVE  MapsInv'
<1> DEFINE i == writers[w].file
<1>1. TypeOK /\ writers \in [Writers -> {Idle} \cup Busy] /\ now \in Nat
      /\ disk \in [DOMAIN disk -> Seq(PieceOnDisk)] /\ DOMAIN disk \subseteq Ids
  BY SMTT(30) DEF MapsInv, TypeOK, Busy, PieceOnDisk
<1>2. ASSUME disk' \in [DOMAIN disk' -> Seq(PieceOnDisk)], DOMAIN disk' \subseteq Ids,
             writers' \in [Writers -> {Idle} \cup Busy],
             UNCHANGED <<now, prepared, memory, queues, history>>
      PROVE  MapsInv'
  <2>1. TypeOK'
    BY <1>1, <1>2 DEF TypeOK, memory, queues, history, Busy, PieceOnDisk
  <2> QED
    BY <1>2, <2>1, DiskStepKeepsMaps DEF queues
<1>3. [writers EXCEPT ![w] = Idle] \in [Writers -> {Idle} \cup Busy]
  BY <1>1
<1>4. CASE WriteEnter(w)
  <2>1. writers[w] \in Busy
    BY <1>1, <1>4, WriterFields DEF WriteEnter, AtLock
  <2>2. writers' \in [Writers -> {Idle} \cup Busy]
    <3>1. [writers[w] EXCEPT !.pc = "appending"] \in Busy
      BY <2>1 DEF Busy
    <3> QED
      BY <1>1, <1>4, <3>1 DEF WriteEnter
  <2>3. i \in DOMAIN uploads /\ uploads' = [uploads EXCEPT ![i] = [uploads[i] EXCEPT !.touched_at = now]]
    BY <1>4 DEF WriteEnter, ChunkFits
  <2>4. [uploads[i] EXCEPT !.touched_at = now] \in Upload
    <3>1. uploads[i] \in Upload
      BY <1>1, <2>3 DEF TypeOK, Upload
    <3> QED
      BY <1>1, <3>1 DEF Upload
  <2> QED
    BY <1>4, <2>2, <2>3, <2>4, UploadStepKeepsMaps DEF WriteEnter
<1>5. CASE WriteRefused(w)
  BY <1>1, <1>2, <1>3, <1>5 DEF WriteRefused
<1>6. CASE AppendChunk(w)
  <2>1. writers[w] \in Busy /\ i \in Ids /\ Piece(w, writers[w].len) \in PieceOnDisk
    BY <1>1, <1>6, WriterFields DEF AppendChunk, Piece, PieceOnDisk
  <2>2. [writers[w] EXCEPT !.pc = "appended"] \in Busy
    BY <2>1 DEF Busy
  <2>3. writers' \in [Writers -> {Idle} \cup Busy]
    BY <1>1, <1>6, <2>2 DEF AppendChunk
  <2>4. disk' \in [DOMAIN disk' -> Seq(PieceOnDisk)] /\ DOMAIN disk' \subseteq Ids
    BY <1>1, <1>6, <2>1, AppendTyped, DiskTyped DEF AppendChunk
  <2> QED
    BY <1>2, <1>6, <2>3, <2>4 DEF AppendChunk
<1>7. CASE AppendRaises(w)
  <2>1. i \in Ids /\ writers[w].index \in Nat /\ writers[w].len \in Nat
    BY <1>1, <1>7, WriterFields DEF AppendRaises
  <2>2. CASE disk' = disk
    BY <1>1, <1>2, <1>3, <1>7, <2>2 DEF AppendRaises
  <2>3. CASE disk' = With(disk, i, OnDisk(i))
    <3>1. OnDisk(i) \in Seq(PieceOnDisk)
      BY <1>1, <2>1 DEF OnDisk
    <3>2. disk' \in [DOMAIN disk' -> Seq(PieceOnDisk)] /\ DOMAIN disk' \subseteq Ids
      BY <1>1, <2>1, <2>3, <3>1, DiskTyped
    <3> QED
      BY <1>2, <1>3, <1>7, <3>2 DEF AppendRaises
  <2>4. ASSUME NEW len \in 1 .. (writers[w].len - 1),
               disk' = With(disk, i, Append(OnDisk(i), Piece(w, len)))
        PROVE  MapsInv'
    <3>1. Piece(w, len) \in PieceOnDisk
      BY <2>1 DEF Piece, PieceOnDisk
    <3>2. disk' \in [DOMAIN disk' -> Seq(PieceOnDisk)] /\ DOMAIN disk' \subseteq Ids
      BY <1>1, <2>1, <2>4, <3>1, AppendTyped, DiskTyped
    <3> QED
      BY <1>2, <1>3, <1>7, <3>2 DEF AppendRaises
  <2> QED
    BY <1>7, <2>2, <2>3, <2>4 DEF AppendRaises
<1>8. CASE WriteRecord(w)
  <2>1. writers[w].len \in Nat
    BY <1>1, <1>8, WriterFields DEF WriteRecord
  <2> DEFINE u == [received |-> uploads[i].received + writers[w].len,
                   next |-> uploads[i].next + 1, touched_at |-> now]
  <2>2. i \in DOMAIN uploads /\ uploads' = [uploads EXCEPT ![i] = u]
        /\ writers' \in [Writers -> {Idle} \cup Busy]
    BY <1>3, <1>8 DEF WriteRecord
  <2>3. u \in Upload
    BY <1>1, <2>1, <2>2 DEF TypeOK, Upload
  <2> QED
    BY <1>8, <2>2, <2>3, UploadStepKeepsMaps DEF WriteRecord
<1>9. CASE WriteSwept(w)
  <2>1. disk' = disk \/ disk' = Without(disk, {i})
    BY <1>9 DEF WriteSwept, AfterSwept
  <2>2. disk' \in [DOMAIN disk' -> Seq(PieceOnDisk)] /\ DOMAIN disk' \subseteq Ids
    BY <1>1, <2>1 DEF Without
  <2> QED
    BY <1>2, <1>3, <1>9, <2>2 DEF WriteSwept
<1> QED
  BY <1>4, <1>5, <1>6, <1>7, <1>8, <1>9 DEF WriterStep

\* A writer looks its upload up.
LEMMA WriteStartKeepsMaps ==
    ASSUME MapsInv, NEW w \in Writers, NEW i \in Ids, NEW len \in Lengths,
           NEW index \in Nat, WriteStart(w, i, index, len)
    PROVE  MapsInv'
<1>1. [pc |-> "waiting", file |-> i, index |-> index, len |-> len] \in Busy
  BY DEF Busy
<1>2. TypeOK /\ writers \in [Writers -> {Idle} \cup Busy]
  BY DEF MapsInv, TypeOK, Busy
<1>3. writers' \in [Writers -> {Idle} \cup Busy]
  BY <1>1, <1>2 DEF WriteStart
<1>4. TypeOK'
  BY <1>2, <1>3 DEF WriteStart, TypeOK, memory, queues, history, Busy
<1> QED
  BY <1>4, DiskStepKeepsMaps DEF WriteStart, queues

--------------------------------------------------------------------------------
\* Every step preserves the invariant of the maps, whatever the disk does.
LEMMA NextKeepsMaps == MapsInv /\ [Next]_vars => MapsInv'
<1> SUFFICES ASSUME MapsInv, [Next]_vars PROVE MapsInv'
  OBVIOUS
<1>1. CASE Housekeeping
  <2>1. CASE Sweep
    <3>1. doomed' \cup unlinking' \subseteq Condemned \cup unlinking
      BY <2>1 DEF Sweep, Drain
    <3> QED
      BY <2>1, <3>1, PurgeKeepsMaps DEF Sweep
  <2> QED
    BY <1>1, <2>1, TickKeepsMaps, CrashKeepsMaps, PrepareKeepsMaps, UnlinkKeepsMaps DEF Housekeeping
<1>2. CASE UploadCalls
  <2>1. ASSUME NEW i \in Ids, Begin(i) PROVE MapsInv'
    <3>1. disk' \in [DOMAIN disk' -> Seq([index : Nat, len : Nat])] /\ DOMAIN disk' \subseteq Ids
      <4>1. TypeOK /\ <<>> \in Seq(PieceOnDisk) /\ disk' = With(disk, i, <<>>)
        BY <2>1 DEF Begin, MapsInv
      <4> QED
        BY <4>1, DiskTyped DEF PieceOnDisk
    <3> QED
      BY <2>1, <3>1, BeginKeepsMaps DEF Begin
  <2>2. ASSUME NEW i \in Ids, BeginTouchRaises(i) PROVE MapsInv'
    <3>1. disk' \in [DOMAIN disk' -> Seq([index : Nat, len : Nat])] /\ DOMAIN disk' \subseteq Ids
      BY <2>2 DEF BeginTouchRaises, MapsInv, TypeOK
    <3> QED
      BY <2>2, <3>1, BeginKeepsMaps DEF BeginTouchRaises
  <2>3. ASSUME NEW i \in Ids, BeginRefused(i) PROVE MapsInv'
    <3>1. doomed' \cup unlinking' \subseteq Condemned \cup unlinking
      BY <2>3 DEF BeginRefused
    <3> QED
      BY <2>3, <3>1, PurgeKeepsMaps DEF BeginRefused
  <2>4. ASSUME NEW w \in Writers, NEW i \in Ids, NEW len \in Lengths,
               NEW index \in 0 .. Chunks[i], WriteStart(w, i, index, len)
        PROVE  MapsInv'
    <3>1. index \in Nat
      BY Limits
    <3> QED
      BY <2>4, <3>1, WriteStartKeepsMaps
  <2> QED
    BY <1>2, <2>1, <2>2, <2>3, <2>4, TouchUploadKeepsMaps, AbandonKeepsMaps, FinishKeepsMaps
       DEF UploadCalls
<1>3. CASE DownloadCalls
  <2>1. ASSUME NEW c \in Codes, TakeWithoutTicket(c) PROVE MapsInv'
    <3>1. doomed' \cup unlinking' \subseteq Condemned \cup unlinking
      BY <2>1 DEF TakeWithoutTicket
    <3> QED
      BY <2>1, <3>1, PurgeKeepsMaps DEF TakeWithoutTicket
  <2>2. ASSUME NEW t \in DOMAIN tickets, NEW last \in 0 .. Declared[tickets[t].file] - 1,
               NEW first \in 0 .. last, Delivered(t, first, last)
        PROVE  MapsInv'
    <3>1. last \in Nat /\ first \in Nat
      BY Limits DEF MapsInv, TypeOK
    <3> QED
      BY <2>2, <3>1, TicketStepKeepsMaps
  <2> QED
    BY <1>3, <2>1, <2>2, TakeKeepsMaps, CheckoutKeepsMaps, TicketStepKeepsMaps,
       CompleteKeepsMaps DEF DownloadCalls
<1>4. CASE UNCHANGED vars
  <2>1. TypeOK'
    BY <1>4 DEF MapsInv, TypeOK, vars, memory, queues, history
  <2> QED
    BY <1>4, <2>1, DiskStepKeepsMaps DEF vars, queues
<1> QED
  BY <1>1, <1>2, <1>3, <1>4, WriterStepKeepsMaps DEF Next

\* In every reachable state the invariant of the maps holds: this is what the theorems
\* about the code a sender was handed, the ceilings and the owners rest on.
THEOREM MapsInvariance == Spec => []MapsInv
<1> QED
  BY InitMaps, NextKeepsMaps, PTL DEF Spec

\* The store's state keeps its types.
THEOREM TypeCorrect == Spec => []TypeOK
<1>1. MapsInv => TypeOK
  BY DEF MapsInv
<1> QED
  BY <1>1, MapsInvariance, PTL

\* The bytes of a file answer to one upload, one throw or one ticket, and never to
\* anything once they are condemned: no unlink hits a file that is still served.
THEOREM EveryFileHasOneOwner == Spec => []OneOwner
<1>1. MapsInv => OneOwner
  BY DEF MapsInv
<1> QED
  BY <1>1, MapsInvariance, PTL

\* The counter begin trusts is exact, and both ceilings hold over the three stages,
\* whatever sweeps, refusals, failed touches and restarts come between.
THEOREM CeilingsHold == Spec => []WithinCeilings
<1>1. MapsInv => WithinCeilings
  BY DEF MapsInv
<1> QED
  BY <1>1, MapsInvariance, PTL

\* The code finish returned leads to its file until its deadline, a take or a restart.
THEOREM CodeIsGoodUntilDeadline == Spec => []CodeWorksUntilDeadline
<1>1. MapsInv => CodeWorksUntilDeadline
  BY DEF MapsInv
<1> QED
  BY <1>1, MapsInvariance, PTL

--------------------------------------------------------------------------------
(* The bytes, while the disk does as it is told.                             *)

Lens(pieces) == [k \in DOMAIN pieces |-> pieces[k].len]

\* What lies in a file can be weighed, and one more piece adds its length.
LEMMA BytesAreANumber ==
    ASSUME NEW s \in Seq(PieceOnDisk)
    PROVE  Weighs(Lens(s)) /\ BytesIn(s) \in Nat
<1>1. DOMAIN s = 1 .. Len(s) /\ Len(s) \in Nat /\ \A k \in DOMAIN s : s[k].len \in Nat
  <2>1. DOMAIN s = 1 .. Len(s) /\ Len(s) \in Nat /\ \A k \in DOMAIN s : s[k] \in PieceOnDisk
    OBVIOUS
  <2>2. \A p \in PieceOnDisk : p.len \in Nat
    BY DEF PieceOnDisk
  <2> QED
    BY <2>1, <2>2
<1>2. IsFiniteSet(DOMAIN s)
  BY <1>1, FS_Interval
<1>3. Weighs(Lens(s))
  BY <1>1, <1>2 DEF Weighs, Lens
<1> QED
  BY <1>3, TotalType DEF BytesIn, Lens

\* An empty file has no bytes.
LEMMA BytesOfNothing == BytesIn(<<>>) = 0
<1>1. DOMAIN [k \in DOMAIN <<>> |-> <<>>[k].len] = {}
  OBVIOUS
<1> QED
  BY <1>1, TotalEmpty DEF BytesIn

\* An appended piece adds its bytes to the file and leaves the rest as it was.
LEMMA BytesAppended ==
    ASSUME NEW s \in Seq(PieceOnDisk), NEW p \in PieceOnDisk
    PROVE  /\ BytesIn(Append(s, p)) = BytesIn(s) + p.len
           /\ Len(Append(s, p)) = Len(s) + 1
           /\ Append(s, p)[Len(s) + 1] = p
           /\ \A k \in DOMAIN s : Append(s, p)[k] = s[k]
           /\ DOMAIN Append(s, p) = DOMAIN s \cup {Len(s) + 1}
<1> DEFINE n == Len(s) + 1
<1>1. /\ Len(s) \in Nat /\ DOMAIN s = 1 .. Len(s) /\ DOMAIN Append(s, p) = 1 .. n
      /\ \A k \in 1 .. Len(s) : Append(s, p)[k] = s[k]
      /\ Append(s, p)[n] = p /\ Len(Append(s, p)) = n
  OBVIOUS
<1>2. DOMAIN Append(s, p) = DOMAIN s \cup {n} /\ n \notin DOMAIN s
  BY <1>1
<1>3. Lens(Append(s, p)) = With(Lens(s), n, p.len)
  BY <1>1, <1>2 DEF Lens, With
<1>4. p.len \in Nat
  BY DEF PieceOnDisk
<1>5. Total(Lens(Append(s, p))) = Total(Lens(s)) + p.len
  BY <1>2, <1>3, <1>4, BytesAreANumber, TotalAdd DEF Lens
<1> QED
  BY <1>1, <1>2, <1>5 DEF BytesIn, Lens

\* What is on disk of a file is a sequence of pieces, and weighs a number.
LEMMA OnDiskTyped ==
    ASSUME MapsInv, NEW i
    PROVE  OnDisk(i) \in Seq(PieceOnDisk) /\ BytesIn(OnDisk(i)) \in Nat
<1>1. OnDisk(i) \in Seq(PieceOnDisk)
  BY DEF OnDisk, MapsInv, TypeOK, PieceOnDisk
<1> QED
  BY <1>1, BytesAreANumber

\* At start there is no upload and no file.
LEMMA InitBytes == Init => BytesInv
<1> SUFFICES ASSUME Init PROVE BytesInv
  OBVIOUS
<1> USE DEF Init
<1>1. DOMAIN uploads = {} /\ DOMAIN disk = {} /\ \A w \in Writers : writers[w] = Idle /\ ~Inside(w)
  BY DEF Idle, Inside
<1>2. FilesOf(entries) = {} /\ FilesOf(tickets) = {}
  BY DEF FilesOf
<1>3. EmptyUntilPrepared /\ WritersAreApart /\ WritersAreExpected /\ CountedIsOnDisk
  BY <1>1 DEF EmptyUntilPrepared, WritersAreApart, WritersAreExpected, CountedIsOnDisk
<1>4. RoomForChunks
  BY <1>1 DEF RoomForChunks, Inside
<1>5. DeclaredIsCeiling /\ ServedFilesAreWhole
  BY <1>1, <1>2 DEF DeclaredIsCeiling, ServedFilesAreWhole
<1> QED
  BY <1>3, <1>4, <1>5 DEF BytesInv

\* A step that leaves the volume and the writers inside alone, drops uploads perhaps,
\* and serves no file it did not serve before.
LEMMA BytesStay ==
    ASSUME BytesInv, EmptyUntilPrepared',
           DOMAIN uploads' \subseteq DOMAIN uploads,
           \A i \in DOMAIN uploads' : /\ uploads'[i].next = uploads[i].next
                                      /\ uploads'[i].received = uploads[i].received,
           FilesOf(entries') \cup FilesOf(tickets') \subseteq FilesOf(entries) \cup FilesOf(tickets),
           used \subseteq used', disk' = disk,
           \A w \in Writers : writers'[w] = writers[w] \/ (~Inside(w) /\ ~Inside(w)')
    PROVE  BytesInv'
<1> USE DEF BytesInv
<1>1. \A w \in Writers : Inside(w)' = Inside(w) /\ (Inside(w) => writers'[w] = writers[w])
  BY DEF Inside
<1>2. \A w \in Writers : /\ (writers'[w].pc = "appended") = (writers[w].pc = "appended")
                         /\ (writers'[w].pc = "appending") = (writers[w].pc = "appending")
  BY DEF Inside
<1>3. WritersAreApart'
  BY <1>1 DEF WritersAreApart
<1>4. WritersAreExpected'
  BY <1>1 DEF WritersAreExpected, ChunkFits
<1>5. CountedIsOnDisk'
  BY <1>1, <1>2 DEF CountedIsOnDisk, Counted, Inside
<1>6. RoomForChunks'
  BY <1>1, <1>2 DEF RoomForChunks, Inside, OnDisk
<1>7. DeclaredIsCeiling'
  BY DEF DeclaredIsCeiling
<1>8. ServedFilesAreWhole'
  BY <1>1 DEF ServedFilesAreWhole, Whole, Writing
<1> QED
  BY <1>3, <1>4, <1>5, <1>6, <1>7, <1>8

\* begin creates an empty file under a fresh name.
LEMMA BeginKeepsBytes ==
    ASSUME MapsInv, BytesInv, NEW i \in Ids, Begin(i)
    PROVE  BytesInv'
<1> USE DEF BytesInv
<1> DEFINE u == [received |-> 0, next |-> 0, touched_at |-> now]
<1>1. /\ prepared' /\ i \notin used /\ used' = used \cup {i}
      /\ uploads' = With(LiveUploads, i, u)
      /\ entries' = LiveEntries /\ tickets' = LiveTickets
      /\ disk' = With(disk, i, <<>>) /\ writers' = writers
  BY DEF Begin, BeginCore, Registered, Serving
<1>2. /\ DOMAIN uploads' = DOMAIN LiveUploads \cup {i} /\ uploads'[i] = u
      /\ \A j \in DOMAIN LiveUploads \ {i} : j \in DOMAIN uploads /\ uploads'[j] = uploads[j]
  BY <1>1, PurgeKeepsTheLive DEF With, MapsInv
<1>3. /\ DOMAIN disk' = DOMAIN disk \cup {i} /\ disk'[i] = <<>>
      /\ \A j \in DOMAIN disk \ {i} : disk'[j] = disk[j]
  BY <1>1 DEF With
<1>4. \A w \in Writers : Inside(w)' = Inside(w) /\ (Inside(w) => writers[w].file # i)
  BY <1>1 DEF Inside, WritersAreExpected
<1>5. FilesOf(entries') \cup FilesOf(tickets') \subseteq FilesOf(entries) \cup FilesOf(tickets)
      /\ i \notin FilesOf(entries) \cup FilesOf(tickets)
  BY <1>1, PurgeCondemnsTheDead DEF PathsAreUsed, MapsInv
<1>6. EmptyUntilPrepared' /\ WritersAreApart'
  BY <1>1, <1>4 DEF EmptyUntilPrepared, WritersAreApart
<1>7. WritersAreExpected'
  BY <1>1, <1>2, <1>4, <1>5 DEF WritersAreExpected, ChunkFits
<1>8. CountedIsOnDisk'
  <2> SUFFICES ASSUME NEW j \in DOMAIN uploads' PROVE Counted(j)'
    BY DEF CountedIsOnDisk
  <2>1. CASE j = i
    <3>1. ~ \E w \in Writers : writers'[w].pc = "appended" /\ writers'[w].file = i
      BY <1>1, <1>4 DEF Inside
    <3> QED
      BY <1>2, <1>3, <2>1, <3>1, BytesOfNothing DEF Counted
  <2>2. CASE j # i
    BY <1>1, <1>2, <1>3, <2>2 DEF CountedIsOnDisk, Counted
  <2> QED
    BY <2>1, <2>2
<1>9. RoomForChunks'
  BY <1>1, <1>3, <1>4 DEF RoomForChunks, OnDisk, Inside
<1>10. DeclaredIsCeiling'
  BY <1>3, BytesOfNothing, Limits DEF DeclaredIsCeiling
<1>11. ServedFilesAreWhole'
  <2>1. \A j \in FilesOf(entries') \cup FilesOf(tickets') : j # i /\ Whole(j) /\ ~Writing(j)
    BY <1>5 DEF ServedFilesAreWhole
  <2>2. \A j : Whole(j) /\ j # i => Whole(j)'
    BY <1>3 DEF Whole
  <2>3. \A j : Writing(j)' = Writing(j)
    BY <1>1, <1>4 DEF Writing
  <2> QED
    BY <2>1, <2>2, <2>3 DEF ServedFilesAreWhole
<1> QED
  BY <1>6, <1>7, <1>8, <1>9, <1>10, <1>11

\* What a writer inside an upload excludes: the upload is not complete.
LEMMA NobodyInsideTheComplete ==
    ASSUME MapsInv, BytesInv, NEW i \in DOMAIN uploads, AllHere(i)
    PROVE  ~Writing(i)
<1> SUFFICES ASSUME NEW w \in Writers, Inside(w), writers[w].file = i PROVE FALSE
  BY DEF Writing
<1>1. uploads[i].next < Chunks[i] /\ uploads[i].next = Chunks[i]
  BY DEF BytesInv, WritersAreExpected, ChunkFits, AllHere
<1>2. Chunks[i] \in Nat
  BY Limits DEF MapsInv, TypeOK
<1> QED
  BY <1>1, <1>2

\* finish files an upload all of which is here.
LEMMA FinishKeepsBytes ==
    ASSUME MapsInv, BytesInv, NEW i \in Ids, NEW reserved, Finish(i, reserved)
    PROVE  BytesInv'
<1> USE DEF BytesInv
<1>1. PICK c \in Codes :
        /\ prepared' /\ i \in DOMAIN uploads /\ AllHere(i)
        /\ uploads' = Without(uploads, {i})
        /\ entries' = With(entries, c, [file |-> i, expires_at |-> now + Ttl])
        /\ tickets' = tickets /\ disk' = disk /\ writers' = writers /\ used' = used
  BY DEF Finish, FreeCodes, Pool, Codes, Serving
<1>2. FilesOf(entries') \subseteq FilesOf(entries) \cup {i}
  BY <1>1 DEF FilesOf, With
<1>3. ~Writing(i)
  BY <1>1, NobodyInsideTheComplete
<1>4. \A w \in Writers : Inside(w)' = Inside(w) /\ (Inside(w) => writers[w].file # i)
  BY <1>1, <1>3 DEF Inside, Writing
<1>5. /\ DOMAIN uploads' = DOMAIN uploads \ {i}
      /\ \A j \in DOMAIN uploads \ {i} : uploads'[j] = uploads[j]
  BY <1>1 DEF Without
<1>6. EmptyUntilPrepared' /\ WritersAreApart'
  BY <1>1, <1>4 DEF EmptyUntilPrepared, WritersAreApart
<1>7. WritersAreExpected'
  BY <1>1, <1>2, <1>4, <1>5 DEF WritersAreExpected, ChunkFits
<1>8. CountedIsOnDisk'
  <2>1. \A j \in DOMAIN uploads \ {i} : Counted(j)' = Counted(j)
    BY <1>1, <1>5 DEF Counted
  <2> QED
    BY <1>5, <2>1 DEF CountedIsOnDisk
<1>9. RoomForChunks'
  BY <1>1 DEF RoomForChunks, OnDisk
<1>10. DeclaredIsCeiling'
  BY <1>1 DEF DeclaredIsCeiling
<1>11. Whole(i)
  <2>1. ~ \E w \in Writers : writers[w].pc = "appended" /\ writers[w].file = i
    BY <1>4 DEF Inside
  <2>2. /\ i \in DOMAIN disk /\ \A k \in DOMAIN disk[i] : disk[i][k].index = k - 1
        /\ Len(disk[i]) = uploads[i].next /\ BytesIn(disk[i]) = uploads[i].received
    BY <1>1, <2>1 DEF CountedIsOnDisk, Counted
  <2>3. DOMAIN disk[i] = 1 .. Len(disk[i])
    BY <2>2 DEF MapsInv, TypeOK
  <2> QED
    BY <1>1, <2>2, <2>3 DEF Whole, AllHere
<1>12. ServedFilesAreWhole'
  <2>1. \A j : Whole(j)' = Whole(j) /\ Writing(j)' = Writing(j)
    BY <1>1, <1>4 DEF Whole, Writing
  <2> QED
    BY <1>1, <1>2, <1>3, <1>11, <2>1 DEF ServedFilesAreWhole
<1> QED
  BY <1>6, <1>7, <1>8, <1>9, <1>10, <1>12

\* A writer that enters finds nobody else in, and a chunk that fits.
LEMMA WriteEnterKeepsBytes ==
    ASSUME MapsInv, BytesInv, NEW w \in Writers, WriteEnter(w)
    PROVE  BytesInv'
<1> USE DEF BytesInv
<1> DEFINE i == writers[w].file
<1>1. /\ writers[w].pc = "waiting" /\ ~Writing(i) /\ ChunkFits(i, writers[w].index, writers[w].len)
      /\ uploads' = [uploads EXCEPT ![i].touched_at = now]
      /\ writers' = [writers EXCEPT ![w].pc = "appending"]
      /\ UNCHANGED <<prepared, entries, tickets, unlinking, disk, used>>
  BY DEF WriteEnter, AtLock, WriteLockFree, queues, history
<1>2. writers[w] \in Busy /\ writers \in [Writers -> {Idle} \cup Busy]
  BY <1>1, WriterFields DEF MapsInv, TypeOK, Busy
<1>3. /\ writers'[w].pc = "appending" /\ writers'[w].file = i
      /\ writers'[w].index = writers[w].index /\ writers'[w].len = writers[w].len
      /\ \A v \in Writers \ {w} : writers'[v] = writers[v]
  BY <1>1, <1>2 DEF Busy
<1>4. /\ ~Inside(w) /\ Inside(w)'
      /\ \A v \in Writers \ {w} : Inside(v)' = Inside(v)
      /\ \A v \in Writers : Inside(v) => writers[v].file # i
  BY <1>1, <1>3 DEF Inside, Writing
<1>5. /\ i \in DOMAIN uploads /\ DOMAIN uploads' = DOMAIN uploads
      /\ \A j \in DOMAIN uploads : /\ uploads'[j].next = uploads[j].next
                                   /\ uploads'[j].received = uploads[j].received
  <2>1. i \in DOMAIN uploads /\ DOMAIN uploads' = DOMAIN uploads
    BY <1>1 DEF ChunkFits
  <2>2. uploads \in [DOMAIN uploads -> Upload]
    BY DEF MapsInv, TypeOK, Upload
  <2> QED
    BY <1>1, <2>1, <2>2 DEF Upload
<1>6. i \in used \ (FilesOf(entries) \cup FilesOf(tickets))
  BY <1>5 DEF MapsInv, OneOwner, TypeOK
<1>7. EmptyUntilPrepared'
  BY <1>1, <1>5 DEF EmptyUntilPrepared
<1>8. WritersAreApart'
  BY <1>3, <1>4 DEF WritersAreApart
<1>9. WritersAreExpected'
  BY <1>1, <1>3, <1>4, <1>5, <1>6 DEF WritersAreExpected, ChunkFits
<1>10. \A v \in Writers : (writers'[v].pc = "appended") = (writers[v].pc = "appended")
  BY <1>1, <1>3
<1>11. CountedIsOnDisk'
  BY <1>1, <1>3, <1>5, <1>10 DEF CountedIsOnDisk, Counted
<1>12. RoomForChunks'
  <2>1. BytesIn(OnDisk(i)) + writers[w].len <= Declared[i]
    <3>1. ~ \E v \in Writers : writers[v].pc = "appended" /\ writers[v].file = i
      BY <1>4 DEF Inside
    <3>2. i \in DOMAIN disk /\ BytesIn(disk[i]) = uploads[i].received
      BY <1>5, <3>1 DEF CountedIsOnDisk, Counted
    <3> QED
      BY <1>1, <3>2 DEF OnDisk, ChunkFits
  <2> QED
    BY <1>1, <1>3, <2>1 DEF RoomForChunks, OnDisk
<1>13. DeclaredIsCeiling'
  BY <1>1 DEF DeclaredIsCeiling
<1>14. ServedFilesAreWhole'
  BY <1>1, <1>3, <1>4, <1>6 DEF ServedFilesAreWhole, Whole, Writing
<1> QED
  BY <1>7, <1>8, <1>9, <1>11, <1>12, <1>13, <1>14

\* Whoever else is inside is in another upload, and so is whatever is served.
LEMMA AppenderIsAlone ==
    ASSUME MapsInv, BytesInv, NEW w \in Writers, Inside(w)
    PROVE  LET i == writers[w].file
           IN  /\ i \in Ids
               /\ i \in used \ (FilesOf(entries) \cup FilesOf(tickets))
               /\ \A v \in Writers \ {w} : Inside(v) => writers[v].file # i
BY WriterFields DEF Inside, BytesInv, WritersAreApart, WritersAreExpected, MapsInv

\* The append puts the expected chunk where there is room for it.
LEMMA AppendKeepsBytes ==
    ASSUME MapsInv, BytesInv, NEW w \in Writers, AppendChunk(w)
    PROVE  BytesInv'
<1> USE DEF BytesInv
<1> DEFINE i == writers[w].file
           p == Piece(w, writers[w].len)
<1>1. /\ writers[w].pc = "appending" /\ Inside(w)
      /\ disk' = With(disk, i, Append(OnDisk(i), p))
      /\ writers' = [writers EXCEPT ![w].pc = "appended"]
      /\ UNCHANGED <<prepared, uploads, entries, tickets, unlinking, used>>
  BY DEF AppendChunk, Inside, memory, queues, history
<1>2. writers[w] \in Busy /\ writers \in [Writers -> {Idle} \cup Busy]
  BY <1>1, WriterFields DEF MapsInv, TypeOK, Busy
<1>3. /\ writers'[w].pc = "appended" /\ writers'[w].file = i
      /\ writers'[w].index = writers[w].index /\ writers'[w].len = writers[w].len
      /\ \A v \in Writers \ {w} : writers'[v] = writers[v]
  BY <1>1, <1>2 DEF Busy
<1>4. /\ i \in Ids /\ i \in used \ (FilesOf(entries) \cup FilesOf(tickets))
      /\ \A v \in Writers \ {w} : Inside(v) => writers[v].file # i
      /\ \A v \in Writers : Inside(v)' = Inside(v)
  BY <1>1, <1>3, AppenderIsAlone DEF Inside
<1>5. /\ p = [index |-> writers[w].index, len |-> writers[w].len] /\ p \in PieceOnDisk
      /\ p.index = writers[w].index /\ p.len = writers[w].len
  BY <1>1, WriterFields DEF Piece, PieceOnDisk, MapsInv
<1>6. /\ DOMAIN disk' = DOMAIN disk \cup {i} /\ disk'[i] = Append(OnDisk(i), p)
      /\ \A j \in DOMAIN disk \ {i} : disk'[j] = disk[j]
  BY <1>1 DEF With
<1>7. /\ BytesIn(disk'[i]) = BytesIn(OnDisk(i)) + writers[w].len
      /\ Len(disk'[i]) = Len(OnDisk(i)) + 1
      /\ disk'[i][Len(OnDisk(i)) + 1] = p
      /\ \A k \in DOMAIN OnDisk(i) : disk'[i][k] = OnDisk(i)[k]
      /\ DOMAIN disk'[i] = DOMAIN OnDisk(i) \cup {Len(OnDisk(i)) + 1}
      /\ OnDisk(i) \in Seq(PieceOnDisk)
  BY <1>5, <1>6, OnDiskTyped, BytesAppended
<1>8. EmptyUntilPrepared'
  BY <1>1, <1>3 DEF EmptyUntilPrepared, Idle
<1>9. WritersAreApart'
  BY <1>3, <1>4 DEF WritersAreApart
<1>10. WritersAreExpected'
  BY <1>1, <1>3, <1>4 DEF WritersAreExpected, ChunkFits
<1>11. CountedIsOnDisk'
  <2> SUFFICES ASSUME NEW j \in DOMAIN uploads PROVE Counted(j)'
    BY <1>1 DEF CountedIsOnDisk
  <2>1. CASE j = i
    <3>1. ~ \E v \in Writers : writers[v].pc = "appended" /\ writers[v].file = i
      BY <1>1, <1>4 DEF Inside
    <3>2. /\ i \in DOMAIN disk /\ OnDisk(i) = disk[i]
          /\ \A k \in DOMAIN OnDisk(i) : OnDisk(i)[k].index = k - 1
          /\ Len(OnDisk(i)) = uploads[i].next
          /\ BytesIn(OnDisk(i)) = uploads[i].received
      BY <2>1, <3>1 DEF CountedIsOnDisk, Counted, OnDisk
    <3>3. writers[w].index = uploads[i].next
      BY <1>1, <2>1 DEF WritersAreExpected, ChunkFits
    <3>4. \A v \in Writers : writers'[v].pc = "appended" /\ writers'[v].file = i => v = w
      BY <1>3, <1>4 DEF Inside
    <3>5. Len(OnDisk(i)) \in Nat
      BY <1>7
    <3>6. \A k \in DOMAIN disk'[i] : disk'[i][k].index = k - 1
      BY SMTT(30), <1>5, <1>7, <3>2, <3>3, <3>5
    <3>7. uploads' = uploads /\ i \in DOMAIN disk'
      BY <1>1, <1>6
    <3> QED
      BY <1>3, <1>7, <2>1, <3>2, <3>4, <3>6, <3>7 DEF Counted
  <2>2. CASE j # i
    <3>1. Counted(j) /\ uploads' = uploads /\ j \in DOMAIN disk
      BY <1>1 DEF CountedIsOnDisk, Counted
    <3>2. \A v \in Writers : (writers'[v].pc = "appended" /\ writers'[v].file = j) =
                             (writers[v].pc = "appended" /\ writers[v].file = j)
      BY <1>3, <2>2
    <3>3. \A v \in Writers : writers'[v].len = writers[v].len
      BY <1>3
    <3> QED
      BY <1>6, <2>2, <3>1, <3>2, <3>3 DEF Counted
  <2> QED
    BY <2>1, <2>2
<1>12. RoomForChunks'
  <2> SUFFICES ASSUME NEW v \in Writers, writers'[v].pc = "appending"
               PROVE  BytesIn(OnDisk(writers[v].file)') + writers[v].len <= Declared[writers[v].file]
                      /\ writers'[v] = writers[v]
    BY DEF RoomForChunks, OnDisk
  <2>1. writers'[v] = writers[v] /\ writers[v].file # i
    BY <1>3, <1>4 DEF Inside
  <2> QED
    BY <1>6, <2>1 DEF RoomForChunks, OnDisk
<1>13. DeclaredIsCeiling'
  <2>1. BytesIn(disk'[i]) <= Declared[i]
    BY <1>1, <1>7 DEF RoomForChunks
  <2> QED
    BY <1>6, <2>1 DEF DeclaredIsCeiling
<1>14. ServedFilesAreWhole'
  <2>1. \A j : j # i => Whole(j)' = Whole(j)
    BY <1>6 DEF Whole
  <2>2. \A j : Writing(j)' = Writing(j)
    BY <1>3, <1>4 DEF Writing
  <2> QED
    BY <1>1, <1>4, <2>1, <2>2 DEF ServedFilesAreWhole
<1> QED
  BY <1>8, <1>9, <1>10, <1>11, <1>12, <1>13, <1>14

\* The chunk is counted, and the next one expected.
LEMMA RecordKeepsBytes ==
    ASSUME MapsInv, BytesInv, NEW w \in Writers, WriteRecord(w)
    PROVE  BytesInv'
<1> USE DEF BytesInv
<1> DEFINE i == writers[w].file
           u == [received |-> uploads[i].received + writers[w].len,
                 next |-> uploads[i].next + 1, touched_at |-> now]
<1>1. /\ writers[w].pc = "appended" /\ Inside(w) /\ i \in DOMAIN uploads
      /\ uploads' = [uploads EXCEPT ![i] = u]
      /\ writers' = [writers EXCEPT ![w] = Idle]
      /\ UNCHANGED <<prepared, entries, tickets, unlinking, disk, used>>
  BY DEF WriteRecord, Inside, queues, history
<1>2. /\ writers'[w] = Idle /\ ~Inside(w)'
      /\ \A v \in Writers \ {w} : writers'[v] = writers[v] /\ Inside(v)' = Inside(v)
  BY <1>1 DEF MapsInv, TypeOK, Inside, Idle
<1>3. /\ DOMAIN uploads' = DOMAIN uploads /\ uploads'[i] = u
      /\ \A j \in DOMAIN uploads \ {i} : uploads'[j] = uploads[j]
  BY <1>1
<1>4. /\ i \in used \ (FilesOf(entries) \cup FilesOf(tickets))
      /\ \A v \in Writers \ {w} : Inside(v) => writers[v].file # i
  BY <1>1, AppenderIsAlone
<1>5. EmptyUntilPrepared' /\ WritersAreApart'
  BY <1>1, <1>2, <1>3 DEF EmptyUntilPrepared, WritersAreApart
<1>6. WritersAreExpected'
  BY <1>1, <1>2, <1>3, <1>4 DEF WritersAreExpected, ChunkFits
<1>7. CountedIsOnDisk'
  <2> SUFFICES ASSUME NEW j \in DOMAIN uploads PROVE Counted(j)'
    BY <1>3 DEF CountedIsOnDisk
  <2>1. CASE j = i
    <3>1. /\ i \in DOMAIN disk /\ \A k \in DOMAIN disk[i] : disk[i][k].index = k - 1
          /\ Len(disk[i]) = uploads[i].next + 1
          /\ BytesIn(disk[i]) = uploads[i].received + writers[w].len
      BY <1>1 DEF CountedIsOnDisk, Counted
    <3>2. ~ \E v \in Writers : writers'[v].pc = "appended" /\ writers'[v].file = i
      BY <1>2, <1>4 DEF Inside, Idle
    <3> QED
      BY <1>1, <1>3, <2>1, <3>1, <3>2 DEF Counted
  <2>2. CASE j # i
    <3>1. Counted(j) /\ uploads'[j] = uploads[j] /\ disk' = disk
      BY <1>1, <1>3, <2>2 DEF CountedIsOnDisk
    <3>2. \A v \in Writers : (writers'[v].pc = "appended" /\ writers'[v].file = j) =
                             (writers[v].pc = "appended" /\ writers[v].file = j)
      BY <1>2, <2>2 DEF Idle
    <3>3. \A v \in Writers : writers'[v].pc = "appended" => writers'[v].len = writers[v].len
      BY <1>2 DEF Idle
    <3> QED
      BY <3>1, <3>2, <3>3 DEF Counted
  <2> QED
    BY <2>1, <2>2
<1>8. RoomForChunks'
  BY <1>1, <1>2 DEF RoomForChunks, OnDisk, Idle
<1>9. DeclaredIsCeiling'
  BY <1>1 DEF DeclaredIsCeiling
<1>10. ServedFilesAreWhole'
  BY <1>1, <1>2 DEF ServedFilesAreWhole, Whole, Writing
<1> QED
  BY <1>5, <1>6, <1>7, <1>8, <1>9, <1>10

\* Files that nobody has an upload or a code for leave the volume; a writer may end.
LEMMA RemovalKeepsBytes ==
    ASSUME MapsInv, BytesInv, NEW gone,
           gone \cap (DOMAIN uploads \cup FilesOf(entries) \cup FilesOf(tickets)) = {},
           disk' = Without(disk, gone), EmptyUntilPrepared',
           UNCHANGED <<uploads, entries, tickets, used>>,
           \A w \in Writers :
               \/ writers'[w] = writers[w]
               \/ writers'[w] = Idle /\ writers[w].file \notin DOMAIN uploads
    PROVE  BytesInv'
<1> USE DEF BytesInv
<1>1. \A w \in Writers : Inside(w)' => Inside(w) /\ writers'[w] = writers[w]
  BY DEF Inside, Idle
<1>2. /\ DOMAIN disk' = DOMAIN disk \ gone
      /\ \A j \in DOMAIN disk \ gone : disk'[j] = disk[j]
  BY DEF Without
<1>3. WritersAreApart' /\ WritersAreExpected'
  BY <1>1 DEF WritersAreApart, WritersAreExpected, ChunkFits
<1>4. CountedIsOnDisk'
  <2> SUFFICES ASSUME NEW j \in DOMAIN uploads PROVE Counted(j)'
    BY DEF CountedIsOnDisk
  <2>1. Counted(j) /\ j \notin gone /\ j \in DOMAIN disk
    BY DEF CountedIsOnDisk, Counted
  <2>2. \A w \in Writers : (writers'[w].pc = "appended" /\ writers'[w].file = j) =
                           (writers[w].pc = "appended" /\ writers[w].file = j)
    BY DEF Idle
  <2>3. \A w \in Writers : writers'[w].pc = "appended" => writers'[w].len = writers[w].len
    BY DEF Idle
  <2> QED
    BY <1>2, <2>1, <2>2, <2>3 DEF Counted
<1>5. RoomForChunks'
  <2> SUFFICES ASSUME NEW w \in Writers, writers'[w].pc = "appending"
               PROVE  BytesIn(OnDisk(writers[w].file)') + writers[w].len <= Declared[writers[w].file]
                      /\ writers'[w] = writers[w]
    BY DEF RoomForChunks, OnDisk
  <2> DEFINE i == writers[w].file
  <2>1. writers'[w] = writers[w] /\ writers[w].pc = "appending"
    BY DEF Idle
  <2>2. BytesIn(OnDisk(i)) + writers[w].len <= Declared[i]
    BY <2>1 DEF RoomForChunks
  <2>3. OnDisk(i)' = OnDisk(i) \/ OnDisk(i)' = <<>>
    BY <1>2, <2>1 DEF OnDisk
  <2>4. /\ i \in Ids /\ writers[w].len \in Nat /\ Declared[i] \in Nat
        /\ BytesIn(OnDisk(i)) \in Nat
    BY <2>1, WriterFields, Limits, OnDiskTyped DEF MapsInv
  <2>5. BytesIn(<<>>) + writers[w].len <= Declared[i]
    BY <2>2, <2>4, BytesOfNothing
  <2> QED
    BY <2>1, <2>2, <2>3, <2>5
<1>6. DeclaredIsCeiling'
  BY <1>2 DEF DeclaredIsCeiling
<1>7. ServedFilesAreWhole'
  <2>1. \A j : j \notin gone /\ Whole(j) => Whole(j)'
    BY <1>2 DEF Whole
  <2>2. \A j : ~Writing(j) => ~Writing(j)'
    BY <1>1 DEF Writing
  <2> QED
    BY <2>1, <2>2 DEF ServedFilesAreWhole
<1> QED
  BY <1>3, <1>4, <1>5, <1>6, <1>7

\* A removal that leaves the writers where they are, or ends one that found its upload
\* swept.
LEMMA SweptKeepsBytes ==
    ASSUME MapsInv, BytesInv, NEW w \in Writers, WriteSwept(w)
    PROVE  BytesInv'
<1> DEFINE i == writers[w].file
<1>1. /\ Inside(w) /\ i \notin DOMAIN uploads /\ writers' = [writers EXCEPT ![w] = Idle]
      /\ disk' = Without(disk, {i}) \/ disk' = disk
      /\ UNCHANGED <<prepared, uploads, entries, tickets, unlinking, used>>
  BY DEF WriteSwept, AfterSwept, Inside, memory, queues, history
<1>2. disk = Without(disk, {})
  BY DEF Without, MapsInv, TypeOK
<1>3. \A v \in Writers : writers'[v] = writers[v] \/ (v = w /\ writers'[v] = Idle)
  BY <1>1
<1>4. i \notin FilesOf(entries) \cup FilesOf(tickets)
  BY <1>1, AppenderIsAlone
<1>5. EmptyUntilPrepared'
  BY <1>1, <1>3 DEF EmptyUntilPrepared, BytesInv
<1>6. CASE disk' = Without(disk, {i})
  <2>1. {i} \cap (DOMAIN uploads \cup FilesOf(entries) \cup FilesOf(tickets)) = {}
    BY <1>1, <1>4
  <2> QED
    BY <1>1, <1>3, <1>5, <1>6, <2>1, RemovalKeepsBytes
<1>7. CASE disk' = disk
  <2>1. disk' = Without(disk, {})
    BY <1>2, <1>7
  <2>2. {} \cap (DOMAIN uploads \cup FilesOf(entries) \cup FilesOf(tickets)) = {}
    OBVIOUS
  <2> QED
    BY <1>1, <1>3, <1>5, <2>1, <2>2, RemovalKeepsBytes
<1> QED
  BY <1>1, <1>6, <1>7

\* An unlink removes a condemned file.
LEMMA UnlinkKeepsBytes ==
    ASSUME MapsInv, BytesInv, NEW p \in Ids, Unlink(p)
    PROVE  BytesInv'
<1>1. /\ p \in unlinking /\ disk' = Without(disk, {p}) /\ unlinking' = unlinking \ {p}
      /\ UNCHANGED <<prepared, uploads, entries, tickets, writers, used>>
  BY DEF Unlink, memory, history
<1>2. {p} \cap (DOMAIN uploads \cup FilesOf(entries) \cup FilesOf(tickets)) = {}
  BY <1>1 DEF MapsInv, OneOwner
<1>3. EmptyUntilPrepared'
  BY <1>1 DEF EmptyUntilPrepared, BytesInv
<1> QED
  BY <1>1, <1>2, <1>3, RemovalKeepsBytes

\* Startup finds nothing in memory that refers to what it wipes.
LEMMA PrepareKeepsBytes == MapsInv /\ BytesInv /\ Prepare => BytesInv'
<1> SUFFICES ASSUME MapsInv, BytesInv, Prepare PROVE BytesInv'
  OBVIOUS
<1>1. /\ ~prepared /\ prepared'
      /\ UNCHANGED <<uploads, entries, tickets, unlinking, writers, used>>
      /\ disk' = <<>> \/ \E kept \in SUBSET DOMAIN disk : disk' = Only(disk, kept)
  BY DEF Prepare, Leftovers, memory, queues, history
<1>2. uploads = <<>> /\ entries = <<>> /\ tickets = <<>>
  BY <1>1 DEF BytesInv, EmptyUntilPrepared
<1>3. DOMAIN uploads = {} /\ FilesOf(entries) = {} /\ FilesOf(tickets) = {}
  BY <1>2 DEF FilesOf
<1>4. PICK gone : disk' = Without(disk, gone)
  <2>1. ASSUME disk' = <<>> PROVE disk' = Without(disk, DOMAIN disk)
    BY <2>1 DEF Without
  <2>2. ASSUME NEW kept \in SUBSET DOMAIN disk, disk' = Only(disk, kept)
        PROVE  disk' = Without(disk, DOMAIN disk \ kept)
    BY <2>2 DEF Without, Only
  <2> QED
    BY <1>1, <2>1, <2>2
<1>5. EmptyUntilPrepared'
  BY <1>1 DEF EmptyUntilPrepared
<1>6. gone \cap (DOMAIN uploads \cup FilesOf(entries) \cup FilesOf(tickets)) = {}
  BY <1>3
<1> QED
  BY <1>1, <1>4, <1>5, <1>6, RemovalKeepsBytes

\* A crash leaves the disk and forgets the rest.
LEMMA CrashKeepsBytes == MapsInv /\ BytesInv /\ Crash => BytesInv'
<1> SUFFICES ASSUME MapsInv, BytesInv, Crash PROVE BytesInv'
  OBVIOUS
<1>1. /\ uploads' = <<>> /\ entries' = <<>> /\ tickets' = <<>> /\ unlinking' = {}
      /\ disk' = disk /\ writers' = [w \in Writers |-> Idle]
  BY DEF Crash
<1>2. DOMAIN uploads' = {} /\ FilesOf(entries') = {} /\ FilesOf(tickets') = {}
  BY <1>1 DEF FilesOf
<1>3. \A w \in Writers : writers'[w] = Idle /\ ~Inside(w)' /\ writers'[w].pc # "appending"
  BY <1>1 DEF Inside, Idle
<1>4. EmptyUntilPrepared' /\ WritersAreApart' /\ WritersAreExpected' /\ CountedIsOnDisk'
  BY <1>1, <1>2, <1>3 DEF EmptyUntilPrepared, WritersAreApart, WritersAreExpected, CountedIsOnDisk
<1>5. RoomForChunks' /\ DeclaredIsCeiling' /\ ServedFilesAreWhole'
  BY <1>1, <1>2, <1>3 DEF BytesInv, RoomForChunks, DeclaredIsCeiling, ServedFilesAreWhole
<1> QED
  BY <1>4, <1>5 DEF BytesInv

\* Calls that purge on their way in, and no more than renew or hand over a ticket.
LEMMA PurgeKeepsBytes ==
    ASSUME MapsInv, BytesInv, prepared', uploads' = LiveUploads,
           FilesOf(entries') \cup FilesOf(tickets') \subseteq FilesOf(entries) \cup FilesOf(tickets),
           disk' = disk, writers' = writers, used' = used
    PROVE  BytesInv'
<1>1. /\ DOMAIN uploads' \subseteq DOMAIN uploads
      /\ \A i \in DOMAIN uploads' : uploads'[i] = uploads[i]
  BY PurgeKeepsTheLive DEF MapsInv
<1>2. EmptyUntilPrepared'
  BY DEF EmptyUntilPrepared
<1> QED
  BY <1>1, <1>2, BytesStay

\* What only purges moves no bytes.
LEMMA PurgeOnlyKeepsBytes ==
    ASSUME MapsInv, BytesInv, prepared', PurgeOnly,
           disk' = disk, writers' = writers, used' = used
    PROVE  BytesInv'
BY PurgeKeepsBytes, PurgeCondemnsTheDead DEF PurgeOnly

\* take moves a file from its code to a ticket.
LEMMA TakeKeepsBytes ==
    ASSUME MapsInv, BytesInv, NEW c \in Codes, Take(c)
    PROVE  BytesInv'
<1>1. PICK t \in Tickets :
        /\ c \in DOMAIN LiveEntries /\ prepared'
        /\ tickets' = With(LiveTickets, t, [file |-> entries[c].file,
                           idle_until |-> now + TicketIdle, delivered |-> 0])
        /\ entries' = Without(LiveEntries, {c}) /\ uploads' = LiveUploads
        /\ disk' = disk /\ writers' = writers /\ used' = used
  BY DEF Take, Popped, Serving
<1>2. FilesOf(tickets') \subseteq FilesOf(LiveTickets) \cup {entries[c].file}
  BY <1>1 DEF With, FilesOf
<1>3. FilesOf(entries') \subseteq FilesOf(LiveEntries)
  BY <1>1 DEF Without, FilesOf
<1>4. entries[c].file \in FilesOf(entries)
  BY <1>1, PurgeKeepsTheLive DEF FilesOf, MapsInv
<1> QED
  BY <1>1, <1>2, <1>3, <1>4, PurgeCondemnsTheDead, PurgeKeepsBytes

\* Steps of a ticket or an upload that reach no byte.
LEMMA TicketStepKeepsBytes ==
    ASSUME MapsInv, BytesInv, NEW t \in DOMAIN tickets,
           \/ Checkout(t) \/ Touch(t) \/ Complete(t)
           \/ \E last, first : Delivered(t, first, last)
    PROVE  BytesInv'
<1> DEFINE Same(ts, us) == DOMAIN ts = DOMAIN us /\ \A s \in DOMAIN us : ts[s].file = us[s].file
<1>1. tickets \in [DOMAIN tickets -> Ticket] /\ LiveTickets \in [DOMAIN LiveTickets -> Ticket]
  BY PurgeKeepsTheLive DEF MapsInv, TypeOK, Ticket
<1>2. CASE Checkout(t)
  <2>1. Same(tickets', LiveTickets)
    BY <1>1, <1>2 DEF Checkout, Renewed, Ticket
  <2>2. FilesOf(tickets') = FilesOf(LiveTickets)
    BY <2>1, SameFilesWeighTheSame
  <2> QED
    BY <1>2, <2>2, PurgeCondemnsTheDead, PurgeKeepsBytes DEF Checkout, Serving, history
<1>3. ASSUME UNCHANGED <<prepared, uploads, entries, unlinking, disk, writers, used>>,
             FilesOf(tickets') \subseteq FilesOf(tickets), prepared
      PROVE  BytesInv'
  <2>1. EmptyUntilPrepared'
    BY <1>3 DEF EmptyUntilPrepared
  <2> QED
    BY <1>3, <2>1, BytesStay
<1>4. CASE Touch(t)
  <2>1. Same(tickets', tickets)
    BY <1>1, <1>4 DEF Touch, Renewed, Ticket
  <2>2. FilesOf(tickets') = FilesOf(tickets)
    BY <2>1, SameFilesWeighTheSame
  <2> QED
    BY <1>4, <2>2, <1>3, BytesStay DEF Touch, Serving, queues, history, EmptyUntilPrepared
<1>5. ASSUME NEW last, NEW first, Delivered(t, first, last) PROVE BytesInv'
  <2>1. Same(tickets', tickets)
    BY <1>1, <1>5 DEF Delivered, Ticket
  <2>2. FilesOf(tickets') = FilesOf(tickets)
    BY <2>1, SameFilesWeighTheSame
  <2> QED
    BY <1>5, <2>2, BytesStay DEF Delivered, queues, history, EmptyUntilPrepared
<1>6. CASE Complete(t)
  <2>1. FilesOf(tickets') \subseteq FilesOf(tickets)
    BY <1>6 DEF Complete, FilesOf, Without
  <2> QED
    BY <1>6, <2>1, BytesStay DEF Complete, history, EmptyUntilPrepared
<1> QED
  BY <1>2, <1>4, <1>5, <1>6

\* touch_upload and abandon touch no bytes.
LEMMA TouchOrAbandonKeepsBytes ==
    ASSUME MapsInv, BytesInv, NEW i \in Ids, TouchUpload(i) \/ Abandon(i)
    PROVE  BytesInv'
<1>1. /\ prepared' /\ UNCHANGED <<entries, tickets, disk, writers, used>>
      /\ uploads' = [uploads EXCEPT ![i].touched_at = now] \/ uploads' = Without(uploads, {i})
      /\ i \in DOMAIN uploads
  BY DEF TouchUpload, Abandon, Serving, history
<1>2. uploads \in [DOMAIN uploads -> Upload]
  BY DEF MapsInv, TypeOK, Upload
<1>3. /\ DOMAIN uploads' \subseteq DOMAIN uploads
      /\ \A j \in DOMAIN uploads' : /\ uploads'[j].next = uploads[j].next
                                    /\ uploads'[j].received = uploads[j].received
  <2>1. CASE uploads' = [uploads EXCEPT ![i].touched_at = now]
    BY <1>1, <1>2, <2>1 DEF Upload
  <2>2. CASE uploads' = Without(uploads, {i})
    BY <2>2 DEF Without
  <2> QED
    BY <1>1, <2>1, <2>2
<1>4. EmptyUntilPrepared'
  BY <1>1 DEF EmptyUntilPrepared
<1> QED
  BY <1>1, <1>3, <1>4, BytesStay

\* A thread comes to wait for an upload's lock, or is refused there.
LEMMA OutsideStepKeepsBytes ==
    ASSUME MapsInv, BytesInv, NEW w \in Writers,
           \/ WriteRefused(w)
           \/ \E i, index, len : WriteStart(w, i, index, len)
    PROVE  BytesInv'
<1>1. /\ UNCHANGED <<prepared, uploads, entries, tickets, unlinking, disk, used>>
      /\ writers[w] = Idle \/ writers[w].pc = "waiting"
      /\ writers \in [Writers -> {Idle} \cup Busy]
  BY DEF WriteRefused, WriteStart, AtLock, memory, queues, history, MapsInv, TypeOK, Busy
<1>2. \A v \in Writers \ {w} : writers'[v] = writers[v]
  BY <1>1 DEF WriteRefused, WriteStart
<1>3. ~Inside(w) /\ ~Inside(w)'
  BY <1>1 DEF WriteRefused, WriteStart, Inside, Idle
<1>4. EmptyUntilPrepared'
  BY <1>1, <1>2 DEF EmptyUntilPrepared, BytesInv, WriteRefused, WriteStart, Serving
<1> QED
  BY <1>1, <1>2, <1>3, <1>4, BytesStay

\* Every step preserves the invariant of the bytes, as long as no append fails.
LEMMA NextKeepsBytes ==
    ASSUME ~DiskFails
    PROVE  MapsInv /\ BytesInv /\ [Next]_vars => BytesInv'
<1> SUFFICES ASSUME MapsInv, BytesInv, [Next]_vars PROVE BytesInv'
  OBVIOUS
<1>1. CASE Housekeeping
  <2>1. CASE Tick \/ \E p \in Ids : UnlinkRaises(p)
    <3>1. EmptyUntilPrepared'
      BY <2>1 DEF Tick, UnlinkRaises, memory, queues, EmptyUntilPrepared, BytesInv
    <3> QED
      BY <2>1, <3>1, BytesStay DEF Tick, UnlinkRaises, memory, history
  <2>2. CASE Sweep
    BY <2>2, PurgeOnlyKeepsBytes DEF Sweep, history
  <2> QED
    BY <1>1, <2>1, <2>2, CrashKeepsBytes, PrepareKeepsBytes, UnlinkKeepsBytes DEF Housekeeping
<1>2. CASE UploadCalls
  <2>1. ASSUME NEW i \in Ids, BeginRefused(i) PROVE BytesInv'
    BY <2>1, PurgeOnlyKeepsBytes DEF BeginRefused, Serving, history
  <2>2. \A i \in Ids : ~BeginTouchRaises(i)
    BY DEF BeginTouchRaises
  <2> QED
    BY <1>2, <2>1, <2>2, BeginKeepsBytes, FinishKeepsBytes, TouchOrAbandonKeepsBytes,
       OutsideStepKeepsBytes DEF UploadCalls
<1>3. CASE DownloadCalls
  <2>1. ASSUME NEW c \in Codes, TakeWithoutTicket(c) PROVE BytesInv'
    BY <2>1, PurgeOnlyKeepsBytes DEF TakeWithoutTicket, Serving, history
  <2> QED
    BY <1>3, <2>1, TakeKeepsBytes, TicketStepKeepsBytes DEF DownloadCalls
<1>4. ASSUME NEW w \in Writers, WriterStep(w) PROVE BytesInv'
  <2>1. ~AppendRaises(w)
    BY DEF AppendRaises
  <2> QED
    BY <1>4, <2>1, WriteEnterKeepsBytes, OutsideStepKeepsBytes, AppendKeepsBytes,
       RecordKeepsBytes, SweptKeepsBytes DEF WriterStep
<1>5. CASE UNCHANGED vars
  <2>1. EmptyUntilPrepared'
    BY <1>5 DEF vars, memory, queues, EmptyUntilPrepared, BytesInv
  <2> QED
    BY <1>5, <2>1, BytesStay DEF vars, memory, history
<1> QED
  BY <1>1, <1>2, <1>3, <1>4, <1>5 DEF Next

\* Both invariants hold together, as long as no append fails.
LEMMA BytesInvariance ==
    ASSUME ~DiskFails
    PROVE  Spec => []BytesInv
<1>1. MapsInv /\ BytesInv /\ [Next]_vars => BytesInv'
  BY NextKeepsBytes
<1> QED
  BY <1>1, InitBytes, MapsInvariance, PTL DEF Spec

\* However many writers race, and whatever is swept, unlinked or lost to a restart
\* meanwhile, a file never has more bytes than its upload declared.  (When a write may
\* fail halfway it can: that is the run FileStoreRetriedChunk.)
THEOREM DeclaredIsNeverExceeded ==
    ASSUME ~DiskFails
    PROVE  Spec => []DeclaredIsCeiling
<1>1. BytesInv => DeclaredIsCeiling
  BY DEF BytesInv
<1> QED
  BY <1>1, BytesInvariance, PTL

\* What a code or a ticket leads to is on disk: every chunk once, in order, exactly the
\* declared bytes, and no writer left that could still add to it.
THEOREM WhatIsServedIsWhole ==
    ASSUME ~DiskFails
    PROVE  Spec => []ServedFilesAreWhole
<1>1. BytesInv => ServedFilesAreWhole
  BY DEF BytesInv
<1> QED
  BY <1>1, BytesInvariance, PTL

--------------------------------------------------------------------------------
(* What becomes of the files nobody has a code for any more.                 *)

Owned == DOMAIN uploads \cup FilesOf(entries) \cup FilesOf(tickets)
Awaiting == doomed \cup unlinking

\* No step forgets a file: one that loses its owner is condemned, one that is unlinked
\* is gone, one that a writer leaves has an owner or is removed by it.
LEMMA NothingIsForgotten ==
    ASSUME NoOrphan, prepared,
           DOMAIN disk' \subseteq DOMAIN disk \cup Owned' \cup {i \in Ids : Writing(i)'},
           Owned \cup Awaiting \subseteq Owned' \cup Awaiting',
           \A i \in DOMAIN disk' : Writing(i) => Writing(i)' \/ i \in Owned'
    PROVE  NoOrphan'
BY DEF NoOrphan, Owned, Awaiting

\* While no writer moves, the same files are being written.
LEMMA WritersWhereTheyWere ==
    ASSUME writers' = writers, NEW i
    PROVE  Writing(i)' = Writing(i)
BY DEF Writing, Inside

\* While the disk does as it is told every step keeps each file's owner, or queues its unlink.
LEMMA NextKeepsTrack ==
    ASSUME ~DiskFails, ~UnlinkFails
    PROVE  MapsInv /\ NoOrphan /\ [Next]_vars => NoOrphan'
<1> SUFFICES ASSUME MapsInv, NoOrphan, [Next]_vars, prepared' PROVE NoOrphan'
  BY DEF NoOrphan
<1>1. CASE Prepare
  <2>1. DOMAIN disk' = {}
    BY <1>1 DEF Prepare, Leftovers
  <2> QED
    BY <2>1 DEF NoOrphan
<1> SUFFICES ASSUME ~Prepare, prepared PROVE NoOrphan'
  <2>1. prepared \/ Prepare
    <3>1. \A w \in Writers : WriterStep(w) => prepared' = prepared
      BY DEF WriterStep, WriteEnter, WriteRefused, AppendChunk, AppendRaises, WriteRecord, WriteSwept
    <3> QED
      BY <3>1 DEF Next, vars, Housekeeping, Tick, Crash, Sweep, Unlink, UnlinkRaises, UploadCalls,
         DownloadCalls, Begin, BeginTouchRaises, BeginCore, BeginRefused, TouchUpload, Abandon, Finish,
         WriteStart, Take, TakeWithoutTicket, Checkout, Touch, Complete, Delivered, Serving
  <2> QED
    BY <1>1, <2>1
\* A purge, with or without the drain, and what may be added next to it.
<1>2. ASSUME DOMAIN LiveUploads \cup FilesOf(LiveEntries) \cup FilesOf(LiveTickets) \subseteq Owned',
             Condemned \cup unlinking \subseteq Awaiting',
             DOMAIN disk' \subseteq DOMAIN disk \cup Owned', writers' = writers
      PROVE  NoOrphan'
  <2>1. Owned \cup Awaiting \subseteq Owned' \cup Awaiting'
    BY <1>2, PurgeCondemnsTheDead DEF Owned, Awaiting, Condemned
  <2>2. \A i : Writing(i)' = Writing(i)
    BY <1>2, WritersWhereTheyWere
  <2> QED
    BY <1>2, <2>1, <2>2, NothingIsForgotten
\* Files may change owner, or lose theirs and be condemned, while nothing is purged.
<1>3. ASSUME Owned \cup Awaiting \subseteq Owned' \cup Awaiting', disk' = disk, writers' = writers
      PROVE  NoOrphan'
  <2>1. \A i : Writing(i)' = Writing(i)
    BY <1>3, WritersWhereTheyWere
  <2> QED
    BY <1>3, <2>1, NothingIsForgotten
<1>4. ASSUME PurgeOnly, Condemned \cup unlinking \subseteq Awaiting', disk' = disk, writers' = writers
      PROVE  NoOrphan'
  BY <1>2, <1>4 DEF PurgeOnly, Owned
<1>5. CASE Tick \/ UNCHANGED vars
  BY <1>3, <1>5 DEF Tick, vars, memory, queues, Owned, Awaiting
<1>6. CASE Sweep
  BY <1>4, <1>6 DEF Sweep, Drain, Awaiting
<1>7. ASSUME NEW p \in Ids, Unlink(p) PROVE NoOrphan'
  <2>1. Owned' = Owned /\ Awaiting \subseteq Awaiting' \cup {p} /\ DOMAIN disk' = DOMAIN disk \ {p}
    BY <1>7 DEF Unlink, Owned, Awaiting, memory, Without
  <2>2. \A i : Writing(i)' = Writing(i)
    BY <1>7, WritersWhereTheyWere DEF Unlink
  <2> QED
    BY <2>1, <2>2 DEF NoOrphan, Owned, Awaiting
<1>8. ASSUME NEW i \in Ids, Begin(i) PROVE NoOrphan'
  <2>1. /\ uploads' = Registered(i) /\ entries' = LiveEntries /\ tickets' = LiveTickets
        /\ unlinking' = unlinking \cup Condemned /\ disk' = With(disk, i, <<>>) /\ writers' = writers
    BY <1>8 DEF Begin, BeginCore, Drain
  <2>2. DOMAIN uploads' = DOMAIN LiveUploads \cup {i} /\ DOMAIN disk' = DOMAIN disk \cup {i}
    BY <2>1 DEF Registered, With
  <2> QED
    BY <1>2, <2>1, <2>2 DEF Owned, Awaiting
<1>9. ASSUME NEW i \in Ids, BeginRefused(i) PROVE NoOrphan'
  BY <1>4, <1>9 DEF BeginRefused, Awaiting
<1>10. ASSUME NEW i \in Ids, TouchUpload(i) PROVE NoOrphan'
  BY <1>3, <1>10 DEF TouchUpload, Owned, Awaiting, queues
<1>11. ASSUME NEW i \in Ids, Abandon(i) PROVE NoOrphan'
  <2>1. Owned \subseteq Owned' \cup {i} /\ Awaiting' = Awaiting \cup {i}
    BY <1>11 DEF Abandon, Owned, Awaiting, Without
  <2> QED
    BY <1>3, <1>11, <2>1 DEF Abandon
<1>12. ASSUME NEW i \in Ids, NEW reserved, Finish(i, reserved) PROVE NoOrphan'
  <2>1. PICK c \in Codes :
          /\ c \notin DOMAIN entries /\ uploads' = Without(uploads, {i}) /\ tickets' = tickets
          /\ entries' = With(entries, c, [file |-> i, expires_at |-> now + Ttl])
          /\ UNCHANGED <<doomed, unlinking, disk, writers>>
    BY <1>12 DEF Finish, FreeCodes, Pool, Codes, queues
  <2>2. FilesOf(entries) \cup {i} \subseteq FilesOf(entries')
    <3>1. /\ \A d \in DOMAIN entries : d \in DOMAIN entries' /\ entries'[d] = entries[d]
          /\ c \in DOMAIN entries' /\ entries'[c].file = i
      BY <2>1 DEF With
    <3> QED
      BY <3>1 DEF FilesOf
  <2>3. DOMAIN uploads \subseteq DOMAIN uploads' \cup {i}
    BY <2>1 DEF Without
  <2>4. Owned \cup Awaiting \subseteq Owned' \cup Awaiting'
    BY <2>1, <2>2, <2>3 DEF Owned, Awaiting
  <2> QED
    BY <1>3, <2>1, <2>4
<1>13. ASSUME NEW c \in Codes, Take(c) PROVE NoOrphan'
  <2>1. PICK t \in Tickets \ DOMAIN LiveTickets :
          /\ c \in DOMAIN LiveEntries
          /\ tickets' = With(LiveTickets, t, [file |-> entries[c].file,
                             idle_until |-> now + TicketIdle, delivered |-> 0])
          /\ entries' = Without(LiveEntries, {c}) /\ uploads' = LiveUploads
          /\ unlinking' = unlinking \cup Condemned /\ disk' = disk /\ writers' = writers
    BY <1>13 DEF Take, Popped, Drain
  <2>2. FilesOf(LiveTickets) \cup {entries[c].file} \subseteq FilesOf(tickets')
    <3>1. /\ \A s \in DOMAIN LiveTickets : s \in DOMAIN tickets' /\ tickets'[s] = LiveTickets[s]
          /\ t \in DOMAIN tickets' /\ tickets'[t].file = entries[c].file
      BY <2>1 DEF With
    <3> QED
      BY <3>1 DEF FilesOf
  <2>3. FilesOf(LiveEntries) \subseteq FilesOf(entries') \cup {entries[c].file}
    <3>1. \A d \in DOMAIN LiveEntries : d = c \/ (d \in DOMAIN entries' /\ entries'[d] = LiveEntries[d])
      BY <2>1 DEF Without
    <3>2. LiveEntries[c].file = entries[c].file
      BY <2>1, PurgeKeepsTheLive DEF MapsInv
    <3> QED
      BY <3>1, <3>2 DEF FilesOf
  <2> QED
    BY <1>2, <2>1, <2>2, <2>3 DEF Owned, Awaiting
<1>14. ASSUME NEW c \in Codes, TakeWithoutTicket(c) PROVE NoOrphan'
  BY <1>4, <1>14 DEF TakeWithoutTicket, Awaiting
<1>15. ASSUME NEW t \in DOMAIN tickets,
              \/ Checkout(t) \/ Touch(t) \/ Complete(t)
              \/ \E last, first : Delivered(t, first, last)
       PROVE  NoOrphan'
  <2>1. tickets \in [DOMAIN tickets -> Ticket] /\ LiveTickets \in [DOMAIN LiveTickets -> Ticket]
    BY PurgeKeepsTheLive DEF MapsInv, TypeOK, Ticket
  <2>2. CASE Checkout(t)
    <3>1. /\ DOMAIN tickets' = DOMAIN LiveTickets
          /\ \A s \in DOMAIN LiveTickets : tickets'[s].file = LiveTickets[s].file
      BY <2>1, <2>2 DEF Checkout, Renewed, Ticket
    <3>2. FilesOf(tickets') = FilesOf(LiveTickets)
      BY <3>1, SameFilesWeighTheSame
    <3> QED
      BY <1>2, <2>2, <3>2 DEF Checkout, Drain, Owned, Awaiting
  <2>3. CASE Touch(t) \/ \E last, first : Delivered(t, first, last)
    <3>1. /\ DOMAIN tickets' = DOMAIN tickets
          /\ \A s \in DOMAIN tickets : tickets'[s].file = tickets[s].file
      BY <2>1, <2>3 DEF Touch, Delivered, Renewed, Ticket
    <3>2. FilesOf(tickets') = FilesOf(tickets)
      BY <3>1, SameFilesWeighTheSame
    <3> QED
      BY <1>3, <2>3, <3>2 DEF Touch, Delivered, Owned, Awaiting, queues
  <2>4. CASE Complete(t)
    <3> DEFINE f == tickets[t].file
    <3>1. /\ tickets' = Without(tickets, {t}) /\ unlinking' = unlinking \cup {f}
          /\ UNCHANGED <<uploads, entries, doomed, disk, writers>>
      BY <2>4 DEF Complete
    <3>2. FilesOf(tickets) \subseteq FilesOf(tickets') \cup {f}
      <4>1. \A s \in DOMAIN tickets : s = t \/ (s \in DOMAIN tickets' /\ tickets'[s] = tickets[s])
        BY <3>1 DEF Without
      <4> QED
        BY <4>1 DEF FilesOf
    <3> QED
      BY <1>3, <3>1, <3>2 DEF Owned, Awaiting
  <2> QED
    BY <1>15, <2>2, <2>3, <2>4
<1>16. ASSUME NEW w \in Writers,
              WriterStep(w) \/ \E i, index, len : WriteStart(w, i, index, len)
       PROVE  NoOrphan'
  <2> DEFINE i == writers[w].file
  <2>1. writers \in [Writers -> {Idle} \cup Busy]
    BY DEF MapsInv, TypeOK, Busy
  <2>2. /\ \A v \in Writers \ {w} : writers'[v] = writers[v]
        /\ Owned' = Owned /\ Awaiting' = Awaiting
    <3>1. \A v \in Writers \ {w} : writers'[v] = writers[v]
      BY <1>16, <2>1 DEF WriterStep, WriteStart, WriteEnter, WriteRefused, AppendChunk, AppendRaises,
         WriteRecord, WriteSwept
    <3>2. FilesOf(entries') = FilesOf(entries) /\ FilesOf(tickets') = FilesOf(tickets)
      BY <1>16 DEF WriterStep, WriteStart, WriteEnter, WriteRefused, AppendChunk, AppendRaises,
         WriteRecord, WriteSwept, memory
    <3>3. DOMAIN uploads' = DOMAIN uploads
      BY <1>16 DEF WriterStep, WriteStart, WriteEnter, WriteRefused, AppendChunk, AppendRaises,
         WriteRecord, WriteSwept, memory
    <3>4. Awaiting' = Awaiting
      BY <1>16 DEF WriterStep, WriteStart, WriteEnter, WriteRefused, AppendChunk, AppendRaises,
         WriteRecord, WriteSwept, queues, Awaiting
    <3> QED
      BY <3>1, <3>2, <3>3, <3>4 DEF Owned
  <2>3. \A j : (\E v \in Writers \ {w} : Inside(v) /\ writers[v].file = j) => Writing(j)'
    BY <2>2 DEF Writing, Inside
  <2>4. CASE (Inside(w) => Inside(w)' /\ writers'[w].file = i) /\ disk' = disk
    <3>1. \A j : Writing(j) => Writing(j)'
      BY <2>3, <2>4 DEF Writing
    <3> QED
      BY <2>2, <2>4, <3>1, NothingIsForgotten
  <2>5. CASE AppendChunk(w)
    <3>1. /\ writers'[w].pc = "appended" /\ writers'[w].file = i /\ i \in Ids
      BY <2>1, <2>5, WriterFields DEF AppendChunk, Busy, MapsInv
    <3>2. Writing(i)' /\ \A j : Writing(j) => Writing(j)'
      BY <2>3, <3>1 DEF Writing, Inside
    <3>3. DOMAIN disk' = DOMAIN disk \cup {i}
      BY <2>5 DEF AppendChunk, With
    <3> QED
      BY <2>2, <3>1, <3>2, <3>3, NothingIsForgotten
  <2>6. CASE WriteRecord(w)
    <3>1. i \in Owned /\ disk' = disk
      BY <2>6 DEF WriteRecord, Owned
    <3>2. \A j : Writing(j) => Writing(j)' \/ j = i
      BY <2>3 DEF Writing
    <3> QED
      BY <2>2, <3>1, <3>2, NothingIsForgotten
  <2>7. CASE WriteSwept(w)
    <3>1. DOMAIN disk' = DOMAIN disk \ {i}
      BY <2>7 DEF WriteSwept, AfterSwept, Without
    <3>2. \A j : Writing(j) => Writing(j)' \/ j = i
      BY <2>3 DEF Writing
    <3> QED
      BY <2>2, <3>1, <3>2, NothingIsForgotten
  <2>8. CASE WriteEnter(w) \/ WriteRefused(w) \/ \E j, index, len : WriteStart(w, j, index, len)
    <3>1. ~Inside(w) /\ disk' = disk
      BY <2>8 DEF WriteEnter, WriteRefused, WriteStart, AtLock, Inside, Idle
    <3> QED
      BY <2>4, <3>1
  <2> QED
    BY <1>16, <2>5, <2>6, <2>7, <2>8 DEF WriterStep, AppendRaises
<1>17. CASE Housekeeping
  BY <1>5, <1>6, <1>7, <1>17 DEF Housekeeping, Crash, UnlinkRaises
<1>18. CASE UploadCalls
  BY <1>8, <1>9, <1>10, <1>11, <1>12, <1>16, <1>18 DEF UploadCalls, BeginTouchRaises
<1>19. CASE DownloadCalls
  BY <1>13, <1>14, <1>15, <1>19 DEF DownloadCalls
<1> QED
  BY <1>5, <1>16, <1>17, <1>18, <1>19 DEF Next

\* No file is left on the volume that nothing will ever remove: each has an upload, a
\* code or a ticket, or its unlink is queued, or a writer that will notice is at it.
\* An unlink that raises leaves one behind, until startup wipes it.
THEOREM NoFileIsOrphaned ==
    ASSUME ~DiskFails, ~UnlinkFails
    PROVE  Spec => []NoOrphan
<1>1. Init => NoOrphan
  BY DEF Init, NoOrphan
<1>2. MapsInv /\ NoOrphan /\ [Next]_vars => NoOrphan'
  BY NextKeepsTrack
<1> QED
  BY <1>1, <1>2, MapsInvariance, PTL DEF Spec

--------------------------------------------------------------------------------
(* The file store implements the safety part of OneTimeThrow: initial states *)
(* map to initial states, and every step is one of the abstract throw's or a *)
(* stutter, a restart included, which is the lapse of everything live.       *)

\* A file whose own history does not change, and which no entry newly names, keeps its
\* fate or lapses.
LEMMA StaysOrLapses ==
    ASSUME NEW y \in Ids, filed'[y] = filed[y], granted'[y] = granted[y],
           y \in FilesOf(entries') => y \in FilesOf(entries)
    PROVE  Fate(y)' = Fate(y) \/ (Fate(y) = "live" /\ Fate(y)' = "lapsed")
BY DEF Fate

\* The files whose throw lapses in a step.
Lapsing == {y \in Ids : Fate(y) = "live" /\ Fate(y)' = "lapsed"}

\* Only what was live lapses.
LEMMA LapsingWasLive == Lapsing \in SUBSET OneTime!Live
BY DEF Lapsing, OneTime!Live

\* A step that hands nothing out and adds no entry is a lapse, possibly of nothing.
LEMMA ForgettingLapses ==
    ASSUME UNCHANGED <<filed, granted>>, FilesOf(entries') \subseteq FilesOf(entries)
    PROVE  OneTime!Next
<1>1. \A y \in Ids : Fate(y)' = IF y \in Lapsing THEN "lapsed" ELSE Fate(y)
  BY StaysOrLapses DEF Lapsing
<1>2. OneTime!Lapse(Lapsing)
  BY <1>1 DEF OneTime!Lapse
<1> QED
  BY <1>2, LapsingWasLive DEF OneTime!Next

\* A finished upload is the birth of its throw.
LEMMA FinishIsBirth ==
    ASSUME MapsInv, NEW i \in Ids, NEW reserved, Finish(i, reserved)
    PROVE  OneTime!Next
<1>1. PICK c \in Codes :
        /\ i \in DOMAIN uploads /\ granted' = granted
        /\ entries' = With(entries, c, [file |-> i, expires_at |-> now + Ttl])
        /\ filed' = [filed EXCEPT ![i] = [code |-> c, expires_at |-> now + Ttl, boot |-> boot]]
        /\ c \notin DOMAIN entries
  BY DEF Finish, FreeCodes, Pool, Codes
<1>2. filed[i] = NotFiled /\ granted[i] = 0
  BY <1>1 DEF MapsInv, FiledAreFinished, UnfiledIsUngranted
<1>3. /\ filed'[i] = [code |-> c, expires_at |-> now + Ttl, boot |-> boot]
      /\ \A y \in Ids \ {i} : filed'[y] = filed[y]
  BY <1>1 DEF MapsInv, TypeOK
<1>4. i \in FilesOf(entries') /\ FilesOf(entries') \subseteq FilesOf(entries) \cup {i}
  BY <1>1 DEF With, FilesOf
<1>5. Fate(i) = "unborn"
  BY <1>2 DEF Fate
<1>6. Fate(i)' = "live"
  <2>1. filed'[i] # NotFiled /\ granted'[i] = 0
    BY <1>1, <1>2, <1>3, FilingIsSomething
  <2> QED
    BY <1>4, <2>1 DEF Fate
<1>7. \A y \in Ids \ {i} : Fate(y)' = Fate(y) \/ y \in Lapsing
  BY <1>1, <1>3, <1>4, StaysOrLapses DEF Lapsing
<1>8. OneTime!Born(i, Lapsing)
  <2>1. \A y \in Ids :
          Fate(y)' = IF y = i THEN "live" ELSE IF y \in Lapsing THEN "lapsed" ELSE Fate(y)
    BY <1>6, <1>7 DEF Lapsing
  <2> QED
    BY <1>1, <1>5, <2>1 DEF OneTime!Born, OneTime!Move
<1> QED
  BY <1>8, LapsingWasLive DEF OneTime!Next

\* A take that hits is the read of its throw; its purge may lapse others.
LEMMA TakeIsRead ==
    ASSUME MapsInv, NEW c \in Codes, Take(c)
    PROVE  OneTime!Next
<1>1. /\ c \in DOMAIN LiveEntries /\ entries' = Without(LiveEntries, {c})
      /\ granted' = [granted EXCEPT ![entries[c].file] = @ + 1] /\ filed' = filed
  BY DEF Take, Popped
<1>2. PICK i \in Ids : c \in DOMAIN entries /\ i = entries[c].file
  BY <1>1, PurgeKeepsTheLive DEF MapsInv, TypeOK
<1>3. /\ filed[i] = [code |-> c, expires_at |-> entries[c].expires_at, boot |-> boot]
      /\ granted[i] = 0
  BY <1>2 DEF MapsInv, EntriesAreFiled
<1>4. /\ granted'[i] = 1 /\ \A y \in Ids \ {i} : granted'[y] = granted[y]
      /\ granted' = [granted EXCEPT ![i] = granted[i] + 1]
  BY <1>1, <1>2, <1>3 DEF MapsInv, TypeOK
<1>5. Fate(i) = "live"
  <2>1. i \in FilesOf(entries) /\ filed[i] # NotFiled
    BY <1>2, <1>3, FilingIsSomething DEF FilesOf
  <2> QED
    BY <1>3, <2>1 DEF Fate
<1>6. Fate(i)' = "read"
  <2>1. filed'[i] # NotFiled
    BY <1>1, <1>3, FilingIsSomething
  <2> QED
    BY <1>4, <2>1 DEF Fate
<1>7. FilesOf(entries') \subseteq FilesOf(entries)
  <2>1. FilesOf(entries') \subseteq FilesOf(LiveEntries)
    BY <1>1 DEF FilesOf, Without
  <2> QED
    BY <2>1, PurgeCondemnsTheDead
<1>8. \A y \in Ids \ {i} : Fate(y)' = Fate(y) \/ y \in Lapsing
  BY <1>1, <1>4, <1>7, StaysOrLapses DEF Lapsing
<1>9. PICK L \in SUBSET OneTime!Live : L = Lapsing
  BY LapsingWasLive
<1>10. OneTime!Read(i, L)
  <2>1. \A y \in Ids :
          Fate(y)' = IF y = i THEN "read" ELSE IF y \in L THEN "lapsed" ELSE Fate(y)
    BY <1>6, <1>8, <1>9 DEF Lapsing
  <2>2. OneTime!Move(i, "live", "read", L)
    BY <1>2, <1>5, <2>1 DEF OneTime!Move
  <2> QED
    BY <1>4, <2>2 DEF OneTime!Read
<1> QED
  BY <1>2, <1>10 DEF OneTime!Next

\* Every step of the file store is a step of the abstract throw, or none.
LEMMA FileStepRefines == MapsInv /\ [Next]_vars => [OneTime!Next]_OneTime!vars
<1> SUFFICES ASSUME MapsInv, [Next]_vars PROVE OneTime!Next
  OBVIOUS
<1>1. ASSUME UNCHANGED <<entries, history>> PROVE OneTime!Next
  BY <1>1, ForgettingLapses DEF history
<1>2. ASSUME entries' = LiveEntries \/ entries' = <<>>, UNCHANGED <<filed, granted>>
      PROVE  OneTime!Next
  <2>1. FilesOf(<<>>) = {}
    BY DEF FilesOf
  <2>2. FilesOf(entries') \subseteq FilesOf(entries)
    BY <1>2, <2>1, PurgeCondemnsTheDead
  <2> QED
    BY <1>2, <2>2, ForgettingLapses
<1>3. CASE Housekeeping
  BY <1>1, <1>2, <1>3 DEF Housekeeping, Tick, Prepare, Unlink, UnlinkRaises, Crash, Sweep,
     PurgeOnly, memory, history
<1>4. CASE UploadCalls
  <2>1. ASSUME NEW i \in Ids, Begin(i) \/ BeginTouchRaises(i) \/ BeginRefused(i) PROVE OneTime!Next
    BY <1>2, <2>1 DEF Begin, BeginTouchRaises, BeginCore, BeginRefused, PurgeOnly, history
  <2>2. ASSUME NEW i \in Ids, TouchUpload(i) \/ Abandon(i) PROVE OneTime!Next
    BY <1>1, <2>2 DEF TouchUpload, Abandon
  <2>3. ASSUME NEW w, NEW i, NEW index, NEW len, WriteStart(w, i, index, len) PROVE OneTime!Next
    BY <1>1, <2>3 DEF WriteStart, memory
  <2> QED
    BY <1>4, <2>1, <2>2, <2>3, FinishIsBirth DEF UploadCalls
<1>5. CASE DownloadCalls
  <2>1. ASSUME NEW c \in Codes, TakeWithoutTicket(c) PROVE OneTime!Next
    BY <1>2, <2>1 DEF TakeWithoutTicket, PurgeOnly, history
  <2>2. ASSUME NEW t, Checkout(t) PROVE OneTime!Next
    BY <1>2, <2>2 DEF Checkout, history
  <2>3. ASSUME NEW t, Touch(t) \/ Complete(t) \/ \E last, first : Delivered(t, first, last)
        PROVE  OneTime!Next
    BY <1>1, <2>3 DEF Touch, Complete, Delivered
  <2> QED
    BY <1>5, <2>1, <2>2, <2>3, TakeIsRead DEF DownloadCalls
<1>6. ASSUME NEW w \in Writers, WriterStep(w) PROVE OneTime!Next
  BY <1>1, <1>6 DEF WriterStep, WriteEnter, WriteRefused, AppendChunk, AppendRaises, WriteRecord,
     WriteSwept, memory
<1>7. CASE UNCHANGED vars
  BY <1>1, <1>7 DEF vars, memory
<1> QED
  BY <1>3, <1>4, <1>5, <1>6, <1>7 DEF Next

\* The file store implements the one-time throw: whatever fails on the disk, whoever
\* races and however often the process restarts, a throw is born once, and is handed
\* out once or lapses, never both and never back.
THEOREM FileStoreRefinesOneTime == Spec => OneTime!Safety
<1>1. Init => OneTime!Init
  BY DEF Init, OneTime!Init, Fate
<1> QED
  BY <1>1, FileStepRefines, MapsInvariance, PTL DEF Spec, OneTime!Safety
================================================================================
