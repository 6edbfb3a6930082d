-------------------------------- MODULE FileStore --------------------------------
(***************************************************************************)
(* The file store, src/app/filestore.py.  A file goes through three maps:  *)
(* an upload that chunks are appended to, a throw under a code, a ticket   *)
(* that stands for its bytes while they are downloaded.  The maps are in   *)
(* memory under one lock; the bytes are in a file on disk, touched outside *)
(* the lock.  What can go wrong lives in that gap.                         *)
(*                                                                         *)
(* One action is one critical section, with the drain that follows it up   *)
(* to the swap of _doomed.  The unlinks after the swap are steps of their  *)
(* own (Unlink), and write_chunk is four: its first lookup, the checks     *)
(* under both locks, the append under the upload's write lock only, and    *)
(* the accounting.  Reading the clock is part of the critical section.     *)
(*                                                                         *)
(* A file is named by its upload id, which is also its path.  Its contents *)
(* are the sequence of pieces appended: which chunk, and how many bytes.   *)
(*                                                                         *)
(* used, filed, granted and boot are history, kept to state properties.    *)
(***************************************************************************)
EXTENDS Totals, Sequences

CONSTANTS
    Ids,            \* upload ids: 68 random bits each, so never drawn twice
    Closed,         \* the uploads begun with encrypted=True
    Declared,       \* declared_size of each upload
    Chunks,         \* chunks of each upload
    Lengths,        \* lengths of the chunk bodies that senders put
    MaxChunkBytes,
    Words,
    Addresses,
    Tickets,
    Writers,        \* worker threads that run write_chunk
    Ttl, UploadIdle, TicketIdle,
    MaxEntries,
    MaxTotalBytes,
    DiskFails,      \* may an append or a touch raise OSError?
    UnlinkFails,    \* may an unlink raise OSError?
    LastCall,       \* bound: requests arrive before this time
    CallsAbandon,   \* is abandon called?  The application never does
    Horizon,        \* bound: the clock stops there
    MaxRestarts     \* bound: restarts of the process

Codes == Words \cup Addresses

ASSUME FileStoreAssumption ==
    /\ IsFiniteSet(Ids) /\ IsFiniteSet(Words) /\ IsFiniteSet(Addresses)
    /\ IsFiniteSet(Tickets)
    /\ Closed \subseteq Ids
    /\ Declared \in [Ids -> Nat \ {0}]
    /\ Chunks \in [Ids -> Nat \ {0}]
    /\ \A i \in Ids : Chunks[i] <= Declared[i] /\ Declared[i] <= Chunks[i] * MaxChunkBytes
    /\ Lengths \subseteq Nat
    /\ {MaxChunkBytes, Ttl, UploadIdle, TicketIdle, MaxEntries, MaxTotalBytes}
            \subseteq Nat \ {0}
    /\ {DiskFails, UnlinkFails, CallsAbandon} \subseteq BOOLEAN
    /\ {LastCall, Horizon, MaxRestarts} \subseteq Nat
    /\ \A d \in {Ttl, UploadIdle, TicketIdle} : LastCall + d <= Horizon

VARIABLES
    now,
    prepared,       \* _prepared
    uploads,        \* _uploads: id -> [received, next, touched_at]
    entries,        \* _entries: code -> [file, expires_at]
    tickets,        \* _tickets: ticket -> [file, idle_until, delivered]
    reserved_bytes, \* _reserved_bytes
    doomed,         \* _doomed: paths forgotten, their unlink not yet claimed
    unlinking,      \* paths whose unlink a thread has claimed but not done
    disk,           \* path -> the pieces in that file
    writers,        \* thread -> where it is in write_chunk
    used,           \* ids drawn so far
    filed,          \* id -> what finish returned for it, or NotFiled
    granted,        \* id -> how many tickets were handed out for it
    boot            \* how often the process restarted

memory == <<uploads, entries, tickets, reserved_bytes>>
queues == <<doomed, unlinking>>
history == <<used, filed, granted, boot>>
vars == <<now, prepared, memory, queues, disk, writers, history>>

Idle == [pc |-> "idle"]
NotFiled == [code |-> "none"]

--------------------------------------------------------------------------------
(* What the store holds, and what a purge takes from it.                     *)

\* Declared bytes of some uploads, throws and tickets.
Held(us, es, ts) ==
    Total([i \in DOMAIN us |-> Declared[i]])
    + Total([c \in DOMAIN es |-> Declared[es[c].file]])
    + Total([t \in DOMAIN ts |-> Declared[ts[t].file]])

FilesOf(es) == {es[k].file : k \in DOMAIN es}

DeadUploads_Never == {}                                                    \* mutant
DeadUploads == {i \in DOMAIN uploads : uploads[i].touched_at <= now - UploadIdle}
DeadEntries == {c \in DOMAIN entries : entries[c].expires_at <= now}
DeadTickets == {t \in DOMAIN tickets : tickets[t].idle_until <= now}

LiveUploads == Without(uploads, DeadUploads)
LiveEntries == Without(entries, DeadEntries)
LiveTickets == Without(tickets, DeadTickets)

FreedBytes ==
    Held(Only(uploads, DeadUploads), Only(entries, DeadEntries), Only(tickets, DeadTickets))

Condemned ==
    doomed \cup DeadUploads
           \cup FilesOf(Only(entries, DeadEntries))
           \cup FilesOf(Only(tickets, DeadTickets))

\* _purge_expired when no later statement of the call changes the maps.
PurgeOnly ==
    /\ uploads' = LiveUploads
    /\ entries' = LiveEntries
    /\ tickets' = LiveTickets
    /\ reserved_bytes' = reserved_bytes - FreedBytes

\* _drain swaps the list out under the lock; the caller now owns the unlinks.
Drain ==
    /\ doomed' = {}
    /\ unlinking' = unlinking \cup Condemned

LiveCount_TicketsFree == Cardinality(DOMAIN LiveUploads) + Cardinality(DOMAIN LiveEntries)  \* mutant
LiveCount ==
    Cardinality(DOMAIN LiveUploads) + Cardinality(DOMAIN LiveEntries)
                                    + Cardinality(DOMAIN LiveTickets)

HasRoom_WithoutNewcomer(i) ==                                             \* mutant
    LiveCount < MaxEntries /\ reserved_bytes - FreedBytes <= MaxTotalBytes
HasRoom(i) ==
    /\ LiveCount < MaxEntries
    /\ reserved_bytes - FreedBytes + Declared[i] <= MaxTotalBytes

Pool(i) == IF i \in Closed THEN Addresses ELSE Words

FreeCodes_Overwriting(i, reserved) == Pool(i) \ reserved                            \* mutant
FreeCodes(i, reserved) == Pool(i) \ (DOMAIN entries \cup reserved)

\* Bound: the last requests arrive early enough for every deadline they set to
\* pass before the clock stops.
Serving == prepared /\ now < LastCall

--------------------------------------------------------------------------------
(* The process and its clock.                                                *)

Init ==
    /\ now = 0
    /\ prepared = TRUE
    /\ uploads = <<>> /\ entries = <<>> /\ tickets = <<>>
    /\ reserved_bytes = 0
    /\ doomed = {} /\ unlinking = {}
    /\ disk = <<>>
    /\ writers = [w \in Writers |-> Idle]
    /\ used = {}
    /\ filed = [i \in Ids |-> NotFiled]
    /\ granted = [i \in Ids |-> 0]
    /\ boot = 0

\* Bound: past LastCall a write under way ends before the clock moves on.
Tick ==
    /\ now < Horizon
    /\ now >= LastCall => \A w \in Writers : writers[w] = Idle
    /\ now' = now + 1
    /\ UNCHANGED <<prepared, memory, queues, disk, writers, history>>

\* The process dies: memory is gone, the volume is not.
Crash ==
    /\ prepared /\ boot < MaxRestarts
    /\ boot' = boot + 1
    /\ prepared' = FALSE
    /\ uploads' = <<>> /\ entries' = <<>> /\ tickets' = <<>>
    /\ reserved_bytes' = 0
    /\ doomed' = {} /\ unlinking' = {}
    /\ writers' = [w \in Writers |-> Idle]
    /\ UNCHANGED <<now, disk, used, filed, granted>>

Leftovers_All == disk                                                      \* mutant
Leftovers == <<>>

\* The application's startup wipes what an earlier life left on the volume,
\* before it serves anything.
Prepare ==
    /\ ~prepared
    /\ prepared' = TRUE
    /\ \/ disk' = Leftovers
       \/ UnlinkFails /\ \E kept \in SUBSET DOMAIN disk : disk' = Only(disk, kept)
    /\ UNCHANGED <<now, memory, queues, writers, history>>

\* purge_expired and the counts (size, uploads_in_flight, tickets_open,
\* total_bytes); also a take or a checkout that finds nothing.
Sweep ==
    /\ prepared
    /\ PurgeOnly
    /\ Drain
    /\ UNCHANGED <<now, prepared, disk, writers, history>>

Unlink(p) ==
    /\ p \in unlinking
    /\ unlinking' = unlinking \ {p}
    /\ disk' = Without(disk, {p})
    /\ UNCHANGED <<now, prepared, memory, doomed, writers, history>>

\* _unlink swallows the OSError, and nothing remembers the path.
UnlinkRaises(p) ==
    /\ UnlinkFails
    /\ p \in unlinking
    /\ unlinking' = unlinking \ {p}
    /\ UNCHANGED <<now, prepared, memory, doomed, disk, writers, history>>

--------------------------------------------------------------------------------
(* The upload.                                                               *)

Registered(i) == With(LiveUploads, i, [received |-> 0, next |-> 0, touched_at |-> now])

BeginCore(i) ==
    /\ Serving /\ i \notin used
    /\ HasRoom(i)
    /\ used' = used \cup {i}
    /\ uploads' = Registered(i)
    /\ entries' = LiveEntries
    /\ tickets' = LiveTickets
    /\ reserved_bytes' = reserved_bytes - FreedBytes + Declared[i]
    /\ Drain
    /\ UNCHANGED <<now, prepared, writers, filed, granted, boot>>

\* begin returns the id once the empty file is there.  Nobody knows the id
\* before, and every sweep runs on the event loop, which begin is holding.
Begin(i) == BeginCore(i) /\ disk' = With(disk, i, <<>>)

\* path.touch() raised: the sender is told no, the reservation stays until the
\* upload goes idle.
BeginTouchRaises(i) == DiskFails /\ BeginCore(i) /\ UNCHANGED disk

\* StoreFull leaves the lock before the drain: what the purge condemned waits.
BeginRefused(i) ==
    /\ Serving /\ i \notin used
    /\ ~HasRoom(i)
    /\ PurgeOnly
    /\ doomed' = Condemned
    /\ UNCHANGED <<now, prepared, unlinking, disk, writers, history>>

TouchUpload(i) ==
    /\ Serving
    /\ i \in DOMAIN uploads
    /\ uploads' = [uploads EXCEPT ![i].touched_at = now]
    /\ UNCHANGED <<now, prepared, entries, tickets, reserved_bytes, queues, disk, writers, history>>

\* write_chunk found the upload and now waits for its write lock.
WriteStart(w, i, index, len) ==
    /\ Serving
    /\ writers[w] = Idle
    /\ i \in DOMAIN uploads
    /\ writers' = [writers EXCEPT ![w] =
                     [pc |-> "waiting", file |-> i, index |-> index, len |-> len]]
    /\ UNCHANGED <<now, prepared, memory, queues, disk, history>>

\* upload.writing is held from the checks to the accounting.
Inside(w) == writers[w].pc \in {"appending", "appended"}
Writing(i) == \E w \in Writers : Inside(w) /\ writers[w].file = i

WriteLockFree_Always(i) == TRUE                                            \* mutant
WriteLockFree(i) == ~Writing(i)

ChunkFits(i, index, len) ==
    /\ i \in DOMAIN uploads
    /\ index = uploads[i].next
    /\ index < Chunks[i]
    /\ len <= MaxChunkBytes
    /\ uploads[i].received + len <= Declared[i]

AtLock(w) == writers[w].pc = "waiting" /\ WriteLockFree(writers[w].file)

WriteEnter(w) ==
    LET i == writers[w].file
    IN  /\ AtLock(w)
        /\ ChunkFits(i, writers[w].index, writers[w].len)
        /\ uploads' = [uploads EXCEPT ![i].touched_at = now]
        /\ writers' = [writers EXCEPT ![w].pc = "appending"]
        /\ UNCHANGED <<now, prepared, entries, tickets, reserved_bytes, queues, disk, history>>

\* NoSuchUpload or BadChunk: both locks are released, nothing has changed.
WriteRefused(w) ==
    /\ AtLock(w)
    /\ ~ChunkFits(writers[w].file, writers[w].index, writers[w].len)
    /\ writers' = [writers EXCEPT ![w] = Idle]
    /\ UNCHANGED <<now, prepared, memory, queues, disk, history>>

\* What is in the file, "ab" mode creating it when it is not there.
OnDisk(i) == IF i \in DOMAIN disk THEN disk[i] ELSE <<>>
Piece(w, len) == [index |-> writers[w].index, len |-> len]

AppendChunk(w) ==
    LET i == writers[w].file
    IN  /\ writers[w].pc = "appending"
        /\ disk' = With(disk, i, Append(OnDisk(i), Piece(w, writers[w].len)))
        /\ writers' = [writers EXCEPT ![w].pc = "appended"]
        /\ UNCHANGED <<now, prepared, memory, queues, history>>

\* open raised, or the write did after some of its bytes had landed.  Either
\* way the exception leaves write_chunk, past the accounting.
AppendRaises(w) ==
    LET i == writers[w].file
    IN  /\ DiskFails
        /\ writers[w].pc = "appending"
        /\ \/ UNCHANGED disk
           \/ disk' = With(disk, i, OnDisk(i))
           \/ \E len \in 1 .. (writers[w].len - 1) :
                 /\ Len(OnDisk(i)) < Chunks[i]     \* bound: pieces of failed appends
                 /\ disk' = With(disk, i, Append(OnDisk(i), Piece(w, len)))
        /\ writers' = [writers EXCEPT ![w] = Idle]
        /\ UNCHANGED <<now, prepared, memory, queues, history>>

WriteRecord(w) ==
    LET i == writers[w].file
    IN  /\ writers[w].pc = "appended"
        /\ i \in DOMAIN uploads
        /\ uploads' = [uploads EXCEPT ![i] =
                         [received |-> @.received + writers[w].len,
                          next |-> @.next + 1,
                          touched_at |-> now]]
        /\ writers' = [writers EXCEPT ![w] = Idle]
        /\ UNCHANGED <<now, prepared, entries, tickets, reserved_bytes, queues, disk, history>>

\* Swept while the chunk was being written: the append may have brought the
\* file back under a name nothing refers to, so it goes again, under the lock.
AfterSwept_Kept(i) == disk                                                 \* mutant
AfterSwept(i) == Without(disk, {i})

WriteSwept(w) ==
    LET i == writers[w].file
    IN  /\ writers[w].pc = "appended"
        /\ i \notin DOMAIN uploads
        /\ \/ disk' = AfterSwept(i)
           \/ UnlinkFails /\ UNCHANGED disk
        /\ writers' = [writers EXCEPT ![w] = Idle]
        /\ UNCHANGED <<now, prepared, memory, queues, history>>

AllHere_ByCount(i) == uploads[i].next = Chunks[i]                        \* mutant
AllHere(i) == uploads[i].received = Declared[i] /\ uploads[i].next = Chunks[i]

\* The throw is born: the upload becomes an entry under a code nobody uses.
\* No purge happens on the way in.
Finish(i, reserved) ==
    /\ Serving
    /\ i \in DOMAIN uploads
    /\ AllHere(i)
    /\ uploads' = Without(uploads, {i})
    /\ \E c \in FreeCodes(i, reserved) :
          /\ entries' = With(entries, c, [file |-> i, expires_at |-> now + Ttl])
          /\ filed' = [filed EXCEPT ![i] =
                         [code |-> c, expires_at |-> now + Ttl, boot |-> boot]]
    /\ UNCHANGED <<now, prepared, tickets, reserved_bytes, queues, disk, writers,
                   used, granted, boot>>

Abandon(i) ==
    /\ CallsAbandon
    /\ Serving
    /\ i \in DOMAIN uploads
    /\ uploads' = Without(uploads, {i})
    /\ reserved_bytes' = reserved_bytes - Declared[i]
    /\ unlinking' = unlinking \cup {i}
    /\ UNCHANGED <<now, prepared, entries, tickets, doomed, disk, writers, history>>

--------------------------------------------------------------------------------
(* The throw and the ticket.                                                 *)

Popped_Kept(c) == LiveEntries                                              \* mutant
Popped(c) == Without(LiveEntries, {c})

\* The code dies and the ticket is born in one critical section.
Take(c) ==
    LET i == entries[c].file
    IN  /\ Serving
        /\ c \in DOMAIN LiveEntries
        /\ \E t \in Tickets \ DOMAIN LiveTickets :
              tickets' = With(LiveTickets, t,
                              [file |-> i, idle_until |-> now + TicketIdle, delivered |-> 0])
        /\ entries' = Popped(c)
        /\ uploads' = LiveUploads
        /\ reserved_bytes' = reserved_bytes - FreedBytes
        /\ granted' = [granted EXCEPT ![i] = @ + 1]
        /\ Drain
        /\ UNCHANGED <<now, prepared, disk, writers, used, filed, boot>>

\* Every ticket drawn was in use: the entry goes back, OutOfCodes is raised,
\* and the drain is skipped.
TakeWithoutTicket(c) ==
    /\ Serving
    /\ c \in DOMAIN LiveEntries
    /\ LiveTickets # <<>>
    /\ PurgeOnly
    /\ doomed' = Condemned
    /\ UNCHANGED <<now, prepared, unlinking, disk, writers, history>>

Renewed(ts, t) == [ts EXCEPT ![t].idle_until = now + TicketIdle]

Checkout(t) ==
    /\ Serving
    /\ t \in DOMAIN LiveTickets
    /\ tickets' = Renewed(LiveTickets, t)
    /\ uploads' = LiveUploads
    /\ entries' = LiveEntries
    /\ reserved_bytes' = reserved_bytes - FreedBytes
    /\ Drain
    /\ UNCHANGED <<now, prepared, disk, writers, history>>

\* A stream says "still moving".  No purge: a ticket past its deadline that no
\* sweep has met yet is renewed.
Touch(t) ==
    /\ Serving
    /\ t \in DOMAIN tickets
    /\ tickets' = Renewed(tickets, t)
    /\ UNCHANGED <<now, prepared, uploads, entries, reserved_bytes, queues, disk, writers, history>>

\* A range went out: it counts only if it extends what was covered so far.
Covered(t, first, last) ==
    IF first <= tickets[t].delivered /\ last + 1 > tickets[t].delivered
    THEN last + 1 ELSE tickets[t].delivered

Delivered(t, first, last) ==
    /\ prepared
    /\ t \in DOMAIN tickets
    /\ tickets' = [tickets EXCEPT ![t].delivered = Covered(t, first, last)]
    /\ UNCHANGED <<now, prepared, uploads, entries, reserved_bytes, queues, disk, writers, history>>

Released(t) == reserved_bytes - Declared[tickets[t].file]

\* The only caller completes a ticket when delivered said that was the lot.
Complete(t) ==
    /\ prepared
    /\ t \in DOMAIN tickets
    /\ tickets[t].delivered >= Declared[tickets[t].file]
    /\ tickets' = Without(tickets, {t})
    /\ reserved_bytes' = Released(t)
    /\ unlinking' = unlinking \cup {tickets[t].file}
    /\ UNCHANGED <<now, prepared, uploads, entries, doomed, disk, writers, history>>

--------------------------------------------------------------------------------
WriterStep(w) ==
    \/ WriteEnter(w) \/ WriteRefused(w)
    \/ AppendChunk(w) \/ AppendRaises(w)
    \/ WriteRecord(w) \/ WriteSwept(w)

UploadCalls ==
    \/ \E i \in Ids :
          \/ Begin(i) \/ BeginTouchRaises(i) \/ BeginRefused(i)
          \/ TouchUpload(i) \/ Abandon(i)
          \/ \E reserved \in SUBSET Codes : Finish(i, reserved)
    \/ \E w \in Writers, i \in Ids, len \in Lengths :
          \E index \in 0 .. Chunks[i] : WriteStart(w, i, index, len)

DownloadCalls ==
    \/ \E c \in Codes : Take(c) \/ TakeWithoutTicket(c)
    \/ \E t \in DOMAIN tickets :
          \/ Checkout(t) \/ Touch(t) \/ Complete(t)
          \/ \E last \in 0 .. Declared[tickets[t].file] - 1 :
                \E first \in 0 .. last : Delivered(t, first, last)

Housekeeping ==
    \/ Tick \/ Crash \/ Prepare \/ Sweep
    \/ \E p \in Ids : Unlink(p) \/ UnlinkRaises(p)

Next ==
    \/ Housekeeping
    \/ UploadCalls
    \/ DownloadCalls
    \/ \E w \in Writers : WriterStep(w)

\* Time passes, the sweeper keeps its beat, a thread that claimed an unlink
\* does it, one that is writing goes on, and a dead process is restarted.  No
\* sender and no receiver is obliged to do anything.
Fairness ==
    /\ WF_vars(Tick)
    /\ WF_vars(Prepare)
    /\ WF_vars(Sweep)
    /\ \A p \in Ids : WF_vars(Unlink(p))
    /\ \A w \in Writers : WF_vars(WriterStep(w))

Spec == Init /\ [][Next]_vars /\ Fairness

--------------------------------------------------------------------------------
(* What is true of the store.                                                *)

\* The types.
TypeOK ==
    /\ now \in 0 .. Horizon
    /\ prepared \in BOOLEAN
    /\ uploads \in [DOMAIN uploads -> [received : Nat, next : Nat, touched_at : Nat]]
    /\ DOMAIN uploads \subseteq used
    /\ entries \in [DOMAIN entries -> [file : Ids, expires_at : Nat]]
    /\ DOMAIN entries \subseteq Codes
    /\ tickets \in [DOMAIN tickets -> [file : Ids, idle_until : Nat, delivered : Nat]]
    /\ DOMAIN tickets \subseteq Tickets
    /\ reserved_bytes \in Nat
    /\ doomed \subseteq Ids /\ unlinking \subseteq Ids /\ used \subseteq Ids
    /\ DOMAIN disk \subseteq Ids
    /\ disk \in [DOMAIN disk -> Seq([index : Nat, len : Nat])]
    /\ writers \in [Writers -> {Idle} \cup [pc : {"waiting", "appending", "appended"},
                                            file : Ids, index : Nat, len : Lengths]]
    /\ filed \in [Ids -> {NotFiled} \cup [code : Codes, expires_at : Nat, boot : Nat]]
    /\ granted \in [Ids -> Nat]
    /\ boot \in 0 .. MaxRestarts

\* A file's bytes answer to exactly one upload, throw or ticket, or to nothing
\* any more: never to two, so no sweep can unlink what another still serves.
OneOwner ==
    /\ \A c, d \in DOMAIN entries : entries[c].file = entries[d].file => c = d
    /\ \A s, t \in DOMAIN tickets : tickets[s].file = tickets[t].file => s = t
    /\ DOMAIN uploads \cap FilesOf(entries) = {}
    /\ DOMAIN uploads \cap FilesOf(tickets) = {}
    /\ FilesOf(entries) \cap FilesOf(tickets) = {}
    /\ (DOMAIN uploads \cup FilesOf(entries) \cup FilesOf(tickets))
            \cap (doomed \cup unlinking) = {}

\* The reservation counter is what is really held.
AccountingExact == reserved_bytes = Held(uploads, entries, tickets)

\* Both ceilings hold over the three stages together, and the counter that begin
\* reads is exact, through every path that ends an upload, a throw or a ticket.
WithinCeilings ==
    /\ AccountingExact
    /\ Cardinality(DOMAIN uploads) + Cardinality(DOMAIN entries)
            + Cardinality(DOMAIN tickets) <= MaxEntries
    /\ Held(uploads, entries, tickets) <= MaxTotalBytes

BytesIn(pieces) == Total([k \in DOMAIN pieces |-> pieces[k].len])

\* However many requests race for the same chunk, a file never has more bytes
\* than its upload declared, and so never more than was reserved for it.
DeclaredIsCeiling == \A i \in DOMAIN disk : BytesIn(disk[i]) <= Declared[i]

\* The chunks in order, all of them, and exactly the declared bytes.
Whole(i) ==
    /\ i \in DOMAIN disk
    /\ Len(disk[i]) = Chunks[i]
    /\ \A k \in 1 .. Len(disk[i]) : disk[i][k].index = k - 1
    /\ BytesIn(disk[i]) = Declared[i]

\* Whatever a code or a ticket leads to is on disk, whole: not swept from under
\* it, not short, no chunk twice, nothing appended by a late writer.
ServedFilesAreWhole ==
    \A i \in FilesOf(entries) \cup FilesOf(tickets) : Whole(i) /\ ~Writing(i)

\* A file on disk that nothing will ever remove is the one thing that must not
\* pile up: each is owned, or its unlink is pending, or a writer that will
\* notice is still at it.
NoOrphan ==
    prepared =>
        \A i \in DOMAIN disk :
            \/ i \in DOMAIN uploads \cup FilesOf(entries) \cup FilesOf(tickets)
            \/ i \in doomed \cup unlinking
            \/ Writing(i)

\* The code a sender was handed leads to the file until the deadline, unless it
\* was taken or the process restarted.
CodeWorksUntilDeadline ==
    \A i \in Ids :
        (filed[i] # NotFiled /\ granted[i] = 0 /\ now < filed[i].expires_at
                             /\ filed[i].boot = boot) =>
            /\ filed[i].code \in DOMAIN entries
            /\ entries[filed[i].code].file = i

\* Whatever senders and receivers do or stop doing, the bytes of every file
\* leave the volume in the end.
BytesLeaveTheVolume == \A i \in Ids : (i \in DOMAIN disk) ~> (i \notin DOMAIN disk)

\* Even when the disk refuses what it is asked, nothing is reserved for ever:
\* an upload whose file could not be made, and whose sender was told no, still
\* gives its bytes back.
ReservationsEnd ==
    \A i \in Ids :
        (i \in DOMAIN uploads \cup FilesOf(entries) \cup FilesOf(tickets))
            ~> (i \notin DOMAIN uploads \cup FilesOf(entries) \cup FilesOf(tickets))

\* Why the properties of the maps hold, as an inductive invariant: nothing refers to
\* a path that was not drawn; an entry is the one its sender was told about, in this
\* life of the process, and nobody has taken it; an upload has no code yet.
PathsAreUsed == FilesOf(entries) \cup FilesOf(tickets) \cup doomed \cup unlinking \subseteq used
EntriesAreFiled ==
    \A c \in DOMAIN entries :
        LET e == entries[c]
        IN  /\ filed[e.file] = [code |-> c, expires_at |-> e.expires_at, boot |-> boot]
            /\ granted[e.file] = 0
FiledAreFinished ==
    \A i \in Ids : filed[i] # NotFiled => i \in used \ DOMAIN uploads /\ filed[i].boot <= boot
UnfiledIsUngranted == \A i \in Ids : filed[i] = NotFiled => granted[i] = 0

MapsInv ==
    /\ TypeOK
    /\ WithinCeilings
    /\ OneOwner
    /\ PathsAreUsed
    /\ EntriesAreFiled
    /\ FiledAreFinished
    /\ UnfiledIsUngranted
    /\ CodeWorksUntilDeadline

\* Why the properties of the bytes hold while the disk does as it is told: before
\* startup has wiped the volume nothing refers to it; one writer at most is inside an
\* upload, and it carries the chunk the upload waits for; what an upload has counted is
\* what lies in its file, but for a chunk that is appended and not yet counted; and a
\* file has room for what is on its way there, swept or not.
EmptyUntilPrepared ==
    ~prepared => /\ uploads = <<>> /\ entries = <<>> /\ tickets = <<>>
                 /\ unlinking = {}
                 /\ \A w \in Writers : writers[w] = Idle
WritersAreApart ==
    \A v, w \in Writers : Inside(v) /\ Inside(w) /\ writers[v].file = writers[w].file => v = w
WritersAreExpected ==
    \A w \in Writers : Inside(w) =>
        LET i == writers[w].file
        IN  /\ i \in used \ (FilesOf(entries) \cup FilesOf(tickets))
            /\ i \in DOMAIN uploads => ChunkFits(i, writers[w].index, writers[w].len)
Counted(i) ==
    /\ i \in DOMAIN disk
    /\ \A k \in DOMAIN disk[i] : disk[i][k].index = k - 1
    /\ IF \E w \in Writers : writers[w].pc = "appended" /\ writers[w].file = i
       THEN \A w \in Writers : (writers[w].pc = "appended" /\ writers[w].file = i) =>
                /\ Len(disk[i]) = uploads[i].next + 1
                /\ BytesIn(disk[i]) = uploads[i].received + writers[w].len
       ELSE /\ Len(disk[i]) = uploads[i].next
            /\ BytesIn(disk[i]) = uploads[i].received
CountedIsOnDisk == \A i \in DOMAIN uploads : Counted(i)
RoomForChunks ==
    \A w \in Writers : writers[w].pc = "appending" =>
        BytesIn(OnDisk(writers[w].file)) + writers[w].len <= Declared[writers[w].file]

BytesInv ==
    /\ EmptyUntilPrepared
    /\ WritersAreApart
    /\ WritersAreExpected
    /\ CountedIsOnDisk
    /\ RoomForChunks
    /\ DeclaredIsCeiling
    /\ ServedFilesAreWhole

--------------------------------------------------------------------------------
\* The abstract throw each file stands for: born at finish, handed out at take.
Fate(i) ==
    IF filed[i] = NotFiled THEN "unborn"
    ELSE IF granted[i] > 0 THEN "read"
    ELSE IF i \in FilesOf(entries) THEN "live"
    ELSE "lapsed"

OneTime == INSTANCE OneTimeThrow
    WITH Throws <- Ids, fate <- [i \in Ids |-> Fate(i)], handed <- granted

\* The file store implements the one-time throw, restarts included.
ImplementsOneTimeThrow == OneTime!Spec
================================================================================
