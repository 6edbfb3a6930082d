# A formal model of throw.dog

throw.dog relays one text or one file from a sender to one receiver: the sender
gets two words (or, when the browser encrypted the content, a longer *closed
address*), the receiver types them, and the throw is gone.  The server keeps
texts in memory and files on a volume, both for ten minutes, and both meant to be
read exactly once.  This directory holds TLA+ modules of the server and of the pages
it serves, the configurations TLC checks them with, and proofs for TLAPS.

## Inventory

| part | source | state | operations | what is hard about it |
|---|---|---|---|---|
| text store | `app/throwstore.py` | `_entries`, `_total_bytes` under one lock | `put`, `take`, `purge_expired`, `size`, `total_bytes`, `holds` | threads race for a code; the clock is read before the lock is awaited; codes are reused; a running byte counter |
| file store | `app/filestore.py` | `_uploads`, `_entries`, `_tickets`, `_reserved_bytes`, `_doomed` under one lock; one write lock per upload; files on disk | `begin`, `write_chunk`, `touch_upload`, `finish`, `abandon`, `take`, `checkout`, `touch`, `delivered`, `complete`, `purge_expired`, `prepare` | bytes are touched outside the lock; sweeps race appends and downloads; a file crosses three maps; disk errors; restarts |
| read gate | `app/gatekeeper.py` | stamps of misses per IP and overall | `record`, `allow` | sliding windows that forget lazily; a map that must not grow |
| upload limiter | `app/gatekeeper.py` | slots and declared bytes per IP | `start`, `finish` | its timers run apart from the store's; a slot must not leak, nor expire early |
| handlers | `app/main.py` | none of their own | `create_throw`, `take_throw`, `start_upload`, `put_chunk`, `finish_upload`, `download_file` | order of calls on the stores, the gate and the limiter; what is undone when one of them refuses |
| download stream | `app/main.py` `_stream_file` | an open file and a position | blocks, `touch` every 4 MB, `delivered`, `complete` | runs in a thread pool; several streams of one ticket; ends when the socket took the last block |
| sweeper, startup | `app/main.py` `lifespan` | a timer | `purge_expired` on both stores; `prepare` | the only one who comes for an abandoned throw |
| addresses | `app/codewords.py`, `app/closedaddress.py` | none | `generate`, `normalize`, `is_closed_address` | two spaces that must not meet |
| ranges and sizes | `app/main.py` | none | `parse_range`, `chunks_for`, `encrypted_ceiling`, `closed_file_ceiling` | boundaries |
| upload page | `app/pages.py` `tdUpload`, `tdSlice` | chunk index, tries left | POST, PUT per chunk with retries, done | lost answers; the page and the server cut a file alike |
| receiver page | `app/pages.py` | key, ticket, position, address bar | take, range by range download, decrypt | asking spends the throw; the key is dropped on the way; offsets computed by hand |
| sender pages | `app/pages.py` | remembered mode, draft, textarea, `busy` | load, redirect, paste, throw, switch, again | storage shared by tabs; a document that runs on while it is being left |

One uvicorn process runs all of it.  Handlers are `async def` on one event loop;
`write_chunk` (`asyncio.to_thread`) and the blocks of `_stream_file` run in
threads beside it.  The stores say of themselves that they are safe under threads
and are modelled that way: every interleaving of critical sections, not only
those the event loop lets through.

`PROJECT.json` lists every part with its status, and every hazard with the
properties that would catch it.

## Modules

    OneTimeThrow   <--implements--  ThrowStore      <--proofs--  ThrowStoreProofs
                   <--implements--  FileStore       <--proofs--  FileStoreProofs
    Totals         sums and map helpers used by all
    Buckets        EXTENDS Totals: the deques per IP             <--proofs--  TotalsProofs
    Gatekeeper     EXTENDS Buckets: the read gate                <--proofs--  GatekeeperProofs
    UploadLimiter  EXTENDS Buckets                               <--proofs--  UploadLimiterProofs
    Downloads      one ticket and its streams                    <--proofs--  DownloadsProofs
    Sizes          what things weigh
    Ranges         parse_range
    Addresses      codes and closed addresses
    Relay          EXTENDS Sizes, Addresses, Ranges: the handlers over both stores
                                                                 <--proofs--  RelayProofs
    ChunkUpload    the page that uploads, the network, the handlers
    ClosedFile     EXTENDS ChunkUpload, Sizes, Ranges: on to the receiver's page
    Senders        the sender pages in the tabs of a browser     <--proofs--  PagesProofs

PagesProofs holds the proofs of the three last, RelayProofs those of Relay and of the three
it extends.  `MC<Module>.tla` supplies constants for TLC and nothing else.

**OneTimeThrow** is what both stores promise: a throw is born live and is then
either handed out once or lapses, and it does not stay live for ever.  It knows
no codes, clocks, locks or bytes.

**Totals** defines the sum of a function's values as the cardinality of a set of
pairs, without recursion, so that facts about sums follow from the library's
theorems on finite sets, and the map updates the Python dicts go through (`With`,
`Without`, `Only`).

**Buckets** is the deques in which the gate and the limiter remember what an IP did, oldest
first: entries are popped from the left up to the first one to keep, and a bucket that
is emptied is deleted.

**ThrowStore** has `entries` and `total_bytes` for the Python attributes of those
names.  A call is two steps.  `CallPut`, `CallTake` and `CallSweep` read the clock;
`PutStores`, `PutRefused`, `TakeHits`, `TakeMisses` and `SweepStep` are the body of
the `with self._lock`, with the purge it begins with.  Between the two, time passes and any other call may go
first: a purge may run with a reading older than one already used.  `size` and
`total_bytes` are `CallSweep`/`SweepStep` too, as they change the same state.  A
code is drawn from the pool of the throw's mode, minus what is live here and minus
an arbitrary set that stands for the other store's answer to `is_reserved`.
`issued` and `reads` are history: what the sender was told, and the clock readings
of the takes that got the throw.

**FileStore** has the three maps, the counter, `_doomed` and the files on disk.  A
file is named by its upload id (the code uses a digest of it) and its contents are
the sequence of pieces appended.  One action is one critical section of the
store's lock; the drain that follows a purge swaps `_doomed` out in the same
action, and each unlink is a step of its own, so files go while other calls run.
`write_chunk` is four steps: `WriteStart` (first lookup), `WriteEnter` or
`WriteRefused` (checks, under the write lock and the store lock), `AppendChunk` or
`AppendRaises` (write lock only), `WriteRecord` or `WriteSwept` (accounting).  The
write lock is `WriteLockFree`.  `Crash` forgets memory and keeps the disk; `Prepare`
is the startup that wipes it.  `DiskFails` and `UnlinkFails` say whether the disk
may raise OSError.  Unlike in ThrowStore, a call reads the clock in the step that
holds the lock; the effect of a stale reading is studied in ThrowStore, and the
calls that purge here are all made by the event loop.

**Gatekeeper** has the two collections of stamps.  `Recorded` and `Asked` are
`record` and `allow` with their pruning and sweeping; `OpenMiss` and `ClosedMiss` are
the two ways `take_throw` uses them.  A hit changes nothing.  `log` is the history
the gate forgets, kept so that its answers can be compared with it.

**UploadLimiter** has `active` and `declared`.  `StartUpload`, `StartUploadStoreFull`,
`StartUploadTouchRaises` and `StartRefused` are the outcomes of `start_upload`, `Done` the
release in `finish_upload`.  `Move` and `StoreSweeps` are what the file store does to an
upload meanwhile, reduced to what the limiter depends on: an upload lives while its bytes
move, for as long as they do, and may be swept after an idle window, all stale ones at
once, and the limiter is not told.  `start_upload` sweeps too, since `begin` purges.  When
`begin` fails on the touch of the new file the slot goes back although the store has the
upload (`told` is FALSE: nobody has its id).  What `ConcurrencyIsLimited` counts is the
uploads of an IP that can still move and are younger than a cutoff, for every cutoff up to
a slot's lifetime ago; they are at most the limit, but for one more for each `done` since
of an upload that was older than the cutoff, as that releases a younger one's slot.
`finished` is history.

**Downloads** is one ticket and the responses that stream its file.  A stream goes
from `CheckoutHits` and `Open` (`download_file`) through `Block`, `BlockTouches` or
`TouchFails` (one turn of `_stream_file`'s loop each) to `Report` (`delivered`) and
`Complete`, or ends at `Stop` when its connection breaks or a read fails.  `Unlink` is
the unlink outside the lock, after `complete` or a sweep; a stream that has opened the
file reads on after it.  `times` and `overrun` are history.  FileStore has the same
calls with its other maps around them; here they meet blocks and the clock.  What a
socket holds when its connection breaks is outside: the server never learns it.

**ChunkUpload** is `tdUpload`, the network, and one upload of the file store reduced to
what its answers depend on.  The page waits for one request; `requests` also holds
those it has given up but which still travel.  A request is lost, its answer is
lost, or it arrives late, as `Losses` says; `Hiccup` is a 5xx that left the server as it
was.  FileStore's writer threads cover what happens to a chunk inside the server.

**Sizes**, **Ranges** and **Addresses** hold what has no state.  Sizes has both sides of
each computation: the server's ceilings, chunk counts and checks of a plan, and the
slices and pieces the pages cut, which Totals' `Total` weighs; its constants are the ones
the two share.  A Range
header is what its text amounts to (`Header`); `Asked` is the reference: the bytes it
names, defined without parsing.  A spelling in Addresses is a sequence of characters,
the vocabulary a pair of constants of which only what `codewords` promises is assumed
(`PrefixFree`, which its tests check of the real lists).

**Relay** composes the handlers.  Between two awaits the event loop runs one handler, so a
`stretch` of several steps excludes other stretches (`LoopIsFree`), while the threads that
write chunks and stream downloads go on.  Where a handler looks at one store and then
changes the other the stretch has two steps: `PickForText` and `PutText`, `TakeText` and
`TakeFile`, `PickForFile` and `FinishUpload`; the mutant of `LoopIsFree` shows what those
steps would do to each other in threads.  The stores are reduced to which throw is under which
code; a throw may be over at any time (`Expire`) and leaves when its store next purges,
which each handler does where the code does.  The limiter is a count of slots per address,
without their ages: any slot may age out at any time (`SlotAges`), whether its upload
still moves or not.  `aged` and `dropped` count, as history, the slots that aged out and
the uploads that were swept.  `begin` may raise OSError before it registers an upload
(`DiskError` in `UploadBusy`) or after (`UploadTouchRaises`, which leaves an upload charged
to nobody, `Untold`).  A request is a
record of what its checks tell apart, and `last` the last one answered, with the answer.
`HonestTexts` says of the constants what the page sends of a text: at most six bytes of
JSON for a byte, and little around it.
No handler reads `last`; TLC leaves it out of the states it tells apart (`VIEW System`) and
evaluates the action properties that read it on every step all the same.

**ClosedFile** takes a closed file to its end.  The way up is ChunkUpload's, with one more
fault, the append that tears (`AppendTears`).  `volume` is the file's bytes as they were
appended, fragments included, each a pair of a piece and a place in it, so that the receiver's
arithmetic (`ChunkAt`, `SealedLength`) either finds a sealed chunk or
does not.  `TdOpenChunk` says what a tag covers: key, prefix, index and total, and no
byte more or less than was sealed.  `Alters` may put the first data piece of the volume
last (`WithFirstLast`) or cut the last one off (`WithoutLast`), with the count in the
preamble made to fit or left as it was.  The receiver opens the link with a key
that is right, wrong, malformed or missing, and may reload; `TakeBreaks`, `TakeHiccups` and
`RangeBreaks` lose a request, put a proxy's 5xx in place of an answer, and break a
connection before or after the server has sent the range; `RangeFallsShort` is a response
shorter than its length.  That the page has a range and that its stream has said so are
two events.  A range sent to its end is `pending` until its stream reports it (`Reports`, the
ticket's `covered` is `delivered`), in any order, or is dropped behind its last block
(`StreamDropped`); `Completes` retires a ticket that is covered, in a step of its own.
`order` is history: "lost" once a range was reported ahead of an earlier one, or never.  How
blocks, touches and several streams race is Downloads' part.

**Senders** is the open and the closed sender page, as homepage and as landing, in several
tabs.  `localStorage` is one, `sessionStorage` each tab's.  A document's redirect script and
main script are two steps, other tabs may run in between, and `location.replace` takes
effect before the main script or after it (`Redirected`).  A text is words, one of our closed
links, or blank; `carried` is the history variable for what a person changed mode with.
Its names (`SpecTabs`, `NextTabs`, `document`) are kept apart from ChunkUpload's, so that one
module can hold the proofs of both.

Operators named `X_Something` and marked *mutant* are plausible bugs in `X`.  No
specification uses them; each shows that some property notices such a bug.  `TypeOK` in a
module says what its variables hold; the runs spend their time on the other properties.
The types are proved, by theorems of their own or as part of the inductive invariants.

## Properties and runs

All runs pass except the two named below, each of which exhibits a disagreement
between a comment and the code.

| run | configuration | shows |
|---|---|---|
| `throwstore` | 3 throws (one closed, of two bytes), 1 word, 1 address, 2 callers and the sweeper, 2 entries, 2 bytes, ttl 1, clock to 2 | `ReadOnce`, `NoLateRead`, `CodeWorksUntilDeadline`, `WithinCeilings`, `NothingLingers`; `ImplementsOneTimeThrow`: the store implements `OneTimeThrow` |
| `filestore_safety` | 3 files (2 chunks of one byte; one of two; one of one), 1 word, 2 tickets, 1 writer thread, 2 entries, 5 bytes | `OneOwner`, `WithinCeilings` (with an exact counter), `CodeWorksUntilDeadline` |
| `filestore_writes` | 1 file of 3 bytes in 2 chunks of up to 2, 2 writer threads, 2 restarts, `abandon` called | `DeclaredIsCeiling`, `ServedFilesAreWhole`, `NoOrphan`, `BytesLeaveTheVolume` |
| `filestore_faults` | 2 files (one closed), 1 writer thread, 3 bytes, 1 restart; appends, touches and unlinks may fail | `ReservationsEnd`; `ImplementsOneTimeThrow`, restarts included |
| `gatekeeper` | 3 IPs, 2 tracked, budget 2 in a window of 3, threshold 4 in 2, 6 misses | `AnswersLikeFullHistory`, `QuickMissesAreRationed`, `OnlyActiveIPsPastTheCeiling` |
| `upload_limiter` | 2 IPs, 1 tracked, 2 slots that live 2 ticks, 3 bytes in a window of 2, idle window 2, 4 uploads of a byte, clock to 3 | `BytesAreRationed`, `ConcurrencyIsLimited`, `NoPermanentBan` |
| `downloads` | 2 streams, 3 blocks, any ranges, a touch every other block, idle window 2 | `RetiredOnlyWhenAllWentOut`, `WholeStreamEndsTicket`, `FastEnoughIsNotSwept`, `OverrunIsBounded`, `TicketEnds` |
| `closed_file` | a file of 3 or 4 bytes in 2 sealed chunks and the header, 2 tries, every loss, 5xx, sweeps, 1 torn append, 1 alteration, 2 visits | `EndsWholeAndForGood`, `FailsOnlyForACause`, `SpentOnlyForAUsableKey`, `ReloadKeepsTheKey`, `EverybodyIsTold`, and of the way up `ThrownAsSent` and `OnlyAStoredChunkEndsIt` |
| `senders` | 2 tabs, 2 texts beside links and blanks, with WebCrypto and without | `DraftSurvives`, `ClosedModeSticks` |
| `relay` | 2 handlers, an open and a closed text, an open and a closed file, 2 codes, 1 closed address, 2 IPs with 1 slot, 2 entries per store | `OneSpace`, `FoundAsMeant`, `SlotsAreOwned`, `OneLimit`, `ServesWhatWasAsked` |

The two disagreements:

* `filestore_retried_chunk`: when an append fails half way, its fragment stays in
  the file and the index does not move.  The server answers 503 *try again*, the
  page does, and the whole chunk lands after the fragment.  All counters agree, so
  `finish` accepts a file that is longer than declared and not what was sent.
* `chunk_upload_lost_answer`: the answer to a stored chunk is lost, the page sends it
  again, the server says 400 because it wants the next one, and the upload fails
  with three tries left, against `HiccupsAreSurvived`.  `OnlyAStoredChunkEndsIt` shows that this is the one way a
  chunk fails early: retries do work for requests that never arrived.

More were met while modelling.  They have no run of their own, because other runs ask
more important questions; those that name a property come out of its run by changing
what is named.

* A stream touches its ticket every 4 MB.  A receiver that needs longer than the idle
  window for 4 MB loses the ticket although blocks keep going out, which the comment on
  the constant says must not happen (`MovingIsNotSwept` in place of
  `FastEnoughIsNotSwept` in `downloads`).  `FastEnoughIsNotSwept` says, and a theorem proves, which
  receivers are safe.
* An append to an upload that was swept meanwhile creates its file again; if that
  append then fails, the cleanup that exists for this case is skipped and nothing
  refers to the file any more (`NoOrphan` in `filestore_writes` with `DiskFails`).
* `_unlink` ignores an OSError because "the sweeper will pass again", but the path has
  left every queue and map by then, and its bytes no longer count against the
  ceiling (`BytesLeaveTheVolume` in `filestore_writes` with `UnlinkFails`).
* Upload slots age from the start of an upload, uploads from their last byte.  With the
  slot lifetime at the idle window, which the docstring allows and the defaults
  choose, an upload that takes longer than that no longer counts, and its IP may
  start another beside it.  If the old one is finished after all, `finish` pops the oldest
  slot, which is a younger upload's, "which slot is released does not matter" being true
  only while every upload has one.  So "uploads one IP may have in flight at once" is
  exceeded in two ways; `ConcurrencyIsLimited` says what limit remains.
* An OSError of `path.touch` in `begin` comes after the upload was registered: the slot goes
  back, the sender reads "malformed request" with a 400, and the upload holds its room until
  it is swept.  `ReservationsEnd` says that it is.
* A stream that breaks does not report what it sent, so the range that resumes it
  begins past the mark and does not count: the receiver has everything and the file
  stays until the ticket is idle.  The same happens without any loss when the next
  range, asked for over another connection, is reported before the one before it, or when
  a response is dropped behind its last block.  So a closed file that was handed over may
  outlive that by an idle window: `EndsWholeAndForGood` promises the end of its ticket only
  if every range was reported, each after the one before it (without `order = "kept"` it
  fails).
* `complete` runs when the socket has taken the last block.  If the connection breaks
  then, the receiver comes back to nothing.
* The closed receiver fetches range by range so that "a request that dies costs one chunk
  instead of the download" (`pages.py`, above `tdRange`), but `tdRange` is not tried again:
  the first range that fails ends the download, and with it the throw
  (`FailsOnlyForACause` without `trouble = "lost"`).
* `stripKey` says that "every outcome that leaves the throw alive keeps the URL whole".  It
  runs on every answer, so also on a 502 that the proxy gave without asking the server: the
  throw is alive and a reload finds no key (`ReloadKeepsTheKey` without `trouble`).
* A text with a lone surrogate, which JSON can carry, makes `text.encode` in `create_throw`
  raise and is answered 500.  The texts of Relay are those that can be encoded.
* The switch works beside the card of a throw too, and carries the text already thrown over as
  a draft; a text pasted while a send is under way is put in the textarea and not sent.
* A homepage that looked at the remembered mode before another tab chose the closed one
  writes the open mode over it: the second disjunct of `ClosedModeSticks`.

### Bounds

Time is a counter that stops at `Horizon`; durations are one to four ticks, so a
deadline can be reached exactly, missed by one and passed.  In the liveness runs
every deadline falls before the horizon (`CallPut`'s guard, `FileStoreAssumption`'s
last line), so nothing is saved or lost by the clock stopping.  The ceilings are
small enough to be hit: by count in `filestore_safety` (where all three files fit by
bytes) and `relay`, by bytes in `throwstore` and `filestore_faults` (where two do not fit),
and by codes in use wherever there are fewer words than throws.  In `throwstore` bytes and
codes always refuse before the count does; that the count holds is part of what
`CeilingsHold` proves.  Three files or throws are needed for a third to be
refused while two are in different stages; two threads for two callers to race
past each other's check; two IPs over a ceiling of one, or three over two, for the
sweeps to run.  Six misses fill a budget of two for three IPs and a threshold of
four.  `LastCall`, `MaxRestarts`, `MaxMisses`, `MaxUploads` and the piece count in
`AppendRaises` bound what the environment does and are marked where they are used.
`upload_limiter` checks no deadlock: when its uploads are spent and the clock stands,
nothing is left to do.  Its slots live two ticks and its clock goes to three, so that an
upload can outlive its slot and be finished among two younger ones; four uploads are what
it takes to see one too many.

In `relay` a throw is thrown once and an upload begun once; a chunk holds two bytes, the limits
are four, and the plans lie at and around the multiples of a chunk, with header and
without, and with every field wrong in turn.  The alphabet has three characters beside separators and
capitals, one word of the vocabulary ends in another (`ba`, `a`), so a run-together spelling has
more than one place to look for a cut.  Headers name the first byte, the last, the one
after it, nothing, and less than nothing.  In `closed_file` the last chunk is full or half; two
data chunks are what it takes to move one, one torn append and one alteration to break a
file, and two visits for a reload to find the throw as the first left it.  Two tabs are two
writers of one mode.

`filestore_writes` has one file because what it asks is about one file and the threads
that write it; the other two have several.  Two streams are what it takes for one to
outrun, resume or undercut the other; three blocks leave room for a hole between two
ranges, and a touch every other block for blocks without one.  Two tries of three
chunks let a late request meet every later stage of the page.  `InTime` (no
deadline past the horizon) is the bound of Downloads; ChunkUpload needs none, as
tries run out, and `MaxTears` and `MaxVisits` bound ClosedFile.  These stop when everybody is
done, so they check no deadlock.

Symmetry is used only in runs without liveness, over callers, words, tickets,
writer threads, handlers, streams, tabs and IPs, which no definition tells apart.

### Fairness

Time passes (`WF(Tick)`).  The sweeper keeps going round: `sweep_forever` is an
endless loop around a sleep.  A thread waiting for a lock gets it, and one that
claimed an unlink or is in the middle of an append goes on: critical sections are a
handful of dict operations and no lock is taken while another that could be waited
for is held, except the store's inside an upload's write lock, never the reverse.  A dead process
is restarted (`restart:` in `docker-compose.yml`).  No sender and no receiver is ever obliged
to do anything; the liveness properties are about what happens when they do not.
In Downloads an unlink that is due happens and `download_file` goes on from checkout to
open; nothing obliges a stream or its receiver.  In ChunkUpload every request that
still travels is answered and the page goes on when its promise settles: a fetch
always does, with an answer or an error.  ClosedFile asks the same of the upload
(`ServesUpload`, `Sends`) and of the receiver's page (`Receives`); nobody has to open the link, and
nobody has to reload.  Relay, Senders, Gatekeeper and UploadLimiter state
safety only and assume no fairness.

## Proofs

### The text store

`ThrowStoreProofs` proves, for every set of throws, codes and threads and every
ceiling and lifetime that satisfies `StoreAssumption`:

* `TypeCorrect`: `Spec => []TypeOK`; the byte counter in particular is never negative.
* `CeilingsHold`: `Spec => [](AccountingExact /\ WithinCeilings)`.
* `NeverReadTwice`, `NeverReadLate`, `CodeWorks`: `Spec => []ReadOnce`, `[]NoLateRead`,
  `[]CodeWorksUntilDeadline`.

They follow from `Invariance`: `Spec => []IInv`.  `ReadOnce` is not inductive: that a
take cannot get a throw a second time depends on there being no second entry for
it.  `EntriesAreIssued` says that every entry is the one its throw's sender was
told about and that nobody has read it; since `issued` names one code per throw, two
entries for one throw are impossible.  For a put to preserve it, the throw must
not have been put before, which is `PutsAreDistinct`: between its two steps a put
must stay the only one of its throw.  `SeenIsPast` says no thread's clock reading is
ahead of the clock, which is why a purge never drops an entry before its deadline,
however stale the reading (`CodeWorks`).  `NeverReadLate` needs that a take purges
with its own reading.

The byte counter needs sums.  `TotalsProofs` derives, from the cardinality theorems
of the library, how a total changes when a key is added or dropped or the map is
split, and `ThrowStoreProofs` lifts that to the purge.

`StoreRefinesOneTime` proves from the same invariant that the store implements the
safety part of the abstract specification, `Spec => OneTime!Safety`, with a throw's fate
read off `entries` and `reads`.  A step of the store is one hand-over, one birth, the lapse
of a set of throws, or several of these at once (a take purges first), and `OneTimeThrow`
allows such a combined step.  `ReadIsHandedOnce` adds that the abstract specification hands
no throw out twice; it is stated over an instance `Promise` with variables of its own.

`TotalsProofs` also holds what the other modules need of deques (popping from the left
keeps a deque sorted and loses only stamps that no later cutoff counts) and of files cut in
slices (how many there are, how long, and that they add up to the file).

### The file store

`FileStoreProofs`, for every set of files, codes, tickets and writer threads, every ceiling
and lifetime, restarts included:

* `TypeCorrect`, `EveryFileHasOneOwner` (`OneOwner`), `CeilingsHold` (`WithinCeilings`, with the
  exact counter) and `CodeIsGoodUntilDeadline`, whatever the disk does.
* `DeclaredIsNeverExceeded` and `WhatIsServedIsWhole`, if no append fails half way
  (`~DiskFails`); `NoFileIsOrphaned`, if no unlink fails either (`~UnlinkFails`).
* `FileStoreRefinesOneTime`: `Spec => OneTime!Safety`, faults and restarts included.

The hypotheses are not a convenience: the run `filestore_retried_chunk` and the list above
show what happens to these properties without them.

The first group follows from `MapsInv`.  As in the text store an entry is the one its
sender was told about (`EntriesAreFiled`), here in this life of the process, and no path is
drawn twice (`PathsAreUsed`), which is what keeps a file that moves from map to map out of
two of them.  The second follows from `BytesInv`, whose heart is `CountedIsOnDisk`: what an
upload has counted is what lies in its file, but for one chunk that is appended and not
counted yet, because at most one writer is inside an upload (`WritersAreApart`).  A sweep
between append and accounting breaks that relation for nobody: the writer finds its upload
gone (`WriteSwept`), and until then `RoomForChunks` bounds what it still puts there.

### The gate and the limiter

`GatekeeperProofs`: `GateAnswersExactly` (`[]AnswersLikeFullHistory`), `QuickMissesRationed`
and `OnlyActiveIPsAreTracked`, for any IPs, budget, threshold, windows and ceiling.
`GateInv` says that the deques are sorted and hold, after every cutoff that can still
matter, as many stamps as there were misses.  The quantified cutoff is what makes it
inductive: a prune forgets what is older than its own cutoff, time only moves cutoffs on,
and the sweep of a crowded map drops buckets that are empty after the present one.

`UploadLimiterProofs`: `TypeCorrect`, `WindowsAreRationed` (`[]BytesAreRationed`) and
`NobodyIsBannedForGood` from `LimiterInv`, which says of declared bytes what `GateInv` says of
misses, and that every slot was claimed by a start of its IP.  `ConcurrencyHolds` proves
`[]ConcurrencyIsLimited`, however long uploads go on.  `finish` releases the oldest slot,
whosever it was, so no slot belongs to an upload; `SlotsCoverUploads` says instead that
after every cutoff there are at least as many slots as uploads started after it, but for
the dones since then of uploads that were older.  Releasing the oldest slot keeps that: it
lowers the count after a cutoff only if no older slot is left, and then either the upload that
finishes was counted after that cutoff as well, or it was older and its done is.  A prune
forgets slots after no cutoff that can still matter.

### Downloads

`DownloadsProofs`, for any number of streams, size and touch interval:

* `NothingRetiresEarly`: `Spec => []RetiredOnlyWhenAllWentOut`,
* `WholeIsEnough`: `Spec => []WholeStreamEndsTicket`, and `TypeCorrect`,
* `OverrunEnds`: `Spec => []OverrunIsBounded`,
* `FastEnoughKeepsTicket`: `Spec => FastEnoughIsNotSwept`.

The invariant behind the first two says that every block below the mark went out in a range
that was sent to its end (`MarkIsCovered`), and that whoever may end the ticket saw the
mark at the end of the file (`RetiringSawTheEnd`).  The second is needed because
`delivered` and `complete` take the lock separately: between them another stream may
report or end the ticket.  The last theorem has an invariant of its own, `TouchInv`: the
touch that a stream made `since_touch` blocks ago left its deadline to the ticket, and
no later step took it back.

### Requests and handlers

`RelayProofs` begins with what has no state.  Of `parse_range`, for every header and every
size: a span lies inside the file (`SpanIsInside`) and is what the header names
(`SpanIsWhatWasAsked`), and a header is refused only if it names nothing
(`UnsatisfiableAsksForNothing`).  Of addresses, for every alphabet and vocabulary within the
two assumptions: a closed address is never read as a code (`SpacesAreDisjoint`), as its
first character is a digit and no word has one; the page's pattern and the server's
check agree (`PageTellsAsServer`); a code is understood written with separators
(`SeparatedCodeIsRead`) and without (`JoinedCodeIsRead`), because a prefix-free first list
leaves one place to cut (`OneSplit`), so every spelling in use means its code
(`SpellingsAreUnderstood`).  The code refuses ambiguous spellings; these theorems say
that it never has to.

Then the handlers, for any number of them, any throws, codes and addresses:

* `SpacesNeverMeet` (`[]OneSpace`) and `SlotsStayOwned` (`[]SlotsAreOwned`), from `RelayInv`: one
  stretch at a time, a code picked in the first step of a stretch is free in its second,
  and what lies under a code was given that code.  An address has at most as many slots as
  uploads in flight and dropped, and misses at most as many of them as aged out; it may
  miss fewer, since a finish whose slot had aged already finds none to release.
* `DownloadsServeWhatWasAsked` (`ServesWhatWasAsked`).
* `ThrowsAreFoundAsMeant` (`FoundAsMeant`): the miss at the end of a take that looked in both
  stores says something about both, although a throw may end between the two looks.  Its
  hypothesis is that each spelling is one of those `SpellingsAreUnderstood` covers.
* `OneLimitHolds` (`OneLimit`): for every limit and every size of chunk, what a page sends
  within the visible limit is not refused for its size or shape, in either mode, and what
  is over it does not get in.  It rests on the arithmetic of cuts and on `HonestTexts`.

### The pages

`PagesProofs`, for files of any number of chunks and size, any number of tries and visits:

* `UploadTypeCorrect`, `ThrownIsWhole` (`[]CodeMeansWhole`) and `OnlyAStoredChunkEnds`, for the
  upload alone, and `ClosedThrownIsWhole` (`[]ThrownAsSent`), for the bytes on the volume and
  appends that tear: every piece lies at its `Place` as long as nothing tore, and the file
  is longer than its pieces from then on (`FragmentsStay`).  Requests may
  be lost, repeated or late; `UploadInv` says that an answer is true and, since the upload only
  goes forward, stays true until the page reads it (`AnswerIsTrue`).
* `HandedOverIsWhole`, `ReloadIsSafe` and `KeyBeforeTake`, from `LinkInv`: what the page has
  opened is the first chunks of the file in order, and as long as the reports came in
  order, the ranges still to be reported lead one after the other from the ticket's mark
  to where the page reads on (`Leads`).
* `DownloadsFailForACause` (`[]FailsOnlyForACause`), from `CauseInv`: on a volume nobody has
  hurt every piece that was stored lies at its `Place`, which is where the receiver's
  arithmetic looks for it and what `ParseRange` serves.  That the last piece ends at the
  declared size is a lemma about sums of slices.
* `DraftsSurvive` and `ClosedModeIsKept`, for any number of tabs.

### What is left to TLC

Liveness, which rests on fairness: `NothingLingers`, `BytesLeaveTheVolume`, `ReservationsEnd`,
`TicketEnds`, `EverybodyIsTold`, and the fairness part of the two refinements
(`ImplementsOneTimeThrow` as a property; its safety part is proved for both stores).  Every
other property of a passing run is stated by a theorem.  The theorems speak of the
modules as they are, with their bounds: the clock stops at a `Horizon`, the budgets for
misses, restarts and visits are numbers, but any numbers.

## Plan

Done: all the modules above, and the proofs of every safety property their passing runs
check.  Left:

* The body of a chunk as it arrives: `put_chunk` touches its upload every 256 KB, as the
  streams of downloads do, and has no module of its own kind.

## Not modelled

Landings, legal pages, locales, markup and styles, content security policy, link
previews, log redaction, the pro-interest and feedback files, deployment and the
brute-force bench: text, formatting or configuration without protocol state.
`Settings` is the constants of the modules, an IP a model value; how `client_ip` reads it off the
headers is left out.  The pages' file limits are constants, those of the server may be set in the
environment: the models have one number for both, which holds unless an operator changes it.
Cryptography is outside: that a sealed chunk opens only with its key and at its place is
AES-GCM's claim.  Names, mime types and the encryption format string are carried by the
stores and change no decision, so the models leave them out.  Word lists are constants; the
draw of a code is an arbitrary choice, never a count of attempts.
