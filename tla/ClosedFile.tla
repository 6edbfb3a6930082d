------------------------------- MODULE ClosedFile -------------------------------
(***************************************************************************)
(* A closed file from its sender's page to its receiver's: ChunkUpload for *)
(* the way up, then the receiver page, its link, the take and the ranges   *)
(* it fetches one by one.                                                  *)
(*                                                                         *)
(* Bytes are told apart by where they belong: the byte <<i, j>> is the     *)
(* j-th of the i-th piece, and piece 0 is the preamble with the sealed     *)
(* header.  A sealed chunk opens only with its key and exactly its bytes,  *)
(* at its place in a file of as many chunks: that is AES-GCM's part.       *)
(***************************************************************************)
EXTENDS ChunkUpload, Sizes, Ranges

CONSTANTS
    FileSizes,          \* what the file may weigh before it is sealed
    HeaderBytes,        \* the JSON in the sealed header
    MaxTears,           \* appends that fail half way
    Alterations,        \* what may become of the file on the volume
    MaxVisits           \* times the receiver opens the link or reloads the page

ASSUME ClosedFileAssumption ==
    /\ FileSizes \subseteq 1 .. ClosedMax       \* sendFile refuses the others
    /\ \A n \in FileSizes : Len(ClosedPieces(n, HeaderBytes)) = Chunks
    /\ {PreambleBytes, HeaderBytes} \subseteq Nat \ {0}
    /\ {MaxTears, MaxVisits} \subseteq Nat
    /\ Alterations \subseteq {"swapped", "cut", "short"}

VARIABLES
    size,               \* file.size, and meta.size in the header
    volume,             \* the bytes of the file as they were appended
    torn,               \* pieces of which a failed append has left a fragment
    altered,            \* "no", or what became of the file on the volume
    life,               \* of the throw, and then of its ticket
    key,                \* the key the receiver page was loaded with
    fragment,           \* the key in its address bar
    visits,
    reader,             \* where the receiver page is
    trouble,            \* what befell this visit on its way to the server, if anything
    parts,              \* what tdFetchClosedFile has opened
    covered,            \* _Ticket.delivered
    pending,            \* the ranges sent to their end and not reported yet
    order               \* "kept", until one is reported ahead of an earlier one, or never

receiver == <<key, fragment, visits, reader, trouble, parts, covered, pending, order>>

allvars == <<vars, size, volume, torn, altered, life, receiver>>

InitAll ==
    /\ Init
    /\ size \in FileSizes
    /\ volume = << >>
    /\ torn = {}
    /\ altered = "no"
    /\ life = "unborn"
    /\ key = "missing" /\ fragment = "missing"
    /\ visits = 0
    /\ reader = "away"
    /\ trouble = "none"
    /\ parts = << >>
    /\ covered = 0 /\ pending = {} /\ order = "kept"

--------------------------------------------------------------------------------
(* The file.                                                               *)

Pieces == ClosedPieces(size, HeaderBytes)

Declared == ClosedPlan(size, HeaderBytes).size

Bytes(i) == [j \in 1 .. Pieces[i + 1] |-> <<i, j>>]

Preamble == SubSeq(Bytes(0), 1, PreambleBytes)
SealedHeader == SubSeq(Bytes(0), PreambleBytes + 1, Pieces[1])

\* The body of a response to a range the page asks for.
Served(from, to) ==
    LET span == ParseRange([kind |-> "span", first |-> from, last |-> to], Declared)
    IN  IF span.kind = "span"
        THEN SubSeq(volume, span.start + 1, Min({span.end + 1, Len(volume)}))
        ELSE << >>

\* preamble.chunks
Sealed == IF altered = "cut" THEN Chunks - 2 ELSE Chunks - 1

\* mutant: every chunk is sealed with one IV, and nothing is authenticated beside it
TdOpenChunk_Anywhere(i, bytes) ==
    /\ key = "right"
    /\ bytes \in {SealedHeader} \union {Bytes(k) : k \in 1 .. Chunks - 1}

\* The key, the prefix, the index and the total all enter into the tag.
TdOpenChunk(i, bytes) ==
    /\ key = "right"
    /\ SubSeq(volume, 1, PreambleBytes) = Preamble
    /\ Sealed = Chunks - 1
    /\ bytes = IF i = 0 THEN SealedHeader ELSE Bytes(i)

--------------------------------------------------------------------------------
(* The way up.                                                             *)

\* The write of a piece fails after its first byte, and the page hears 503.
AppendTears(r) ==
    /\ Cardinality(torn) < MaxTears
    /\ r \in requests
    /\ r.kind = "put"
    /\ upload = "open"
    /\ Expected(r)
    /\ torn' = torn \union {r.index}
    /\ volume' = Append(volume, <<r.index, 1>>)
    /\ Answered(r, 503)
    /\ UNCHANGED <<page, waiting, upload, next_chunk, landed, size, altered, life, receiver>>

\* A chunk that is stored is appended.
Stored == volume' = IF landed' = landed THEN volume ELSE volume \o Bytes(landed'[Len(landed')])

Beside ==
    /\ Stored
    /\ life' = IF upload # "thrown" /\ upload' = "thrown" THEN "waiting" ELSE life
    /\ UNCHANGED <<size, torn, altered, receiver>>

ServesUpload == (Serves /\ Beside) \/ \E r \in requests : AppendTears(r)

Sends == Page /\ Beside

\* Somebody else takes the throw, or its time is over; a ticket's idle window passes.
Goes ==
    /\ life \in {"waiting", "ticket"}
    /\ life' = "gone"
    /\ UNCHANGED <<vars, size, volume, torn, altered, receiver>>

\* What is on the volume without its last piece, where the count of chunks in the preamble,
\* which is in the clear, is made to fit ("cut") or is not ("short"); and with the first
\* sealed chunk put last.
WithoutLast == SubSeq(volume, 1, Len(volume) - Pieces[Chunks])

WithFirstLast ==
    LET first == Pieces[1] + 1
        second == Pieces[1] + Pieces[2] + 1
    IN  SubSeq(volume, 1, first - 1) \o SubSeq(volume, second, Len(volume))
            \o SubSeq(volume, first, second - 1)

Alters ==
    /\ altered = "no"
    /\ life = "waiting"
    /\ altered' \in Alterations
    /\ volume' = IF altered' = "swapped" THEN WithFirstLast ELSE WithoutLast
    /\ UNCHANGED <<vars, size, torn, life, receiver>>

--------------------------------------------------------------------------------
(* The receiver page is loaded.                                            *)

Fetching == {"preamble", "header", "chunks"}
Busy == {"asking"} \union Fetching

\* mutant: the key is imported when there is something to decrypt
FirstSight_Asks(k) == "asking"

\* tdImportKey: base64url of as many bytes as a key has.
Importable(k) == k \in {"right", "wrong"}

\* The page asks nothing of the server before it could import a key.
FirstSight(k) == IF Importable(k) THEN "asking" ELSE "key missing"

Loads(k) ==
    /\ reader \notin Busy
    /\ visits < MaxVisits
    /\ visits' = visits + 1
    /\ key' = k /\ fragment' = k
    /\ reader' = FirstSight(k)
    /\ trouble' = "none"
    /\ parts' = << >>
    /\ UNCHANGED <<vars, size, volume, torn, altered, life, covered, pending, order>>

\* The sender can pass on the link once the page shows it, and it may arrive mangled.
OpensLink ==
    /\ page = "done"
    /\ \E k \in {"right", "wrong", "malformed", "missing"} : Loads(k)

Reloads ==
    /\ reader # "away"
    /\ Loads(fragment)

--------------------------------------------------------------------------------
(* POST /api/throws/{code}.                                                *)

StripKey == fragment' = "missing"

\* mutant: the address is cleaned whatever comes back
KeepKey_Not == fragment' = "missing"

KeepKey == UNCHANGED fragment

TakeAnswered ==
    /\ reader = "asking"
    /\ IF life = "waiting"
       THEN life' = "ticket" /\ reader' = "preamble"
       ELSE UNCHANGED life /\ reader' = "not found"
    /\ StripKey
    /\ UNCHANGED <<vars, size, volume, torn, altered, key, visits, trouble, parts>>
    /\ UNCHANGED <<covered, pending, order>>

\* The request or its answer is lost.
TakeBreaks ==
    /\ reader = "asking"
    /\ \/ UNCHANGED life
       \/ life = "waiting" /\ life' = "ticket"
    /\ reader' = "no connection"
    /\ trouble' = "lost"
    /\ KeepKey
    /\ UNCHANGED <<vars, size, volume, torn, altered, key, visits, parts>>
    /\ UNCHANGED <<covered, pending, order>>

\* A 5xx that is not the server's.
TakeHiccups ==
    /\ Hiccups
    /\ reader = "asking"
    /\ reader' = "went wrong"
    /\ trouble' = "5xx"
    /\ StripKey
    /\ UNCHANGED <<vars, size, volume, torn, altered, life, key, visits, parts>>
    /\ UNCHANGED <<covered, pending, order>>

--------------------------------------------------------------------------------
(* tdFetchClosedFile.                                                      *)

\* mutant: chunks are looked for as if they lay there without their tags
ChunkAt_Untagged(i) == PreambleBytes + HeaderBytes + TagBytes + (i - 1) * ChunkBytes

\* at0, in the turn of the i-th chunk.
ChunkAt(i) == PreambleBytes + HeaderBytes + TagBytes + (i - 1) * (ChunkBytes + TagBytes)

SealedLength(i) == Min({ChunkBytes, size - (i - 1) * ChunkBytes}) + TagBytes

Turn == Len(parts) + 1

From ==
    CASE reader = "preamble" -> 0
      [] reader = "header" -> PreambleBytes
      [] OTHER -> ChunkAt(Turn)

To ==
    CASE reader = "preamble" -> PreambleBytes - 1
      [] reader = "header" -> ChunkAt(1) - 1
      [] OTHER -> ChunkAt(Turn) + SealedLength(Turn) - 1

Opens ==
    CASE reader = "preamble" -> TRUE
      [] reader = "header" -> TdOpenChunk(0, Served(From, To))
      [] OTHER -> TdOpenChunk(Turn, Served(From, To))

\* Where the chain of promises goes; plainDone is checked at its end.
Then ==
    CASE reader = "preamble" -> "header"
      [] reader = "header" \/ (reader = "chunks" /\ Turn < Sealed) -> "chunks"
      [] OTHER -> IF Sealed = Chunks - 1 THEN "handed over" ELSE "key bad"

\* The volume holds what the range asks for; a file that lost its end stops before the
\* length that was promised.
SentWhole == To < Len(volume)

Sent == [from |-> From, to |-> To]

\* The page has the range; the stream behind it has yielded its last block, and says so
\* some time later, or never.
RangeArrives ==
    /\ reader \in Fetching
    /\ life = "ticket"
    /\ SentWhole
    /\ pending' = pending \union {Sent}
    /\ reader' = IF Opens THEN Then ELSE "key bad"
    /\ parts' = IF Opens /\ reader = "chunks" THEN Append(parts, Served(From, To)) ELSE parts
    /\ UNCHANGED <<vars, size, volume, torn, altered, life, key, fragment, visits, trouble>>
    /\ UNCHANGED <<covered, order>>

\* The response ends short of its Content-Length: fetch fails, nothing is reported.
RangeFallsShort ==
    /\ reader \in Fetching
    /\ life = "ticket"
    /\ ~SentWhole
    /\ reader' = "key bad"
    /\ UNCHANGED <<vars, size, volume, torn, altered, life, key, fragment, visits, trouble, parts>>
    /\ UNCHANGED <<covered, pending, order>>

\* mutant: a range that is refused is asked for again
RangeMissed_Again ==
    /\ reader \in Fetching
    /\ life # "ticket"
    /\ UNCHANGED allvars

\* The page takes no second try.
RangeMissed ==
    /\ reader \in Fetching
    /\ life # "ticket"
    /\ reader' = "key bad"
    /\ trouble' = IF life = "gone" THEN "lost" ELSE trouble
    /\ UNCHANGED <<vars, size, volume, torn, altered, life, key, fragment, visits, parts>>
    /\ UNCHANGED <<covered, pending, order>>

\* The connection breaks, before the server has sent the range or after.
RangeBreaks ==
    /\ reader \in Fetching
    /\ life = "ticket"
    /\ \/ UNCHANGED pending
       \/ SentWhole /\ pending' = pending \union {Sent}
    /\ reader' = "key bad"
    /\ trouble' = "lost"
    /\ UNCHANGED <<vars, size, volume, torn, altered, life, key, fragment, visits, parts>>
    /\ UNCHANGED <<covered, order>>

Receives ==
    \/ TakeAnswered \/ TakeBreaks \/ TakeHiccups
    \/ RangeArrives \/ RangeFallsShort \/ RangeMissed \/ RangeBreaks

--------------------------------------------------------------------------------
(* Behind the last block of a range: delivered and complete take the lock  *)
(* one after the other, and of a ticket that is gone they change nothing.  *)

\* mutant: a range that begins where the last one ended leaves a gap
Delivered_Gap(from, to) == IF from < covered THEN Max({covered, to + 1}) ELSE covered

Delivered(from, to) == IF from <= covered THEN Max({covered, to + 1}) ELSE covered

Reports(span) ==
    /\ life = "ticket"
    /\ pending' = pending \ {span}
    /\ covered' = Delivered(span.from, span.to)
    /\ order' = IF \E earlier \in pending : earlier.from < span.from THEN "lost" ELSE order
    /\ UNCHANGED <<vars, size, volume, torn, altered, life>>
    /\ UNCHANGED <<key, fragment, visits, reader, trouble, parts>>

\* The server closes the generator where it waits after its last block.
StreamDropped(span) ==
    /\ life = "ticket"
    /\ pending' = pending \ {span}
    /\ order' = "lost"
    /\ UNCHANGED <<vars, size, volume, torn, altered, life>>
    /\ UNCHANGED <<key, fragment, visits, reader, trouble, parts, covered>>

Completes ==
    /\ life = "ticket"
    /\ covered = Declared
    /\ life' = "retired"
    /\ UNCHANGED <<vars, size, volume, torn, altered, receiver>>

EndsStreams == Completes \/ \E span \in pending : Reports(span) \/ StreamDropped(span)

NextAll ==
    \/ ServesUpload
    \/ Sends
    \/ (Sweep \/ Breaks) /\ Beside
    \/ Goes \/ Alters
    \/ OpensLink \/ Reloads
    \/ Receives
    \/ EndsStreams

\* Nobody has to open the link.  What the receiver page asks for is answered, or fails.
SpecAll ==
    /\ InitAll /\ [][NextAll]_allvars
    /\ WF_allvars(ServesUpload) /\ WF_allvars(Sends) /\ WF_allvars(Receives)

--------------------------------------------------------------------------------
(* Properties.                                                             *)

\* Where a piece begins on the volume, and where the last one ends.
Place(i) == IF i = 0 THEN 0 ELSE IF i = Chunks THEN Declared ELSE ChunkAt(i)

\* The volume holds every piece where the receiver's page will look for it, and no more.
VolumeIsWhole ==
    /\ Len(volume) = Declared
    /\ \A i \in Indices : \A j \in 1 .. Pieces[i + 1] : volume[Place(i) + j] = <<i, j>>

\* An address is given to the file as it was sent, each byte at its place, exactly when no
\* append has failed half way: requests that are lost, late or repeated cost nothing
\* (append_chunk's index, /api/files/{id}/done), but a fragment stays under the piece that
\* is sent again, and finish notices none of it.
ThrownAsSent ==
    upload = "thrown" /\ altered = "no" => (VolumeIsWhole <=> torn = {})

\* What the receiver page hands over is the file, each chunk at its place, whatever has
\* become of it on the volume: better nothing than half of it (tdFetchClosedFile).  By
\* then the throw is no longer there to be taken; and if the ranges the page asked for
\* were all reported in the order it asked for them, the ticket is to be retired
\* (delivered, complete).
EndsWholeAndForGood ==
    reader = "handed over" =>
        /\ parts = [i \in 1 .. Chunks - 1 |-> Bytes(i)]
        /\ life \notin {"unborn", "waiting"}
        /\ life = "ticket" /\ pending = {} /\ order = "kept" => covered = Declared

\* The page fails a download only for a cause: what it computes of the layout, what the
\* sender's page sent and what the server serves of it agree to the byte.
FailsOnlyForACause ==
    reader = "key bad" => key = "wrong" \/ torn # {} \/ altered # "no" \/ trouble = "lost"

\* A link whose key was cut off in the mail costs nobody the throw (tdImportKey).
SpentOnlyForAUsableKey ==
    [][life = "waiting" /\ life' = "ticket" => key \in {"right", "wrong"}]_allvars

\* While the throw is there, a reload reads with the key the page had; only a 5xx from
\* between the page and the server makes the page forget it too soon (stripKey).
ReloadKeepsTheKey ==
    life = "waiting" /\ reader # "away" /\ trouble # "5xx" => fragment = key

\* Sender and receiver are told how it went: tdUpload ends, and so does the reading of
\* a link.
EverybodyIsTold == PageEnds /\ (reader \in Busy ~> reader \notin Busy)
================================================================================
