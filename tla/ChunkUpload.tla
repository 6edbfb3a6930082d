------------------------------- MODULE ChunkUpload -------------------------------
(***************************************************************************)
(* One file on its way up: tdUpload of pages.py, the handlers of main.py   *)
(* it calls, and between them a network that may lose a request, lose an   *)
(* answer, or break a connection whose request arrives all the same.       *)
(*                                                                         *)
(* The server's side is one upload of FileStore, reduced to what its       *)
(* answers depend on.  The clock is left out: an upload that may be swept  *)
(* may be swept at any time.                                               *)
(***************************************************************************)
EXTENDS Naturals, Sequences

CONSTANTS
    Chunks,         \* pieces of the file
    Tries,          \* TD_CHUNK_TRIES
    Losses,         \* what the network does: "request", "answer", "late"
    Hiccups,        \* whether a request may be answered with a 5xx
    Sweeps          \* whether the upload may be swept

ASSUME UploadAssumption ==
    /\ {Chunks, Tries} \subseteq Nat \ {0}
    /\ Losses \subseteq {"request", "answer", "late"}
    /\ {Hiccups, Sweeps} \subseteq BOOLEAN

VARIABLES
    page,           \* where tdUpload is
    waiting,        \* the request whose promise it waits for
    requests,       \* on their way to the server
    answer,         \* on its way to the page, for the request it waits for
    upload,         \* the server's upload
    next_chunk,     \* _Upload.next_chunk
    landed          \* the pieces that were appended whole, in that order

vars == <<page, waiting, requests, answer, upload, next_chunk, landed>>

Indices == 0 .. Chunks - 1

\* `left` is put's argument of that name; it tells the attempts of a chunk apart.
Start == [kind |-> "start"]
Put(index, left) == [kind |-> "put", index |-> index, left |-> left]
Done == [kind |-> "done"]
Request == {Start, Done} \union {Put(index, left) : index \in Indices, left \in 1 .. Tries}

None == 0

Init ==
    /\ page = "waiting"              \* tdUpload begins with the first fetch
    /\ waiting = Start
    /\ requests = {Start}
    /\ answer = None
    /\ upload = "unborn"
    /\ next_chunk = 0
    /\ landed = << >>

--------------------------------------------------------------------------------
(* The server.  An answer to a request the page no longer waits for is lost. *)

Answered(r, status) ==
    /\ requests' = requests \ {r}
    /\ answer' = IF r = waiting /\ page = "waiting" THEN status ELSE answer

HandleStart ==
    /\ Start \in requests
    /\ upload' = "open"
    /\ Answered(Start, 201)
    /\ UNCHANGED <<page, waiting, next_chunk, landed>>

\* Refused: too big, too many uploads from here, no room.
RefuseStart(status) ==
    /\ Start \in requests
    /\ Answered(Start, status)
    /\ UNCHANGED <<page, waiting, upload, next_chunk, landed>>

Expected(r) == r.index = next_chunk

\* mutant: a chunk sent again is taken, but appended once more
HandlePut_TakesRetries(r) ==
    /\ r \in requests /\ r.kind = "put" /\ upload = "open" /\ r.index <= next_chunk
    /\ landed' = Append(landed, r.index)
    /\ next_chunk' = r.index + 1
    /\ Answered(r, 204)
    /\ UNCHANGED <<page, waiting, upload>>

HandlePut(r) ==
    /\ r \in requests
    /\ r.kind = "put"
    /\ upload = "open"
    /\ Expected(r)
    /\ landed' = Append(landed, r.index)
    /\ next_chunk' = next_chunk + 1
    /\ Answered(r, 204)
    /\ UNCHANGED <<page, waiting, upload>>

\* NoSuchUpload is a 404; BadChunk, for an index that is not the next, a 400.
RefusePut(r) ==
    /\ r \in requests
    /\ r.kind = "put"
    /\ \/ upload # "open" /\ Answered(r, 404)
       \/ upload = "open" /\ ~Expected(r) /\ Answered(r, 400)
    /\ UNCHANGED <<page, waiting, upload, next_chunk, landed>>

\* 502 or 504 from the proxy, which did not reach the server, or 503 for an
\* append that could not open its file, or for a done that found no free code.
Hiccup(r) ==
    /\ Hiccups
    /\ r \in requests
    /\ Answered(r, 503)
    /\ UNCHANGED <<page, waiting, upload, next_chunk, landed>>

\* received_bytes = declared_size says the same, as each piece has its full size.
AllHere == next_chunk = Chunks

HandleDone ==
    /\ Done \in requests
    /\ upload = "open"
    /\ AllHere
    /\ upload' = "thrown"
    /\ Answered(Done, 201)
    /\ UNCHANGED <<page, waiting, next_chunk, landed>>

RefuseDone ==
    /\ Done \in requests
    /\ \/ upload # "open" /\ Answered(Done, 404)
       \/ upload = "open" /\ ~AllHere /\ Answered(Done, 400)
    /\ UNCHANGED <<page, waiting, upload, next_chunk, landed>>

Sweep ==
    /\ Sweeps
    /\ upload = "open"
    /\ upload' = "swept"
    /\ UNCHANGED <<page, waiting, requests, answer, next_chunk, landed>>

--------------------------------------------------------------------------------
(* The page.                                                               *)

Fetches(r) ==
    /\ page' = "waiting"
    /\ waiting' = r
    /\ requests' = requests \union {r}
    /\ answer' = None

Stops(outcome) ==
    /\ page' = outcome
    /\ answer' = None
    /\ UNCHANGED <<waiting, requests>>

Ok == answer \in {201, 204}

\* What follows the request that was answered well.
Following ==
    CASE waiting.kind = "start" -> Put(0, Tries)
      [] waiting.kind = "put" /\ waiting.index + 1 < Chunks -> Put(waiting.index + 1, Tries)
      [] OTHER -> Done

GoesOn ==
    /\ Ok
    /\ waiting # Done
    /\ Fetches(Following)
    /\ UNCHANGED <<upload, next_chunk, landed>>

GetsCode ==
    /\ Ok
    /\ waiting = Done
    /\ Stops("done")
    /\ UNCHANGED <<upload, next_chunk, landed>>

\* mutant: the last try is given away
Retries_OneFewer == waiting.kind = "put" /\ waiting.left > 2

\* put tries again after a 5xx or a network error, while tries are left.
Retries == waiting.kind = "put" /\ waiting.left > 1

\* fail(response): no tries left, or an answer no retry would change.
Refused ==
    /\ answer \notin {None, 201, 204}
    /\ ~(Retries /\ answer >= 500)
    /\ Stops("failed")
    /\ UNCHANGED <<upload, next_chunk, landed>>

BacksOff ==
    /\ answer \notin {None, 201, 204}
    /\ Retries
    /\ answer >= 500
    /\ Stops("backing off")
    /\ UNCHANGED <<upload, next_chunk, landed>>

Again ==
    /\ page = "backing off"
    /\ Fetches(Put(waiting.index, waiting.left - 1))
    /\ UNCHANGED <<upload, next_chunk, landed>>

--------------------------------------------------------------------------------
(* The network breaks the connection of the request the page waits for.    *)

\* What becomes of the request.
Lost ==
    \/ "request" \in Losses /\ waiting \in requests /\ requests' = requests \ {waiting}
    \/ "late" \in Losses /\ waiting \in requests /\ UNCHANGED requests
    \/ "answer" \in Losses /\ answer # None /\ UNCHANGED requests

Breaks ==
    /\ page = "waiting"
    /\ Lost
    /\ page' = IF Retries THEN "backing off" ELSE "failed"
    /\ answer' = None
    /\ UNCHANGED <<waiting, upload, next_chunk, landed>>

Serves ==
    \/ HandleStart
    \/ \E status \in {400, 413, 429, 503} : RefuseStart(status)
    \/ HandleDone
    \/ RefuseDone
    \/ \E r \in requests : HandlePut(r) \/ RefusePut(r) \/ Hiccup(r)

Page == GoesOn \/ GetsCode \/ Refused \/ BacksOff \/ Again

Next == Serves \/ Sweep \/ Page \/ Breaks

\* A fetch always comes back, with an answer or an error, and the page goes on.
Spec == Init /\ [][Next]_vars /\ WF_vars(Serves) /\ WF_vars(Page)

--------------------------------------------------------------------------------
(* Properties.                                                             *)

TypeOK ==
    /\ page \in {"waiting", "backing off", "done", "failed"}
    /\ waiting \in Request
    /\ requests \subseteq Request
    /\ answer \in {None, 201, 204, 400, 404, 413, 429, 503}
    /\ upload \in {"unborn", "open", "thrown", "swept"}
    /\ next_chunk \in 0 .. Chunks
    /\ landed \in Seq(Indices)

Whole == landed = [i \in 1 .. Chunks |-> i - 1]

\* A file that has an address, and so every file whose sender was shown one, holds
\* every piece once and in order, and stays so: neither a retry nor a request that
\* arrives late adds to it (write_chunk, finish, tdUpload).
CodeMeansWhole == (upload = "thrown" \/ page = "done") => Whole

\* What really ends an upload at a chunk before its tries are spent, while the upload
\* is there: the chunk had landed already, and its answer was lost or it came late.
OnlyAStoredChunkEndsIt ==
    page = "failed" /\ waiting.kind = "put" =>
        waiting.left = 1 \/ upload = "swept" \/ waiting.index < next_chunk

\* Sending the same chunk again is what the server expects: while tries are left and
\* the upload is there, no hiccup at a chunk ends it (the comment on put in tdUpload).
HiccupsAreSurvived ==
    page = "failed" /\ waiting.kind = "put" => waiting.left = 1 \/ upload = "swept"

\* tdUpload never hangs: it ends with a code or a failure.
PageEnds == <>(page \in {"done", "failed"})
================================================================================
