------------------------------- MODULE PagesProofs -------------------------------
(***************************************************************************)
(* What the pages promise, for files of any number of chunks, any number   *)
(* of tries and visits, and whatever the network loses: the way up         *)
(* (ChunkUpload), the way down (ClosedFile) and the sender's draft         *)
(* (Senders).                                                              *)
(***************************************************************************)
EXTENDS ClosedFile, Senders, TotalsProofs

--------------------------------------------------------------------------------
(* The way up.                                                             *)

\* A request is one of three.
LEMMA RequestFields ==
    ASSUME NEW r \in Request
    PROVE  /\ r.kind \in {"start", "put", "done"}
           /\ r.kind = "start" <=> r = Start
           /\ r.kind = "done" <=> r = Done
           /\ r.kind = "put" => r.index \in Indices /\ r.left \in 1 .. Tries
<1>1. Start.kind = "start" /\ Done.kind = "done"
  BY DEF Start, Done
<1>2. ASSUME NEW index \in Indices, NEW left \in 1 .. Tries, r = Put(index, left)
      PROVE  r.kind = "put" /\ r.index = index /\ r.left = left
  BY <1>2 DEF Put
<1> QED
  BY <1>1, <1>2 DEF Request

LEMMA PutFields ==
    ASSUME NEW index \in Indices, NEW left \in 1 .. Tries
    PROVE  /\ Put(index, left) \in Request
           /\ Put(index, left).kind = "put"
           /\ Put(index, left).index = index
           /\ Put(index, left).left = left
BY DEF Put, Request

\* Whoever answered the request the page waits for, the answer says what is so, and what
\* it says stays so.
AnswerIsTrue ==
    /\ waiting.kind = "start" /\ Ok => upload # "unborn"
    /\ waiting.kind = "put" =>
           /\ answer \in {None, 204, 400, 404, 503}
           /\ answer \in {204, 400} => waiting.index < next_chunk
           /\ answer = 404 => upload \in {"thrown", "swept"}
    /\ waiting.kind = "done" /\ Ok => upload = "thrown"

\* The page asks for things in their order.
PageIsInOrder ==
    /\ waiting.kind # "start" => upload # "unborn"
    /\ waiting.kind = "put" => waiting.index <= next_chunk
    /\ page = "done" => upload = "thrown"
    /\ page = "backing off" => Retries
    /\ page # "waiting" => answer = None

UploadIsInOrder ==
    /\ landed = [i \in 1 .. next_chunk |-> i - 1]
    /\ upload = "thrown" => next_chunk = Chunks
    /\ Start \in requests => upload = "unborn"

UploadInv == TypeOK /\ UploadIsInOrder /\ PageIsInOrder /\ AnswerIsTrue /\ OnlyAStoredChunkEndsIt

LEMMA TypesAreFixed == Indices' = Indices /\ Request' = Request
BY DEF Indices, Request, Start, Put, Done

LEMMA TypedNext ==
    ASSUME page' \in {"waiting", "backing off", "done", "failed"},
           waiting' \in Request, requests' \subseteq Request,
           answer' \in {None, 201, 204, 400, 404, 413, 429, 503},
           upload' \in {"unborn", "open", "thrown", "swept"},
           next_chunk' \in 0 .. Chunks, landed' \in Seq(Indices)
    PROVE  TypeOK'
<1>1. waiting' \in Request' /\ requests' \subseteq Request' /\ landed' \in Seq(Indices)'
  BY TypesAreFixed
<1>2. answer' \in {None, 201, 204, 400, 404, 413, 429, 503}' /\ next_chunk' \in (0 .. Chunks)'
  BY DEF None
<1> QED
  BY <1>1, <1>2 DEF TypeOK

\* A step of the server keeps the types if what it changes of them is typed.
LEMMA ServerTypes ==
    ASSUME TypeOK, UNCHANGED <<page, waiting>>, requests' \subseteq requests,
           NEW status \in {201, 204, 400, 404, 413, 429, 503}, answer' \in {answer, status},
           upload' \in {"unborn", "open", "thrown", "swept"},
           next_chunk' \in 0 .. Chunks, landed' \in Seq(Indices)
    PROVE  TypeOK'
<1>1. page' \in {"waiting", "backing off", "done", "failed"} /\ waiting' \in Request
  BY ZenonT(30) DEF TypeOK
<1>2. requests' \subseteq Request
  BY ZenonT(30) DEF TypeOK
<1>3. answer' \in {None, 201, 204, 400, 404, 413, 429, 503}
  <2>1. answer \in {None, 201, 204, 400, 404, 413, 429, 503}
    BY ZenonT(30) DEF TypeOK
  <2> QED
    BY <2>1
<1> QED
  BY ZenonT(30), <1>1, <1>2, <1>3, TypedNext

\* What the types say, in the words the proofs need.
LEMMA UploadTypes ==
    ASSUME TypeOK
    PROVE  /\ waiting \in Request /\ requests \subseteq Request
           /\ Chunks \in Nat /\ Chunks # 0 /\ Tries \in Nat /\ Tries # 0
           /\ next_chunk \in Nat /\ next_chunk <= Chunks
<1>1. Chunks \in Nat /\ Chunks # 0 /\ Tries \in Nat /\ Tries # 0
  BY UploadAssumption
<1>2. waiting \in Request /\ requests \subseteq Request
  BY DEF TypeOK
<1>3. next_chunk \in 0 .. Chunks
  BY DEF TypeOK
<1> QED
  BY <1>1, <1>2, <1>3

LEMMA ChunkIsOneOfThem ==
    ASSUME NEW r \in Request, r.kind = "put"
    PROVE  /\ r.index \in Nat /\ r.index < Chunks
           /\ r.left \in Nat /\ r.left >= 1 /\ r.left <= Tries
           /\ r # Start /\ r # Done
<1>1. r.index \in Indices /\ r.left \in 1 .. Tries
  BY RequestFields
<1>2. Chunks \in Nat /\ Tries \in Nat
  BY UploadAssumption
<1>3. r # Start /\ r # Done
  BY RequestFields
<1> QED
  BY <1>1, <1>2, <1>3 DEF Indices

LEMMA InitUpload == Init => UploadInv
<1> SUFFICES ASSUME Init PROVE UploadInv
  OBVIOUS
<1>1. Start \in Request /\ Start.kind = "start" /\ Start # Done
  BY DEF Request, Start, Done
<1>2. next_chunk \in 0 .. Chunks /\ landed \in Seq(Indices)
  BY UploadAssumption DEF Init
<1>3. TypeOK
  BY <1>1, <1>2 DEF Init, TypeOK, None
<1>4. landed = [i \in 1 .. next_chunk |-> i - 1]
  BY DEF Init
<1> QED
  BY <1>1, <1>3, <1>4
  DEF Init, UploadInv, UploadIsInOrder, PageIsInOrder, AnswerIsTrue, OnlyAStoredChunkEndsIt, Ok, None

\* What a step of the server leaves to be shown: the page stays where it is, and an answer
\* is one for the request it waits for.
LEMMA ServerStep ==
    ASSUME UploadInv, TypeOK', UploadIsInOrder', AnswerIsTrue',
           UNCHANGED <<page, waiting>>,
           next_chunk <= next_chunk',
           upload # "unborn" => upload' # "unborn",
           upload \in {"thrown", "swept"} => upload' = upload,
           page # "waiting" => UNCHANGED answer
    PROVE  UploadInv'
<1>1. waiting \in Request /\ next_chunk \in Nat
  BY UploadTypes DEF UploadInv
<1>2. next_chunk' \in Nat
  <2>1. next_chunk' \in 0 .. Chunks
    BY DEF TypeOK
  <2> QED
    BY <2>1, UploadAssumption
<1>3. waiting.kind = "put" => waiting.index \in Nat
  BY <1>1, ChunkIsOneOfThem
<1>4. PageIsInOrder'
  <2>1. waiting.kind = "put" => waiting.index <= next_chunk
    BY DEF UploadInv, PageIsInOrder
  <2>2. (waiting.kind = "put" => waiting.index <= next_chunk)'
    BY <1>1, <1>2, <1>3, <2>1
  <2> QED
    BY <2>2 DEF UploadInv, PageIsInOrder, Retries
<1>5. OnlyAStoredChunkEndsIt'
  <2>1. waiting.kind = "put" /\ waiting.index < next_chunk => waiting.index < next_chunk'
    BY <1>1, <1>2, <1>3
  <2> QED
    BY <2>1 DEF UploadInv, OnlyAStoredChunkEndsIt
<1> QED
  BY <1>4, <1>5 DEF UploadInv

\* Whatever happens to a request is in order when the upload stays as it was.
LEMMA UploadStays ==
    ASSUME UploadInv, requests' \subseteq requests, UNCHANGED <<upload, next_chunk, landed>>
    PROVE  UploadIsInOrder'
BY DEF UploadInv, UploadIsInOrder

\* A request is answered, and that is all; and the answer refuses what there is reason to
\* refuse, or is no more than "not now".
LEMMA Refusing ==
    ASSUME UploadInv, NEW r \in requests, NEW status \in {400, 404, 413, 429, 503},
           Answered(r, status),
           UNCHANGED <<page, waiting, upload, next_chunk, landed>>,
           \/ status = 503
           \/ r = Start
           \/ r.kind = "put" /\ status = 404 /\ upload # "open"
           \/ r.kind = "put" /\ status = 400 /\ r.index # next_chunk
           \/ r = Done
    PROVE  UploadInv'
<1>1. waiting \in Request /\ next_chunk \in Nat /\ Start.kind = "start" /\ Done.kind = "done"
  BY UploadTypes DEF UploadInv, Start, Done
<1>2. requests' \subseteq requests
      /\ answer' = IF r = waiting /\ page = "waiting" THEN status ELSE answer
  BY DEF Answered
<1>3. TypeOK'
  <2>1. /\ upload' \in {"unborn", "open", "thrown", "swept"}
        /\ next_chunk' \in 0 .. Chunks /\ landed' \in Seq(Indices)
    BY ZenonT(30) DEF UploadInv, TypeOK
  <2> QED
    BY <1>2, <2>1, ServerTypes DEF UploadInv
<1>4. UploadIsInOrder'
  BY <1>2, UploadStays
<1>5. AnswerIsTrue'
  <2>1. CASE answer' = answer
    BY <2>1 DEF UploadInv, AnswerIsTrue, Ok
  <2>2. CASE answer' = status /\ r = waiting
    <3>1. ~Ok'
      BY <2>2 DEF Ok
    <3>2. ASSUME waiting.kind = "put"
          PROVE  /\ status \in {400, 404, 503}
                 /\ status = 400 => waiting.index < next_chunk
                 /\ status = 404 => upload \in {"thrown", "swept"}
      <4>1. waiting.index \in Nat /\ waiting.index <= next_chunk
        BY <1>1, <3>2, ChunkIsOneOfThem DEF UploadInv, PageIsInOrder
      <4>2. upload \in {"open", "thrown", "swept"}
        BY ZenonT(30), <3>2 DEF UploadInv, PageIsInOrder, TypeOK
      <4>3. \/ status = 503
            \/ status = 404 /\ upload # "open"
            \/ status = 400 /\ waiting.index # next_chunk
        BY <1>1, <2>2, <3>2
      <4> QED
        BY <1>1, <4>1, <4>2, <4>3
    <3> QED
      BY <2>2, <3>1, <3>2 DEF AnswerIsTrue
  <2> QED
    BY <1>2, <2>1, <2>2
<1> QED
  BY <1>1, <1>2, <1>3, <1>4, <1>5, ServerStep

LEMMA HandleStartKeeps == ASSUME UploadInv, HandleStart PROVE UploadInv'
<1>1. upload = "unborn" /\ upload' = "open" /\ Start \notin requests' /\ requests' \subseteq requests
  BY DEF HandleStart, Answered, UploadInv, UploadIsInOrder
<1>2. /\ UNCHANGED <<page, waiting, next_chunk, landed>>
      /\ answer' = IF Start = waiting /\ page = "waiting" THEN 201 ELSE answer
  BY DEF HandleStart, Answered
<1>3. TypeOK'
  <2>1. next_chunk' \in 0 .. Chunks /\ landed' \in Seq(Indices)
    BY <1>2 DEF UploadInv, TypeOK
  <2> QED
    BY <1>1, <1>2, <2>1, ServerTypes DEF UploadInv
<1>4. UploadIsInOrder'
  BY <1>1, <1>2 DEF UploadInv, UploadIsInOrder
<1>5. waiting.kind = "start"
  BY <1>1 DEF UploadInv, PageIsInOrder
<1>6. AnswerIsTrue'
  BY <1>1, <1>2, <1>5 DEF AnswerIsTrue
<1>7. next_chunk <= next_chunk'
  BY <1>2, UploadTypes DEF UploadInv
<1> QED
  BY <1>1, <1>2, <1>3, <1>4, <1>6, <1>7, ServerStep

LEMMA HandlePutKeeps == ASSUME UploadInv, NEW r, HandlePut(r) PROVE UploadInv'
<1>1. /\ r \in requests /\ r.kind = "put" /\ upload = "open" /\ r.index = next_chunk
      /\ landed' = Append(landed, r.index) /\ next_chunk' = next_chunk + 1
      /\ UNCHANGED <<page, waiting, upload>>
      /\ requests' \subseteq requests
      /\ answer' = IF r = waiting /\ page = "waiting" THEN 204 ELSE answer
  BY DEF HandlePut, Expected, Answered
<1>2. next_chunk \in Nat /\ next_chunk < Chunks /\ Chunks \in Nat /\ waiting \in Request
  BY <1>1, UploadTypes, ChunkIsOneOfThem DEF UploadInv
<1>3. TypeOK'
  <2>1. next_chunk' \in 0 .. Chunks /\ r.index \in Indices
    BY <1>1, <1>2 DEF Indices
  <2>2. landed' \in Seq(Indices)
    <3>1. landed \in Seq(Indices)
      BY DEF UploadInv, TypeOK
    <3> QED
      BY <1>1, <2>1, <3>1, AppendProperties
  <2> QED
    BY <1>1, <2>1, <2>2, ServerTypes DEF UploadInv
<1>4. landed' = [i \in 1 .. next_chunk' |-> i - 1]
  <2>1. landed = [i \in 1 .. next_chunk |-> i - 1] /\ landed \in Seq(Indices)
    BY DEF UploadInv, UploadIsInOrder, TypeOK
  <2>2. Len(landed) = next_chunk
    BY <1>2, <2>1
  <2> QED
    BY <1>1, <1>2, <2>1, <2>2
<1>5. UploadIsInOrder'
  BY <1>1, <1>4 DEF UploadInv, UploadIsInOrder
<1>6. AnswerIsTrue'
  <2>1. waiting.kind = "put" => waiting.index \in Nat
    BY <1>2, ChunkIsOneOfThem
  <2>2. CASE answer' = answer
    BY <1>1, <1>2, <2>1, <2>2 DEF UploadInv, AnswerIsTrue, Ok
  <2>3. CASE answer' = 204 /\ r = waiting
    BY <1>1, <1>2, <2>3 DEF AnswerIsTrue
  <2> QED
    BY <1>1, <2>2, <2>3
<1>7. next_chunk <= next_chunk'
  BY <1>1, <1>2
<1> QED
  BY <1>1, <1>3, <1>5, <1>6, <1>7, ServerStep

LEMMA HandleDoneKeeps == ASSUME UploadInv, HandleDone PROVE UploadInv'
<1>1. /\ upload = "open" /\ upload' = "thrown" /\ next_chunk = Chunks
      /\ UNCHANGED <<page, waiting, next_chunk, landed>>
      /\ requests' \subseteq requests
      /\ answer' = IF Done = waiting /\ page = "waiting" THEN 201 ELSE answer
  BY DEF HandleDone, AllHere, Answered
<1>2. Done.kind = "done"
  BY DEF Done
<1>3. TypeOK'
  <2>1. next_chunk' \in 0 .. Chunks /\ landed' \in Seq(Indices)
    BY <1>1 DEF UploadInv, TypeOK
  <2> QED
    BY <1>1, <2>1, ServerTypes DEF UploadInv
<1>4. UploadIsInOrder'
  BY <1>1 DEF UploadInv, UploadIsInOrder
<1>5. AnswerIsTrue'
  BY <1>1, <1>2 DEF UploadInv, AnswerIsTrue
<1>6. next_chunk <= next_chunk'
  BY <1>1, UploadTypes DEF UploadInv
<1> QED
  BY <1>1, <1>3, <1>4, <1>5, <1>6, ServerStep

LEMMA SweepKeeps == ASSUME UploadInv, Sweep PROVE UploadInv'
<1>1. upload = "open" /\ upload' = "swept"
      /\ UNCHANGED <<page, waiting, requests, answer, next_chunk, landed>>
  BY DEF Sweep
<1>2. TypeOK' /\ UploadIsInOrder'
  <2>1. upload' \in {"unborn", "open", "thrown", "swept"}
    BY <1>1
  <2>2. TypeOK'
    <3> DEFINE Pages == {"waiting", "backing off", "done", "failed"}
               Statuses == {None, 201, 204, 400, 404, 413, 429, 503}
    <3>1. page \in Pages /\ answer \in Statuses /\ landed \in Seq(Indices)
          /\ waiting \in Request /\ requests \subseteq Request /\ next_chunk \in 0 .. Chunks
      BY Zenon DEF UploadInv, TypeOK
    <3> HIDE DEF Pages, Statuses
    <3>2. page' \in Pages /\ answer' \in Statuses /\ landed' \in Seq(Indices)
          /\ waiting' \in Request /\ requests' \subseteq Request /\ next_chunk' \in 0 .. Chunks
      BY Zenon, <1>1, <3>1
    <3> USE DEF Pages, Statuses
    <3> QED
      BY Zenon, <2>1, <3>2, TypesAreFixed DEF TypeOK
  <2>3. UploadIsInOrder'
    BY <1>1 DEF UploadInv, UploadIsInOrder
  <2> QED
    BY <2>2, <2>3
<1>3. AnswerIsTrue'
  BY <1>1 DEF UploadInv, AnswerIsTrue, Ok
<1>4. next_chunk <= next_chunk'
  BY <1>1, UploadTypes DEF UploadInv
<1> QED
  BY <1>1, <1>2, <1>3, <1>4, ServerStep

\* Nothing is untrue of an answer that is not there.
LEMMA Silence == ASSUME answer' = None PROVE AnswerIsTrue'
<1>1. answer' = 0
  BY DEF None
<1>2. ~Ok'
  BY <1>1 DEF Ok
<1>3. answer' \in {None', 204, 400, 404, 503} /\ answer' \notin {204, 400, 404}
  BY <1>1 DEF None
<1> QED
  BY <1>2, <1>3, Zenon DEF AnswerIsTrue

\* The page asks for the next thing, or for the chunk once more.
LEMMA FetchKeeps ==
    ASSUME UploadInv, NEW r \in Request, Fetches(r), r # Start,
           UNCHANGED <<upload, next_chunk, landed>>, upload # "unborn",
           r.kind = "put" => r.index <= next_chunk
    PROVE  UploadInv'
<1>1. /\ page' = "waiting" /\ waiting' = r /\ answer' = None
      /\ requests' = requests \union {r}
  BY DEF Fetches
<1>2. Start.kind = "start" /\ r.kind # "start"
  BY RequestFields DEF Start
<1>3. TypeOK'
  <2>1. /\ waiting' \in Request /\ requests' \subseteq Request
        /\ upload' \in {"unborn", "open", "thrown", "swept"}
        /\ next_chunk' \in 0 .. Chunks /\ landed' \in Seq(Indices)
    BY ZenonT(30), <1>1 DEF UploadInv, TypeOK
  <2> QED
    BY <1>1, <2>1, TypedNext
<1>4. UploadIsInOrder'
  <2>1. Start \notin requests
    BY DEF UploadInv, UploadIsInOrder
  <2>2. (Start \notin requests)'
    BY <1>1, <2>1 DEF Start
  <2> QED
    BY <2>2 DEF UploadInv, UploadIsInOrder
<1>5. PageIsInOrder'
  BY <1>1 DEF PageIsInOrder
<1>6. AnswerIsTrue'
  BY <1>1, Silence
<1>7. OnlyAStoredChunkEndsIt'
  BY <1>1 DEF OnlyAStoredChunkEndsIt
<1> QED
  BY <1>3, <1>4, <1>5, <1>6, <1>7 DEF UploadInv

\* An answer that is there is one the page waits for, and a good one moves it on.
LEMMA GoodAnswer ==
    ASSUME UploadInv, Ok
    PROVE  /\ page = "waiting"
           /\ waiting.kind = "start" => upload # "unborn"
           /\ waiting.kind = "put" => upload # "unborn" /\ waiting.index < next_chunk
           /\ waiting.kind = "done" => upload = "thrown"
<1>1. answer # None /\ answer # 404 /\ answer # 503 /\ answer # 400
  BY DEF Ok, None
<1>2. page = "waiting"
  BY <1>1 DEF UploadInv, PageIsInOrder
<1>3. waiting.kind = "put" => answer = 204
  BY <1>1 DEF UploadInv, AnswerIsTrue
<1> QED
  BY <1>2, <1>3 DEF UploadInv, AnswerIsTrue, PageIsInOrder

LEMMA GoesOnKeeps == ASSUME UploadInv, GoesOn PROVE UploadInv'
<1>1. Ok /\ waiting # Done /\ Fetches(Following) /\ UNCHANGED <<upload, next_chunk, landed>>
  BY DEF GoesOn
<1>2. /\ waiting \in Request /\ Chunks \in Nat /\ Chunks # 0 /\ Tries \in Nat /\ Tries # 0
      /\ next_chunk \in Nat
  BY UploadTypes DEF UploadInv
<1>3. waiting.kind \in {"start", "put"}
  BY <1>1, <1>2, RequestFields
<1>4. upload # "unborn"
  BY <1>1, <1>3, GoodAnswer
<1>5. PICK r : r = Following
  OBVIOUS
<1>6. r \in Request /\ r # Start /\ (r.kind = "put" => r.index <= next_chunk)
  <2>0. Tries \in 1 .. Tries
    BY <1>2
  <2>1. CASE waiting.kind = "start"
    <3>1. r = Put(0, Tries) /\ 0 \in Indices
      BY <1>2, <1>5, <2>1 DEF Following, Indices
    <3> QED
      BY <1>2, <2>0, <3>1, PutFields, RequestFields
  <2>2. CASE waiting.kind = "put"
    <3>1. waiting.index \in Nat /\ waiting.index < next_chunk
      BY <1>1, <1>2, <2>2, ChunkIsOneOfThem, GoodAnswer
    <3>2. CASE waiting.index + 1 < Chunks
      <4>1. r = Put(waiting.index + 1, Tries)
        BY <1>5, <2>2, <3>2 DEF Following
      <4>2. waiting.index + 1 \in Indices
        BY <1>2, <3>1, <3>2 DEF Indices
      <4> QED
        BY <1>2, <2>0, <3>1, <4>1, <4>2, PutFields, RequestFields
    <3>3. CASE ~(waiting.index + 1 < Chunks)
      <4>1. r = Done
        BY <1>5, <2>2, <3>3 DEF Following
      <4> QED
        BY <4>1 DEF Done, Start, Request
    <3> QED
      BY <3>2, <3>3
  <2> QED
    BY <1>3, <2>1, <2>2
<1> QED
  BY <1>1, <1>4, <1>5, <1>6, FetchKeeps

LEMMA AgainKeeps == ASSUME UploadInv, Again PROVE UploadInv'
<1>1. page = "backing off" /\ Fetches(Put(waiting.index, waiting.left - 1))
      /\ UNCHANGED <<upload, next_chunk, landed>>
  BY DEF Again
<1>2. waiting \in Request /\ waiting.kind = "put" /\ waiting.left > 1
  BY <1>1, UploadTypes DEF UploadInv, PageIsInOrder, Retries
<1>3. waiting.index \in Indices /\ waiting.left - 1 \in 1 .. Tries
  BY <1>2, ChunkIsOneOfThem, RequestFields, UploadAssumption
<1>4. upload # "unborn" /\ waiting.index <= next_chunk
  BY <1>2 DEF UploadInv, PageIsInOrder
<1>5. PICK r : r = Put(waiting.index, waiting.left - 1)
  OBVIOUS
<1>6. r \in Request /\ r.kind = "put" /\ r.index = waiting.index
  BY <1>3, <1>5, PutFields
<1> QED
  BY <1>1, <1>4, <1>5, <1>6, FetchKeeps, RequestFields

\* The page stops waiting, for good or for a while.
LEMMA StopKeeps ==
    ASSUME UploadInv, NEW outcome \in {"backing off", "done", "failed"},
           /\ page' = outcome /\ answer' = None /\ requests' \subseteq requests
           /\ UNCHANGED <<waiting, upload, next_chunk, landed>>,
           outcome = "done" => upload = "thrown",
           outcome = "backing off" => Retries,
           outcome = "failed" => OnlyAStoredChunkEndsIt'
    PROVE  UploadInv'
<1>1. TypeOK'
  <2>1. /\ waiting' \in Request /\ requests' \subseteq Request
        /\ upload' \in {"unborn", "open", "thrown", "swept"}
        /\ next_chunk' \in 0 .. Chunks /\ landed' \in Seq(Indices)
    BY DEF UploadInv, TypeOK
  <2> QED
    BY <2>1, TypedNext
<1>2. UploadIsInOrder'
  BY UploadStays
<1>3. PageIsInOrder'
  BY DEF UploadInv, PageIsInOrder, Retries, None
<1>4. AnswerIsTrue'
  BY Silence
<1>5. OnlyAStoredChunkEndsIt'
  BY DEF OnlyAStoredChunkEndsIt
<1> QED
  BY <1>1, <1>2, <1>3, <1>4, <1>5 DEF UploadInv

LEMMA GetsCodeKeeps == ASSUME UploadInv, GetsCode PROVE UploadInv'
<1>1. /\ Ok /\ waiting = Done /\ page' = "done" /\ answer' = None
      /\ UNCHANGED <<waiting, requests, upload, next_chunk, landed>>
  BY DEF GetsCode, Stops
<1>2. waiting.kind = "done"
  BY <1>1 DEF Done
<1> QED
  BY <1>1, <1>2, GoodAnswer, StopKeeps

LEMMA LeftIsOne ==
    ASSUME UploadInv, waiting.kind = "put", ~Retries
    PROVE  waiting.left = 1
<1>1. waiting.left \in Nat /\ waiting.left >= 1
  BY UploadTypes, ChunkIsOneOfThem DEF UploadInv
<1> QED
  BY <1>1 DEF Retries

LEMMA RefusedKeeps == ASSUME UploadInv, Refused PROVE UploadInv'
<1>1. /\ answer \notin {None, 201, 204} /\ ~(Retries /\ answer >= 500)
      /\ page' = "failed" /\ answer' = None
      /\ UNCHANGED <<waiting, requests, upload, next_chunk, landed>>
  BY DEF Refused, Stops
<1>2. OnlyAStoredChunkEndsIt'
  <2> SUFFICES ASSUME waiting.kind = "put", waiting.left # 1, upload # "swept"
               PROVE  waiting.index < next_chunk
    BY <1>1 DEF OnlyAStoredChunkEndsIt
  <2>1. Retries
    BY LeftIsOne
  <2>2. answer \in {400, 404}
    BY <1>1, <2>1 DEF UploadInv, AnswerIsTrue
  <2>3. CASE answer = 400
    BY <2>3 DEF UploadInv, AnswerIsTrue
  <2>4. CASE answer = 404
    <3>1. upload = "thrown" /\ next_chunk = Chunks
      BY <2>4 DEF UploadInv, AnswerIsTrue, UploadIsInOrder
    <3> QED
      BY <3>1, UploadTypes, ChunkIsOneOfThem DEF UploadInv
  <2> QED
    BY <2>2, <2>3, <2>4
<1> QED
  BY <1>1, <1>2, StopKeeps

LEMMA BacksOffKeeps == ASSUME UploadInv, BacksOff PROVE UploadInv'
BY StopKeeps DEF BacksOff, Stops

LEMMA BreaksKeeps == ASSUME UploadInv, Breaks PROVE UploadInv'
<1>1. /\ page' = IF Retries THEN "backing off" ELSE "failed"
      /\ answer' = None /\ requests' \subseteq requests
      /\ UNCHANGED <<waiting, upload, next_chunk, landed>>
  BY DEF Breaks, Lost
<1>2. CASE Retries
  BY <1>1, <1>2, StopKeeps
<1>3. CASE ~Retries
  <2>1. OnlyAStoredChunkEndsIt'
    BY <1>1, <1>3, LeftIsOne DEF OnlyAStoredChunkEndsIt
  <2> QED
    BY <1>1, <1>3, <2>1, StopKeeps
<1> QED
  BY <1>2, <1>3

LEMMA UploadUnchanged == ASSUME UploadInv, UNCHANGED vars PROVE UploadInv'
<1>1. TypeOK'
  <2>1. /\ next_chunk' \in 0 .. Chunks /\ landed' \in Seq(Indices) /\ answer' \in {answer, 201}
        /\ upload' \in {"unborn", "open", "thrown", "swept"}
    BY DEF UploadInv, TypeOK, vars
  <2> QED
    BY <2>1, ServerTypes DEF UploadInv, vars
<1>2. UploadIsInOrder'
  BY UploadStays DEF vars
<1>3. PageIsInOrder' /\ OnlyAStoredChunkEndsIt'
  BY DEF UploadInv, PageIsInOrder, OnlyAStoredChunkEndsIt, Retries, vars
<1>4. AnswerIsTrue'
  BY DEF UploadInv, AnswerIsTrue, Ok, vars
<1> QED
  BY <1>1, <1>2, <1>3, <1>4 DEF UploadInv

LEMMA ServesKeeps == ASSUME UploadInv, Serves PROVE UploadInv'
<1>1. CASE HandleStart
  BY <1>1, HandleStartKeeps
<1>2. ASSUME NEW status \in {400, 413, 429, 503}, RefuseStart(status) PROVE UploadInv'
  BY <1>2, Refusing DEF RefuseStart
<1>3. CASE HandleDone
  BY <1>3, HandleDoneKeeps
<1>4. CASE RefuseDone
  BY <1>4, Refusing DEF RefuseDone
<1>5. ASSUME NEW r, HandlePut(r) PROVE UploadInv'
  BY <1>5, HandlePutKeeps
<1>6. ASSUME NEW r, RefusePut(r) PROVE UploadInv'
  BY <1>6, Refusing DEF RefusePut, Expected
<1>7. ASSUME NEW r, Hiccup(r) PROVE UploadInv'
  BY <1>7, Refusing DEF Hiccup
<1> QED
  BY <1>1, <1>2, <1>3, <1>4, <1>5, <1>6, <1>7 DEF Serves

LEMMA PageKeeps == ASSUME UploadInv, Page PROVE UploadInv'
BY GoesOnKeeps, GetsCodeKeeps, RefusedKeeps, BacksOffKeeps, AgainKeeps DEF Page

LEMMA UploadNext == UploadInv /\ [Next]_vars => UploadInv'
BY ServesKeeps, SweepKeeps, PageKeeps, BreaksKeeps, UploadUnchanged DEF Next

\* What has to be so of an upload is what the invariant keeps.
LEMMA WholeWhenThrown == UploadInv => TypeOK /\ CodeMeansWhole /\ OnlyAStoredChunkEndsIt
BY DEF UploadInv, UploadIsInOrder, PageIsInOrder, CodeMeansWhole, Whole

\* The requests, the answers and the state of the upload keep their types, however many
\* chunks and tries there are (tdUpload, _Upload).
THEOREM UploadTypeCorrect == Spec => []TypeOK
<1> QED
  BY InitUpload, UploadNext, WholeWhenThrown, PTL DEF Spec

\* A file with an address holds every chunk once and in order, for any number of chunks
\* and tries, whatever requests and answers are lost or late (write_chunk, finish).
THEOREM ThrownIsWhole == Spec => []CodeMeansWhole
<1> QED
  BY InitUpload, UploadNext, WholeWhenThrown, PTL DEF Spec

\* An upload that is still there ends at a chunk with tries left only if the chunk had
\* landed already (put in tdUpload).
THEOREM OnlyAStoredChunkEnds == Spec => []OnlyAStoredChunkEndsIt
<1> QED
  BY InitUpload, UploadNext, WholeWhenThrown, PTL DEF Spec

--------------------------------------------------------------------------------
(* The way down: what the receiver's page has opened so far, what the      *)
(* ticket counts as delivered, and the key in the address bar.             *)

\* What a read opened so far is the file so far.
ReadsOn ==
    /\ reader \in {"asking", "preamble", "header"} => parts = <<>>
    /\ reader = "chunks" =>
           /\ Sealed = Chunks - 1
           /\ Len(parts) \in 0 .. Chunks - 2
           /\ parts = [i \in 1 .. Len(parts) |-> Bytes(i)]

\* What a reader is doing says what became of the throw.
LifeOfThrow ==
    /\ life \in {"unborn", "waiting", "ticket", "gone", "retired"}
    /\ upload = "thrown" <=> life # "unborn"
    /\ life = "unborn" => reader = "away"
    /\ life \in {"unborn", "waiting"} => covered = 0 /\ pending = {} /\ order = "kept"
    /\ reader \in Fetching \cup {"handed over"} => life \notin {"unborn", "waiting"}

\* A page that asks has the key in memory and in its address bar.
AsksWithKey == reader = "asking" => key \in {"right", "wrong"} /\ fragment = key

\* What is handed over is the file.
HandsOver == reader = "handed over" => parts = [i \in 1 .. Chunks - 1 |-> Bytes(i)]

\* How far the page has asked for the file.
Reach == IF reader = "handed over" THEN Declared ELSE From

\* The ranges still to be reported lie before r.
Behind(spans, r) ==
    \A s \in spans : s.from \in Nat /\ s.to \in Nat /\ s.from <= s.to /\ s.to + 1 <= r

\* They lead, one after the other, from what counts as delivered to r.
Leads(spans, c, r) ==
    /\ \A s \in spans : c <= s.from
    /\ c < r => \E s \in spans : s.from = c
    /\ \A s \in spans : s.to + 1 = r \/ \E t \in spans : t.from = s.to + 1
    /\ \A s, t \in spans : s = t \/ s.to < t.from \/ t.to < s.from

\* Nothing counts as delivered that the page has not asked for; and as long as the
\* reports came in order, those to come count the rest.
StreamsBehind ==
    reader \in Fetching \cup {"handed over"} /\ life = "ticket" =>
        /\ covered \in Nat /\ covered <= Reach
        /\ Behind(pending, Reach)
        /\ order = "kept" => Leads(pending, covered, Reach)

LinkInv ==
    /\ size \in FileSizes
    /\ LifeOfThrow /\ ReadsOn /\ AsksWithKey
    /\ HandsOver /\ StreamsBehind /\ ReloadKeepsTheKey

LEMMA InitLink == InitAll => LinkInv
<1> SUFFICES ASSUME InitAll PROVE LinkInv
  OBVIOUS
<1>1. /\ size \in FileSizes /\ upload = "unborn" /\ life = "unborn" /\ reader = "away"
      /\ covered = 0 /\ pending = {} /\ order = "kept"
  BY DEF InitAll, Init
<1>2. LifeOfThrow /\ ReadsOn
  BY <1>1 DEF LifeOfThrow, ReadsOn, Fetching
<1> QED
  BY <1>1, <1>2 DEF LinkInv, AsksWithKey, HandsOver, StreamsBehind, Fetching, ReloadKeepsTheKey

\* What the bytes of a piece are depends on the file only.
LEMMA BytesStay == size' = size => \A i : Bytes(i)' = Bytes(i)
BY DEF Bytes, Pieces

\* The pieces of a closed file, and what they come to.
LEMMA PiecesOfTheFile ==
    ASSUME size \in FileSizes
    PROVE  /\ Chunks - 1 \in Nat \ {0}
           /\ (Chunks - 2) * ChunkBytes < size /\ size <= (Chunks - 1) * ChunkBytes
           /\ Declared = PreambleBytes + HeaderBytes + size + Chunks * TagBytes
           /\ Pieces \in Seq(Nat) /\ Len(Pieces) = Chunks
           /\ Pieces[1] = PreambleBytes + HeaderBytes + TagBytes
           /\ \A i \in 1 .. Chunks - 1 : Pieces[i + 1] = SealedLength(i)
<1> DEFINE first == PreambleBytes + HeaderBytes + TagBytes
<1>1. /\ Chunks \in Nat \ {0} /\ ChunkBytes \in Nat \ {0} /\ TagBytes \in Nat
      /\ PreambleBytes \in Nat /\ HeaderBytes \in Nat /\ first \in Nat
      /\ size \in Nat \ {0} /\ Len(Pieces) = Chunks
  <2>1. size \in 1 .. ClosedMax /\ ClosedMax \in Nat
    BY SizesAssumption, ClosedFileAssumption
  <2>2. Len(ClosedPieces(size, HeaderBytes)) = Chunks
    BY ClosedFileAssumption, Zenon
  <2>3. /\ Chunks \in Nat \ {0} /\ ChunkBytes \in Nat \ {0} /\ TagBytes \in Nat
        /\ PreambleBytes \in Nat /\ HeaderBytes \in Nat
    BY UploadAssumption, SizesAssumption, ClosedFileAssumption
  <2> QED
    BY <2>1, <2>2, <2>3 DEF Pieces
<1>2. Slices(size) = Cut(size, ChunkBytes)
  BY DEF Slices, Cut, Slice
<1>3. Pieces = Tagged(first, Cut(size, ChunkBytes), TagBytes)
  BY <1>2 DEF Pieces, ClosedPieces, Tagged
<1> HIDE DEF first
<1>4. PICK k, f, p : IsCut(size, ChunkBytes, TagBytes, first, k, f, p)
  BY <1>1, CutFile
<1>5. /\ k \in Nat \ {0} /\ (k - 1) * ChunkBytes < size /\ size <= k * ChunkBytes
      /\ Pieces \in Seq(Nat) /\ Len(Pieces) = k + 1 /\ Pieces[1] = first
      /\ \A i \in 1 .. k : Pieces[i + 1] = Slice(size, ChunkBytes, i) + TagBytes
      /\ Total(Pieces) = first + size + k * TagBytes
  <2>1. Pieces = p
    BY <1>3, <1>4 DEF IsCut
  <2> QED
    BY <1>4, <2>1 DEF IsCut
<1>6. k = Chunks - 1 /\ k - 1 = Chunks - 2
  BY <1>1, <1>5
<1>7. Declared = PreambleBytes + HeaderBytes + size + Chunks * TagBytes
  <2>1. Declared = Total(Pieces)
    BY DEF Declared, ClosedPlan, Pieces
  <2>2. k * TagBytes \in Nat /\ (k + 1) * TagBytes = k * TagBytes + TagBytes
    BY <1>1, <1>5
  <2>3. Chunks = k + 1
    BY <1>1, <1>5
  <2> QED
    BY <1>1, <1>5, <2>1, <2>2, <2>3 DEF first
<1>8. \A i \in 1 .. Chunks - 1 : Pieces[i + 1] = SealedLength(i)
  BY <1>5, <1>6 DEF SealedLength, Slice
<1> QED
  BY <1>1, <1>5, <1>6, <1>7, <1>8 DEF first

LEMMA SizesAreNumbers ==
    ASSUME LinkInv
    PROVE  /\ Chunks \in Nat /\ Chunks >= 2 /\ size \in Nat
           /\ ChunkBytes \in Nat /\ ChunkBytes > 0 /\ TagBytes \in Nat /\ TagBytes > 0
           /\ PreambleBytes \in Nat /\ PreambleBytes > 0 /\ HeaderBytes \in Nat
           /\ (Chunks - 2) * ChunkBytes < size /\ size <= (Chunks - 1) * ChunkBytes
           /\ Declared = PreambleBytes + HeaderBytes + size + Chunks * TagBytes
<1>1. /\ Chunks \in Nat \ {0} /\ ChunkBytes \in Nat \ {0} /\ TagBytes \in Nat \ {0}
      /\ PreambleBytes \in Nat \ {0} /\ HeaderBytes \in Nat \ {0}
  BY UploadAssumption, SizesAssumption, ClosedFileAssumption
<1>2. /\ size \in 1 .. ClosedMax /\ ClosedMax \in Nat
      /\ (Chunks - 2) * ChunkBytes < size /\ size <= (Chunks - 1) * ChunkBytes
      /\ Declared = PreambleBytes + HeaderBytes + size + Chunks * TagBytes
  BY ClosedFileAssumption, SizesAssumption, PiecesOfTheFile DEF LinkInv
<1>3. Chunks # 1
  <2> SUFFICES ASSUME Chunks = 1 PROVE FALSE
    OBVIOUS
  <2>1. (Chunks - 1) * ChunkBytes = 0
    BY <1>1
  <2> QED
    BY <1>2, <2>1
<1> QED
  BY <1>1, <1>2, <1>3

LEMMA DeclaredIsNumber == ASSUME LinkInv PROVE Declared \in Nat
<1>1. Chunks * TagBytes \in Nat
  BY SizesAreNumbers
<1> QED
  BY <1>1, SizesAreNumbers

\* A step that leaves the receiver alone, and the throw too unless it is born or goes.
LEMMA ReceiverStays ==
    ASSUME LinkInv, UNCHANGED <<size, receiver>>,
           life' \in {"unborn", "waiting", "ticket", "gone", "retired"},
           upload' = "thrown" <=> life' # "unborn",
           life' = "unborn" => life = "unborn",
           life' = "waiting" => life \in {"unborn", "waiting"},
           life' = "ticket" => life = "ticket",
           altered' = altered \/ life = "waiting"
    PROVE  LinkInv'
<1>1. UNCHANGED <<key, fragment, visits, reader, trouble, parts, covered, pending, order>>
  BY DEF receiver
<1>2. (\A i : Bytes(i)' = Bytes(i)) /\ Declared' = Declared
  BY BytesStay DEF Declared
<1>3. LifeOfThrow'
  BY <1>1 DEF LinkInv, LifeOfThrow, Fetching
<1>4. ReadsOn'
  <2>1. reader = "chunks" => Sealed' = Sealed
    BY DEF LinkInv, LifeOfThrow, Fetching, Sealed
  <2> QED
    BY <1>1, <1>2, <2>1 DEF LinkInv, ReadsOn, Fetching
<1>5. HandsOver' /\ StreamsBehind'
  <2>1. Reach' = Reach
    BY <1>1, <1>2 DEF Reach, From, ChunkAt, Turn
  <2> QED
    BY <1>1, <1>2, <2>1 DEF LinkInv, HandsOver, StreamsBehind, Behind, Leads, Fetching
<1>6. ReloadKeepsTheKey' /\ AsksWithKey'
  BY <1>1 DEF LinkInv, LifeOfThrow, ReloadKeepsTheKey, AsksWithKey
<1> QED
  BY <1>3, <1>4, <1>5, <1>6 DEF LinkInv

\* What the ticket counts as delivered before and after a range, and where the next begins.
LEMMA ChunkSteps ==
    ASSUME LinkInv, NEW i \in 1 .. Chunks - 1
    PROVE  /\ ChunkAt(i) \in Nat /\ SealedLength(i) \in Nat /\ SealedLength(i) > 0
           /\ i < Chunks - 1 => ChunkAt(i) + SealedLength(i) = ChunkAt(i + 1)
           /\ i = Chunks - 1 => ChunkAt(i) + SealedLength(i) = Declared
<1> USE SizesAreNumbers
<1>1. i \in Nat /\ i >= 1 /\ i <= Chunks - 1
  OBVIOUS
<1>2. /\ (i - 1) * ChunkBytes \in Nat /\ (i - 1) * TagBytes \in Nat
      /\ i * ChunkBytes = (i - 1) * ChunkBytes + ChunkBytes
      /\ (i - 1) * (ChunkBytes + TagBytes) = (i - 1) * ChunkBytes + (i - 1) * TagBytes
      /\ i * (ChunkBytes + TagBytes) = (i - 1) * (ChunkBytes + TagBytes) + ChunkBytes + TagBytes
  BY <1>1
<1>3. (i - 1) * ChunkBytes <= (Chunks - 2) * ChunkBytes
  BY <1>1
<1>4. PICK rest \in Nat : rest = size - (i - 1) * ChunkBytes
  BY <1>2, <1>3
<1>5. Min({ChunkBytes, rest}) = IF ChunkBytes <= rest THEN ChunkBytes ELSE rest
  BY <1>4 DEF Min
<1>6. SealedLength(i) = (IF ChunkBytes <= rest THEN ChunkBytes ELSE rest) + TagBytes
  BY <1>4, <1>5 DEF SealedLength
<1>7. ChunkAt(i) \in Nat
  BY <1>2 DEF ChunkAt
<1>8. ASSUME i < Chunks - 1 PROVE ChunkAt(i) + SealedLength(i) = ChunkAt(i + 1)
  <2>1. i * ChunkBytes <= (Chunks - 2) * ChunkBytes
    BY <1>1, <1>8
  <2>2. ChunkBytes <= rest
    BY <1>2, <1>4, <2>1
  <2>3. ChunkAt(i + 1) = PreambleBytes + HeaderBytes + TagBytes + i * (ChunkBytes + TagBytes)
    BY <1>1 DEF ChunkAt
  <2> QED
    BY <1>2, <1>6, <2>2, <2>3 DEF ChunkAt
<1>9. ASSUME i = Chunks - 1 PROVE ChunkAt(i) + SealedLength(i) = Declared
  <2>1. rest <= ChunkBytes /\ SealedLength(i) = rest + TagBytes
    BY <1>2, <1>4, <1>6, <1>9
  <2>2. Chunks * TagBytes = (i - 1) * TagBytes + TagBytes + TagBytes
    BY <1>1, <1>9
  <2> QED
    BY <1>2, <1>4, <2>1, <2>2 DEF ChunkAt
<1> QED
  BY <1>4, <1>6, <1>7, <1>8, <1>9

\* Once thrown, an upload stays thrown; until then it is not.
LEMMA ThrownStays ==
    ASSUME UploadInv, Next
    PROVE  upload = "thrown" => upload' = "thrown"
<1>1. Serves => (upload = "thrown" => upload' = "thrown")
  BY DEF Serves, HandleStart, RefuseStart, HandleDone, RefuseDone, HandlePut, RefusePut, Hiccup,
         UploadInv, UploadIsInOrder
<1>2. Page => upload' = upload
  BY DEF Page, GoesOn, GetsCode, Refused, BacksOff, Again
<1> QED
  BY <1>1, <1>2 DEF Next, Sweep, Breaks

LEMMA BesideKeeps == ASSUME UploadInv, LinkInv, Next, Beside PROVE LinkInv'
<1>1. /\ life' = IF upload # "thrown" /\ upload' = "thrown" THEN "waiting" ELSE life
      /\ UNCHANGED <<size, torn, altered, receiver>>
  BY DEF Beside
<1> QED
  BY <1>1, ThrownStays, ReceiverStays DEF LinkInv, LifeOfThrow

LEMMA AppendTearsKeeps ==
    ASSUME UploadInv, NEW r, AppendTears(r)
    PROVE  UploadInv' /\ (LinkInv => LinkInv')
<1>1. /\ r \in requests /\ Answered(r, 503)
      /\ UNCHANGED <<page, waiting, upload, next_chunk, landed, size, altered, life, receiver>>
  BY DEF AppendTears
<1>2. UploadInv'
  BY <1>1, Refusing
<1>3. LinkInv => LinkInv'
  BY <1>1, ReceiverStays DEF LinkInv, LifeOfThrow
<1> QED
  BY <1>2, <1>3

LEMMA GoesKeeps == ASSUME LinkInv, Goes PROVE LinkInv'
<1>1. /\ life \in {"waiting", "ticket"} /\ life' = "gone"
      /\ UNCHANGED <<upload, size, altered, receiver>>
  BY DEF Goes, vars
<1> QED
  BY <1>1, ReceiverStays DEF LinkInv, LifeOfThrow

LEMMA AltersKeeps == ASSUME LinkInv, Alters PROVE LinkInv'
<1>1. life = "waiting" /\ UNCHANGED <<upload, size, life, receiver>>
  BY DEF Alters, vars
<1> QED
  BY <1>1, ReceiverStays DEF LinkInv, LifeOfThrow

\* A link is opened when there is a throw, and a page that was there is there again.
LEMMA LoadsKeeps ==
    ASSUME LinkInv, NEW k, Loads(k), life # "unborn"
    PROVE  LinkInv'
<1>1. /\ key' = k /\ fragment' = k /\ parts' = <<>> /\ trouble' = "none"
      /\ reader' = IF k \in {"right", "wrong"} THEN "asking" ELSE "key missing"
      /\ UNCHANGED <<upload, size, altered, life, covered, pending, order>>
  BY DEF Loads, FirstSight, Importable, vars
<1>2. reader' \notin Fetching /\ reader' # "handed over" /\ reader' # "away"
  BY <1>1 DEF Fetching
<1>3. LifeOfThrow'
  BY <1>1, <1>2 DEF LinkInv, LifeOfThrow, Fetching
<1>4. ReadsOn'
  BY <1>1, <1>2 DEF ReadsOn, Fetching
<1>5. AsksWithKey' /\ ReloadKeepsTheKey' /\ HandsOver' /\ StreamsBehind'
  BY <1>1, <1>2 DEF AsksWithKey, ReloadKeepsTheKey, HandsOver, StreamsBehind
<1> QED
  BY <1>1, <1>3, <1>4, <1>5 DEF LinkInv

LEMMA OpensLinkKeeps == ASSUME UploadInv, LinkInv, OpensLink PROVE LinkInv'
<1>1. page = "done" /\ \E k \in {"right", "wrong", "malformed", "missing"} : Loads(k)
  BY DEF OpensLink
<1>2. life # "unborn"
  BY <1>1 DEF UploadInv, PageIsInOrder, LinkInv, LifeOfThrow
<1> QED
  BY <1>1, <1>2, LoadsKeeps

LEMMA ReloadsKeeps == ASSUME LinkInv, Reloads PROVE LinkInv'
<1>1. Loads(fragment) /\ life # "unborn"
  BY DEF Reloads, LinkInv, LifeOfThrow
<1> QED
  BY <1>1, LoadsKeeps

\* A reader that stops for another cause than the end of the file.
LEMMA GivingUp ==
    ASSUME LinkInv, UNCHANGED <<upload, size, altered, key>>,
           reader \in Busy,
           reader' \in {"not found", "no connection", "went wrong", "key bad"},
           life' \in {"unborn", "waiting", "ticket", "gone", "retired"},
           life' \in {"unborn", "waiting"} => life' = life /\ UNCHANGED <<covered, pending, order>>,
           life = "unborn" => life' = life,
           life' = "waiting" => UNCHANGED fragment \/ trouble' = "5xx"
    PROVE  LinkInv'
<1>1. reader' \notin Fetching /\ reader' \notin {"handed over", "asking", "away"}
  BY DEF Fetching
<1>2. life # "unborn" /\ (life = "waiting" => reader = "asking")
  BY DEF LinkInv, LifeOfThrow, Fetching, Busy
<1>3. LifeOfThrow'
  BY <1>1, <1>2 DEF LinkInv, LifeOfThrow, Fetching
<1>4. ReadsOn'
  BY <1>1 DEF ReadsOn, Fetching
<1>5. AsksWithKey' /\ HandsOver' /\ StreamsBehind'
  BY <1>1 DEF AsksWithKey, HandsOver, StreamsBehind
<1>6. ReloadKeepsTheKey'
  BY <1>2 DEF LinkInv, AsksWithKey, ReloadKeepsTheKey
<1> QED
  BY <1>3, <1>4, <1>5, <1>6 DEF LinkInv

LEMMA TakeAnsweredKeeps == ASSUME LinkInv, TakeAnswered PROVE LinkInv'
<1>1. /\ reader = "asking" /\ fragment' = "missing"
      /\ UNCHANGED <<upload, size, altered, key, visits, trouble, parts, covered, pending, order>>
  BY DEF TakeAnswered, StripKey, vars
<1>2. CASE life = "waiting"
  <2>1. life' = "ticket" /\ reader' = "preamble"
    BY <1>2 DEF TakeAnswered
  <2>2. covered' = 0 /\ pending' = {} /\ parts' = <<>>
    BY <1>1, <1>2 DEF LinkInv, LifeOfThrow, ReadsOn
  <2>3. LifeOfThrow' /\ ReadsOn'
    BY <1>1, <1>2, <2>1, <2>2 DEF LinkInv, LifeOfThrow, ReadsOn, Fetching
  <2>4. AsksWithKey' /\ HandsOver' /\ ReloadKeepsTheKey'
    BY <2>1 DEF AsksWithKey, HandsOver, ReloadKeepsTheKey
  <2>5. StreamsBehind'
    <3>1. Reach' = 0
      BY <2>1 DEF Reach, From
    <3>2. Behind({}, 0) /\ Leads({}, 0, 0)
      BY DEF Behind, Leads
    <3>3. /\ covered' \in Nat /\ covered' <= Reach'
          /\ Behind(pending', Reach') /\ Leads(pending', covered', Reach')
      BY <2>2, <3>1, <3>2
    <3>4. Behind(pending, Reach)' /\ Leads(pending, covered, Reach)'
      BY <3>3 DEF Behind, Leads
    <3> QED
      BY <3>3, <3>4 DEF StreamsBehind
  <2> QED
    BY <1>1, <2>3, <2>4, <2>5 DEF LinkInv
<1>3. CASE life # "waiting"
  <2>1. life' = life /\ reader' = "not found"
    BY <1>3 DEF TakeAnswered
  <2>2. reader \in Busy
    BY <1>1 DEF Busy
  <2> QED
    BY <1>1, <1>3, <2>1, <2>2, GivingUp DEF LinkInv, LifeOfThrow
<1> QED
  BY <1>2, <1>3

LEMMA TakeBreaksKeeps == ASSUME LinkInv, TakeBreaks PROVE LinkInv'
<1>1. /\ reader = "asking" /\ reader' = "no connection"
      /\ life' = life \/ (life = "waiting" /\ life' = "ticket")
      /\ UNCHANGED <<upload, size, altered, key, fragment, covered, pending, order>>
  BY DEF TakeBreaks, KeepKey, vars
<1>2. reader \in Busy
  BY <1>1 DEF Busy
<1> QED
  BY <1>1, <1>2, GivingUp DEF LinkInv, LifeOfThrow

LEMMA TakeHiccupsKeeps == ASSUME LinkInv, TakeHiccups PROVE LinkInv'
<1>1. /\ reader = "asking" /\ reader' = "went wrong" /\ trouble' = "5xx"
      /\ UNCHANGED <<upload, size, altered, life, key, covered, pending, order>>
  BY DEF TakeHiccups, StripKey, vars
<1>2. reader \in Busy
  BY <1>1 DEF Busy
<1> QED
  BY <1>1, <1>2, GivingUp DEF LinkInv, LifeOfThrow

LEMMA RangeMissedKeeps == ASSUME LinkInv, RangeMissed PROVE LinkInv'
<1>1. /\ reader \in Fetching /\ reader' = "key bad"
      /\ UNCHANGED <<upload, size, altered, life, key, fragment, covered, pending, order>>
  BY DEF RangeMissed, vars
<1>2. reader \in Busy
  BY <1>1 DEF Busy
<1> QED
  BY <1>1, <1>2, GivingUp DEF LinkInv, LifeOfThrow

LEMMA RangeBreaksKeeps == ASSUME LinkInv, RangeBreaks \/ RangeFallsShort PROVE LinkInv'
<1>1. /\ reader \in Fetching /\ reader' = "key bad" /\ life = "ticket"
      /\ UNCHANGED <<upload, size, altered, life, key, fragment>>
  BY DEF RangeBreaks, RangeFallsShort, vars
<1>2. reader \in Busy
  BY <1>1 DEF Busy
<1> QED
  BY <1>1, <1>2, GivingUp

\* Every chunk begins inside the file, behind the preamble.
LEMMA ChunksInside ==
    ASSUME LinkInv, NEW n \in 1 .. Chunks - 1
    PROVE  PreambleBytes < ChunkAt(n) /\ ChunkAt(n) < Declared
<1>1. /\ (n - 1) * ChunkBytes \in Nat /\ (n - 1) * ChunkBytes <= (Chunks - 2) * ChunkBytes
      /\ n * TagBytes \in Nat /\ n * TagBytes <= Chunks * TagBytes
  BY TimesGrows, SizesAreNumbers
<1>2. /\ n * TagBytes = (n - 1) * TagBytes + TagBytes
      /\ (n - 1) * (ChunkBytes + TagBytes) = (n - 1) * ChunkBytes + (n - 1) * TagBytes
      /\ (n - 1) * TagBytes \in Nat
  BY SizesAreNumbers
<1>3. ChunkAt(n) = PreambleBytes + HeaderBytes + (n - 1) * ChunkBytes + n * TagBytes
  BY <1>1, <1>2, SizesAreNumbers DEF ChunkAt
<1> QED
  BY <1>1, <1>2, <1>3, SizesAreNumbers

\* Where a range begins and ends, and that it lies in the file.
LEMMA RangeInside ==
    ASSUME LinkInv, reader \in Fetching
    PROVE  /\ From \in Nat /\ To \in Nat /\ From <= To /\ To + 1 <= Declared /\ Declared \in Nat
           /\ reader = "preamble" => To + 1 = PreambleBytes
           /\ reader = "header" => To + 1 = ChunkAt(1)
           /\ reader = "chunks" =>
                  /\ Turn \in 1 .. Chunks - 1
                  /\ Turn < Chunks - 1 => To + 1 = ChunkAt(Turn + 1)
                  /\ Turn = Chunks - 1 => To + 1 = Declared
<1>1. Chunks \in Nat /\ Chunks >= 2 /\ PreambleBytes \in Nat /\ PreambleBytes > 0 /\ Declared \in Nat
  BY SizesAreNumbers, DeclaredIsNumber
<1>2. PICK d \in Nat : d = ChunkAt(1) /\ PreambleBytes < d /\ d < Declared
  BY <1>1, ChunksInside, ChunkSteps
<1>3. CASE reader = "preamble"
  <2>1. From = 0 /\ To = PreambleBytes - 1
    BY <1>3 DEF From, To
  <2> QED
    BY <1>1, <1>2, <1>3, <2>1
<1>4. CASE reader = "header"
  <2>1. From = PreambleBytes /\ To = d - 1
    BY <1>2, <1>4 DEF From, To
  <2> QED
    BY <1>1, <1>2, <1>4, <2>1
<1>5. CASE reader = "chunks"
  <2>1. PICK n \in 1 .. Chunks - 1 : n = Turn
    <3>1. Len(parts) \in 0 .. Chunks - 2
      BY <1>5, Zenon DEF LinkInv, ReadsOn
    <3> QED
      BY <1>1, <3>1 DEF Turn
  <2>2. PICK f \in Nat, l \in Nat \ {0} : f = ChunkAt(n) /\ l = SealedLength(n)
    BY ChunkSteps
  <2>3. From = f /\ To = f + l - 1
    BY <1>5, <2>1, <2>2 DEF From, To
  <2>4. f + l <= Declared
    <3>1. n < Chunks - 1 => f + l = ChunkAt(n + 1) /\ ChunkAt(n + 1) < Declared
      BY <1>1, <2>2, ChunkSteps, ChunksInside
    <3> QED
      BY <1>1, <2>1, <2>2, <3>1, ChunkSteps
  <2>5. From \in Nat /\ To \in Nat /\ From <= To /\ To + 1 = f + l
    BY <2>2, <2>3
  <2>6. /\ n < Chunks - 1 => f + l = ChunkAt(n + 1)
        /\ n = Chunks - 1 => f + l = Declared
    BY <2>2, ChunkSteps
  <2> QED
    BY <1>1, <1>5, <2>1, <2>4, <2>5, <2>6
<1> QED
  BY <1>3, <1>4, <1>5 DEF Fetching

\* The range just sent goes on where the others lead.
LEMMA LeadsOn ==
    ASSUME NEW P, NEW c \in Nat, NEW r \in Nat, NEW e \in Nat, c <= r, r <= e, Behind(P, r)
    PROVE  /\ Behind(P \cup {[from |-> r, to |-> e]}, e + 1)
           /\ Leads(P, c, r) => Leads(P \cup {[from |-> r, to |-> e]}, c, e + 1)
<1> DEFINE n == [from |-> r, to |-> e]
<1>1. n.from = r /\ n.to = e
  OBVIOUS
<1> HIDE DEF n
<1>2. \A s \in P : s.from \in Nat /\ s.to \in Nat /\ s.from <= s.to /\ s.to < r /\ s.to + 1 <= r
  BY DEF Behind
<1>3. Behind(P \cup {n}, e + 1)
  BY <1>1, <1>2 DEF Behind
<1>4. ASSUME Leads(P, c, r) PROVE Leads(P \cup {n}, c, e + 1)
  <2>1. /\ \A s \in P : c <= s.from
        /\ c < r => \E s \in P : s.from = c
        /\ \A s \in P : s.to + 1 = r \/ \E t \in P : t.from = s.to + 1
        /\ \A s, t \in P : s = t \/ s.to < t.from \/ t.to < s.from
    BY <1>4 DEF Leads
  <2>2. \A s \in P \cup {n} : c <= s.from
    BY <1>1, <2>1
  <2>3. \E s \in P \cup {n} : s.from = c
    <3>1. CASE c < r
      BY <2>1, <3>1
    <3>2. CASE c = r
      BY <1>1, <3>2
    <3> QED
      BY <3>1, <3>2
  <2>4. \A s \in P \cup {n} : s.to + 1 = e + 1 \/ \E t \in P \cup {n} : t.from = s.to + 1
    BY <1>1, <2>1
  <2>5. \A s, t \in P \cup {n} : s = t \/ s.to < t.from \/ t.to < s.from
    BY <1>1, <1>2, <2>1
  <2> QED
    BY <2>2, <2>3, <2>4, <2>5 DEF Leads
<1> QED
  BY <1>3, <1>4 DEF n

\* The first of them is reported, and the rest lead on from its end.
LEMMA LeadsFromFirst ==
    ASSUME NEW P, NEW c \in Nat, NEW r \in Nat, Behind(P, r), Leads(P, c, r),
           NEW s \in P, \A t \in P : ~(t.from < s.from)
    PROVE  s.from = c /\ Leads(P \ {s}, s.to + 1, r)
<1>1. /\ \A t \in P : c <= t.from
      /\ c < r => \E t \in P : t.from = c
      /\ \A u \in P : u.to + 1 = r \/ \E t \in P : t.from = u.to + 1
      /\ \A u, t \in P : u = t \/ u.to < t.from \/ t.to < u.from
  BY DEF Leads
<1>2. \A t \in P : t.from \in Nat /\ t.to \in Nat /\ t.from <= t.to /\ t.to + 1 <= r
  BY DEF Behind
<1>3. s.from = c
  <2>1. c < r
    BY <1>1, <1>2
  <2>2. PICK t \in P : t.from = c
    BY <1>1, <2>1
  <2> QED
    BY <1>1, <1>2, <2>2
<1>4. \A t \in P \ {s} : s.to + 1 <= t.from
  BY <1>1, <1>2, <1>3
<1>5. s.to + 1 < r => \E t \in P \ {s} : t.from = s.to + 1
  BY <1>1, <1>2
<1>6. ASSUME NEW u \in P \ {s} PROVE u.to + 1 = r \/ \E t \in P \ {s} : t.from = u.to + 1
  <2>1. CASE u.to + 1 = r
    BY <2>1
  <2>2. CASE u.to + 1 # r
    <3>1. PICK t \in P : t.from = u.to + 1
      BY <1>1, <2>2
    <3>2. t # s
      BY <1>2, <1>4, <3>1
    <3> QED
      BY <3>1, <3>2
  <2> QED
    BY <2>1, <2>2
<1> QED
  BY <1>1, <1>3, <1>4, <1>5, <1>6 DEF Leads

\* A range arrives: it is the last of those to be reported, and the page reads on behind it.
LEMMA StreamsGrow ==
    ASSUME LinkInv, RangeArrives, Reach' = To + 1
    PROVE  StreamsBehind'
<1>1. /\ reader \in Fetching /\ life = "ticket" /\ pending' = pending \cup {[from |-> From, to |-> To]}
      /\ UNCHANGED <<covered, order>>
  BY DEF RangeArrives, Sent
<1>2. PICK r \in Nat, e \in Nat : r = From /\ e = To /\ r <= e /\ Reach' = e + 1 /\ Reach = r
  BY <1>1, RangeInside DEF Reach, Fetching
<1>3. /\ covered \in Nat /\ covered <= r /\ Behind(pending, r)
      /\ order = "kept" => Leads(pending, covered, r)
  BY <1>1, <1>2 DEF LinkInv, StreamsBehind
<1>4. /\ Behind(pending', e + 1)
      /\ Leads(pending, covered, r) => Leads(pending', covered, e + 1)
  BY <1>1, <1>2, <1>3, LeadsOn
<1>5. covered <= e + 1
  BY <1>2, <1>3
<1>6. Behind(pending', Reach') /\ (Leads(pending, covered, r) => Leads(pending', covered', Reach'))
  BY <1>1, <1>2, <1>4
<1>7. covered' \in Nat /\ covered' <= Reach'
  BY <1>1, <1>2, <1>3, <1>5
<1>8. Behind(pending, Reach)' /\ (order' = "kept" => Leads(pending, covered, Reach)')
  BY <1>1, <1>3, <1>6 DEF Behind, Leads
<1> QED
  BY <1>7, <1>8 DEF StreamsBehind

LEMMA RangeArrivesKeeps == ASSUME LinkInv, RangeArrives PROVE LinkInv'
<1> USE SizesAreNumbers
<1>1. /\ reader \in Fetching /\ life = "ticket"
      /\ reader' = IF Opens THEN Then ELSE "key bad"
      /\ parts' = IF Opens /\ reader = "chunks" THEN Append(parts, Served(From, To)) ELSE parts
      /\ UNCHANGED <<upload, size, torn, altered, life, key, fragment, visits, trouble>>
  BY DEF RangeArrives, vars
<1>2. Declared' = Declared /\ (\A i : Bytes(i)' = Bytes(i)) /\ Sealed' = Sealed
  BY <1>1, BytesStay DEF Declared, Sealed
<1>3. reader \in Busy
  BY <1>1 DEF Busy
<1>4. CASE ~Opens
  BY <1>1, <1>3, <1>4, GivingUp
<1>5. CASE reader = "preamble" /\ Opens
  <2>1. reader' = "header" /\ parts' = <<>>
    BY <1>1, <1>5 DEF Then, LinkInv, ReadsOn
  <2>2. Reach' = To + 1
    BY <1>1, <1>5, <2>1, RangeInside DEF Reach, From
  <2>3. LifeOfThrow' /\ ReadsOn'
    BY <1>1, <2>1 DEF LinkInv, LifeOfThrow, ReadsOn, Fetching
  <2>4. AsksWithKey' /\ HandsOver' /\ ReloadKeepsTheKey'
    BY <1>1, <2>1 DEF AsksWithKey, HandsOver, ReloadKeepsTheKey
  <2> QED
    BY <1>1, <2>2, <2>3, <2>4, StreamsGrow DEF LinkInv
<1>6. CASE reader = "header" /\ Opens
  <2>1. reader' = "chunks" /\ parts' = <<>> /\ Sealed = Chunks - 1
    BY <1>1, <1>6 DEF Then, LinkInv, ReadsOn, Opens, TdOpenChunk
  <2>2. Len(parts') = 0 /\ parts' = [i \in 1 .. 0 |-> Bytes(i)]
    BY <2>1
  <2>3. ReadsOn'
    <3>1. Sealed' = Chunks - 1 /\ Len(parts') \in 0 .. Chunks - 2
      BY <1>2, <2>1, <2>2
    <3>2. parts' = [i \in 1 .. Len(parts') |-> Bytes(i)']
      BY <2>1, <2>2
    <3> QED
      BY <2>1, <3>1, <3>2 DEF ReadsOn, Fetching
  <2>4. Reach' = To + 1
    <3>1. Turn' = 1
      BY <2>2 DEF Turn
    <3>2. From' = ChunkAt(1)
      BY <2>1, <3>1 DEF From, ChunkAt
    <3> QED
      BY <1>1, <1>6, <2>1, <3>2, RangeInside DEF Reach
  <2>5. LifeOfThrow'
    BY <1>1, <2>1 DEF LinkInv, LifeOfThrow, Fetching
  <2>6. AsksWithKey' /\ HandsOver' /\ ReloadKeepsTheKey'
    BY <1>1, <2>1 DEF AsksWithKey, HandsOver, ReloadKeepsTheKey
  <2> QED
    BY <1>1, <2>3, <2>4, <2>5, <2>6, StreamsGrow DEF LinkInv
<1>7. CASE reader = "chunks" /\ Opens
  <2>1. PICK n \in 0 .. Chunks - 2 : n = Len(parts)
    BY <1>7 DEF LinkInv, ReadsOn
  <2>2. /\ n < Chunks - 1 /\ parts = [i \in 1 .. n |-> Bytes(i)] /\ Turn = n + 1
        /\ Sealed = Chunks - 1
    BY <1>7, <2>1 DEF LinkInv, ReadsOn, Turn
  <2>3. Served(From, To) = Bytes(n + 1)
    BY <1>7, <2>1, <2>2 DEF Opens, TdOpenChunk
  <2>4. parts' = [i \in 1 .. n + 1 |-> Bytes(i)] /\ Len(parts') = n + 1
    BY SMTT(30), <1>1, <1>7, <2>1, <2>2, <2>3
  <2>5. CASE n + 1 < Chunks - 1
    <3>0. (n + 1) + 1 = n + 2
      OBVIOUS
    <3>1. reader' = "chunks"
      BY <1>1, <1>7, <2>2, <2>5 DEF Then
    <3>2. Reach' = To + 1
      <4>1. Turn' = n + 2
        BY <2>4, <3>0 DEF Turn
      <4>2. From' = ChunkAt(n + 2)
        BY <3>1, <4>1 DEF From, ChunkAt
      <4>3. To + 1 = ChunkAt(n + 2)
        BY <1>1, <1>7, <2>2, <2>5, <3>0, RangeInside
      <4> QED
        BY <3>1, <4>2, <4>3 DEF Reach
    <3>3. parts' = [i \in 1 .. Len(parts') |-> Bytes(i)']
      BY <1>2, <2>4
    <3>4. ReadsOn'
      BY SMTT(30), <1>2, <2>2, <2>4, <2>5, <3>1, <3>3 DEF ReadsOn, Fetching
    <3>5. LifeOfThrow'
      BY <1>1, <3>1 DEF LinkInv, LifeOfThrow, Fetching
    <3>6. AsksWithKey' /\ HandsOver' /\ ReloadKeepsTheKey'
      BY <1>1, <3>1 DEF AsksWithKey, HandsOver, ReloadKeepsTheKey
    <3> QED
      BY <1>1, <3>2, <3>4, <3>5, <3>6, StreamsGrow DEF LinkInv
  <2>6. CASE n + 1 = Chunks - 1
    <3>1. reader' = "handed over"
      <4>1. ~(Turn < Sealed)
        BY <2>2, <2>6
      <4>2. Then = "handed over"
        BY <1>7, <2>2, <4>1 DEF Then
      <4> QED
        BY <1>1, <1>7, <4>2
    <3>2. Reach' = To + 1
      BY <1>1, <1>2, <1>7, <2>2, <2>6, <3>1, RangeInside DEF Reach
    <3>3. HandsOver'
      BY <1>2, <2>4, <2>6 DEF HandsOver
    <3>4. LifeOfThrow' /\ ReadsOn'
      BY <1>1, <3>1 DEF LinkInv, LifeOfThrow, ReadsOn, Fetching
    <3>5. AsksWithKey' /\ ReloadKeepsTheKey'
      BY <1>1, <3>1 DEF AsksWithKey, ReloadKeepsTheKey
    <3> QED
      BY <1>1, <3>2, <3>3, <3>4, <3>5, StreamsGrow DEF LinkInv
  <2>7. n + 1 < Chunks - 1 \/ n + 1 = Chunks - 1
    BY SizesAreNumbers
  <2> QED
    BY <2>5, <2>6, <2>7
<1> QED
  BY <1>1, <1>4, <1>5, <1>6, <1>7 DEF Fetching

LEMMA ReceivesKeeps == ASSUME LinkInv, Receives PROVE LinkInv'
BY TakeAnsweredKeeps, TakeBreaksKeeps, TakeHiccupsKeeps, RangeArrivesKeeps, RangeMissedKeeps,
   RangeBreaksKeeps DEF Receives

\* A stream is reported or dropped behind the page's back.
LEMMA StreamEndsKeeps ==
    ASSUME LinkInv, NEW span \in pending, Reports(span) \/ StreamDropped(span)
    PROVE  LinkInv'
<1>1. /\ life = "ticket" /\ pending' = pending \ {span}
      /\ UNCHANGED <<upload, size, altered, life, key, fragment, reader, trouble, parts>>
  BY DEF Reports, StreamDropped, vars
<1>2. Declared' = Declared /\ (\A i : Bytes(i)' = Bytes(i)) /\ Sealed' = Sealed
  BY <1>1, BytesStay DEF Declared, Sealed
<1>3. LifeOfThrow' /\ ReadsOn' /\ AsksWithKey' /\ HandsOver' /\ ReloadKeepsTheKey'
  BY <1>1, <1>2
  DEF LinkInv, LifeOfThrow, ReadsOn, AsksWithKey, HandsOver, ReloadKeepsTheKey, Fetching
<1>4. ASSUME reader \in Fetching \cup {"handed over"}
      PROVE  /\ covered' \in Nat /\ covered' <= Reach /\ Behind(pending', Reach)
             /\ order' = "kept" => Leads(pending', covered', Reach)
  <2>1. PICK r \in Nat : r = Reach
    <3>1. CASE reader = "handed over"
      BY <3>1, DeclaredIsNumber DEF Reach
    <3>2. CASE reader \in Fetching
      BY <3>2, RangeInside DEF Reach, Fetching
    <3> QED
      BY <1>4, <3>1, <3>2
  <2>2. PICK c \in Nat : c = covered /\ c <= r
    BY <1>1, <1>4, <2>1 DEF LinkInv, StreamsBehind
  <2>3. Behind(pending, r) /\ (order = "kept" => Leads(pending, c, r))
    BY <1>1, <1>4, <2>1, <2>2 DEF LinkInv, StreamsBehind
  <2>4. Behind(pending', r)
    BY <1>1, <2>3 DEF Behind
  <2>5. PICK f \in Nat, t \in Nat : f = span.from /\ t = span.to /\ f <= t /\ t + 1 <= r
    BY <2>3 DEF Behind
  <2>6. CASE StreamDropped(span)
    BY <2>1, <2>2, <2>4, <2>6 DEF StreamDropped
  <2>7. CASE Reports(span)
    <3>1. /\ covered' = IF f <= c THEN Max({c, t + 1}) ELSE c
          /\ order' = "kept" => order = "kept" /\ \A u \in pending : ~(u.from < span.from)
      BY <2>2, <2>5, <2>7 DEF Reports, Delivered
    <3>2. Max({c, t + 1}) = IF c <= t + 1 THEN t + 1 ELSE c
      BY DEF Max
    <3>3. covered' \in Nat /\ covered' <= r
      BY <2>2, <2>5, <3>1, <3>2
    <3>4. ASSUME order' = "kept" PROVE Leads(pending', covered', r)
      <4>1. span.from = c /\ Leads(pending \ {span}, span.to + 1, r)
        BY <2>3, <3>1, <3>4, LeadsFromFirst
      <4>2. covered' = span.to + 1
        BY <2>5, <3>1, <3>2, <4>1
      <4> QED
        BY <1>1, <4>1, <4>2
    <3> QED
      BY <2>1, <2>4, <3>3, <3>4
  <2> QED
    BY <2>6, <2>7
<1>5. StreamsBehind'
  <2>1. Reach' = Reach
    BY <1>1, <1>2 DEF Reach, From, ChunkAt, Turn
  <2> QED
    BY <1>1, <1>4, <2>1 DEF StreamsBehind, Behind, Leads, Fetching
<1> QED
  BY <1>1, <1>3, <1>5 DEF LinkInv

LEMMA CompletesKeeps == ASSUME LinkInv, Completes PROVE LinkInv'
<1>1. /\ life = "ticket" /\ life' = "retired" /\ UNCHANGED <<upload, size, altered, receiver>>
  BY DEF Completes, vars
<1> QED
  BY <1>1, ReceiverStays DEF LinkInv, LifeOfThrow

\* A ticket is not retired under the page that is still fetching.
LEMMA CompletesAfter == ASSUME LinkInv, Completes PROVE reader \notin Fetching
<1> SUFFICES ASSUME reader \in Fetching PROVE FALSE
  OBVIOUS
<1>1. life = "ticket" /\ covered = Declared
  BY DEF Completes
<1>2. Reach = From
  BY DEF Reach, Fetching
<1>3. covered \in Nat /\ covered <= From
  BY <1>1, <1>2 DEF LinkInv, StreamsBehind
<1> QED
  BY <1>1, <1>3, RangeInside

LEMMA EndsStreamsKeeps == ASSUME LinkInv, EndsStreams PROVE LinkInv'
BY StreamEndsKeeps, CompletesKeeps DEF EndsStreams

LEMMA UploadStandsBy ==
    ASSUME UploadInv, Goes \/ Alters \/ OpensLink \/ Reloads \/ Receives \/ EndsStreams
    PROVE  UploadInv'
<1>1. UNCHANGED vars
  BY DEF Goes, Alters, OpensLink, Reloads, Loads, Receives, TakeAnswered, TakeBreaks, TakeHiccups,
         RangeArrives, RangeFallsShort, RangeMissed, RangeBreaks, EndsStreams, Reports,
         StreamDropped, Completes
<1> QED
  BY <1>1, UploadUnchanged

LEMMA FileNext == UploadInv /\ LinkInv /\ [NextAll]_allvars => UploadInv' /\ LinkInv'
<1> SUFFICES ASSUME UploadInv, LinkInv, [NextAll]_allvars PROVE UploadInv' /\ LinkInv'
  OBVIOUS
<1>1. CASE Serves /\ Beside
  BY <1>1, ServesKeeps, BesideKeeps DEF Next
<1>2. ASSUME NEW r, AppendTears(r) PROVE UploadInv' /\ LinkInv'
  BY <1>2, AppendTearsKeeps
<1>3. CASE Sends
  BY <1>3, PageKeeps, BesideKeeps DEF Sends, Next
<1>4. CASE (Sweep \/ Breaks) /\ Beside
  BY <1>4, SweepKeeps, BreaksKeeps, BesideKeeps DEF Next
<1>5. CASE Goes \/ Alters
  BY <1>5, UploadStandsBy, GoesKeeps, AltersKeeps
<1>6. CASE OpensLink \/ Reloads
  BY <1>6, UploadStandsBy, OpensLinkKeeps, ReloadsKeeps
<1>7. CASE Receives
  BY <1>7, UploadStandsBy, ReceivesKeeps
<1>8. CASE EndsStreams
  BY <1>8, UploadStandsBy, EndsStreamsKeeps
<1>9. CASE UNCHANGED allvars
  <2>1. UNCHANGED vars /\ UNCHANGED <<upload, size, altered, life, receiver>>
    BY <1>9 DEF allvars, vars
  <2> QED
    BY <2>1, UploadUnchanged, ReceiverStays DEF LinkInv, LifeOfThrow
<1> QED
  BY <1>1, <1>2, <1>3, <1>4, <1>5, <1>6, <1>7, <1>8, <1>9 DEF NextAll, ServesUpload

LEMMA FileInvariance == SpecAll => [](UploadInv /\ LinkInv)
<1>1. InitAll => UploadInv
  BY InitUpload DEF InitAll
<1> QED
  BY <1>1, InitLink, FileNext, PTL DEF SpecAll

\* The receiver's page hands over every chunk of the file at its place, for files of any
\* size and whatever becomes of them on the volume; the throw cannot be taken any more by
\* then; and reports that came in the order of the ranges have counted the whole file, so
\* that the ticket is retired next (tdFetchClosedFile, delivered, complete).
THEOREM HandedOverIsWhole == SpecAll => []EndsWholeAndForGood
<1>1. ASSUME LinkInv PROVE EndsWholeAndForGood
  <2>1. reader = "handed over" =>
            /\ parts = [i \in 1 .. Chunks - 1 |-> Bytes(i)]
            /\ life \notin {"unborn", "waiting"}
    BY <1>1 DEF LinkInv, HandsOver, LifeOfThrow
  <2>2. ASSUME reader = "handed over", life = "ticket", order = "kept", pending = {}
        PROVE  covered = Declared
    <3>1. covered \in Nat /\ covered <= Declared
      BY <1>1, <2>2 DEF LinkInv, StreamsBehind, Reach
    <3>2. ~(covered < Declared)
      BY <1>1, <2>2 DEF LinkInv, StreamsBehind, Reach, Leads
    <3>3. Declared \in Nat
      BY <1>1, DeclaredIsNumber
    <3> QED
      BY <3>1, <3>2, <3>3
  <2> QED
    BY <2>1, <2>2 DEF EndsWholeAndForGood
<1> QED
  BY <1>1, FileInvariance, PTL

\* While the throw is there, the address bar keeps the key the page was opened with
\* (stripKey).
THEOREM ReloadIsSafe == SpecAll => []ReloadKeepsTheKey
<1> QED
  BY FileInvariance, PTL DEF LinkInv

LEMMA TakesWithKey ==
    ASSUME LinkInv, [NextAll]_allvars, life = "waiting", life' = "ticket"
    PROVE  key \in {"right", "wrong"}
<1>1. reader = "asking" => key \in {"right", "wrong"}
  BY DEF LinkInv, AsksWithKey
<1>2. Beside => FALSE
  BY DEF Beside
<1> QED
  BY <1>1, <1>2
  DEF NextAll, ServesUpload, AppendTears, Sends, Goes, Alters, OpensLink, Reloads, Loads, Receives,
      TakeAnswered, TakeBreaks, TakeHiccups, RangeArrives, RangeFallsShort, RangeMissed,
      RangeBreaks, EndsStreams, Reports, StreamDropped, Completes, allvars

\* Only a page that could import its key takes the throw (tdImportKey).
THEOREM KeyBeforeTake == SpecAll => SpentOnlyForAUsableKey
<1>1. LinkInv /\ [NextAll]_allvars
          => [life = "waiting" /\ life' = "ticket" => key \in {"right", "wrong"}]_allvars
  BY TakesWithKey
<1> QED
  BY <1>1, FileInvariance, PTL DEF SpecAll, SpentOnlyForAUsableKey

--------------------------------------------------------------------------------
(* Why a download fails: not for what the page computes of the layout.     *)

\* A byte is told by its piece and its place in it.
Positions == Nat \X Nat

\* On a volume no append has failed on and nobody has touched, every piece that was
\* stored lies where the page will look for it.
VolumeIsInOrder ==
    torn = {} /\ altered = "no" =>
        /\ volume \in Seq(Positions)
        /\ Len(volume) = Place(next_chunk)
        /\ \A i \in 0 .. next_chunk - 1 :
               /\ Place(i) + Pieces[i + 1] <= Len(volume)
               /\ \A j \in 1 .. Pieces[i + 1] : volume[Place(i) + j] = <<i, j>>

\* A page that fetches has a key and had the throw, which only others can end meanwhile.
FetchesForItself ==
    reader \in Fetching => life \in {"ticket", "gone"} /\ key \in {"right", "wrong"}

CauseInv == VolumeIsInOrder /\ FetchesForItself /\ FailsOnlyForACause

LEMMA InitCause == InitAll => CauseInv
<1> SUFFICES ASSUME InitAll PROVE CauseInv
  OBVIOUS
<1>1. volume = <<>> /\ next_chunk = 0 /\ reader = "away"
  BY DEF InitAll, Init
<1>2. Len(volume) = 0 /\ volume \in Seq(Positions) /\ Place(next_chunk) = 0
  BY <1>1 DEF Place
<1>3. 0 .. next_chunk - 1 = {}
  BY <1>1
<1> QED
  BY <1>1, <1>2, <1>3 DEF CauseInv, VolumeIsInOrder, FetchesForItself, FailsOnlyForACause, Fetching

LEMMA PlaceSteps ==
    ASSUME LinkInv, NEW i \in 0 .. Chunks - 1
    PROVE  /\ Pieces[i + 1] \in Nat \ {0} /\ Place(i) \in Nat
           /\ Place(i + 1) = Place(i) + Pieces[i + 1]
<1> USE SizesAreNumbers
<1>1. /\ Len(Pieces) = Chunks /\ Pieces[1] = PreambleBytes + HeaderBytes + TagBytes
      /\ \A k \in 1 .. Chunks - 1 : Pieces[k + 1] = SealedLength(k)
  BY PiecesOfTheFile DEF LinkInv
<1>2. CASE i = 0
  <2>1. Place(1) = ChunkAt(1) /\ ChunkAt(1) = Pieces[1] /\ Place(0) = 0
    BY SMTT(20), <1>1 DEF Place, ChunkAt
  <2> QED
    BY SMTT(20), <1>1, <1>2, <2>1
<1>3. CASE i # 0
  <2>1. i \in 1 .. Chunks - 1 /\ Place(i) = ChunkAt(i) /\ Pieces[i + 1] = SealedLength(i)
    BY SMTT(20), <1>1, <1>3 DEF Place
  <2>2. CASE i = Chunks - 1
    <3>1. Place(i + 1) = Declared
      BY <2>2 DEF Place
    <3> QED
      BY <2>1, <2>2, <3>1, ChunkSteps
  <2>3. CASE i < Chunks - 1
    <3>1. Place(i + 1) = ChunkAt(i + 1)
      BY <2>1, <2>3 DEF Place
    <3> QED
      BY <2>1, <2>3, <3>1, ChunkSteps
  <2> QED
    BY <2>1, <2>2, <2>3
<1> QED
  BY <1>2, <1>3

LEMMA PieceBytes ==
    ASSUME LinkInv, NEW i \in 0 .. Chunks - 1
    PROVE  /\ Bytes(i) \in Seq(Positions) /\ Len(Bytes(i)) = Pieces[i + 1]
           /\ \A j \in 1 .. Pieces[i + 1] : Bytes(i)[j] = <<i, j>>
<1>1. PICK m \in Nat : m = Pieces[i + 1]
  BY PlaceSteps
<1>2. i \in Nat
  BY SizesAreNumbers
<1>3. Bytes(i) = [j \in 1 .. m |-> <<i, j>>]
  BY <1>1 DEF Bytes
<1>4. Bytes(i) \in [1 .. m -> Positions] /\ \A j \in 1 .. m : Bytes(i)[j] = <<i, j>>
  BY <1>2, <1>3 DEF Positions
<1> QED
  BY <1>1, <1>4, FunctionIsSeq

\* The bytes p lie in v after d others.
LiesAt(p, v, d) ==
    /\ p \in Seq(Positions) /\ v \in Seq(Positions) /\ d + Len(p) <= Len(v)
    /\ \A j \in 1 .. Len(p) : v[d + j] = p[j]

LEMMA AppendedBytes ==
    ASSUME NEW v \in Seq(Positions), NEW p \in Seq(Positions)
    PROVE  LiesAt(v, v \o p, 0) /\ LiesAt(p, v \o p, Len(v)) /\ Len(v \o p) = Len(v) + Len(p)
<1>1. /\ v \o p \in Seq(Positions) /\ Len(v \o p) = Len(v) + Len(p)
      /\ \A k \in 1 .. Len(v) : (v \o p)[k] = v[k]
      /\ \A j \in 1 .. Len(p) : (v \o p)[Len(v) + j] = p[j]
  OBVIOUS
<1>2. Len(v) \in Nat /\ Len(p) \in Nat /\ \A k \in 1 .. Len(v) : 0 + k = k
  OBVIOUS
<1> QED
  BY <1>1, <1>2 DEF LiesAt

\* A chunk that is stored is appended where the one before it ends.
LEMMA VolumeGrows ==
    ASSUME LinkInv, VolumeIsInOrder, next_chunk \in 0 .. Chunks - 1,
           volume' = volume \o Bytes(next_chunk), next_chunk' = next_chunk + 1,
           UNCHANGED <<size, torn, altered>>
    PROVE  VolumeIsInOrder'
<1> SUFFICES ASSUME torn = {}, altered = "no"
             PROVE  /\ volume' \in Seq(Positions)
                    /\ Len(volume') = Place(next_chunk')
                    /\ \A i \in 0 .. next_chunk :
                          /\ Place(i) + Pieces[i + 1] <= Len(volume')
                          /\ \A j \in 1 .. Pieces[i + 1] : volume'[Place(i) + j] = <<i, j>>
  <2>1. /\ Pieces' = Pieces /\ Declared' = Declared /\ \A i : Place(i)' = Place(i)
        /\ Place(next_chunk)' = Place(next_chunk')
    BY DEF Pieces, Declared, Place, ChunkAt
  <2>2. next_chunk' - 1 = next_chunk
    BY SizesAreNumbers
  <2> QED
    BY <2>1, <2>2 DEF VolumeIsInOrder
<1>1. PICK n \in 0 .. Chunks - 1 : n = next_chunk
  OBVIOUS
<1>2. PICK p, m : p = Bytes(n) /\ m = Pieces[n + 1]
  OBVIOUS
<1>3. /\ p \in Seq(Positions) /\ Len(p) = m /\ \A j \in 1 .. m : p[j] = <<n, j>>
      /\ m \in Nat /\ Place(n) \in Nat /\ Place(n + 1) = Place(n) + m
  BY <1>2, PieceBytes, PlaceSteps
<1>4. /\ volume \in Seq(Positions) /\ Len(volume) = Place(n)
      /\ \A i \in 0 .. n - 1 :
            /\ Place(i) + Pieces[i + 1] <= Len(volume)
            /\ \A j \in 1 .. Pieces[i + 1] : volume[Place(i) + j] = <<i, j>>
  BY <1>1 DEF VolumeIsInOrder
<1>5. PICK v, w, at : v = volume /\ w = v \o p /\ w = volume' /\ at = Place(n) /\ at \in Nat
  BY <1>1, <1>2, <1>3
<1>6. /\ w \in Seq(Positions) /\ Len(w) = at + m
      /\ \A k \in 1 .. at : w[k] = v[k]
      /\ \A j \in 1 .. m : w[at + j] = p[j]
  <2>1. v \in Seq(Positions) /\ Len(v) = at /\ p \in Seq(Positions) /\ Len(p) = m
    BY <1>3, <1>4, <1>5
  <2>2. LiesAt(v, v \o p, 0) /\ LiesAt(p, v \o p, Len(v)) /\ Len(v \o p) = Len(v) + Len(p)
    BY <2>1, AppendedBytes
  <2>3. LiesAt(v, w, 0) /\ LiesAt(p, w, at) /\ Len(w) = at + m
    BY <1>5, <2>1, <2>2
  <2>4. \A k \in 1 .. at : 0 + k = k
    BY <1>5
  <2> QED
    BY <2>1, <2>3, <2>4 DEF LiesAt
<1>7. ASSUME NEW i \in 0 .. n
      PROVE  /\ Place(i) + Pieces[i + 1] <= Len(w)
             /\ \A j \in 1 .. Pieces[i + 1] : w[Place(i) + j] = <<i, j>>
  <2>1. CASE i = n
    <3>1. Place(i) = at /\ Pieces[i + 1] = m /\ at + m <= Len(w)
      BY <1>2, <1>3, <1>5, <1>6, <2>1
    <3>2. \A j \in 1 .. m : w[at + j] = <<i, j>>
      BY <1>3, <1>6, <2>1
    <3> QED
      BY <3>1, <3>2
  <2>2. CASE i # n
    <3>1. i \in 0 .. n - 1 /\ i \in 0 .. Chunks - 1
      BY <2>2, SizesAreNumbers
    <3>2. PICK d \in Nat, l \in Nat : d = Place(i) /\ l = Pieces[i + 1]
      BY <3>1, PlaceSteps
    <3>3. d + l <= at /\ \A j \in 1 .. l : v[d + j] = <<i, j>>
      BY <1>4, <1>5, <3>1, <3>2
    <3>4. ASSUME NEW j \in 1 .. l PROVE w[d + j] = <<i, j>>
      <4>1. d + j \in 1 .. at
        BY <1>5, <3>2, <3>3
      <4> QED
        BY <1>6, <3>3, <4>1
    <3>5. d + l <= Len(w)
      BY SMTT(20), <1>3, <1>5, <1>6, <3>2, <3>3
    <3> QED
      BY <3>2, <3>4, <3>5
  <2> QED
    BY <2>1, <2>2
<1> QED
  BY <1>1, <1>3, <1>5, <1>6, <1>7

LEMMA VolumeStays ==
    ASSUME VolumeIsInOrder,
           torn' = {} /\ altered' = "no" =>
               torn = {} /\ altered = "no" /\ UNCHANGED <<volume, next_chunk, size>>
    PROVE  VolumeIsInOrder'
<1> SUFFICES ASSUME torn' = {}, altered' = "no" PROVE VolumeIsInOrder'
  BY DEF VolumeIsInOrder
<1>1. /\ Pieces' = Pieces /\ Declared' = Declared /\ \A i : Place(i)' = Place(i)
      /\ Place(next_chunk)' = Place(next_chunk)
  BY DEF Pieces, Declared, Place, ChunkAt
<1> QED
  BY <1>1 DEF VolumeIsInOrder

\* What is served of a piece that was stored is that part of it.
LEMMA InsideSpan ==
    ASSUME NEW all \in Nat, NEW from \in Nat, NEW to \in Nat, from <= to, to < all
    PROVE  ParseRange([kind |-> "span", first |-> from, last |-> to], all) = Span(from, to)
BY DEF ParseRange, Impossible, FirstByte, LastByte, Smaller

LEMMA CutAgrees ==
    ASSUME NEW b, NEW v, NEW d \in Nat, LiesAt(b, v, d),
           NEW a \in 1 .. Len(b), NEW e \in a .. Len(b)
    PROVE  SubSeq(v, d + a, d + e) = SubSeq(b, a, e)
<1>0. /\ b \in Seq(Positions) /\ v \in Seq(Positions) /\ d + Len(b) <= Len(v)
      /\ \A j \in 1 .. Len(b) : v[d + j] = b[j]
  BY DEF LiesAt
<1>1. /\ Len(SubSeq(v, d + a, d + e)) = e - a + 1 /\ Len(SubSeq(b, a, e)) = e - a + 1
      /\ SubSeq(v, d + a, d + e) \in Seq(Positions) /\ SubSeq(b, a, e) \in Seq(Positions)
  BY <1>0
<1>2. ASSUME NEW k \in 1 .. e - a + 1
      PROVE  SubSeq(v, d + a, d + e)[k] = SubSeq(b, a, e)[k]
  <2>1. /\ SubSeq(v, d + a, d + e)[k] = v[d + a + k - 1]
        /\ SubSeq(b, a, e)[k] = b[a + k - 1]
    BY SMTT(20), <1>0
  <2>2. a + k - 1 \in 1 .. Len(b) /\ d + a + k - 1 = d + (a + k - 1)
    BY <1>0
  <2> QED
    BY <1>0, <2>1, <2>2
<1>3. PICK x, y : x = SubSeq(v, d + a, d + e) /\ y = SubSeq(b, a, e)
  OBVIOUS
<1>4. /\ x \in Seq(Positions) /\ y \in Seq(Positions) /\ Len(x) = Len(y)
      /\ \A k \in 1 .. Len(x) : x[k] = y[k]
  BY <1>1, <1>2, <1>3
<1>5. x = y
  BY <1>4, SeqEqual
<1> QED
  BY <1>3, <1>5

LEMMA WholeCut == ASSUME NEW S, NEW b \in Seq(S) PROVE SubSeq(b, 1, Len(b)) = b
OBVIOUS

LEMMA ServedPiece ==
    ASSUME LinkInv, VolumeIsInOrder, torn = {}, altered = "no", next_chunk = Chunks,
           NEW i \in 0 .. Chunks - 1, NEW d \in Nat, d = Place(i),
           NEW m \in Nat, m = Pieces[i + 1], NEW a \in 1 .. m, NEW e \in a .. m
    PROVE  /\ SubSeq(volume, d + a, d + e) = SubSeq(Bytes(i), a, e)
           /\ Served(d + a - 1, d + e - 1) = SubSeq(Bytes(i), a, e)
<1>1. PICK b : b = Bytes(i) /\ b \in Seq(Positions) /\ Len(b) = m
               /\ \A j \in 1 .. m : b[j] = <<i, j>>
  BY PieceBytes
<1>2. PICK v : v = volume /\ v \in Seq(Positions) /\ Len(v) = Declared
               /\ d + m <= Len(v) /\ \A j \in 1 .. m : v[d + j] = <<i, j>>
  <2>1. Place(next_chunk) = Declared /\ i \in 0 .. next_chunk - 1
    BY SizesAreNumbers DEF Place
  <2> QED
    BY <2>1 DEF VolumeIsInOrder
<1>3. a \in Nat /\ e \in Nat /\ a >= 1 /\ a <= e /\ e <= m
  OBVIOUS
<1>4. SubSeq(v, d + a, d + e) = SubSeq(b, a, e)
  <2>1. LiesAt(b, v, d)
    BY <1>1, <1>2 DEF LiesAt
  <2>2. a \in 1 .. Len(b) /\ e \in a .. Len(b)
    BY <1>1
  <2> QED
    BY <2>1, <2>2, CutAgrees
<1>5. PICK all \in Nat : all = Declared /\ all = Len(v)
  BY <1>2
<1>6. PICK from \in Nat, to \in Nat : from = d + a - 1 /\ to = d + e - 1
  BY <1>3
<1>7. d + m <= all
  BY <1>2, <1>5
<1>8. /\ from <= to /\ to < all /\ from + 1 = d + a /\ to + 1 = d + e
  BY <1>3, <1>6, <1>7
<1>9. PICK span :
          /\ span = ParseRange([kind |-> "span", first |-> from, last |-> to], all)
          /\ span = Span(from, to)
  BY <1>8, InsideSpan
<1>10. span.kind = "span" /\ span.start = from /\ span.end = to
  BY <1>9 DEF Span
<1>11. Min({to + 1, all}) = to + 1
  BY <1>8 DEF Min
<1>12. Served(from, to) = SubSeq(v, from + 1, to + 1)
  <2>1. Served(from, to) = IF span.kind = "span"
                           THEN SubSeq(v, span.start + 1, Min({span.end + 1, all}))
                           ELSE <<>>
    BY <1>2, <1>5, <1>9 DEF Served
  <2> QED
    BY <1>10, <1>11, <2>1
<1>13. SubSeq(v, from + 1, to + 1) = SubSeq(b, a, e)
  BY <1>4, <1>8
<1> QED
  BY <1>1, <1>2, <1>4, <1>6, <1>12, <1>13

\* So with the right key everything the page asks for opens.
LEMMA EverythingOpens ==
    ASSUME LinkInv, VolumeIsInOrder, torn = {}, altered = "no", next_chunk = Chunks,
           key = "right", reader \in Fetching
    PROVE  Opens
<1>0. Chunks \in Nat /\ Chunks >= 2 /\ {TagBytes, PreambleBytes} \subseteq Nat \ {0} /\ HeaderBytes \in Nat
  BY SizesAreNumbers
<1>1. /\ Pieces[1] = PreambleBytes + HeaderBytes + TagBytes
      /\ \A k \in 1 .. Chunks - 1 : Pieces[k + 1] = SealedLength(k)
  BY PiecesOfTheFile DEF LinkInv
<1>2. Sealed = Chunks - 1
  BY DEF Sealed
<1>3. PICK first \in Nat : first = Pieces[0 + 1] /\ first = Pieces[1] /\ first > PreambleBytes
  BY <1>0, <1>1
<1>4. /\ 0 \in 0 .. Chunks - 1 /\ 0 = Place(0)
      /\ 1 \in 1 .. first /\ PreambleBytes \in 1 .. first
      /\ PreambleBytes + 1 \in 1 .. first /\ first \in PreambleBytes + 1 .. first
  BY <1>0, <1>3 DEF Place
<1>5. SubSeq(volume, 1, PreambleBytes) = Preamble
  <2>1. SubSeq(volume, 0 + 1, 0 + PreambleBytes) = SubSeq(Bytes(0), 1, PreambleBytes)
    BY ZenonT(30), <1>3, <1>4, ServedPiece
  <2>2. 0 + 1 = 1 /\ 0 + PreambleBytes = PreambleBytes
    BY <1>0
  <2> QED
    BY <2>1, <2>2 DEF Preamble
<1>6. CASE reader = "preamble"
  BY <1>6 DEF Opens
<1>7. CASE reader = "header"
  <2>1. From = PreambleBytes /\ To = first - 1
    <3>1. (1 - 1) * (ChunkBytes + TagBytes) = 0
      BY SizesAreNumbers
    <3>2. ChunkAt(1) = first
      BY <1>0, <1>1, <1>3, <3>1 DEF ChunkAt
    <3> QED
      BY <1>7, <3>2 DEF From, To
  <2>2. Served(0 + (PreambleBytes + 1) - 1, 0 + first - 1)
          = SubSeq(Bytes(0), PreambleBytes + 1, first)
    BY <1>3, <1>4, ServedPiece
  <2>3. 0 + (PreambleBytes + 1) - 1 = PreambleBytes /\ 0 + first - 1 = first - 1
    BY <1>0
  <2>4. Served(From, To) = SealedHeader
    BY <1>3, <2>1, <2>2, <2>3 DEF SealedHeader
  <2> QED
    BY <1>2, <1>5, <1>7, <2>4 DEF Opens, TdOpenChunk
<1>8. CASE reader = "chunks"
  <2>1. PICK n \in 1 .. Chunks - 1 : n = Turn
    <3>1. Len(parts) \in 0 .. Chunks - 2
      BY <1>8, Zenon DEF LinkInv, ReadsOn
    <3> QED
      BY <1>0, <3>1 DEF Turn
  <2>2. PICK m \in Nat \ {0} : m = Pieces[n + 1] /\ m = SealedLength(n)
    BY <1>0, <1>1, <2>1, PlaceSteps
  <2>3. PICK d \in Nat : d = Place(n) /\ d = ChunkAt(n)
    BY <1>0, <2>1, ChunkSteps DEF Place
  <2>4. From = d /\ To = d + m - 1
    BY <1>8, <2>1, <2>2, <2>3 DEF From, To
  <2>5. n \in 0 .. Chunks - 1 /\ n # 0 /\ 1 \in 1 .. m /\ m \in 1 .. m
    BY <1>0, <2>1, <2>2
  <2>6. Served(d + 1 - 1, d + m - 1) = SubSeq(Bytes(n), 1, m)
    BY <2>2, <2>3, <2>5, ServedPiece
  <2>7. SubSeq(Bytes(n), 1, m) = Bytes(n)
    BY <2>2, <2>5, PieceBytes, WholeCut
  <2>8. d + 1 - 1 = d
    OBVIOUS
  <2>9. Served(From, To) = Bytes(n)
    BY <2>4, <2>6, <2>7, <2>8
  <2> QED
    BY <1>2, <1>5, <1>8, <2>1, <2>5, <2>9 DEF Opens, TdOpenChunk
<1> QED
  BY <1>6, <1>7, <1>8 DEF Fetching

\* A step of the upload either stores the chunk that is next or stores nothing.
LEMMA LandsNext ==
    ASSUME UploadInv, Next
    PROVE  \/ UNCHANGED <<landed, next_chunk>>
           \/ /\ next_chunk \in 0 .. Chunks - 1 /\ next_chunk' = next_chunk + 1
              /\ landed' # landed /\ landed'[Len(landed')] = next_chunk
<1>1. ASSUME NEW r \in requests, HandlePut(r)
      PROVE  /\ next_chunk \in 0 .. Chunks - 1 /\ next_chunk' = next_chunk + 1
             /\ landed' # landed /\ landed'[Len(landed')] = next_chunk
  <2>1. r \in Request /\ r.kind = "put" /\ r.index = next_chunk
    BY <1>1, UploadTypes DEF HandlePut, Expected, UploadInv
  <2>2. next_chunk \in 0 .. Chunks - 1
    BY <2>1, ChunkIsOneOfThem, UploadTypes DEF UploadInv
  <2>3. landed' = Append(landed, next_chunk) /\ next_chunk' = next_chunk + 1
    BY <1>1, <2>1 DEF HandlePut
  <2>4. landed \in Seq(Indices) /\ next_chunk \in Indices
    BY <2>1, RequestFields DEF UploadInv, TypeOK
  <2>5. Len(landed') = Len(landed) + 1 /\ landed'[Len(landed) + 1] = next_chunk
    BY <2>3, <2>4
  <2> QED
    BY <2>2, <2>3, <2>4, <2>5
<1>2. Serves => UNCHANGED <<landed, next_chunk>> \/ \E r \in requests : HandlePut(r)
  BY DEF Serves, HandleStart, RefuseStart, HandleDone, RefuseDone, RefusePut, Hiccup
<1>3. Page \/ Sweep \/ Breaks => UNCHANGED <<landed, next_chunk>>
  BY DEF Page, GoesOn, GetsCode, Refused, BacksOff, Again, Sweep, Breaks
<1> QED
  BY <1>1, <1>2, <1>3 DEF Next

\* Whatever leaves the receiver alone leaves it its causes.
LEMMA CauseStays ==
    ASSUME CauseInv, UNCHANGED receiver, VolumeIsInOrder',
           torn = {} \/ torn' # {}, altered = "no" \/ altered' # "no",
           reader \in Fetching => life' = life \/ life' = "gone"
    PROVE  CauseInv'
<1>1. UNCHANGED <<key, reader, trouble>>
  BY DEF receiver
<1>2. FetchesForItself' /\ FailsOnlyForACause'
  BY <1>1 DEF CauseInv, FetchesForItself, FailsOnlyForACause, Fetching
<1> QED
  BY <1>2 DEF CauseInv

LEMMA BesideCause == ASSUME UploadInv, LinkInv, CauseInv, Next, Beside PROVE CauseInv'
<1>1. /\ volume' = IF landed' = landed THEN volume ELSE volume \o Bytes(landed'[Len(landed')])
      /\ life' = IF upload # "thrown" /\ upload' = "thrown" THEN "waiting" ELSE life
      /\ UNCHANGED <<size, torn, altered, receiver>>
  BY DEF Beside, Stored
<1>2. VolumeIsInOrder'
  <2>1. CASE UNCHANGED <<landed, next_chunk>>
    BY <1>1, <2>1, VolumeStays DEF CauseInv
  <2>2. CASE /\ next_chunk \in 0 .. Chunks - 1 /\ next_chunk' = next_chunk + 1
             /\ landed' # landed /\ landed'[Len(landed')] = next_chunk
    BY <1>1, <2>2, VolumeGrows DEF CauseInv
  <2> QED
    BY <2>1, <2>2, LandsNext
<1>3. reader \in Fetching => life' = life
  BY <1>1 DEF LinkInv, LifeOfThrow
<1> QED
  BY <1>1, <1>2, <1>3, CauseStays

LEMMA AsideCause ==
    ASSUME LinkInv, CauseInv, Goes \/ Alters \/ (\E r : AppendTears(r)) \/ UNCHANGED allvars
    PROVE  CauseInv'
<1>1. CASE Goes
  <2>1. life' = "gone" /\ UNCHANGED <<next_chunk, size, volume, torn, altered, receiver>>
    BY <1>1 DEF Goes, vars
  <2> QED
    BY <2>1, VolumeStays, CauseStays DEF CauseInv
<1>2. CASE Alters
  <2>1. altered' # "no" /\ UNCHANGED <<torn, life, receiver>>
    BY <1>2, ClosedFileAssumption DEF Alters
  <2> QED
    BY <2>1, VolumeStays, CauseStays DEF CauseInv
<1>3. ASSUME NEW r, AppendTears(r) PROVE CauseInv'
  <2>1. torn' # {} /\ UNCHANGED <<altered, life, receiver>>
    BY <1>3 DEF AppendTears
  <2> QED
    BY <2>1, VolumeStays, CauseStays DEF CauseInv
<1>4. CASE UNCHANGED allvars
  <2>1. UNCHANGED <<next_chunk, size, volume, torn, altered, life, receiver>>
    BY <1>4 DEF allvars, vars
  <2> QED
    BY <2>1, VolumeStays, CauseStays DEF CauseInv
<1> QED
  BY <1>1, <1>2, <1>3, <1>4

LEMMA LoadsCause == ASSUME CauseInv, NEW k, Loads(k) PROVE CauseInv'
<1>1. /\ reader' \in {"asking", "key missing"}
      /\ UNCHANGED <<next_chunk, size, volume, torn, altered>>
  BY DEF Loads, FirstSight, vars
<1>2. VolumeIsInOrder'
  BY <1>1, VolumeStays DEF CauseInv
<1> QED
  BY <1>1, <1>2 DEF CauseInv, FetchesForItself, FailsOnlyForACause, Fetching

LEMMA ReceivesCause == ASSUME UploadInv, LinkInv, CauseInv, Receives PROVE CauseInv'
<1>1. UNCHANGED <<next_chunk, upload, size, volume, torn, altered, key>>
  BY DEF Receives, TakeAnswered, TakeBreaks, TakeHiccups, RangeArrives, RangeFallsShort,
         RangeMissed, RangeBreaks, vars
<1>2. VolumeIsInOrder'
  BY <1>1, VolumeStays DEF CauseInv
<1>3. CASE TakeAnswered \/ TakeBreaks \/ TakeHiccups
  <2>1. /\ reader = "asking"
        /\ \/ reader' = "preamble" /\ life' = "ticket"
           \/ reader' \in {"not found", "no connection", "went wrong"}
    BY <1>3 DEF TakeAnswered, TakeBreaks, TakeHiccups
  <2>2. key \in {"right", "wrong"}
    BY <2>1 DEF LinkInv, AsksWithKey
  <2> QED
    BY <1>1, <1>2, <2>1, <2>2 DEF CauseInv, FetchesForItself, FailsOnlyForACause, Fetching
<1>4. CASE RangeBreaks
  <2>1. reader' = "key bad" /\ trouble' = "lost"
    BY <1>4 DEF RangeBreaks
  <2> QED
    BY <1>2, <2>1 DEF CauseInv, FetchesForItself, FailsOnlyForACause, Fetching
<1>5. CASE RangeMissed
  <2>1. /\ reader \in Fetching /\ life # "ticket" /\ reader' = "key bad"
        /\ trouble' = IF life = "gone" THEN "lost" ELSE trouble
    BY <1>5 DEF RangeMissed
  <2>2. life = "gone"
    BY <2>1 DEF CauseInv, FetchesForItself
  <2> QED
    BY <1>2, <2>1, <2>2 DEF CauseInv, FetchesForItself, FailsOnlyForACause, Fetching
<1>6. CASE RangeArrives
  <2>1. /\ reader \in Fetching /\ life = "ticket" /\ key \in {"right", "wrong"}
        /\ reader' = IF Opens THEN Then ELSE "key bad"
    BY <1>6 DEF RangeArrives, CauseInv, FetchesForItself
  <2>2. next_chunk = Chunks
    BY <2>1 DEF UploadInv, UploadIsInOrder, LinkInv, LifeOfThrow
  <2>3. ASSUME reader' = "key bad"
        PROVE  key = "wrong" \/ torn # {} \/ altered # "no"
    <3> SUFFICES ASSUME key = "right", torn = {}, altered = "no" PROVE FALSE
      BY <2>1
    <3>1. Opens /\ Sealed = Chunks - 1
      BY <2>1, <2>2, EverythingOpens DEF CauseInv, Sealed
    <3>2. Then # "key bad"
      BY <2>1, <3>1 DEF Then
    <3> QED
      BY <2>1, <2>3, <3>1, <3>2
  <2>4. life' = "ticket"
    BY <1>6 DEF RangeArrives
  <2> QED
    BY <1>1, <1>2, <2>1, <2>3, <2>4 DEF CauseInv, FetchesForItself, FailsOnlyForACause, Fetching
<1>7. CASE RangeFallsShort
  <2>1. reader \in Fetching /\ life = "ticket" /\ ~SentWhole /\ reader' = "key bad"
    BY <1>7 DEF RangeFallsShort
  <2>2. Place(next_chunk) = Declared
    <3>1. next_chunk = Chunks
      BY <2>1 DEF UploadInv, UploadIsInOrder, LinkInv, LifeOfThrow
    <3> QED
      BY <3>1, SizesAreNumbers DEF Place
  <2>3. Len(volume) # Declared
    <3>1. reader \in Fetching
      BY <2>1
    <3>2. To < Declared
      BY <3>1, RangeInside
    <3> QED
      BY <2>1, <3>2 DEF SentWhole
  <2>4. torn # {} \/ altered # "no"
    BY <2>2, <2>3 DEF CauseInv, VolumeIsInOrder
  <2> QED
    BY <1>1, <1>2, <2>1, <2>4 DEF CauseInv, FetchesForItself, FailsOnlyForACause, Fetching
<1> QED
  BY <1>3, <1>4, <1>5, <1>6, <1>7 DEF Receives

\* What the streams report leaves the page its causes, for no ticket is retired under it.
LEMMA StreamsCause == ASSUME LinkInv, CauseInv, EndsStreams PROVE CauseInv'
<1>1. /\ UNCHANGED <<next_chunk, size, volume, torn, altered, key, reader, trouble>>
      /\ life' = life \/ Completes
  BY DEF EndsStreams, Reports, StreamDropped, Completes, receiver, vars
<1>2. reader \in Fetching => life' = life
  BY <1>1, CompletesAfter
<1>3. VolumeIsInOrder'
  BY <1>1, VolumeStays DEF CauseInv
<1> QED
  BY <1>1, <1>2, <1>3 DEF CauseInv, FetchesForItself, FailsOnlyForACause, Fetching

LEMMA CauseNext ==
    UploadInv /\ LinkInv /\ CauseInv /\ [NextAll]_allvars => CauseInv'
<1> SUFFICES ASSUME UploadInv, LinkInv, CauseInv, [NextAll]_allvars PROVE CauseInv'
  OBVIOUS
<1>1. CASE Next /\ Beside
  BY <1>1, BesideCause
<1>2. CASE OpensLink \/ Reloads
  BY <1>2, LoadsCause DEF OpensLink, Reloads
<1> QED
  BY <1>1, <1>2, AsideCause, ReceivesCause, StreamsCause DEF NextAll, ServesUpload, Sends, Next

LEMMA CauseInvariance == SpecAll => []CauseInv
<1> QED
  BY InitCause, CauseNext, FileInvariance, PTL DEF SpecAll

\* A download fails only for a cause: a wrong key, a volume that was hurt, a connection or
\* a ticket that was lost.  For files of any size that the page takes, what it computes of
\* the layout agrees to the byte with what was appended and with what parse_range serves.
THEOREM DownloadsFailForACause == SpecAll => []FailsOnlyForACause
<1> QED
  BY CauseInvariance, PTL DEF CauseInv

--------------------------------------------------------------------------------
(* What a failed append leaves stays in the file.                          *)

\* The volume is as long as its pieces, and longer when a fragment lies between them.
FragmentsStay ==
    altered = "no" =>
        /\ volume \in Seq(Positions)
        /\ Place(next_chunk) <= Len(volume)
        /\ torn # {} => Place(next_chunk) < Len(volume)

LEMMA PlaceIsNumber == ASSUME UploadInv, LinkInv PROVE Place(next_chunk) \in Nat
<1>1. Chunks \in Nat /\ next_chunk \in 0 .. Chunks /\ Declared \in Nat
  <2>1. next_chunk \in 0 .. Chunks
    BY UploadTypes DEF UploadInv, TypeOK
  <2> QED
    BY <2>1, SizesAreNumbers, DeclaredIsNumber
<1>2. CASE next_chunk = Chunks
  BY <1>1, <1>2 DEF Place
<1>3. CASE next_chunk # Chunks
  BY <1>1, <1>3, PlaceSteps
<1> QED
  BY <1>2, <1>3

LEMMA FragmentsStand ==
    ASSUME FragmentsStay,
           altered' = "no" => altered = "no" /\ UNCHANGED <<volume, torn, next_chunk, size>>
    PROVE  FragmentsStay'
<1> SUFFICES ASSUME altered' = "no" PROVE FragmentsStay'
  BY DEF FragmentsStay
<1>1. Place(next_chunk)' = Place(next_chunk)
  BY DEF Declared, Place, ChunkAt
<1> QED
  BY <1>1 DEF FragmentsStay

LEMMA FragmentsBeside ==
    ASSUME UploadInv, LinkInv, FragmentsStay, Next, Beside
    PROVE  FragmentsStay'
<1>1. /\ volume' = IF landed' = landed THEN volume ELSE volume \o Bytes(landed'[Len(landed')])
      /\ UNCHANGED <<size, torn, altered, receiver>>
  BY DEF Beside, Stored
<1>2. CASE UNCHANGED <<landed, next_chunk>>
  BY <1>1, <1>2, FragmentsStand
<1>3. CASE /\ next_chunk \in 0 .. Chunks - 1 /\ next_chunk' = next_chunk + 1
           /\ landed' # landed /\ landed'[Len(landed')] = next_chunk
  <2> SUFFICES ASSUME altered = "no"
               PROVE  /\ volume' \in Seq(Positions)
                      /\ Place(next_chunk + 1) <= Len(volume')
                      /\ torn # {} => Place(next_chunk + 1) < Len(volume')
    <3>1. Place(next_chunk)' = Place(next_chunk + 1)
      BY <1>1, <1>3 DEF Declared, Place, ChunkAt
    <3> QED
      BY <1>1, <3>1 DEF FragmentsStay
  <2>0. PICK n \in 0 .. Chunks - 1 : n = next_chunk
    BY <1>3
  <2>1. PICK p, l, at :
            /\ p = Bytes(next_chunk) /\ p \in Seq(Positions) /\ Len(p) = l /\ l \in Nat
            /\ at = Place(next_chunk) /\ at \in Nat /\ Place(next_chunk + 1) = at + l
    BY <2>0, PieceBytes, PlaceSteps
  <2>2. /\ volume \in Seq(Positions) /\ at <= Len(volume)
        /\ torn # {} => at < Len(volume)
    BY <2>1 DEF FragmentsStay
  <2>3. volume' = volume \o p
    BY <1>1, <1>3, <2>1
  <2>4. volume' \in Seq(Positions) /\ Len(volume') = Len(volume) + l
    <3>1. PICK v : v = volume /\ v \in Seq(Positions)
      BY <2>2
    <3>2. v \o p \in Seq(Positions) /\ Len(v \o p) = Len(v) + Len(p)
      BY <2>1, <3>1, AppendedBytes
    <3> QED
      BY <2>1, <2>3, <3>1, <3>2
  <2>5. Len(volume) \in Nat
    BY <2>2
  <2> QED
    BY <2>1, <2>2, <2>4, <2>5
<1> QED
  BY <1>2, <1>3, LandsNext

LEMMA FragmentAppears ==
    ASSUME UploadInv, LinkInv, FragmentsStay, NEW r, AppendTears(r)
    PROVE  FragmentsStay'
<1>1. /\ r \in requests /\ r.kind = "put" /\ volume' = Append(volume, <<r.index, 1>>)
      /\ UNCHANGED <<next_chunk, size, altered>>
  BY DEF AppendTears
<1>2. r.index \in Nat
  <2>1. r \in Request
    BY <1>1, UploadTypes DEF UploadInv
  <2>2. r.index \in Indices
    BY <1>1, <2>1, RequestFields
  <2>3. Chunks \in Nat
    BY SizesAreNumbers
  <2> QED
    BY <2>2, <2>3 DEF Indices
<1>3. Place(next_chunk)' = Place(next_chunk)
  BY <1>1 DEF Declared, Place, ChunkAt
<1>4. ASSUME altered = "no"
      PROVE  volume' \in Seq(Positions) /\ Place(next_chunk) < Len(volume')
  <2>1. volume \in Seq(Positions) /\ Place(next_chunk) <= Len(volume)
    BY <1>4 DEF FragmentsStay
  <2>2. <<r.index, 1>> \in Positions
    BY <1>2 DEF Positions
  <2>3. volume' \in Seq(Positions) /\ Len(volume') = Len(volume) + 1 /\ Len(volume) \in Nat
    BY <1>1, <2>1, <2>2
  <2> QED
    BY <2>1, <2>3, PlaceIsNumber
<1>5. ASSUME altered = "no" PROVE Place(next_chunk) <= Len(volume')
  <2>1. Len(volume') \in Nat
    BY <1>4, <1>5
  <2> QED
    BY <1>4, <1>5, <2>1, PlaceIsNumber
<1> QED
  BY <1>1, <1>3, <1>4, <1>5 DEF FragmentsStay

LEMMA FragmentsNext ==
    UploadInv /\ LinkInv /\ FragmentsStay /\ [NextAll]_allvars => FragmentsStay'
<1> SUFFICES ASSUME UploadInv, LinkInv, FragmentsStay, [NextAll]_allvars PROVE FragmentsStay'
  OBVIOUS
<1>1. CASE Next /\ Beside
  BY <1>1, FragmentsBeside
<1>2. ASSUME NEW r, AppendTears(r) PROVE FragmentsStay'
  BY <1>2, FragmentAppears
<1>3. CASE Alters
  <2>1. altered' # "no"
    BY <1>3, ClosedFileAssumption DEF Alters
  <2> QED
    BY <2>1, FragmentsStand
<1>4. CASE Goes \/ OpensLink \/ Reloads \/ Receives \/ EndsStreams \/ UNCHANGED allvars
  <2>1. UNCHANGED <<volume, torn, next_chunk, size, altered>>
    BY <1>4
    DEF Goes, OpensLink, Reloads, Loads, Receives, TakeAnswered, TakeBreaks, TakeHiccups,
        RangeArrives, RangeFallsShort, RangeMissed, RangeBreaks, EndsStreams, Reports,
        StreamDropped, Completes, vars, allvars
  <2> QED
    BY <2>1, FragmentsStand
<1> QED
  BY <1>1, <1>2, <1>3, <1>4 DEF NextAll, ServesUpload, Sends, Next

\* A file has its address as it was sent, byte for byte, exactly when no append failed
\* half way, whatever the network loses, delays or repeats (append_chunk, finish).  And an
\* upload ends at a chunk before its tries only if that chunk had landed.
THEOREM ClosedThrownIsWhole == SpecAll => []ThrownAsSent /\ []OnlyAStoredChunkEndsIt
<1>1. InitAll => FragmentsStay
  <2> SUFFICES ASSUME InitAll PROVE FragmentsStay
    OBVIOUS
  <2>1. volume = <<>> /\ torn = {} /\ next_chunk = 0
    BY DEF InitAll, Init
  <2>2. volume \in Seq(Positions) /\ Len(volume) = 0 /\ Place(next_chunk) = 0
    BY <2>1 DEF Place
  <2> QED
    BY <2>1, <2>2 DEF FragmentsStay
<1>2. ASSUME UploadInv, LinkInv, CauseInv, FragmentsStay PROVE ThrownAsSent
  <2> SUFFICES ASSUME upload = "thrown", altered = "no" PROVE VolumeIsWhole <=> torn = {}
    BY DEF ThrownAsSent
  <2>1. next_chunk = Chunks /\ Chunks \in Nat /\ Chunks # 0
    BY <1>2, SizesAreNumbers DEF UploadInv, UploadIsInOrder
  <2>2. Place(next_chunk) = Declared
    BY <2>1 DEF Place
  <2>3. CASE torn = {}
    <3>1. /\ Len(volume) = Declared
          /\ \A i \in 0 .. Chunks - 1 : \A j \in 1 .. Pieces[i + 1] : volume[Place(i) + j] = <<i, j>>
      BY <1>2, <2>1, <2>2, <2>3 DEF CauseInv, VolumeIsInOrder
    <3> QED
      BY <2>3, <3>1 DEF VolumeIsWhole, Indices
  <2>4. CASE torn # {}
    <3>1. volume \in Seq(Positions) /\ Declared < Len(volume)
      BY <1>2, <2>2, <2>4 DEF FragmentsStay
    <3>2. Declared \in Nat
      BY <1>2, <2>2, PlaceIsNumber
    <3>3. Len(volume) # Declared
      BY <3>1, <3>2
    <3> QED
      BY <2>4, <3>3 DEF VolumeIsWhole
  <2> QED
    BY <2>3, <2>4
<1> QED
  BY <1>1, <1>2, FragmentsNext, FileInvariance, CauseInvariance, WholeWhenThrown, PTL DEF SpecAll

--------------------------------------------------------------------------------
(* The sender pages, in any number of tabs.                                *)

\* Every tab has a document, and one that runs is a sender page.
TabsAreThere ==
    /\ DOMAIN td_draft = Tabs /\ DOMAIN document = Tabs /\ DOMAIN phase = Tabs
    /\ DOMAIN text = Tabs /\ DOMAIN carried = Tabs
    /\ \A t \in Tabs : phase[t] # "there" => document[t] # "elsewhere"

DraftInv == TabsAreThere /\ DraftSurvives

\* One tab does something, the others stay as they are.
OneTab(t) ==
    \A u \in Tabs \ {t} :
        /\ td_draft'[u] = td_draft[u] /\ document'[u] = document[u] /\ phase'[u] = phase[u]
        /\ text'[u] = text[u] /\ carried'[u] = carried[u]

SameTabs ==
    /\ DOMAIN td_draft' = DOMAIN td_draft /\ DOMAIN document' = DOMAIN document
    /\ DOMAIN phase' = DOMAIN phase /\ DOMAIN text' = DOMAIN text
    /\ DOMAIN carried' = DOMAIN carried

\* So what is to be shown is only of the tab that did something.
LEMMA TabSteps ==
    ASSUME DraftInv, NEW t \in Tabs, SameTabs, OneTab(t),
           phase'[t] # "there" => document'[t] # "elsewhere",
           carried'[t] # "" =>
               carried'[t] = IF phase'[t] = "running" THEN text'[t] ELSE td_draft'[t]
    PROVE  DraftInv'
<1>1. TabsAreThere'
  BY DEF DraftInv, TabsAreThere, SameTabs, OneTab
<1>2. DraftSurvives'
  BY DEF DraftInv, DraftSurvives, Running, OneTab
<1> QED
  BY <1>1, <1>2 DEF DraftInv

LEMMA LeavesTab ==
    ASSUME TabsAreThere, NEW t \in Tabs, NEW p \in Senders \union {"elsewhere"}, Leaves(t, p)
    PROVE  /\ DOMAIN document' = DOMAIN document /\ DOMAIN phase' = DOMAIN phase
           /\ DOMAIN text' = DOMAIN text
           /\ \A u \in Tabs \ {t} :
                  document'[u] = document[u] /\ phase'[u] = phase[u] /\ text'[u] = text[u]
           /\ document'[t] = p /\ phase'[t] # "running"
           /\ phase'[t] # "there" => document'[t] # "elsewhere"
BY DEF TabsAreThere, Leaves, Senders, Open

LEMMA VisitsTab ==
    ASSUME DraftInv, NEW t \in Tabs, NEW p \in Senders \union {"elsewhere"}, Visits(t, p)
    PROVE  DraftInv'
<1>1. /\ Leaves(t, p) /\ UNCHANGED td_draft
      /\ carried' = [carried EXCEPT ![t] = IF phase[t] = "running" THEN "" ELSE @]
  BY DEF Visits
<1>2. SameTabs /\ OneTab(t)
  BY <1>1, LeavesTab DEF DraftInv, TabsAreThere, SameTabs, OneTab
<1>3. carried'[t] = IF phase[t] = "running" THEN "" ELSE carried[t]
  BY <1>1 DEF DraftInv, TabsAreThere
<1> QED
  BY <1>1, <1>2, <1>3, LeavesTab, TabSteps DEF DraftInv, DraftSurvives, Running

\* Documents load: the redirect, the main script, and what the redirect brings about.
LEMMA ScriptsTab ==
    ASSUME DraftInv, NEW t \in Tabs,
           RedirectScript(t) \/ MainScript(t) \/ Redirected(t)
    PROVE  DraftInv'
<1> USE DEF DraftInv, TabsAreThere, SameTabs, OneTab, DraftSurvives, Running
<1>1. CASE RedirectScript(t)
  <2>1. /\ phase[t] = "loading"
        /\ phase' = [phase EXCEPT ![t] = IF document[t] = "home" /\ td_mode = "closed" /\ ready
                                         THEN "leaving" ELSE "staying"]
        /\ UNCHANGED <<td_draft, document, text, carried>>
    BY <1>1 DEF RedirectScript
  <2>2. phase'[t] \in {"leaving", "staying"} /\ SameTabs /\ OneTab(t)
    BY <2>1
  <2> QED
    BY <2>1, <2>2, TabSteps
<1>2. CASE MainScript(t)
  <2>1. /\ phase[t] = "staying" /\ UNCHANGED <<document, carried>>
        /\ text' = [text EXCEPT ![t] = td_draft[t]]
        /\ td_draft' = [td_draft EXCEPT ![t] = ""]
        /\ phase' = [phase EXCEPT ![t] = IF @ = "leaving" THEN "leaving" ELSE "running"]
    BY <1>2 DEF MainScript, RunsOn
  <2>2. SameTabs /\ OneTab(t) /\ phase'[t] = "running" /\ text'[t] = td_draft[t]
    BY <2>1
  <2> QED
    BY ZenonT(30), <2>1, <2>2, TabSteps
<1>3. CASE Redirected(t)
  <2>1. phase[t] = "leaving" /\ Leaves(t, "closed") /\ UNCHANGED <<td_draft, carried>>
    BY <1>3 DEF Redirected
  <2>2. "closed" \in Senders \union {"elsewhere"}
    BY DEF Senders
  <2>3. SameTabs /\ OneTab(t)
    BY <2>1, <2>2, LeavesTab
  <2> QED
    BY <2>1, <2>2, <2>3, LeavesTab, TabSteps
<1> QED
  BY <1>1, <1>2, <1>3

\* A step of the compose card that lets the draft's text be touched forgets it was carried.
LEMMA Untracked ==
    ASSUME DraftInv, NEW t \in Tabs, SameTabs, OneTab(t),
           phase'[t] # "there" => document'[t] # "elsewhere", carried'[t] = ""
    PROVE  DraftInv'
BY TabSteps

LEMMA SendsTab ==
    ASSUME DraftInv, NEW t \in Tabs, phase[t] = "running", NEW x, SendsText(t, x)
    PROVE  /\ DOMAIN document' = DOMAIN document /\ DOMAIN phase' = DOMAIN phase
           /\ DOMAIN carried' = DOMAIN carried
           /\ \A u \in Tabs \ {t} :
                  document'[u] = document[u] /\ phase'[u] = phase[u] /\ carried'[u] = carried[u]
           /\ phase'[t] # "there" => document'[t] # "elsewhere"
           /\ \/ carried'[t] = ""
              \/ UNCHANGED <<document, phase, carried>> /\ x \in {"", "blank"}
<1> USE DEF DraftInv, TabsAreThere
<1>1. CASE x = "link"
  BY <1>1 DEF SendsText, IsLink
<1>2. CASE x \in {"", "blank"}
  BY <1>2 DEF SendsText, IsLink
<1>3. CASE x \notin {"", "blank", "link"}
  BY <1>3 DEF SendsText, IsLink
<1> QED
  BY <1>1, <1>2, <1>3

LEMMA ClicksThrowTab ==
    ASSUME DraftInv, NEW t \in Tabs, ClicksThrow(t)
    PROVE  DraftInv'
<1>1. /\ phase[t] = "running" /\ UNCHANGED td_draft
      /\ IF Sending(t) THEN UNCHANGED <<document, phase, carried>> ELSE SendsText(t, text[t])
      /\ text' = IF document'[t] = "elsewhere" THEN [text EXCEPT ![t] = ""] ELSE text
  BY DEF ClicksThrow, CanCompose, Running
<1>2. SameTabs /\ OneTab(t)
  BY <1>1, SendsTab DEF DraftInv, TabsAreThere, SameTabs, OneTab
<1>3. document[t] # "elsewhere"
  BY <1>1 DEF DraftInv, TabsAreThere
<1>4. phase'[t] # "there" => document'[t] # "elsewhere"
  BY <1>1, <1>3, SendsTab
<1>5. CASE carried'[t] = ""
  BY <1>2, <1>4, <1>5, Untracked
<1>6. CASE UNCHANGED <<document, phase, carried>>
  <2>1. text' = text
    BY <1>1, <1>3, <1>6
  <2> QED
    BY <1>1, <1>2, <1>4, <1>6, <2>1, TabSteps DEF DraftInv, DraftSurvives, Running
<1> QED
  BY <1>1, <1>5, <1>6, SendsTab

LEMMA PastesWordsTab ==
    ASSUME DraftInv, NEW t \in Tabs, NEW x, x \notin {"", "blank"}, PastesWords(t, x)
    PROVE  DraftInv'
<1>1. /\ phase[t] = "running" /\ UNCHANGED td_draft /\ text' = [text EXCEPT ![t] = x]
      /\ IF Sending(t)
         THEN carried' = [carried EXCEPT ![t] = ""] /\ UNCHANGED <<document, phase>>
         ELSE SendsText(t, x)
  BY DEF PastesWords, CanCompose, Running
<1>2. SameTabs /\ OneTab(t) /\ (phase'[t] # "there" => document'[t] # "elsewhere")
  BY <1>1, SendsTab DEF DraftInv, TabsAreThere, SameTabs, OneTab
<1>3. carried'[t] = ""
  BY <1>1, SendsTab DEF DraftInv, TabsAreThere
<1> QED
  BY <1>2, <1>3, Untracked

LEMMA CardTab ==
    ASSUME DraftInv, NEW t \in Tabs,
           \/ \E x \in Texts : Types(t, x)
           \/ SendsFile(t) \/ ThrowAnswered(t) \/ ThrowsAgain(t)
    PROVE  DraftInv'
<1> USE DEF DraftInv, TabsAreThere, SameTabs, OneTab, DraftSurvives, Running
<1>1. ASSUME NEW x, Types(t, x) PROVE DraftInv'
  <2>1. /\ text' = [text EXCEPT ![t] = x] /\ carried' = [carried EXCEPT ![t] = ""]
        /\ UNCHANGED <<td_draft, document, phase>>
    BY <1>1 DEF Types
  <2> QED
    BY <2>1, Untracked
<1>2. CASE SendsFile(t) \/ ThrowAnswered(t)
  <2>1. UNCHANGED <<td_draft, document, phase, text, carried>>
    BY <1>2 DEF SendsFile, ThrowAnswered
  <2> QED
    BY <2>1, TabSteps
<1>3. CASE ThrowsAgain(t)
  <2>1. /\ text' = [text EXCEPT ![t] = ""] /\ carried' = [carried EXCEPT ![t] = ""]
        /\ UNCHANGED <<td_draft, document, phase>>
    BY <1>3 DEF ThrowsAgain
  <2> QED
    BY <2>1, Untracked
<1> QED
  BY <1>1, <1>2, <1>3

LEMMA SwitchesTab == ASSUME DraftInv, NEW t \in Tabs, Switches(t) PROVE DraftInv'
<1>1. PICK p \in Senders \union {"elsewhere"} :
          p = IF document[t] \in Open THEN "closed" ELSE "home"
  BY DEF Senders, Open
<1>2. /\ Leaves(t, p)
      /\ td_draft' = [td_draft EXCEPT ![t] = text[t]]
      /\ carried' = [carried EXCEPT ![t] = text[t]]
  BY <1>1 DEF Switches
<1>3. SameTabs /\ OneTab(t)
  BY <1>2, LeavesTab DEF DraftInv, TabsAreThere, SameTabs, OneTab
<1>4. td_draft'[t] = text[t] /\ carried'[t] = text[t]
  BY <1>2 DEF DraftInv, TabsAreThere
<1> QED
  BY <1>2, <1>3, <1>4, LeavesTab, TabSteps DEF DraftInv

LEMMA DraftNext ==
    ASSUME DraftInv, [NextTabs]_tabvars
    PROVE  DraftInv'
<1>1. CASE UNCHANGED tabvars
  BY <1>1 DEF tabvars, DraftInv, TabsAreThere, DraftSurvives, Running
<1>2. ASSUME NEW t \in Tabs, PastesLink(t) PROVE DraftInv'
  BY <1>2, VisitsTab DEF PastesLink
<1>3. ASSUME NEW t \in Tabs, NEW x \in Words, PastesWords(t, x) PROVE DraftInv'
  BY <1>3, PastesWordsTab, SendersAssumption
<1> QED
  BY <1>1, <1>2, <1>3, VisitsTab, ScriptsTab, CardTab, ClicksThrowTab, SwitchesTab DEF NextTabs

LEMMA InitDraft == InitTabs => DraftInv
BY DEF InitTabs, DraftInv, TabsAreThere, DraftSurvives

\* A text that rides along when a person changes mode is never lost on the way, whatever
\* the tabs do and in whatever order their scripts run (tdKeepDraft, tdTakeDraft).
THEOREM DraftsSurvive == SpecTabs => []DraftSurvives
<1>1. DraftInv /\ [NextTabs]_tabvars => DraftInv'
  BY DraftNext
<1> QED
  BY <1>1, InitDraft, PTL DEF SpecTabs, DraftInv

\* Who gives the closed mode up.
LEMMA ModeSteps ==
    ASSUME DraftInv, [NextTabs]_tabvars, td_mode = "closed", td_mode' # "closed"
    PROVE  \E t \in Tabs :
               \/ phase[t] = "running" /\ document[t] \notin Open /\ document'[t] = "home"
               \/ phase[t] = "staying" /\ document[t] = "home"
<1>1. ASSUME NEW t \in Tabs, MainScript(t)
      PROVE  phase[t] = "staying" /\ document[t] = "home"
  BY <1>1 DEF MainScript, RunsOn, Remembered, Landings, ModeOf, Open
<1>2. ASSUME NEW t \in Tabs, Switches(t)
      PROVE  phase[t] = "running" /\ document[t] \notin Open /\ document'[t] = "home"
  BY <1>2 DEF Switches, Leaves, Running, DraftInv, TabsAreThere
<1>3. ASSUME NEW t \in Tabs,
             \/ \E p : Visits(t, p)
             \/ RedirectScript(t) \/ Redirected(t)
             \/ \E x : Types(t, x) \/ PastesWords(t, x)
             \/ ClicksThrow(t) \/ PastesLink(t) \/ SendsFile(t)
             \/ ThrowAnswered(t) \/ ThrowsAgain(t)
      PROVE  FALSE
  BY <1>3 DEF Visits, RedirectScript, Redirected, Types, PastesWords, ClicksThrow,
              PastesLink, SendsFile, ThrowAnswered, ThrowsAgain
<1>4. UNCHANGED tabvars => UNCHANGED td_mode
  BY DEF tabvars
<1> QED
  BY <1>1, <1>2, <1>3, <1>4 DEF NextTabs

\* The closed mode is given up by the switch, or by a homepage that had looked before
\* another tab chose it (_MODE_REDIRECT_SCRIPT, the main scripts of the sender pages).
THEOREM ClosedModeIsKept == SpecTabs => ClosedModeSticks
<1>1. DraftInv /\ [NextTabs]_tabvars => DraftInv'
  BY DraftNext
<1>2. DraftInv /\ [NextTabs]_tabvars =>
          [td_mode = "closed" /\ td_mode' # "closed" /\ ready =>
               \E t \in Tabs :
                  \/ phase[t] = "running" /\ document[t] \notin Open /\ document'[t] = "home"
                  \/ phase[t] = "staying" /\ document[t] = "home"]_tabvars
  BY ModeSteps
<1> QED
  BY <1>1, <1>2, InitDraft, PTL DEF SpecTabs, ClosedModeSticks
================================================================================
