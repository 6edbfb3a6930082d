--------------------------------- MODULE Relay ---------------------------------
(***************************************************************************)
(* The handlers of main.py over both stores and the upload limiter.        *)
(*                                                                         *)
(* A handler that changes state does so in a stretch with no await, so     *)
(* the event loop runs one such stretch at a time; a stretch is more than  *)
(* one step where it looks at one store and then changes the other.  What  *)
(* runs in worker threads, the writing of chunks and the streams of        *)
(* downloads, comes between any two steps.                                 *)
(*                                                                         *)
(* The stores are reduced to which throw is under which code: their locks, *)
(* clocks and bytes are ThrowStore's and FileStore's, the gate and its     *)
(* delays Gatekeeper's, the windows of bytes UploadLimiter's.  A throw     *)
(* whose time is over may be so at any moment; it leaves its store when    *)
(* that store next purges.                                                 *)
(***************************************************************************)
EXTENDS Sizes, Addresses, Ranges

CONSTANTS
    Handlers,           \* requests that may be in such a stretch
    Texts, Files,       \* what senders throw
    Closed,             \* the ones thrown from the closed page
    IPs,
    MaxThrows,          \* max_entries, of each store
    MaxSlots,           \* upload_max_concurrent
    TextRequests,       \* what arrives at /api/throws
    Plans,              \* what arrives at /api/files
    Spelled,            \* what arrives at /api/throws/{code}, and what was meant
    Headers             \* Range headers

Throws == Texts \union Files
Places == Codes \union ClosedAddresses
Nobody == "nobody"
Untold == "untold"

ASSUME RelayAssumption ==
    /\ Texts \intersect Files = {}
    /\ IsFiniteSet(Files)
    /\ Nobody \notin Throws \union IPs /\ Untold \notin IPs
    /\ Closed \subseteq Throws
    /\ {MaxThrows, MaxSlots} \subseteq Nat \ {0}
    /\ TextRequests \subseteq
           [honest : BOOLEAN, typed : Nat, enc : {"absent", "known", "unknown"}, json : BOOLEAN,
            base64 : BOOLEAN, blank : BOOLEAN, raw : Nat, body : Nat]
    /\ Plans \subseteq [enc : BOOLEAN, plain : Int, size : Int, chunks : Int]
    /\ Spelled \subseteq [raw : Seq(DOMAIN lower), meant : Places \union {NoCode}]
    /\ Headers \subseteq Header

\* What the page sends of a text: its JSON makes at most six bytes of one, and what is
\* around the text fits in the slack that create_app leaves for it.
ASSUME HonestTexts ==
    /\ 6 <= BodySlackFactor
    /\ \A r \in TextRequests : r.honest =>
           /\ r.json /\ ~r.blank
           /\ \/ /\ r.enc = "absent" /\ r.raw = r.typed
                 /\ r.body <= 6 * r.typed + BodySlackBytes
              \/ /\ r.enc = "known" /\ r.base64 /\ r.raw = IvBytes + r.typed + TagBytes
                 /\ r.body <= EncryptedCeiling(r.typed) + BodySlackBytes

VARIABLES
    stretch,            \* how far each handler is
    texts, files,       \* the throw under each code, in each store
    over,               \* throws whose time is up
    code,               \* the code each sender was given
    uploads,            \* uploads in flight, and whom each is charged to, if told its id
    whole,              \* uploads whose chunks have all been written
    plan,               \* what start_upload was told of each file
    tickets,            \* files being fetched
    slots,              \* UploadLimiter._active, as a count
    aged,               \* history: slots that aged out, of each address
    dropped,            \* history: uploads begun and swept unfinished
    last                \* the last request answered, and its answer

vars == <<stretch, texts, files, over, code, uploads, whole, plan, tickets, slots, aged, dropped, last>>

\* No handler reads `last`: TLC tells states apart by the rest and checks what a
\* request is answered on every step (VIEW).
System == <<stretch, texts, files, over, code, uploads, whole, plan, tickets, slots, aged, dropped>>

Idle == [at |-> "idle"]
None == [at |-> "nothing"]

Init ==
    /\ stretch = [h \in Handlers |-> Idle]
    /\ texts = [c \in Places |-> Nobody]
    /\ files = [c \in Places |-> Nobody]
    /\ over = {}
    /\ code = [x \in Throws |-> NoCode]
    /\ uploads = [x \in Files |-> Nobody]
    /\ whole = {}
    /\ plan = [x \in Files |-> None]
    /\ tickets = {}
    /\ slots = [i \in IPs |-> 0]
    /\ aged = [i \in IPs |-> 0] /\ dropped = [i \in IPs |-> 0]
    /\ last = None

\* mutant: the handlers call the stores in worker threads, as put_chunk does
LoopIsFree_Always == TRUE

LoopIsFree == \A h \in Handlers : stretch[h] = Idle

Purged(store) == [c \in Places |-> IF store[c] \in over THEN Nobody ELSE store[c]]

Live(store) == {c \in Places : store[c] # Nobody}

Pool(x) == IF x \in Closed THEN ClosedAddresses ELSE Codes

\* `holds` looks at the other store as it is, without purging it.
FreeCodes(x, own, other) == Pool(x) \ (Live(own) \union Live(other))

--------------------------------------------------------------------------------
(* POST /api/throws.                                                       *)

\* raw counts the text's bytes, or what its base64 decodes to.
Carried(r) == IF r.enc = "known" THEN EncryptedPlaintextBytes(r.raw) ELSE r.raw

TextStatus(r) ==
    IF r.body > MaxBody THEN 413
    ELSE IF ~r.json \/ r.enc = "unknown" \/ r.blank \/ (r.enc = "known" /\ ~r.base64) THEN 400
    ELSE IF Carried(r) > MaxText THEN 413
    ELSE 201

RefuseText(r) ==
    /\ LoopIsFree
    /\ TextStatus(r) # 201
    /\ last' = [at |-> "text", request |-> r, status |-> TextStatus(r)]
    /\ UNCHANGED <<stretch, texts, files, over, code, uploads, whole, plan, tickets, slots, aged, dropped>>

HasRoom == Cardinality(Live(Purged(texts))) < MaxThrows

\* put: a code is picked that neither store has, and then stored under.
PickForText(h, x, r) ==
    /\ LoopIsFree
    /\ stretch[h] = Idle
    /\ TextStatus(r) = 201
    /\ r.enc = "known" <=> x \in Closed
    /\ code[x] = NoCode
    /\ HasRoom
    /\ \E c \in FreeCodes(x, Purged(texts), files) :
        stretch' = [stretch EXCEPT ![h] = [at |-> "putting", throw |-> x, code |-> c]]
    /\ texts' = Purged(texts)
    /\ last' = [at |-> "text", request |-> r, status |-> 201]
    /\ UNCHANGED <<files, over, code, uploads, whole, plan, tickets, slots, aged, dropped>>

PutText(h) ==
    /\ stretch[h].at = "putting"
    /\ texts' = [texts EXCEPT ![stretch[h].code] = stretch[h].throw]
    /\ code' = [code EXCEPT ![stretch[h].throw] = stretch[h].code]
    /\ stretch' = [stretch EXCEPT ![h] = Idle]
    /\ UNCHANGED <<files, over, uploads, whole, plan, tickets, slots, aged, dropped, last>>

\* StoreFull, or OutOfCodes after drawing only codes in use.
PutRefused(x, r) ==
    /\ LoopIsFree
    /\ TextStatus(r) = 201
    /\ r.enc = "known" <=> x \in Closed
    /\ code[x] = NoCode
    /\ ~HasRoom \/ FreeCodes(x, Purged(texts), files) # Pool(x)
    /\ texts' = Purged(texts)
    /\ last' = [at |-> "text", request |-> r, status |-> 503]
    /\ UNCHANGED <<stretch, files, over, code, uploads, whole, plan, tickets, slots, aged, dropped>>

--------------------------------------------------------------------------------
(* POST /api/throws/{code}.                                                *)

\* The throw somebody who means this code has coming, if there is one.
Due(meant) ==
    LET waiting == {x \in Throws \ over :
            code[x] = meant /\ \E c \in Places : x \in {texts[c], files[c]}}
    IN  IF waiting = {} THEN Nobody ELSE CHOOSE x \in waiting : TRUE

TakeAnswer(due, found, status) ==
    last' = [at |-> "take", due |-> due, found |-> found, status |-> status]

TakeText(h, s) ==
    LET c == Canonical(s.raw)
        store == Purged(texts)
    IN  /\ LoopIsFree
        /\ stretch[h] = Idle
        /\ IF c # NoCode /\ store[c] # Nobody
           THEN /\ texts' = [store EXCEPT ![c] = Nobody]
                /\ TakeAnswer(Due(s.meant), store[c], 200)
                /\ UNCHANGED stretch
           ELSE /\ texts' = IF c = NoCode THEN texts ELSE store
                /\ stretch' = [stretch EXCEPT ![h] =
                        [at |-> "not a text", code |-> c, due |-> Due(s.meant)]]
                /\ UNCHANGED last
        /\ UNCHANGED <<files, over, code, uploads, whole, plan, tickets, slots, aged, dropped>>

TakeFile(h) ==
    LET c == stretch[h].code
        store == Purged(files)
    IN  /\ stretch[h].at = "not a text"
        /\ IF c # NoCode /\ store[c] # Nobody
           THEN /\ files' = [store EXCEPT ![c] = Nobody]
                /\ tickets' = tickets \union {store[c]}
                /\ TakeAnswer(stretch[h].due, store[c], 200)
           ELSE /\ files' = IF c = NoCode THEN files ELSE store
                /\ TakeAnswer(stretch[h].due, Nobody, 404)
                /\ UNCHANGED tickets
        /\ stretch' = [stretch EXCEPT ![h] = Idle]
        /\ UNCHANGED <<texts, over, code, uploads, whole, plan, slots, aged, dropped>>

--------------------------------------------------------------------------------
(* POST /api/files.                                                        *)

UploadAnswer(p, status) == last' = [at |-> "upload", plan |-> p, status |-> status]

RefuseUpload(p) ==
    /\ LoopIsFree
    /\ PlanVerdict(p) # "ok"
    /\ UploadAnswer(p, IF PlanVerdict(p) = "too big" THEN 413 ELSE 400)
    /\ UNCHANGED <<stretch, texts, files, over, code, uploads, whole, plan, tickets, slots, aged, dropped>>

InFlight == {x \in Files : uploads[x] # Nobody}
Known == {x \in Files : uploads[x] \in IPs}

FilesHaveRoom ==
    Cardinality(Live(Purged(files)) \union InFlight \union tickets) < MaxThrows

\* OSError is answered as if the request were at fault.
DiskError(p) == last' = [at |-> "disk error", plan |-> p, status |-> 400]

\* The slot is taken, and given back if begin refuses: 429, 400 and 503 leave none.
UploadBusy(p, ip) ==
    /\ LoopIsFree
    /\ PlanVerdict(p) = "ok"
    /\ \/ slots[ip] = MaxSlots /\ UploadAnswer(p, 429) /\ UNCHANGED files
       \/ /\ slots[ip] < MaxSlots
          /\ ~BeginAccepts(p)
          /\ UploadAnswer(p, 400)
          /\ UNCHANGED files
       \/ /\ slots[ip] < MaxSlots
          /\ BeginAccepts(p)
          /\ \/ DiskError(p) /\ UNCHANGED files               \* prepare raised
             \/ ~FilesHaveRoom /\ UploadAnswer(p, 503) /\ files' = Purged(files)
    /\ UNCHANGED <<stretch, texts, over, code, uploads, whole, plan, tickets, slots, aged, dropped>>

\* begin registers an upload and takes its room, and only then touches its file.
Reserves(x, p, ip) ==
    /\ LoopIsFree
    /\ PlanVerdict(p) = "ok"
    /\ p.enc <=> x \in Closed
    /\ plan[x] = None
    /\ slots[ip] < MaxSlots
    /\ BeginAccepts(p)
    /\ FilesHaveRoom
    /\ plan' = [plan EXCEPT ![x] = p]
    /\ files' = Purged(files)
    /\ UNCHANGED <<stretch, texts, over, code, whole, tickets, aged, dropped>>

StartUpload(x, p, ip) ==
    /\ Reserves(x, p, ip)
    /\ slots' = [slots EXCEPT ![ip] = @ + 1]
    /\ uploads' = [uploads EXCEPT ![x] = ip]
    /\ UploadAnswer(p, 201)

\* The touch raised: the slot goes back, and the room stays taken by an upload that
\* nobody can go on with.
UploadTouchRaises(x, p, ip) ==
    /\ Reserves(x, p, ip)
    /\ uploads' = [uploads EXCEPT ![x] = Untold]
    /\ DiskError(p)
    /\ UNCHANGED slots

--------------------------------------------------------------------------------
(* PUT /api/files/{upload}/{index}, in its worker threads, to the last chunk. *)

WriteChunks(x) ==
    /\ x \in Known \ whole
    /\ whole' = whole \union {x}
    /\ UNCHANGED <<stretch, texts, files, over, code, uploads, plan, tickets, slots, aged, dropped, last>>

--------------------------------------------------------------------------------
(* POST /api/files/{upload}/done.                                          *)

DoneAnswer(status) == last' = [at |-> "done", status |-> status]

\* NoSuchUpload, UploadIncomplete or OutOfCodes: no slot is given back.
RefuseDone(x) ==
    /\ LoopIsFree
    /\ \/ x \notin InFlight /\ DoneAnswer(404)
       \/ x \in Known \ whole /\ DoneAnswer(400)
       \/ x \in Known \intersect whole /\ FreeCodes(x, files, texts) # Pool(x) /\ DoneAnswer(503)
    /\ UNCHANGED <<stretch, texts, files, over, code, uploads, whole, plan, tickets, slots, aged, dropped>>

\* finish, called from the address `from`, picks a code that neither store has.
PickForFile(h, x, from) ==
    /\ LoopIsFree
    /\ stretch[h] = Idle
    /\ x \in Known \intersect whole
    /\ \E c \in FreeCodes(x, files, texts) :
        stretch' = [stretch EXCEPT ![h] = [at |-> "filing", throw |-> x, code |-> c, from |-> from]]
    /\ UNCHANGED <<texts, files, over, code, uploads, whole, plan, tickets, slots, aged, dropped, last>>

\* mutant: the slot goes back to whoever closes the upload
Releases_Closer(h) == stretch[h].from

\* filed.charged_to: the address the upload was started from.
Releases(h) == uploads[stretch[h].throw]

FinishUpload(h) ==
    /\ stretch[h].at = "filing"
    /\ LET x == stretch[h].throw
           ip == Releases(h)
       IN  /\ files' = [files EXCEPT ![stretch[h].code] = x]
           /\ code' = [code EXCEPT ![x] = stretch[h].code]
           /\ uploads' = [uploads EXCEPT ![x] = Nobody]
           /\ whole' = whole \ {x}
           /\ slots' = [slots EXCEPT ![ip] = IF @ = 0 THEN 0 ELSE @ - 1]
    /\ stretch' = [stretch EXCEPT ![h] = Idle]
    /\ DoneAnswer(201)
    /\ UNCHANGED <<texts, over, plan, tickets, aged, dropped>>

--------------------------------------------------------------------------------
(* GET /api/files/t/{ticket}, and the stream that follows in its thread.   *)

DownloadFile(x, header) ==
    /\ LoopIsFree
    /\ x \in tickets
    /\ last' = [at |-> "download", size |-> plan[x].size, header |-> header,
                span |-> ParseRange(header, plan[x].size)]
    /\ files' = Purged(files)
    /\ UNCHANGED <<stretch, texts, over, code, uploads, whole, plan, tickets, slots, aged, dropped>>

\* A ticket that is gone, or never was: 404.
RefuseDownload ==
    /\ LoopIsFree
    /\ last' = None
    /\ files' = Purged(files)
    /\ UNCHANGED <<stretch, texts, over, code, uploads, whole, plan, tickets, slots, aged, dropped>>

CompleteDownload(x) ==
    /\ x \in tickets
    /\ tickets' = tickets \ {x}
    /\ UNCHANGED <<stretch, texts, files, over, code, uploads, whole, plan, slots, aged, dropped, last>>

--------------------------------------------------------------------------------
(* Time.                                                                   *)

Expire(x) ==
    /\ x \in Throws \ over
    /\ \E c \in Places : x \in {texts[c], files[c]}
    /\ over' = over \union {x}
    /\ UNCHANGED <<stretch, texts, files, code, uploads, whole, plan, tickets, slots, aged, dropped, last>>

\* sweep_forever, on the loop.
Sweep ==
    /\ LoopIsFree
    /\ texts' = Purged(texts)
    /\ files' = Purged(files)
    /\ UNCHANGED <<stretch, over, code, uploads, whole, plan, tickets, slots, aged, dropped, last>>

\* An upload nobody moves goes with some purge of its store, and the limiter is not told.
DropUpload(x) ==
    /\ LoopIsFree
    /\ x \in InFlight
    /\ dropped' = IF x \in Known THEN [dropped EXCEPT ![uploads[x]] = @ + 1] ELSE dropped
    /\ uploads' = [uploads EXCEPT ![x] = Nobody]
    /\ whole' = whole \ {x}
    /\ UNCHANGED <<stretch, texts, files, over, code, plan, tickets, slots, aged, last>>

\* A slot as old as a slot lives is popped the next time the limiter looks, whether its
\* upload was dropped or still moves.
SlotAges(ip) ==
    /\ LoopIsFree
    /\ slots[ip] > 0
    /\ slots' = [slots EXCEPT ![ip] = @ - 1]
    /\ aged' = [aged EXCEPT ![ip] = @ + 1]
    /\ UNCHANGED <<stretch, texts, files, over, code, uploads, whole, plan, tickets, dropped, last>>

--------------------------------------------------------------------------------
HandleText ==
    \/ \E r \in TextRequests :
        \/ RefuseText(r)
        \/ \E x \in Texts : PutRefused(x, r) \/ \E h \in Handlers : PickForText(h, x, r)
    \/ \E h \in Handlers : PutText(h)

HandleTake == \E h \in Handlers : TakeFile(h) \/ \E s \in Spelled : TakeText(h, s)

HandleUpload ==
    \/ \E p \in Plans :
        \/ RefuseUpload(p)
        \/ \E ip \in IPs :
              \/ UploadBusy(p, ip)
              \/ \E x \in Files : StartUpload(x, p, ip) \/ UploadTouchRaises(x, p, ip)
    \/ \E x \in Files :
        \/ WriteChunks(x)
        \/ RefuseDone(x)
        \/ \E h \in Handlers, ip \in IPs : PickForFile(h, x, ip)
    \/ \E h \in Handlers : FinishUpload(h)

HandleDownload ==
    \/ RefuseDownload
    \/ \E x \in Files : CompleteDownload(x) \/ \E header \in Headers : DownloadFile(x, header)

Time ==
    \/ Sweep
    \/ \E x \in Throws : Expire(x)
    \/ \E x \in Files : DropUpload(x)
    \/ \E ip \in IPs : SlotAges(ip)

Next == HandleText \/ HandleTake \/ HandleUpload \/ HandleDownload \/ Time

Spec == Init /\ [][Next]_vars

--------------------------------------------------------------------------------
(* Properties.                                                             *)

Stretch ==
    {Idle}
        \union [at : {"putting"}, throw : Texts, code : Places]
        \union [at : {"not a text"}, code : Places \union {NoCode}, due : Throws \union {Nobody}]
        \union [at : {"filing"}, throw : Files, code : Places, from : IPs]

TypeOK ==
    /\ stretch \in [Handlers -> Stretch]
    /\ texts \in [Places -> Texts \union {Nobody}]
    /\ files \in [Places -> Files \union {Nobody}]
    /\ over \subseteq Throws
    /\ code \in [Throws -> Places \union {NoCode}]
    /\ uploads \in [Files -> IPs \union {Nobody, Untold}]
    /\ whole \subseteq Files
    /\ plan \in [Files -> Plans \union {None}]
    /\ tickets \subseteq Files
    /\ slots \in [IPs -> Nat] /\ aged \in [IPs -> Nat] /\ dropped \in [IPs -> Nat]

\* A receiver types words and cannot know what is behind them: no code is ever in both
\* stores, although each looks at the other without its lock (holds, create_app).
OneSpace == Live(texts) \intersect Live(files) = {}

\* Whoever asks for a throw in any spelling of its code gets that throw, whichever
\* store it is in; a miss means that it is read, over, or never was (take_throw).
FoundAsMeant ==
    [][last'.at = "take" =>
        \/ last'.status = 200 /\ last'.found = last'.due
        \/ last'.status = 404 /\ last'.due \in over' \union {Nobody}]_vars

\* A slot is held by the address an upload was started from, for as long as it is in
\* flight and after it was dropped, unless slots of that address aged out; and nothing
\* else holds one.  So nobody frees another's, and a failed start leaks none
\* (start_upload, finish_upload).
SlotsAreOwned ==
    \A ip \in IPs :
        LET begun == Cardinality({x \in Files : uploads[x] = ip}) + dropped[ip]
        IN  begun <= slots[ip] + aged[ip] /\ slots[ip] <= begun

PagePlans ==
    {OpenPlan(n) : n \in 1 .. OpenMax + 1}
        \union {ClosedPlan(n, header) : n \in 1 .. ClosedMax + 1, header \in 0 .. MaxHeader - TagBytes}

\* The visible limit is the limit in both modes: what a page within it sends is never
\* refused for its size or its shape, and what is over it never gets in, whatever a
\* client claims (create_throw, start_upload, begin).
TextsWithinLimit(r, status) ==
    /\ r.honest => (status \in {201, 503} <=> r.typed <= MaxText)
    /\ status = 201 /\ r.enc = "known" =>
           4 * ((r.raw + 2) \div 3) <= EncryptedCeiling(MaxText)

FilesWithinLimit(p, status) ==
    LET limit == IF p.enc THEN ClosedMax ELSE OpenMax
    IN  /\ p \in PagePlans => (status \in {201, 429, 503} <=> p.plain <= limit)
        /\ status = 201 => p.size <= ClosedFileCeiling(limit, ChunksFor(limit))

OneLimit ==
    [][/\ last'.at = "text" => TextsWithinLimit(last'.request, last'.status)
       /\ last'.at = "upload" => FilesWithinLimit(last'.plan, last'.status)]_vars

\* A download serves exactly the bytes its Range header names, and refuses only a
\* header that names none (parse_range, download_file).
Serves(size, header, span) ==
    CASE span.kind = "span" -> span.start .. span.end = Asked(header, size) /\ Asked(header, size) # {}
      [] span.kind = "unsatisfiable" -> Asked(header, size) = {}
      [] OTHER -> header = Nothing

ServesWhatWasAsked ==
    [][last'.at = "download" => Serves(last'.size, last'.header, last'.span)]_vars
================================================================================
