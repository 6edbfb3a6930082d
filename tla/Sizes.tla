--------------------------------- MODULE Sizes ---------------------------------
(***************************************************************************)
(* What a text or a file weighs on its way, as the page, the handlers and  *)
(* the file store each compute it.                                         *)
(***************************************************************************)
EXTENDS Totals, Sequences, FiniteSetsExt

CONSTANTS
    MaxText,            \* Settings.max_bytes
    OpenMax,            \* Settings.open_file_max_bytes and TD_OPEN_MAX
    ClosedMax,          \* Settings.closed_file_max_bytes and TD_CLOSED_MAX
    ChunkBytes,         \* CHUNK_BYTES, FILE_CHUNK_BYTES and TD_CHUNK
    ChunkSlack,         \* MAX_CHUNK_BYTES - CHUNK_BYTES
    TagBytes,           \* _GCM_TAG_BYTES and TD_TAG_BYTES
    IvBytes,            \* _GCM_IV_BYTES and TD_IV_BYTES
    PreambleBytes,      \* _FILE_PREAMBLE_BYTES and TD_PREAMBLE_BYTES
    MaxHeader,          \* MAX_ENCRYPTED_HEADER_BYTES
    BodySlackFactor,    \* _BODY_SLACK_FACTOR
    BodySlackBytes      \* _BODY_SLACK_BYTES

\* A first piece of preamble and header is one chunk to the server, and so is a
\* sealed piece: both must fit in what the store takes for a chunk.
ASSUME SizesAssumption ==
    /\ {MaxText, OpenMax, ClosedMax, ChunkBytes, TagBytes} \subseteq Nat \ {0}
    /\ {ChunkSlack, IvBytes, PreambleBytes, MaxHeader, BodySlackFactor, BodySlackBytes} \subseteq Nat
    /\ TagBytes <= ChunkSlack
    /\ PreambleBytes + MaxHeader <= ChunkBytes + ChunkSlack

--------------------------------------------------------------------------------
(* Texts.  A closed one travels as base64, four characters for three bytes. *)

EncryptedCeiling(plaintext) == 4 * ((IvBytes + plaintext + TagBytes + 2) \div 3)

MaxBody == EncryptedCeiling(MaxText) * BodySlackFactor + BodySlackBytes

\* raw is what the base64 decodes to: IV, ciphertext and tag.
EncryptedPlaintextBytes(raw) == Max({0, raw - IvBytes - TagBytes})

--------------------------------------------------------------------------------
(* Files, as the server counts them.                                       *)

\* mutant: rounds down and adds one
ChunksFor_DownAndOne(bytes) == bytes \div ChunkBytes + 1

ChunksFor(bytes) == Max({1, (bytes + ChunkBytes - 1) \div ChunkBytes})

ClosedFileCeiling(plain, chunks) == PreambleBytes + MaxHeader + plain + chunks * TagBytes

MaxChunkBytes == ChunkBytes + ChunkSlack

\* start_upload's checks of a plan, in their order: "ok", "too big" or "malformed".
PlanVerdict(plan) ==
    LET data == IF plan.enc THEN plan.plain ELSE plan.size
        pieces == ChunksFor(data) + (IF plan.enc THEN 1 ELSE 0)
    IN  IF plan.size < 1 \/ plan.chunks < 1 \/ data < 1 THEN "malformed"
        ELSE IF data > (IF plan.enc THEN ClosedMax ELSE OpenMax) THEN "too big"
        ELSE IF \/ plan.chunks # pieces
                \/ plan.enc /\ plan.size > ClosedFileCeiling(data, ChunksFor(data))
        THEN "malformed"
        ELSE "ok"

\* begin raises ValueError for the rest.
BeginAccepts(plan) ==
    /\ plan.chunks <= plan.size
    /\ plan.chunks * MaxChunkBytes >= plan.size

--------------------------------------------------------------------------------
(* Files, as the page cuts them.                                           *)

\* tdSlice: a slice starts at every multiple of the chunk inside the file.
Slices(size) ==
    LET starts == {at \in 0 .. size - 1 : at % ChunkBytes = 0}
    IN  [i \in 1 .. Cardinality(starts) |->
            Min({ChunkBytes, size - (i - 1) * ChunkBytes})]

OpenPieces(size) == Slices(size)

\* header is the JSON inside the sealed header.
ClosedPieces(size, header) ==
    <<PreambleBytes + header + TagBytes>>
        \o [i \in DOMAIN Slices(size) |-> Slices(size)[i] + TagBytes]

OpenPlan(size) ==
    [enc |-> FALSE, plain |-> size, size |-> size, chunks |-> Len(OpenPieces(size))]

ClosedPlan(size, header) ==
    LET pieces == ClosedPieces(size, header)
    IN  [enc |-> TRUE, plain |-> size, size |-> Total(pieces), chunks |-> Len(pieces)]
================================================================================
