SPECIFICATION SpecAll
CONSTANTS
    Chunks = 3
    Tries = 2
    Losses = {"request", "answer", "late"}
    Hiccups = TRUE
    Sweeps = TRUE
    FileSizes = {3, 4}
    HeaderBytes = 1
    MaxTears = 1
    Alterations = {"swapped", "cut", "short"}
    MaxVisits = 2
    MaxText = 1
    OpenMax = 4
    ClosedMax = 4
    ChunkBytes = 2
    ChunkSlack = 2
    TagBytes = 1
    IvBytes = 1
    PreambleBytes = 1
    MaxHeader = 2
    BodySlackFactor = 1
    BodySlackBytes = 1
INVARIANTS
    ThrownAsSent
    OnlyAStoredChunkEndsIt
    EndsWholeAndForGood
    FailsOnlyForACause
    ReloadKeepsTheKey
PROPERTIES
    SpentOnlyForAUsableKey
    EverybodyIsTold
CHECK_DEADLOCK FALSE
