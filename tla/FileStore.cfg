SPECIFICATION Spec
CONSTANTS
    f1 = f1
    f2 = f2
    f3 = f3
    Ids <- ThreeFiles
    Closed = {}
    Declared <- DeclaredThree
    Chunks <- ChunksThree
    Lengths = {1, 2}
    MaxChunkBytes = 2
    Words = {w1}
    Addresses = {}
    Tickets = {k1, k2}
    Writers = {th1}
    Ttl = 2
    UploadIdle = 1
    TicketIdle = 1
    MaxEntries = 2
    MaxTotalBytes = 5
    CallsAbandon = TRUE
    DiskFails = FALSE
    UnlinkFails = FALSE
    LastCall = 3
    Horizon = 5
    MaxRestarts = 0
SYMMETRY Alike
INVARIANTS
    OneOwner
    WithinCeilings
    CodeWorksUntilDeadline
