SPECIFICATION Spec
CONSTANTS
    f1 = f1
    f2 = f2
    f3 = f3
    Ids <- OneFile
    Closed = {}
    Declared <- DeclaredOdd
    Chunks <- ChunksOne
    Lengths = {1, 2}
    MaxChunkBytes = 2
    Words = {w1}
    Addresses = {}
    Tickets = {k1}
    Writers = {th1, th2}
    Ttl = 1
    UploadIdle = 2
    TicketIdle = 1
    MaxEntries = 2
    MaxTotalBytes = 4
    CallsAbandon = TRUE
    DiskFails = FALSE
    UnlinkFails = FALSE
    LastCall = 4
    Horizon = 6
    MaxRestarts = 2
INVARIANTS
    DeclaredIsCeiling
    ServedFilesAreWhole
    NoOrphan
PROPERTIES
    BytesLeaveTheVolume
