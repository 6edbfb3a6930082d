SPECIFICATION Spec
CONSTANTS
    f1 = f1
    f2 = f2
    f3 = f3
    Ids <- TwoFiles
    Closed <- OneClosed
    Declared <- DeclaredTwo
    Chunks <- ChunksTwo
    Lengths = {1, 2}
    MaxChunkBytes = 2
    Words = {w1}
    Addresses = {a1}
    Tickets = {k1}
    Writers = {th1}
    Ttl = 1
    UploadIdle = 1
    TicketIdle = 1
    MaxEntries = 2
    MaxTotalBytes = 4
    CallsAbandon = FALSE
    DiskFails = TRUE
    UnlinkFails = FALSE
    LastCall = 2
    Horizon = 3
    MaxRestarts = 0
INVARIANTS
    ServedFilesAreWhole
