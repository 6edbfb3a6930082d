SPECIFICATION Spec
CONSTANTS
    t1 = t1
    t2 = t2
    t3 = t3
    Throws <- AllThrows
    Closed <- OneClosed
    Size <- SizeOfAll
    Words = {w1}
    Addresses = {a1}
    Callers = {k1, k2}
    Sweeper = sweeper
    Ttl = 1
    MaxEntries = 2
    MaxTotalBytes = 2
    Horizon = 2
INVARIANTS
    WithinCeilings
    ReadOnce
    NoLateRead
    CodeWorksUntilDeadline
PROPERTIES
    NothingLingers
    ImplementsOneTimeThrow
