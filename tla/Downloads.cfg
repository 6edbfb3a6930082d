SPECIFICATION Spec
CONSTANTS
    Streams = {s1, s2}
    Size = 3
    TouchEvery = 2
    TicketIdle = 2
    Horizon = 4
INVARIANTS
    RetiredOnlyWhenAllWentOut
    WholeStreamEndsTicket
    OverrunIsBounded
PROPERTIES
    FastEnoughIsNotSwept
    TicketEnds
CHECK_DEADLOCK FALSE
