SPECIFICATION Spec
CONSTANTS
    IPs = {ip1, ip2, ip3}
    Window = 3
    MissBudget = 2
    GlobalWindow = 2
    GlobalMissThreshold = 4
    MaxTrackedIPs = 2
    MaxMisses = 6
    Horizon = 6
SYMMETRY IPsAlike
INVARIANTS
    AnswersLikeFullHistory
    QuickMissesAreRationed
PROPERTIES
    OnlyActiveIPsPastTheCeiling
