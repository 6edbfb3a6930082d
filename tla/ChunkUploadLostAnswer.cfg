SPECIFICATION Spec
CONSTANTS
    Chunks = 3
    Tries = 4
    Losses = {"answer"}
    Hiccups = FALSE
    Sweeps = FALSE
INVARIANTS
    HiccupsAreSurvived
CHECK_DEADLOCK FALSE
