SPECIFICATION SpecTabs
CONSTANTS
    tab1 = tab1
    tab2 = tab2
    Tabs <- TwoTabs
    Words = {"words", "others"}
INVARIANTS
    DraftSurvives
PROPERTIES
    ClosedModeSticks
SYMMETRY Permuted
