SPECIFICATION Spec
CONSTANTS
    t1 = t1
    t2 = t2
    f1 = f1
    f2 = f2
    h1 = h1
    h2 = h2
    i1 = i1
    i2 = i2
    Handlers <- TwoHandlers
    Texts <- TwoTexts
    Files <- TwoFiles
    Closed <- Sealed
    IPs <- TwoIPs
    MaxThrows = 2
    MaxSlots = 1
    TextRequests <- SmallTextRequests
    Plans <- SmallPlans
    Spelled <- SmallSpelled
    Headers <- SmallHeaders
    MaxText = 2
    OpenMax = 4
    ClosedMax = 4
    ChunkBytes = 2
    ChunkSlack = 2
    TagBytes = 1
    IvBytes = 1
    PreambleBytes = 1
    MaxHeader = 2
    BodySlackFactor = 8
    BodySlackBytes = 2
    Letters <- SmallLetters
    LEADING_DIGITS <- SmallAlphabet
    ALPHABET <- SmallAlphabet
    LENGTH = 3
    SEPARATORS <- Spaces
    lower <- Lowercase
    ADJECTIVES <- TwoAdjectives
    NOUNS <- OneNoun
INVARIANTS
    OneSpace
    SlotsAreOwned
PROPERTIES
    FoundAsMeant
    OneLimit
    ServesWhatWasAsked
VIEW System
SYMMETRY Permuted
