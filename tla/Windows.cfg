SPECIFICATION MCSpec
CONSTANTS
    c1 = c1
    c2 = c2
    Clients = {c1, c2}
    NONE = NONE
    Null = Null
    LastHandle = 3
    Width = 8
    Height = 6
    BoxW = 1
    BoxH = 1
    MinBoxes = 3
    RectCount = 5
    Rects <- MCRects
    Walked <- MCWalked
    Kinds <- MCKinds
    Points <- MCPoints
    Channels = {c1, c2}
    Keys = {}
    KeyRoom = 1
    Places = {0, 4}
    Buttons = {0, 1}
    TickMs = 2
    Rates <- MCRates
    MaxDelay = 6
    MaxClicks = 3
    WordBase = 3
    Waits <- MCClickWaits
    MaxGeneration = 2
VIEW MCView
SYMMETRY MCSymmetry
INVARIANTS
    TreeSafety
    FrameSafety
    EventSafety
PROPERTIES
    WalksAreNotStale
    FailureLeavesNoTrace
    ExposedIsRedrawn
    DragsAreReported
    BatchIsReported
    TimersAreExact
CHECK_DEADLOCK FALSE
