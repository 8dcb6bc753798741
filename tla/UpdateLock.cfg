SPECIFICATION MCSpec
CONSTANTS
    c1 = c1
    c2 = c2
    c3 = c3
    k1 = k1
    k2 = k2
    Channels = {c1, c2, c3}
    NONE = NONE
    MaxDepth = 2
    MaxGeneration = 4
    ExitDrawFails = TRUE
    Keys = {k1, k2}
    KeyRoom = 3
    Places = {0, 4}
    Buttons = {0}
    TickMs = 2
    Rates <- MCRates
    MaxDelay = 6
    MaxClicks = 2
    WordBase = 3
    Waits <- MCWaits
INVARIANTS
    TypeOK
    LockSafety
PROPERTIES
    ImplementsScreenLock
    EveryWaiterLeaves
    KeysInOrder
    TimersEnd
CHECK_DEADLOCK FALSE
