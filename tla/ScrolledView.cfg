SPECIFICATION ScrollSpec
CONSTANTS
    h1 = h1
    h2 = h2
    NONE = NONE
    LineMax = 2
    ChunkMax = 2
    Takes <- MCTakes
    PollLines = 2
    ReconnectTicks = 2
    FlushTicks = 2
    Incoming <- MCIncoming
    MaxConnections = 2
    MaxSent = 2
    MaxAccepted = 4
    Names = {1, 2}
    Me = 2
    Channels = {h1, h2}
    Buffers = 4
    NickSlots = 2
    Ranks = {2, 5}
    MaxQueue = 2
    ScrollLines = 12
    Narrow = 8
    Texts <- MCOneText
    Widths = {3}
    Heights = {1, 5}
    MaxRows = 15
    Chars = {"a", " "}
    InputSize = 4
    HistorySlots = 2
    Nicks <- MCNicks
    Commands <- MCCommands
    MaxEntered = 3
    NameOrder <- MCNames
    ReadOrder <- MCRead
    Hidden = {"h"}
    Star = "*"
    Levels = 2
    SearchSlots = 2
    FileNodes = 6
    Panes = {1, 2}
    Trees <- MCTrees
    Typed = {"b", NONE}
    Preferences <- MCPreferences
    MaxFaults = 1
    MaxOrders = 1
    MaxFolders = 1
    MaxDepth = 4
VIEW MCView
PROPERTIES
    ScrolledViewIsStill
CHECK_DEADLOCK FALSE
