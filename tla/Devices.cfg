SPECIFICATION MCSpec
CONSTANTS
    c1 = c1
    c2 = c2
    NONE = NONE
    Clients = {c1, c2}
    Stations = {1, 2}
    Columns = 4
    SaveCells = 2
    CursorWidth = 2
    Forms <- MCForms
    HotSpot <- MCHotSpot
    Values = {0, 3, 4, 25}
    MaxHides = 2
    Areas <- MCAreas
    Lows <- MCLows
    Highs = {0, 4}
    Keys <- MCKeys
    Moves <- MCMoves
    Xres = 3
    Fast = 2
    KeyBytes = 3
    MouseBytes = 4
    MaxKeys = 4
    MaxLine = 5
    MaxHeld = 2
    MaxLost = 1
    Directories <- MCDirectories
    MaxFonts = 5
    MaxFaces = 3
    Slots = {1, 2, 3}
    Requests = {1, 8, 16, 20, 40}
    Width = 8
    Height = 3
    ByteCells = 3
    WordBits = 6
    Corners <- MCCorners
    Places <- MCPlaces
    Extents = {1, 3, 6}
    Clips <- MCClips
    Polygons <- MCPolygons
    PatternCells <- MCPattern
    Fonts <- MCFonts
    Texts <- MCTexts
    Specials <- MCSpecials
    Scalings <- MCScalings
    Lengths = {9, 19, 30}
    CellBits = 4
    Space = 32
VIEW MCView
INVARIANTS
    VdiSafety
    DeviceSafety
PROPERTIES
    OwnClipsHold
CHECK_DEADLOCK FALSE
