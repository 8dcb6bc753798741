SPECIFICATION MCSpec
CONSTANTS
    c1 = c1
    c2 = c2
    c3 = c3
    c4 = c4
    s1 = s1
    s2 = s2
    s3 = s3
    Slots = {c1, c2, c3, c4}
    NoSlot = NoSlot
    Lists = {"ready", "update"}
    NONE = NONE
    Count = 4
    FirstKids <- TreeKids
    Place <- TreePlace
    Hidden = {{}, {2}}
    Spoilt = {{}, {3}}
    Icons = {1}
    Changeable = {3}
    MaxDepth = 2
    Depths = {0, 3}
    Points = {0, 1, 2, 3, 4}
    Clients = {c1, c2}
    Segments = {s1, s2, s3}
    Files <- SmallFiles
    Disk <- SmallDisk
    Matching <- SmallMatching
    Rank <- SmallRank
    Lines = 2
    MaxFiles = 4
    StemWidth = 2
    Track = 8
    MinHeight = 2
    Presses = {0, 5}
INVARIANTS
    WellLinked
    ObjectSafety
    SelectorSafety
PROPERTIES
    ImplementsSequences
    ImplementsForest
CHECK_DEADLOCK FALSE
