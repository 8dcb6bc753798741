SPECIFICATION FairSpec
CONSTANTS
    Desktop = Desktop
    Apps = {a1, a2}
    NONE = NONE
    ChannelCount = 3
    MaxGeneration = 2
INVARIANTS
    RequestSafety
    TickIsNeverLost
PROPERTIES
    ProtocolIsRespected
    ChildrenAreReaped
    RequestsAreTakenUp
CHECK_DEADLOCK FALSE
