SPECIFICATION Spec
CONSTANTS
    ChannelCount = 4
    Channels = {0, 2, 3}
    NONE = NONE
    QueueBytes = 2
    MessageBytes = 2
    Lengths = {1, 2}
    MaxDepth = 1
    MaxGeneration = 3
    Used = {"QUEUE"}
INVARIANTS
    NothingFinishableIsParked
CHECK_DEADLOCK FALSE
