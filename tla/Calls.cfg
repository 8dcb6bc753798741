SPECIFICATION Spec
CONSTANTS
    ChannelCount = 3
    Channels = {0, 2}
    NONE = NONE
    QueueBytes = 3
    MessageBytes = 2
    Lengths = {1, 3}
    MaxDepth = 2
    MaxGeneration = 3
    Used = {"QUEUE", "EVENT", "WINDOW", "UPDATE", "FORM"}
INVARIANTS
    CallSafety
PROPERTIES
    PumpedDry
    OldestFirst
    PollServesMessages
    ImplementsScreenLock
CHECK_DEADLOCK FALSE
