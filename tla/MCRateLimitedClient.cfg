CONSTANTS
    i1 = i1
    i2 = i2
    b1 = b1
    shared = shared
    other = other
    Calls <- MCCalls
    Interactive <- MCInteractive
    Keys <- MCKeys
    KeyOf <- MCKeyOf
    RetryAfters <- MCRetryAfters
    Pauses <- MCPauses
    NoKey = NoKey
    NoCall = NoCall
    NoHeader = NoHeader
    MinInterval = 1
    DefaultRetryAfter = 1
    MaxPause = 2
    MaxFailures = 2
    MaxAttempts = 2

SPECIFICATION FairSpec

INVARIANTS
    InteractiveAtFront
    EveryWaiterHasOneJob
    NewestNeverSuperseded
    OneRequestPerAnswer

PROPERTIES
    SourceIsLeftAlone
    EveryCallIsAnswered

CHECK_DEADLOCK FALSE
