\* Two producers (the code has one), a full queue, two sessions.
CONSTANTS
    p1 = p1
    p2 = p2
    Producers <- TwoProducers
    Capacity = 2
    MaxMessages = 4
    MaxStarts = 2
SPECIFICATION Spec
INVARIANTS NoLostWakeup CalledInSession
PROPERTIES StopReturns Implements
CHECK_DEADLOCK FALSE
