\* Two callers and the bridge's thread, whose callbacks use the API again.
CONSTANTS
    t1 = t1
    t2 = t2
    c1 = c1
    c2 = c2
    Callers <- TwoCallers
    Receiver = Receiver
    Nobody = Nobody
    Channels <- TwoChannels
    CallbackCalls <- Calls
    LogCallbackCalls <- Registration
    MaxCalls = 3
    MaxMessages = 2
SPECIFICATION Spec
INVARIANTS TypeOK RunningIsReady ReachesItsListeners
PROPERTIES IdentitySettles EveryCallReturns
CHECK_DEADLOCK FALSE
