\* Two threads; a hook that is only observed and one that is traced, through
\* a call that is stepped over and one that publishes.
CONSTANTS
    t1 = t1
    t2 = t2
    connected = connected
    loaded = loaded
    GameThreads <- TwoThreads
    Arming = Arming
    Hooks <- TwoHooks
    Traced <- JustLoaded
    Length = 6
    CallSites = {2, 5}
    Publishing = {5}
    MaxSteps = 8
    Nowhere = Nowhere
    MaxDepth = 2
    MaxCalls = 3
    MaxFailures = 1
SPECIFICATION LHSpec
INVARIANTS AloneIsSafe CodeAccounted TraceReports
CHECK_DEADLOCK FALSE
