\* Two clients; each may lose its session once.
CONSTANTS
    a = a
    b = b
    Clients <- TwoClients
    None = None
    MaxSessions <- OneComesBack
    MayResolve <- BothOrOne
SPECIFICATION PSFairSpec
INVARIANTS CompleteIsMutual
PROPERTIES FirstMeetingResolves EverybodyIsKnown
CHECK_DEADLOCK FALSE
