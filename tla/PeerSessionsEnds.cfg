\* The same two clients; a session that comes back just after its end was seen.
CONSTANTS
    a = a
    b = b
    Clients <- TwoClients
    None = None
    MaxSessions <- OneComesBack
    MayResolve <- BothOrOne
SPECIFICATION PSSpec
INVARIANTS NextSessionIsSeen
CHECK_DEADLOCK FALSE
