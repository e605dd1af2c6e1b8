\* Two receive threads and two slots, three packets and a session, so
\* that the queue saturates, or two packets and two sessions.  No symmetry,
\* for the sake of the liveness properties.
CONSTANTS
    t1 = t1
    t2 = t2
    Producers <- TwoThreads
    Capacity = 2
    MaxEvents = 4
SPECIFICATION Spec
INVARIANTS SlotsOwned OneDestination SelectsOldestSeen DrainComplete
PROPERTIES ReadyIsDelivered StopReturns
CHECK_DEADLOCK FALSE
