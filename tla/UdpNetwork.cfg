\* Four nodes, configured in four ways; one event or two.
CONSTANTS
    a = a
    b = b
    c = c
    r = r
    Nodes <- FourNodes
    Setups <- FourSetups
SPECIFICATION Spec
INVARIANTS NoEcho TableIsRight
PROPERTIES TrafficSettles ReachesItsTarget
CHECK_DEADLOCK FALSE
