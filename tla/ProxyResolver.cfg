\* Two STR threads and the worker race over two connections, players and forms.
CONSTANTS
    t1 = t1  t2 = t2  w = w  c1 = c1  c2 = c2  p1 = p1  p2 = p2
    f1 = f1  f2 = f2  l1 = l1  l2 = l2
    NoPlayer = NoPlayer  NoForm = NoForm  NoEvent = NoEvent
    STRThreads <- TwoThreads
    Worker = w
    Connections <- TwoConnections
    Players <- TwoPlayers
    Forms <- TwoForms
    Listeners <- OneListener
    MaxEvents = 3
SPECIFICATION Spec
INVARIANTS NeverInvented NoMappingMissed
CHECK_DEADLOCK FALSE
PROPERTIES Converges
