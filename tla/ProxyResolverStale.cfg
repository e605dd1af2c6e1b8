\* The worker's flush against an unload or a disconnect.
CONSTANTS
    t1 = t1  t2 = t2  w = w  c1 = c1  c2 = c2  p1 = p1  p2 = p2
    f1 = f1  f2 = f2  l1 = l1  l2 = l2
    NoPlayer = NoPlayer  NoForm = NoForm  NoEvent = NoEvent
    STRThreads <- OneThread
    Worker = w
    Connections <- OneConnection
    Players <- OnePlayer
    Forms <- OneForm
    Listeners <- OneListener
    MaxEvents = 3
SPECIFICATION Spec
INVARIANTS ResolvesCurrent
CHECK_DEADLOCK FALSE
