\* Two receivers, Start and Stop at any time, two sessions.
CONSTANTS
    r1 = r1  r2 = r2  ctl = ctl
    Controller = ctl
    Receivers <- TwoReceivers
    MaxStarts = 2
SPECIFICATION Spec
INVARIANTS HookSurvives StopRestores
PROPERTIES CallsGoThrough
CHECK_DEADLOCK FALSE
