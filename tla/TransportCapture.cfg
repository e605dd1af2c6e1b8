\* One of STR's threads and a sender of this plugin, two sessions, and two
\* searches, patches or starts that fail.
CONSTANTS
    g1 = g1
    Game <- OneThread
    Plugin = Plugin
    Worker = Worker
    Controller = Controller
    MaxStarts = 2
    MaxFailures = 2
SPECIFICATION Spec
INVARIANTS OnlyMeetingsHarm BreakpointAccounted StopUndoes
PROPERTIES BecomesReady
CHECK_DEADLOCK FALSE
