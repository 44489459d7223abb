\* The wait of start() may expire, and then start() never returns: CallsReturn says
\* which calls must.
SPECIFICATION LeavingSpec
CONSTANTS
    c1 = c1
    c2 = c2
    Clients <- MCClients
    Debounce = 2
    MaxTime = 4
    MaxStarts = 2
CHECK_DEADLOCK FALSE
INVARIANTS
    StoppedIsQuiescent
    LoopOutlivesDefer
PROPERTIES
    QuietBeforeRerun
    CallsReturn
    UpdateReRuns
