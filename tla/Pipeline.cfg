\* Two workers (queue of four) and three calls; Shutdown at any moment.
SPECIFICATION FairSpec
CONSTANTS
    r1 = r1
    r2 = r2
    r3 = r3
    w1 = w1
    w2 = w2
    Requests <- ThreeCalls
    Workers <- TwoWorkers
    NoWork = NoWork
INVARIANTS
    SendNeverBlocks
    QuietAfterShutdown
PROPERTIES
    EveryCallReturns
    ShutdownReturns
    ImplementsService
CHECK_DEADLOCK FALSE
