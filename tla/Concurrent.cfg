\* Three calls against a queue of one: rejections, a full channel, overshoot.
SPECIFICATION FairSpec
CONSTANTS
    Requests = {r1, r2, r3}
    Workers = {w1}
    MaxQueueSize = 1
    NoWork = NoWork
INVARIANTS
    CountersAgree
    QuietAfterShutdown
PROPERTIES
    EveryCallReturns
    ImplementsService
CHECK_DEADLOCK FALSE
