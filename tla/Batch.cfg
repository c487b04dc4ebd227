\* Three calls, batches of two: a late callback meets the next batch, or none.
SPECIFICATION FairSpec
CONSTANTS
    r1 = r1
    r2 = r2
    r3 = r3
    Requests <- ThreeCalls
    BatchSize <- Pairs
INVARIANTS
    NoStrandedBatch
    OneBatchAtATime
PROPERTIES
    EveryCallReturns
    ImplementsService
CHECK_DEADLOCK FALSE
