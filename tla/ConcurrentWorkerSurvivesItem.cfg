\* One property the source states and the code does not keep.
SPECIFICATION Spec
CONSTANTS
    Requests = {r1, r2}
    Workers = {w1, w2}
    MaxQueueSize = 1
    NoWork = NoWork
SYMMETRY HandlerSymmetry
INVARIANT WorkerSurvivesItem
CHECK_DEADLOCK FALSE
