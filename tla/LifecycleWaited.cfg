\* Two calls of Start.
SPECIFICATION Spec
CONSTANTS
    Callers = {p1, p2}
    Hooks = {h1, h2}
    Nobody = Nobody
PROPERTY WaitedMeansStopped
CHECK_DEADLOCK FALSE
