\* Three calls of Start or Stop in any mix, two shutdown hooks, any transport;
\* two callers of Shutdown, two services.
SPECIFICATION MCSpec
CONSTANTS
    Callers = {p1, p2, p3}
    Hooks = {h1, h2}
    Nobody = Nobody
    Services = {s1, s2}
    Closers = {c1, c2}
    MaxConns = 1
INVARIANTS
    
    StopRunsHooksInReverse
    NilMeansDone
PROPERTIES
    StopsReturn
CHECK_DEADLOCK FALSE
