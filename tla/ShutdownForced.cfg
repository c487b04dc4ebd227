\* Services whose Stop wait for a connection.
SPECIFICATION Spec
CONSTANTS
    Services = {s1, s2}
    Callers = {c1, c2}
    MaxConns = 1
INVARIANT HungServiceIsForced
CHECK_DEADLOCK FALSE
