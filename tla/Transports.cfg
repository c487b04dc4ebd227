\* HTTP: two runs, two connections.  SSE: one run, two connections.  WebSocket:
\* one run.  Stdio: one line, two starts.  Chain: one request.
SPECIFICATION MCSpec
CONSTANTS
    c1 = c1
    c2 = c2
    p1 = p1
    Conns <- TwoConns
    Stoppers <- OneStopper
    MaxRuns <- OneRestart
    Monitoring = TRUE
INVARIANTS
    HTTPStopsGracefully
PROPERTIES
    TransportsEnd
CHECK_DEADLOCK FALSE
