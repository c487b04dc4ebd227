---------------------------- MODULE MCTransports ----------------------------
(***************************************************************************)
(* The transports, each on its own, in one instance for TLC that also      *)
(* looks at liveness: HTTP (extended), SSE, WebSocket and stdio, and the   *)
(* chain of middlewares a request goes through.  The initial state chooses *)
(* which of them runs; the others stay as they start.                      *)
(***************************************************************************)
EXTENDS HTTPTransport

CONSTANTS c1, c2, p1

VARIABLES part,
          sseRunning, sseRun, sseStarted, sseListening, sseServing, sseUp,
          sseConn, sseConnRun, sseClients, sseDoneClosed, sseQueued,
          sseActiveRequests, sseBroadcast, sseHandler, sseSender,
          sseFarewell, sseStop, sseFault, wsRunning, wsRun, wsListening,
          wsServing, wsUp, wsLink, wsLinkRun, wsMain, wsReader,
          wsConnections, wsTracked, wsCounter, wsActiveRequests, wsWriters,
          wsCast, wsStop, wsFault, ioKind, ioRead, ioRunning, ioLoop,
          ioScanner, ioScanChan, ioCancelled, ioOutput, ioOverlapped,
          chain, chainAt, chainMode, chainOut, chainSent, chainRan,
          chainEnded, chainCounted, chainCrashed

TwoConns == {c1, c2}
OneConn == {c1}
OneStopper == {p1}
OneRestart == 2
OneRequest == {"q1"}
TimedChains == {<<"recovery", "timeout", "auth">>, <<"timeout", "jsonrpc", "metrics">>}

SSE == INSTANCE SSETransport WITH
    Conns <- TwoConns, Senders <- {}, Stoppers <- {}, MaxStarts <- 1,
    MaxClients <- 1, EventBufferSize <- 1, BroadcastCap <- 1, MaxSends <- 0,
    running <- sseRunning, run <- sseRun, started <- sseStarted,
    listening <- sseListening, serving <- sseServing, up <- sseUp,
    conn <- sseConn, connRun <- sseConnRun, clients <- sseClients,
    doneClosed <- sseDoneClosed, queued <- sseQueued,
    activeRequests <- sseActiveRequests, broadcast <- sseBroadcast,
    handler <- sseHandler, sender <- sseSender, farewell <- sseFarewell,
    stop <- sseStop, fault <- sseFault
WS == INSTANCE WebSocketTransport WITH
    Conns <- OneConn, Stoppers <- {}, MaxRuns <- 1,
    running <- wsRunning, run <- wsRun, listening <- wsListening,
    serving <- wsServing, up <- wsUp, link <- wsLink, linkRun <- wsLinkRun,
    main <- wsMain, reader <- wsReader, connections <- wsConnections,
    tracked <- wsTracked, counter <- wsCounter,
    activeRequests <- wsActiveRequests, writers <- wsWriters, cast <- wsCast,
    stop <- wsStop, fault <- wsFault
Stdio == INSTANCE StdioTransport WITH
    Lines <- 1, ScanBuffer <- 1, MaxStarts <- 2,
    kind <- ioKind, read <- ioRead, running <- ioRunning, loop <- ioLoop,
    scanner <- ioScanner, scanChan <- ioScanChan, cancelled <- ioCancelled,
    output <- ioOutput, overlapped <- ioOverlapped
Chain == INSTANCE MiddlewareChain WITH
    Requests <- OneRequest, Chains <- TimedChains,
    at <- chainAt, mode <- chainMode, out <- chainOut, sent <- chainSent,
    ran <- chainRan, ended <- chainEnded, counted <- chainCounted,
    crashed <- chainCrashed

sseVars == <<sseRunning, sseRun, sseStarted, sseListening, sseServing, sseUp,
             sseConn, sseConnRun, sseClients, sseDoneClosed, sseQueued,
             sseActiveRequests, sseBroadcast, sseHandler, sseSender,
             sseFarewell, sseStop, sseFault>>
wsVars == <<wsRunning, wsRun, wsListening, wsServing, wsUp, wsLink,
            wsLinkRun, wsMain, wsReader, wsConnections, wsTracked, wsCounter,
            wsActiveRequests, wsWriters, wsCast, wsStop, wsFault>>
ioVars == <<ioKind, ioRead, ioRunning, ioLoop, ioScanner, ioScanChan,
            ioCancelled, ioOutput, ioOverlapped>>
chainVars == <<chain, chainAt, chainMode, chainOut, chainSent, chainRan,
               chainEnded, chainCounted, chainCrashed>>

\* Input and chain are chosen only where they are read.
MCInit ==
    /\ part \in {"http", "sse", "websocket", "stdio", "chain"}
    /\ Init /\ SSE!Init /\ WS!Init /\ Stdio!Init /\ Chain!Init
    /\ part # "stdio" => ioKind = CHOOSE k \in Stdio!Inputs : TRUE
    /\ part # "chain" => chain = CHOOSE f \in [OneRequest -> TimedChains] : TRUE

MCNext ==
    \/ part = "http" /\ Next /\ UNCHANGED <<part, sseVars, wsVars, ioVars, chainVars>>
    \/ part = "sse" /\ SSE!Next /\ UNCHANGED <<part, vars, wsVars, ioVars, chainVars>>
    \/ part = "websocket" /\ WS!Next /\ UNCHANGED <<part, vars, sseVars, ioVars, chainVars>>
    \/ part = "stdio" /\ Stdio!Next /\ UNCHANGED <<part, vars, sseVars, wsVars, chainVars>>
    \/ part = "chain" /\ Chain!Next /\ UNCHANGED <<part, vars, sseVars, wsVars, ioVars>>

\* Each module's Fairness, of the transport that runs.
MCSpec ==
    /\ MCInit /\ [][MCNext]_<<part, vars, sseVars, wsVars, ioVars, chainVars>>
    /\ \A p \in StopCalls : WF_vars(part = "http" /\ Running /\ StopStep(p))
    /\ \A g \in Runs : /\ WF_vars(part = "http" /\ Running /\ Stop(g))
                       /\ WF_vars(part = "http" /\ Running /\ ServeReturns(g))
    /\ \A p \in SSE!StopCalls : WF_sseVars(part = "sse" /\ sseFault = "none" /\ SSE!StopStep(p))
    /\ \A c \in TwoConns : WF_sseVars(part = "sse" /\ sseFault = "none" /\ SSE!Disconnect(c))
    /\ \A p \in WS!StopCalls : SF_wsVars(part = "websocket" /\ ~wsFault /\ WS!StopStep(p))
    /\ \A c \in OneConn :
          /\ SF_wsVars(part = "websocket" /\ ~wsFault /\ (WS!Register(c) \/ WS!Unregister(c)))
          /\ WF_wsVars(part = "websocket" /\ ~wsFault /\ WS!MainStep(c))
          /\ WF_wsVars(part = "websocket" /\ ~wsFault /\ WS!Answered(c))
          /\ WF_wsVars(part = "websocket" /\ ~wsFault /\ WS!CloseMessageSent(c))
    /\ WF_wsVars(part = "websocket" /\ ~wsFault /\ WS!Broadcasting)
    /\ \A s \in Stdio!Starts : WF_ioVars(part = "stdio" /\ Stdio!Loop(s))
    /\ \A r \in OneRequest :
          /\ \A g \in Chain!Goroutines : WF_chainVars(part = "chain" /\ Chain!Step(r, g))
          /\ WF_chainVars(part = "chain" /\ Chain!SpawnWorker(r))
          /\ WF_chainVars(part = "chain" /\ Chain!WorkerEnds(r))
          /\ WF_chainVars(part = "chain" /\ (Chain!ReceiveResult(r) \/ Chain!Timeout(r)))
          /\ WF_chainVars(part = "chain" /\ Chain!Answer(r))

-----------------------------------------------------------------------------
\* Properties: each is stated in full in its module.

(* Stops of the HTTP, SSE and WebSocket transports return, a WebSocket      *)
(* connection that was closed ends although its handler hangs, a stdio      *)
(* Start whose context is cancelled returns, and a request that waits       *)
(* behind a timeout is answered although its handler hangs                  *)
(* (server/middleware.go).                                                  *)
TransportsEnd ==
    /\ EveryStopReturns /\ SSE!SSEStopReturns
    /\ WS!ClosedConnectionsEnd /\ Stdio!CancelEndsStart
    /\ Chain!TimeoutAnswers
=============================================================================
