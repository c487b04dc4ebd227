--------------------------- MODULE HTTPTransport ---------------------------
(***************************************************************************)
(* transport.HTTPTransport (transport/http.go): Start, Stop (which is      *)
(* GracefulShutdown), ForceStop, the goroutine that serves, the goroutine  *)
(* that stops the transport when Start's context is done, the connection   *)
(* pool monitor, and the counters that requests keep.                      *)
(*                                                                         *)
(* Each successful Start is a run: a listener and an http.Server of its    *)
(* own in the fields t.listener and t.server.  Both fields are read anew   *)
(* at each phase of a shutdown, without t.mu.  External to the source: a   *)
(* server whose listener is closed under it returns from Serve with        *)
(* ErrServerClosed only if its Shutdown or Close was called before; it     *)
(* still serves new requests on the connections it has; a connection that  *)
(* has sent nothing yet counts as idle.                                    *)
(***************************************************************************)
EXTENDS Naturals, FiniteSets

CONSTANTS Conns,              \* client connections
          Stoppers,           \* goroutines that call Stop, once each
          MaxRuns,            \* bound: successful calls of Start
          Monitoring          \* ConnectionPool.EnableMonitoring

ASSUME HTTPAssumption ==
    /\ IsFiniteSet(Conns)
    /\ MaxRuns \in Nat
    /\ Monitoring \in BOOLEAN

Runs == 1..MaxRuns
\* The goroutine that waits for Start's context calls Stop too.
StopCalls == Stoppers \cup Runs

VARIABLES running,            \* t.running
          run,                \* the run t.listener and t.server belong to
          listener,           \* each run's listener
          server,             \* each run's http.Server
          serving,            \* runs whose Serve has not returned
          ctxDone,            \* runs whose context is done
          conn,               \* where each connection is
          connRun,            \* the run that accepted it
          activeRequests,     \* t.activeRequests
          stop,               \* where each call of Stop is
          stopRun,            \* the run each call of Stop set out to stop,
                              \* and the one its server.Shutdown works on
          monRunning, stopChClosed, \* the pool monitor
          crashed             \* a panic ended the process

runVars == <<running, run, listener, server, serving>>
connVars == <<conn, connRun, activeRequests>>
stopVars == <<stop, stopRun>>
monitorVars == <<monRunning, stopChClosed>>
vars == <<runVars, ctxDone, connVars, stopVars, monitorVars, crashed>>

StopStates == {"idle", "monitor", "listener", "grace", "drain", "server",
               "waiting", "ok", "noop", "error"}

TypeOK ==
    /\ running \in BOOLEAN
    /\ run \in 0..MaxRuns
    /\ listener \in [Runs -> {"none", "open", "closed"}]
    /\ server \in [Runs -> {"up", "down"}]
    /\ serving \in SUBSET Runs
    /\ ctxDone \in SUBSET Runs
    /\ conn \in [Conns -> {"none", "idle", "active", "closed"}]
    /\ connRun \in [Conns -> 0..MaxRuns]
    /\ activeRequests \in 0..Cardinality(Conns)
    /\ stop \in [StopCalls -> StopStates]
    /\ stopRun \in [StopCalls -> [began : 0..MaxRuns, shuts : 0..MaxRuns]]
    /\ monRunning \in BOOLEAN /\ stopChClosed \in BOOLEAN
    /\ crashed \in BOOLEAN

Init ==
    /\ running = FALSE
    /\ run = 0
    /\ listener = [g \in Runs |-> "none"]
    /\ server = [g \in Runs |-> "up"]
    /\ serving = {}
    /\ ctxDone = {}
    /\ conn = [c \in Conns |-> "none"]
    /\ connRun = [c \in Conns |-> 0]
    /\ activeRequests = 0
    /\ stop = [p \in StopCalls |-> "idle"]
    /\ stopRun = [p \in StopCalls |-> [began |-> 0, shuts |-> 0]]
    /\ monRunning = FALSE /\ stopChClosed = FALSE
    /\ crashed = FALSE

Running == ~crashed
CloseListener(g) ==
    IF g \in Runs /\ listener[g] = "open" THEN [listener EXCEPT ![g] = "closed"]
                                          ELSE listener

-----------------------------------------------------------------------------
\* Start, and the end of Serve

\* net.Listen fails while another listener has the address.
Start ==
    /\ ~running
    /\ run < MaxRuns
    /\ \A g \in Runs : listener[g] # "open"
    /\ running' = TRUE
    /\ run' = run + 1
    /\ listener' = [listener EXCEPT ![run'] = "open"]
    /\ serving' = serving \cup {run'}
    /\ monRunning' = (monRunning \/ Monitoring)
    /\ UNCHANGED <<server, ctxDone, connVars, stopVars, stopChClosed, crashed>>

\* Serve returns; any error but ErrServerClosed resets running, whichever run
\* is the current one by then.
ServeReturns(g) ==
    /\ g \in serving
    /\ listener[g] = "closed" \/ server[g] = "down"
    /\ serving' = serving \ {g}
    /\ running' = (running /\ server[g] = "down")
    /\ UNCHANGED <<run, listener, server, ctxDone, connVars, stopVars,
                   monitorVars, crashed>>

-----------------------------------------------------------------------------
\* GracefulShutdown, called by Stop and by the goroutines that watch contexts

ContextDone(g) ==
    /\ g <= run
    /\ g \notin ctxDone
    /\ ctxDone' = ctxDone \cup {g}
    /\ UNCHANGED <<runVars, connVars, stopVars, monitorVars, crashed>>

Stop(p) ==
    /\ stop[p] = "idle"
    /\ p \in Stoppers \/ p \in ctxDone
    /\ stop' = [stop EXCEPT ![p] = IF running THEN "monitor" ELSE "noop"]
    /\ stopRun' = [stopRun EXCEPT ![p].began = run]
    /\ running' = FALSE
    /\ UNCHANGED <<run, listener, server, serving, ctxDone, connVars,
                   monitorVars, crashed>>

\* Closing stopCh a second time panics.
StopMonitor(p) ==
    /\ stop[p] = "monitor"
    /\ stop' = [stop EXCEPT ![p] = "listener"]
    /\ monRunning' = FALSE
    /\ stopChClosed' = (stopChClosed \/ monRunning)
    /\ crashed' = (monRunning /\ stopChClosed)
    /\ UNCHANGED <<runVars, ctxDone, connVars, stopRun>>

StopListening(p) ==
    /\ stop[p] = "listener"
    /\ stop' = [stop EXCEPT ![p] = "grace"]
    /\ listener' = CloseListener(run)
    /\ UNCHANGED <<running, run, server, serving, ctxDone, connVars, stopRun,
                   monitorVars, crashed>>

\* A tick that finds no active request, or the end of the grace period.
GracePeriodOver(p) ==
    /\ stop[p] = "grace"
    /\ stop' = [stop EXCEPT ![p] = "drain"]
    /\ UNCHANGED <<runVars, ctxDone, connVars, stopRun, monitorVars, crashed>>

\* A tick that finds no connection tracked, or the end of the drain timeout.
DrainOver(p) ==
    /\ stop[p] = "drain"
    /\ stop' = [stop EXCEPT ![p] = "server"]
    /\ UNCHANGED <<runVars, ctxDone, connVars, stopRun, monitorVars, crashed>>

\* server.Shutdown closes listeners and idle connections first ...
ShutdownServer(p) ==
    /\ stop[p] = "server"
    /\ stop' = [stop EXCEPT ![p] = "waiting"]
    /\ stopRun' = [stopRun EXCEPT ![p].shuts = run]
    /\ server' = [server EXCEPT ![run] = "down"]
    /\ listener' = CloseListener(run)
    /\ conn' = [c \in Conns |-> IF connRun[c] = run /\ conn[c] = "idle"
                                THEN "closed" ELSE conn[c]]
    /\ UNCHANGED <<running, run, serving, ctxDone, connRun, activeRequests,
                   monitorVars, crashed>>

\* Mutant of StopReturns: server.Shutdown does not wait.
StopReturnsAtOnce(p) ==
    /\ stop[p] = "waiting"
    /\ stop' = [stop EXCEPT ![p] = "ok"]
    /\ UNCHANGED <<runVars, ctxDone, connVars, stopRun, monitorVars, crashed>>

\* Mutant of StopReturns: server.Shutdown has no deadline.
StopReturnsWithoutDeadline(p) ==
    /\ stop[p] = "waiting"
    /\ \A c \in Conns : connRun[c] = stopRun[p].shuts => conn[c] # "active"
    /\ stop' = [stop EXCEPT ![p] = "ok"]
    /\ UNCHANGED <<runVars, ctxDone, connVars, stopRun, monitorVars, crashed>>

\* ... and then waits for the active ones, or for the deadline.
StopReturns(p) ==
    /\ stop[p] = "waiting"
    /\ \E result \in {"ok", "error"} :
          /\ (\E c \in Conns : connRun[c] = stopRun[p].shuts /\ conn[c] = "active")
                => result = "error"
          /\ stop' = [stop EXCEPT ![p] = result]
    /\ UNCHANGED <<runVars, ctxDone, connVars, stopRun, monitorVars, crashed>>

ForceStop ==
    /\ running
    /\ running' = FALSE
    /\ listener' = CloseListener(run)
    /\ server' = [server EXCEPT ![run] = "down"]
    /\ conn' = [c \in Conns |-> IF connRun[c] = run /\ conn[c] = "idle"
                                THEN "closed" ELSE conn[c]]
    /\ UNCHANGED <<run, serving, ctxDone, connRun, activeRequests, stopVars,
                   monitorVars, crashed>>

-----------------------------------------------------------------------------
\* Connections; handleRequest counts each request while it runs

Accept(c) ==
    /\ conn[c] = "none"
    /\ \E g \in serving :
          /\ listener[g] = "open" /\ server[g] = "up"
          /\ connRun' = [connRun EXCEPT ![c] = g]
    /\ conn' = [conn EXCEPT ![c] = "idle"]
    /\ UNCHANGED <<runVars, ctxDone, activeRequests, stopVars, monitorVars, crashed>>

BeginRequest(c) ==
    /\ conn[c] = "idle"
    /\ server[connRun[c]] = "up"
    /\ conn' = [conn EXCEPT ![c] = "active"]
    /\ activeRequests' = activeRequests + 1
    /\ UNCHANGED <<runVars, ctxDone, connRun, stopVars, monitorVars, crashed>>

EndRequest(c) ==
    /\ conn[c] = "active"
    /\ conn' = [conn EXCEPT ![c] = IF server[connRun[c]] = "up" THEN "idle"
                                                               ELSE "closed"]
    /\ activeRequests' = activeRequests - 1
    /\ UNCHANGED <<runVars, ctxDone, connRun, stopVars, monitorVars, crashed>>

-----------------------------------------------------------------------------

StopStep(p) ==
    StopMonitor(p) \/ StopListening(p) \/ GracePeriodOver(p) \/ DrainOver(p)
        \/ ShutdownServer(p) \/ StopReturns(p)

Next ==
    /\ Running
    /\ \/ Start
       \/ ForceStop
       \/ \E g \in Runs : ServeReturns(g) \/ ContextDone(g)
       \/ \E p \in StopCalls : Stop(p) \/ StopStep(p)
       \/ \E c \in Conns : Accept(c) \/ BeginRequest(c) \/ EndRequest(c)

\* The phases of a shutdown are bounded by timers; a goroutine that watches a
\* done context runs.
Fairness ==
    /\ \A p \in StopCalls : WF_vars(Running /\ StopStep(p))
    /\ \A g \in Runs : WF_vars(Running /\ Stop(g)) /\ WF_vars(Running /\ ServeReturns(g))

Spec == Init /\ [][Next]_vars
FairSpec == Spec /\ Fairness

-----------------------------------------------------------------------------
\* Properties

(* activeRequests counts the requests inside handleRequest, over restarts   *)
(* and forced stops too.                                                    *)
RequestsCounted ==
    activeRequests = Cardinality({c \in Conns : conn[c] = "active"})

(* A Stop that did the work and returned nil leaves no request of its run   *)
(* active, even those that came in over open connections after the grace    *)
(* period; unless a Start slipped in before it took up t.server.            *)
GracefulStop ==
    \A p \in StopCalls :
        stop[p] = "ok" /\ stopRun[p].began = stopRun[p].shuts =>
            \A c \in Conns :
                connRun[c] = stopRun[p].began => conn[c] \notin {"idle", "active"}

\* No Stop is at work and no Serve is about to return.
Quiet == /\ \A p \in StopCalls : stop[p] \in {"idle", "noop", "ok", "error"}
         /\ \A g \in serving : listener[g] = "open" /\ server[g] = "up"

(* "IsRunning returns whether the transport is running"                     *)
(* (transport/http.go:332).  As long as the transport was started only once *)
(* it says so exactly if it listens, whatever calls of Stop, ForceStop and  *)
(* its context met.  After a restart the Serve goroutine of the first run   *)
(* may reset running for the second.                                        *)
IsRunningAccurate ==
    run <= 1 /\ Quiet => (running <=> \E g \in Runs : listener[g] = "open")

(* Requests stay counted, a graceful Stop leaves none of its run active,    *)
(* and IsRunning is right until a restart (transport/http.go).              *)
HTTPStopsGracefully ==
    TypeOK /\ RequestsCounted /\ GracefulStop /\ IsRunningAccurate

(* Every Stop returns, and a done context stops the transport.  A restart   *)
(* may end in a panic instead: the pool monitor's stopCh is closed twice.   *)
EveryStopReturns ==
    /\ \A p \in StopCalls :
          stop[p] = "monitor" ~> (stop[p] \in {"ok", "error"} \/ crashed)
    /\ \A g \in Runs : g \in ctxDone ~> (stop[g] \in {"noop", "ok", "error"} \/ crashed)
=============================================================================
