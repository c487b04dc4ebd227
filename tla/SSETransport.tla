---------------------------- MODULE SSETransport ----------------------------
(***************************************************************************)
(* transport.SSETransport (transport/sse.go): the client map, the queue of *)
(* each client, the broadcast goroutine, and Start, Stop and ForceStop     *)
(* with the requests that go on meanwhile.  Events are counted, not named. *)
(* The HTTP server and its connections are external, as in HTTPTransport:  *)
(* here a connection carries one request, for /events.                     *)
(***************************************************************************)
EXTENDS Naturals, FiniteSets

CONSTANTS Conns, Senders,     \* connections; commands and calls of SendToClient
          Stoppers,           \* goroutines that call Stop, once each
          MaxStarts,          \* bound: calls of Start that get to their goroutine
          MaxClients, EventBufferSize,
          BroadcastCap,       \* capacity of the broadcast channel
          MaxSends            \* bound: broadcasts, commands and SendToClient together

Starts == 1..MaxStarts
StopCalls == Stoppers \cup Starts     \* a run's context stops the transport too

VARIABLES running, run,       \* t.running; the run t.listener and t.server are of
          started,            \* calls of Start so far
          listening, serving, \* runs whose listener is open; whose Serve goes on
          up,                 \* runs whose server is not shut down
          conn, connRun,      \* where each connection is, and the run it belongs to
          clients,            \* t.clients
          doneClosed,         \* connections whose client.done is closed
          queued,             \* events in client.events
          activeRequests,
          broadcast,          \* [queued, closed, made]
          handler,            \* each broadcastHandler: [at, targets]
          sender,             \* each sender: [at, app, client]
          farewell,           \* clients a disconnect event is being sent to
          stop,               \* where each call of Stop is
          fault               \* the panic that ended the process

serverVars == <<running, run, started, listening, serving, up>>
clientVars == <<conn, connRun, clients, doneClosed, queued, activeRequests>>
castVars == <<broadcast, handler>>
vars == <<serverVars, clientVars, castVars, sender, farewell, stop, fault>>

\* Inside handleSSE: counted; registered; left the map.
Registered == {"registered", "serving", "leaving"}
Inside == {"entered", "removed"} \cup Registered
Released == {"idle", "noop", "ok", "error"}

TypeOK ==
    /\ running \in BOOLEAN /\ run \in 0..MaxStarts /\ started \in 0..MaxStarts
    /\ UNION {listening, serving, up} \subseteq Starts
    /\ conn \in [Conns -> Inside \cup {"none", "open", "closed"}]
    /\ connRun \in [Conns -> 0..MaxStarts]
    /\ clients \in SUBSET Conns /\ doneClosed \in SUBSET Conns
    /\ queued \in [Conns -> 0..EventBufferSize]
    /\ activeRequests \in Nat
    /\ broadcast \in [queued : 0..BroadcastCap, closed : BOOLEAN, made : 0..MaxSends]
    /\ handler \in [Starts -> [at : {"none", "receive", "send", "ended"},
                               targets : SUBSET Conns]]
    /\ sender \in [Senders -> [at : {"idle", "holds", "sent", "full", "panic"},
                               app : BOOLEAN, client : SUBSET Conns]]
    /\ farewell \in SUBSET Conns
    /\ fault \in {"none", "done", "broadcast", "closed broadcast", "events"}

Init ==
    /\ running = FALSE /\ run = 0 /\ started = 0
    /\ listening = {} /\ serving = {} /\ up = {}
    /\ conn = [c \in Conns |-> "none"] /\ connRun = [c \in Conns |-> 0]
    /\ clients = {} /\ doneClosed = {} /\ queued = [c \in Conns |-> 0]
    /\ activeRequests = 0
    /\ broadcast = [queued |-> 0, closed |-> FALSE, made |-> 0]
    /\ handler = [h \in Starts |-> [at |-> "none", targets |-> {}]]
    /\ sender = [x \in Senders |-> [at |-> "idle", app |-> FALSE, client |-> {}]]
    /\ farewell = {}
    /\ stop = [p \in StopCalls |-> "idle"]
    /\ fault = "none"

EventsClosed(c) == conn[c] = "closed"
Sends == broadcast.made + Cardinality({x \in Senders : sender[x].at # "idle"})
Panic(cause) == fault' = IF fault = "none" THEN cause ELSE fault

-----------------------------------------------------------------------------
\* Start

\* The goroutine for broadcasts runs before the listener is asked for, and
\* stays when that fails: the address is taken while a listener is open.
Start ==
    /\ ~running /\ started < MaxStarts
    /\ started' = started + 1
    /\ handler' = [handler EXCEPT ![started'].at = "receive"]
    /\ IF listening # {}
       THEN running' = FALSE /\ UNCHANGED <<run, listening, serving, up>>
       ELSE /\ running' = TRUE /\ run' = started'
            /\ listening' = {run'} /\ serving' = serving \cup {run'} /\ up' = up \cup {run'}
    /\ UNCHANGED <<clientVars, broadcast, sender, farewell, stop, fault>>

\* An error other than ErrServerClosed resets running, whosever it is by now.
ServeReturns(g) ==
    /\ g \in serving /\ (g \notin listening \/ g \notin up)
    /\ serving' = serving \ {g}
    /\ running' = (running /\ g \notin up)
    /\ UNCHANGED <<run, started, listening, up, clientVars, castVars, sender,
                   farewell, stop, fault>>

-----------------------------------------------------------------------------
\* handleSSE

Accept(c) ==
    /\ conn[c] = "none"
    /\ \E g \in serving \cap listening \cap up : connRun' = [connRun EXCEPT ![c] = g]
    /\ conn' = [conn EXCEPT ![c] = "open"]
    /\ UNCHANGED <<serverVars, clients, doneClosed, queued, activeRequests,
                   castVars, sender, farewell, stop, fault>>

Enter(c) ==
    /\ conn[c] = "open" /\ connRun[c] \in up
    /\ conn' = [conn EXCEPT ![c] = "entered"]
    /\ activeRequests' = activeRequests + 1
    /\ UNCHANGED <<serverVars, connRun, clients, doneClosed, queued, castVars,
                   sender, farewell, stop, fault>>

Leave(c) == /\ conn' = [conn EXCEPT ![c] = "closed"]
            /\ activeRequests' = activeRequests - 1

\* The check and the registration are one critical section.
Register(c) ==
    /\ conn[c] = "entered"
    /\ IF Cardinality(clients) >= MaxClients
       THEN Leave(c) /\ UNCHANGED clients
       ELSE /\ conn' = [conn EXCEPT ![c] = "registered"]
            /\ clients' = clients \cup {c}
            /\ UNCHANGED activeRequests
    /\ UNCHANGED <<serverVars, connRun, doneClosed, queued, castVars, sender,
                   farewell, stop, fault>>

\* "connected" and then, if the server answers, "capabilities": each is
\* dropped when the queue is full.
Greet(c) ==
    /\ conn[c] = "registered"
    /\ \E events \in 1..2 :
          queued' = [queued EXCEPT ![c] = IF @ + events > EventBufferSize
                                          THEN EventBufferSize ELSE @ + events]
    /\ conn' = [conn EXCEPT ![c] = "serving"]
    /\ UNCHANGED <<serverVars, connRun, clients, doneClosed, activeRequests,
                   castVars, sender, farewell, stop, fault>>

WriteEvent(c) ==
    /\ conn[c] = "serving" /\ queued[c] > 0
    /\ queued' = [queued EXCEPT ![c] = @ - 1]
    /\ UNCHANGED <<serverVars, conn, connRun, clients, doneClosed, activeRequests,
                   castVars, sender, farewell, stop, fault>>

\* handleClient returns: the client went away or could not be written to ...
ClientGone(c) ==
    /\ conn[c] = "serving"
    /\ conn' = [conn EXCEPT ![c] = "leaving"]
    /\ UNCHANGED <<serverVars, connRun, clients, doneClosed, queued,
                   activeRequests, castVars, sender, farewell, stop, fault>>

\* ... or is told to.
ToldToLeave(c) == c \in doneClosed /\ ClientGone(c)

Unregister(c) ==
    /\ conn[c] = "leaving"
    /\ conn' = [conn EXCEPT ![c] = "removed"]
    /\ clients' = clients \ {c}
    /\ UNCHANGED <<serverVars, connRun, doneClosed, queued, activeRequests,
                   castVars, sender, farewell, stop, fault>>

CloseEvents(c) ==
    /\ conn[c] = "removed"
    /\ Leave(c)
    /\ UNCHANGED <<serverVars, connRun, clients, doneClosed, queued, castVars,
                   sender, farewell, stop, fault>>

Handle(c) == \/ Register(c) \/ Greet(c) \/ WriteEvent(c) \/ ToldToLeave(c)
             \/ Unregister(c) \/ CloseEvents(c)

-----------------------------------------------------------------------------
\* Commands, SendToClient and broadcasts: the map is read under its lock and
\* the client written to after it.

Offer(c) == queued' = [queued EXCEPT ![c] = IF @ < EventBufferSize THEN @ + 1 ELSE @]

LookUp(x, app, c) ==
    /\ sender[x].at = "idle" /\ c \in clients /\ Sends < MaxSends
    /\ sender' = [sender EXCEPT ![x] = [at |-> "holds", app |-> app, client |-> {c}]]
    /\ UNCHANGED <<serverVars, clientVars, castVars, farewell, stop, fault>>

\* A send on a closed queue panics: net/http recovers from it in a command,
\* nobody in SendToClient.  A full queue sends the command's answer by HTTP.
Send(x) ==
    /\ sender[x].at = "holds"
    /\ \E c \in sender[x].client :
          IF EventsClosed(c)
          THEN /\ sender' = [sender EXCEPT ![x].at = "panic"]
               /\ IF sender[x].app THEN Panic("events") ELSE UNCHANGED fault
               /\ UNCHANGED queued
          ELSE /\ Offer(c)
               /\ sender' = [sender EXCEPT ![x].at =
                               IF queued[c] < EventBufferSize THEN "sent" ELSE "full"]
               /\ UNCHANGED fault
    /\ UNCHANGED <<serverVars, conn, connRun, clients, doneClosed, activeRequests,
                   castVars, farewell, stop>>

BroadcastEvent ==
    /\ Sends < MaxSends
    /\ IF broadcast.closed
       THEN Panic("closed broadcast") /\ UNCHANGED broadcast
       ELSE /\ broadcast' = [broadcast EXCEPT !.made = @ + 1,
                                              !.queued = IF @ < BroadcastCap THEN @ + 1 ELSE @]
            /\ UNCHANGED fault
    /\ UNCHANGED <<serverVars, clientVars, handler, sender, farewell, stop>>

\* broadcastHandler takes an event and a copy of the map, or ends.
TakeBroadcast(h) ==
    /\ handler[h].at = "receive"
    /\ \/ /\ broadcast.queued > 0
          /\ broadcast' = [broadcast EXCEPT !.queued = @ - 1]
          /\ handler' = [handler EXCEPT ![h] = [at |-> "send", targets |-> clients]]
       \/ /\ broadcast.queued = 0 /\ broadcast.closed
          /\ handler' = [handler EXCEPT ![h].at = "ended"]
          /\ UNCHANGED broadcast
    /\ UNCHANGED <<serverVars, clientVars, sender, farewell, stop, fault>>

Deliver(h) ==
    /\ handler[h].at = "send"
    /\ \/ /\ handler[h].targets = {}
          /\ handler' = [handler EXCEPT ![h].at = "receive"]
          /\ UNCHANGED <<queued, fault>>
       \/ \E c \in handler[h].targets :
             /\ handler' = [handler EXCEPT ![h].targets = @ \ {c}]
             /\ IF EventsClosed(c) THEN Panic("events") /\ UNCHANGED queued
                                   ELSE Offer(c) /\ UNCHANGED fault
    /\ UNCHANGED <<serverVars, conn, connRun, clients, doneClosed, activeRequests,
                   broadcast, sender, farewell, stop>>

-----------------------------------------------------------------------------
\* GracefulShutdown, called by Stop and when Start's context is done

Go(p, from, to) == stop[p] = from /\ stop' = [stop EXCEPT ![p] = to]

Stop(p) ==
    /\ p \in Starts => p <= run
    /\ Go(p, "idle", IF running THEN "listener" ELSE "noop")
    /\ running' = FALSE
    /\ UNCHANGED <<run, started, listening, serving, up, clientVars, castVars,
                   sender, farewell, fault>>

CloseListener(p) ==
    /\ Go(p, "listener", "grace")
    /\ listening' = listening \ {run}
    /\ UNCHANGED <<running, run, started, serving, up, clientVars, castVars,
                   sender, farewell, fault>>

\* No request is active, or the grace period is over; then the goroutines
\* that send the disconnect events start.
SendDisconnectEvents(p) ==
    /\ Go(p, "grace", "farewell")
    /\ farewell' = clients
    /\ UNCHANGED <<serverVars, clientVars, castVars, sender, fault>>

\* Each waits a second for room in the queue, which may be closed meanwhile.
Disconnect(c) ==
    /\ c \in farewell
    /\ farewell' = farewell \ {c}
    /\ IF EventsClosed(c) THEN Panic("events") /\ UNCHANGED queued
                          ELSE Offer(c) /\ UNCHANGED fault
    /\ UNCHANGED <<serverVars, conn, connRun, clients, doneClosed, activeRequests,
                   castVars, sender, stop>>

FarewellOver(p) ==
    /\ Go(p, "farewell", "drain") /\ farewell = {}
    /\ UNCHANGED <<serverVars, clientVars, castVars, sender, farewell, fault>>

\* What closing client.done for the whole map does; a second close panics.
CloseAll ==
    /\ doneClosed' = doneClosed \cup clients
    /\ clients' = {}
    /\ IF clients \cap doneClosed # {} THEN Panic("done") ELSE UNCHANGED fault

\* Mutant of Drain: the clients are told and stay in the map.
DrainKeepsMap(p) ==
    /\ Go(p, "drain", "close")
    /\ doneClosed' = doneClosed \cup clients
    /\ UNCHANGED <<serverVars, conn, connRun, clients, queued, activeRequests,
                   castVars, sender, farewell, fault>>

\* A tick finds the map empty, or the timeout closes what is left.
Drain(p) ==
    /\ Go(p, "drain", "close")
    /\ CloseAll
    /\ UNCHANGED <<serverVars, conn, connRun, queued, activeRequests, castVars,
                   sender, farewell>>

CloseBroadcast(p) ==
    /\ Go(p, "close", "clients")
    /\ broadcast' = [broadcast EXCEPT !.closed = TRUE]
    /\ IF broadcast.closed THEN Panic("broadcast") ELSE UNCHANGED fault
    /\ UNCHANGED <<serverVars, clientVars, handler, sender, farewell>>

CloseClients(p) ==
    /\ Go(p, "clients", "server")
    /\ CloseAll
    /\ UNCHANGED <<serverVars, conn, connRun, queued, activeRequests, castVars,
                   sender, farewell>>

\* server.Shutdown of the server of the moment: idle connections are closed.
ShutdownServer(p) ==
    /\ Go(p, "server", "waiting")
    /\ up' = up \ {run} /\ listening' = listening \ {run}
    /\ conn' = [c \in Conns |-> IF conn[c] = "open" /\ connRun[c] = run
                                THEN "closed" ELSE conn[c]]
    /\ UNCHANGED <<running, run, started, serving, connRun, clients, doneClosed,
                   queued, activeRequests, castVars, sender, farewell, fault>>

Busy == \E c \in Conns : conn[c] \in Inside /\ connRun[c] \notin up

\* No connection is active, or the deadline passes.
StopReturns(p) ==
    /\ \/ ~Busy /\ Go(p, "waiting", "ok")
       \/ Go(p, "waiting", "error")
    /\ UNCHANGED <<serverVars, clientVars, castVars, sender, farewell, fault>>

\* All of it at once, under t.mu; the server's Close ends the connections.
ForceStop ==
    /\ running /\ running' = FALSE
    /\ broadcast' = [broadcast EXCEPT !.closed = TRUE]
    /\ IF broadcast.closed
       THEN Panic("broadcast") /\ UNCHANGED <<clients, doneClosed>>
       ELSE CloseAll
    /\ up' = up \ {run} /\ listening' = listening \ {run}
    /\ conn' = [c \in Conns |-> IF conn[c] = "open" /\ connRun[c] = run
                                THEN "closed" ELSE conn[c]]
    /\ UNCHANGED <<run, started, serving, connRun, queued, activeRequests, handler,
                   sender, farewell, stop>>

StopStep(p) ==
    \/ CloseListener(p) \/ SendDisconnectEvents(p) \/ FarewellOver(p) \/ Drain(p)
    \/ CloseBroadcast(p) \/ CloseClients(p) \/ ShutdownServer(p) \/ StopReturns(p)

Next ==
    /\ fault = "none"
    /\ \/ Start \/ ForceStop \/ BroadcastEvent
       \/ \E c \in Conns : Accept(c) \/ Enter(c) \/ Handle(c) \/ ClientGone(c) \/ Disconnect(c)
       \/ \E h \in Starts : ServeReturns(h) \/ TakeBroadcast(h) \/ Deliver(h)
       \/ \E x \in Senders, c \in Conns, app \in BOOLEAN : LookUp(x, app, c)
       \/ \E x \in Senders : Send(x)
       \/ \E p \in StopCalls : Stop(p) \/ StopStep(p)

Spec == Init /\ [][Next]_vars

\* Every phase of a shutdown is bounded by a timer.
Fairness ==
    /\ \A p \in StopCalls : WF_vars(fault = "none" /\ StopStep(p))
    /\ \A c \in Conns : WF_vars(fault = "none" /\ Disconnect(c))

-----------------------------------------------------------------------------
\* Properties

(* A client that serves its connection and has not been told to leave is in *)
(* the map, where the next shutdown finds it; no client is told twice,      *)
(* which would end the process; and the broadcast channel is closed twice   *)
(* only after a restart.  activeRequests is the number of handlers.         *)
ClientsReleasedOnce ==
    /\ \A c \in Conns : conn[c] \in Registered => c \in clients \cup doneClosed
    /\ fault # "done"
    /\ fault = "broadcast" => started > 1
    /\ activeRequests = Cardinality({c \in Conns : conn[c] \in Inside})

(* Stop returns whatever clients do, those included that register after the *)
(* others have been told to leave, unless a panic ends the process.         *)
SSEStopReturns ==
    \A p \in StopCalls : stop[p] = "listener" ~> stop[p] \in {"ok", "error"} \/ fault # "none"
=============================================================================
