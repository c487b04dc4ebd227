------------------------- MODULE WebSocketTransport -------------------------
(***************************************************************************)
(* transport.WebSocketTransport (transport/websocket.go): its connections, *)
(* each with a goroutine that pings and one that reads and answers, the    *)
(* broadcasts, and Start, Stop and ForceStop.                              *)
(*                                                                         *)
(* External to the source: the library's connection admits one writer at a *)
(* time; it may notice a second one, and panics then.  An upgraded         *)
(* connection is no longer the HTTP server's.                              *)
(***************************************************************************)
EXTENDS Naturals, FiniteSets

CONSTANTS Conns,
          Stoppers,           \* goroutines that call Stop, once each
          MaxRuns             \* bound: successful calls of Start

Runs == 1..MaxRuns
StopCalls == Stoppers \cup Runs

VARIABLES running, run,       \* t.running; the run t.listener and t.server are of
          listening, serving, up,  \* runs that listen, serve, are not shut down
          link,               \* the TCP connection: none, open, closed
          linkRun,            \* the run that accepted it
          main, reader,       \* the two goroutines of each connection
          connections,        \* t.connections
          tracked,            \* connections of the ConnectionTracker
          counter,            \* its counter
          activeRequests,
          writers,            \* who is writing to each connection
          cast,               \* Broadcast: the connections it has left
          stop,               \* where each call of Stop is
          fault               \* a panic has ended the process

serverVars == <<running, run, listening, serving, up>>
mapVars == <<connections, tracked, counter, activeRequests>>
connVars == <<link, linkRun, main, reader>>
vars == <<serverVars, connVars, mapVars, writers, cast, stop, fault>>

Writer == {"response", "ping", "broadcast", "close"}
Handling == {"looping", "pinging", "leaving", "untracked", "unregistered"}

TypeOK ==
    /\ running \in BOOLEAN /\ run \in 0..MaxRuns
    /\ UNION {listening, serving, up} \subseteq Runs
    /\ link \in [Conns -> {"none", "open", "closed"}] /\ linkRun \in [Conns -> 0..MaxRuns]
    /\ main \in [Conns -> Handling \cup {"none", "upgraded", "registered", "gone"}]
    /\ reader \in [Conns -> {"none", "reading", "handling", "answering", "ended"}]
    /\ connections \in SUBSET Conns /\ tracked \in SUBSET (Conns \X Nat)
    /\ counter \in Nat /\ activeRequests \in Nat
    /\ writers \in [Conns -> SUBSET Writer]
    /\ cast \in [busy : BOOLEAN, left : SUBSET Conns]
    /\ fault \in BOOLEAN

Init ==
    /\ running = FALSE /\ run = 0
    /\ listening = {} /\ serving = {} /\ up = {}
    /\ link = [c \in Conns |-> "none"] /\ linkRun = [c \in Conns |-> 0]
    /\ main = [c \in Conns |-> "none"] /\ reader = [c \in Conns |-> "none"]
    /\ connections = {} /\ tracked = {} /\ counter = 0 /\ activeRequests = 0
    /\ writers = [c \in Conns |-> {}]
    /\ cast = [busy |-> FALSE, left |-> {}]
    /\ stop = [p \in StopCalls |-> "idle"]
    /\ fault = FALSE

-----------------------------------------------------------------------------
\* Start

Start ==
    /\ ~running /\ run < MaxRuns /\ listening = {}
    /\ running' = TRUE /\ run' = run + 1
    /\ listening' = {run'} /\ serving' = serving \cup {run'} /\ up' = up \cup {run'}
    /\ UNCHANGED <<connVars, mapVars, writers, cast, stop, fault>>

ServeReturns(g) ==
    /\ g \in serving /\ (g \notin listening \/ g \notin up)
    /\ serving' = serving \ {g}
    /\ running' = (running /\ g \notin up)
    /\ UNCHANGED <<run, listening, up, connVars, mapVars, writers, cast, stop, fault>>

-----------------------------------------------------------------------------
\* handleWebSocket

Accept(c) ==
    /\ link[c] = "none"
    /\ \E g \in serving \cap listening \cap up : linkRun' = [linkRun EXCEPT ![c] = g]
    /\ link' = [link EXCEPT ![c] = "open"]
    /\ UNCHANGED <<serverVars, main, reader, mapVars, writers, cast, stop, fault>>

\* The upgrade, and the tracker's AddConnection.
Upgrade(c) ==
    /\ main[c] = "none" /\ link[c] = "open" /\ linkRun[c] \in up
    /\ main' = [main EXCEPT ![c] = "upgraded"]
    /\ counter' = counter + 1
    /\ tracked' = tracked \cup {<<c, counter'>>}
    /\ UNCHANGED <<serverVars, link, linkRun, reader, connections,
                   activeRequests, writers, cast, stop, fault>>

\* The map is written to while nobody broadcasts, who holds its read lock.
Register(c) ==
    /\ main[c] = "upgraded" /\ ~cast.busy
    /\ main' = [main EXCEPT ![c] = "registered"]
    /\ connections' = connections \cup {c}
    /\ UNCHANGED <<serverVars, link, linkRun, reader, tracked, counter,
                   activeRequests, writers, cast, stop, fault>>

-----------------------------------------------------------------------------
\* handleConnection and its reader

\* The deadlines fail on a closed connection; then there is no reader.
BeginHandling(c) ==
    /\ main[c] = "registered"
    /\ activeRequests' = activeRequests + 1
    /\ IF link[c] = "open"
       THEN /\ main' = [main EXCEPT ![c] = "looping"]
            /\ reader' = [reader EXCEPT ![c] = "reading"]
       ELSE main' = [main EXCEPT ![c] = "leaving"] /\ UNCHANGED reader
    /\ UNCHANGED <<serverVars, link, linkRun, connections, tracked,
                   counter, writers, cast, stop, fault>>

\* A write begins; with a second writer it may panic.
BeginWrite(c, w) ==
    /\ writers' = [writers EXCEPT ![c] = @ \cup {w}]
    /\ fault' \in {FALSE, writers[c] # {}}
EndWrite(c, w) == writers' = [writers EXCEPT ![c] = @ \ {w}]

\* A request, a message that cannot be parsed, or one that needs no answer.
Read(c) ==
    /\ reader[c] = "reading" /\ link[c] = "open"
    /\ \E next \in {"handling", "answering", "reading"} :
          /\ reader' = [reader EXCEPT ![c] = next]
          /\ IF next = "answering" THEN BeginWrite(c, "response")
                                   ELSE UNCHANGED <<writers, fault>>
    /\ UNCHANGED <<serverVars, link, linkRun, main, mapVars, cast, stop>>

\* The handler may also hang, or panic: nobody recovers.
HandlerReturns(c) ==
    /\ reader[c] = "handling"
    /\ \/ /\ reader' = [reader EXCEPT ![c] = "answering"]
          /\ BeginWrite(c, "response")
       \/ fault' = TRUE /\ UNCHANGED <<reader, writers>>
    /\ UNCHANGED <<serverVars, link, linkRun, main, mapVars, cast, stop>>

Answered(c) ==
    /\ reader[c] = "answering"
    /\ EndWrite(c, "response")
    /\ reader' = [reader EXCEPT ![c] = IF link[c] = "open" THEN "reading" ELSE "ended"]
    /\ UNCHANGED <<serverVars, link, linkRun, main, mapVars, cast, stop, fault>>

ReadFails(c) ==
    /\ reader[c] = "reading" /\ link[c] = "closed"
    /\ reader' = [reader EXCEPT ![c] = "ended"]
    /\ UNCHANGED <<serverVars, link, linkRun, main, mapVars, writers,
                   cast, stop, fault>>

\* The peer closes, or does not answer the pings in time.
PeerGone(c) ==
    /\ link[c] = "open" /\ link' = [link EXCEPT ![c] = "closed"]
    /\ UNCHANGED <<serverVars, linkRun, main, reader, mapVars, writers,
                   cast, stop, fault>>

Ping(c) ==
    /\ main[c] = "looping"
    /\ main' = [main EXCEPT ![c] = "pinging"]
    /\ BeginWrite(c, "ping")
    /\ UNCHANGED <<serverVars, link, linkRun, reader, mapVars, cast, stop>>

Pinged(c) ==
    /\ main[c] = "pinging" /\ EndWrite(c, "ping")
    /\ main' = [main EXCEPT ![c] = IF link[c] = "open" THEN "looping" ELSE "leaving"]
    /\ UNCHANGED <<serverVars, link, linkRun, reader, mapVars, cast, stop, fault>>

ReaderDone(c) ==
    /\ main[c] = "looping" /\ reader[c] = "ended"
    /\ main' = [main EXCEPT ![c] = "leaving"]
    /\ UNCHANGED <<serverVars, link, linkRun, reader, mapVars, writers,
                   cast, stop, fault>>

\* The deferred calls: RemoveConnection, the map, Close and the counter.
Untrack(c) ==
    /\ main[c] = "leaving"
    /\ main' = [main EXCEPT ![c] = "untracked"]
    /\ tracked' = {t \in tracked : t[1] # c}
    /\ UNCHANGED <<serverVars, link, linkRun, reader, connections, counter,
                   activeRequests, writers, cast, stop, fault>>

Unregister(c) ==
    /\ main[c] = "untracked" /\ ~cast.busy
    /\ main' = [main EXCEPT ![c] = "unregistered"]
    /\ connections' = connections \ {c}
    /\ UNCHANGED <<serverVars, link, linkRun, reader, tracked, counter,
                   activeRequests, writers, cast, stop, fault>>

EndHandling(c) ==
    /\ main[c] = "unregistered"
    /\ main' = [main EXCEPT ![c] = "gone"]
    /\ link' = [link EXCEPT ![c] = "closed"]
    /\ activeRequests' = activeRequests - 1
    /\ UNCHANGED <<serverVars, linkRun, reader, connections, tracked,
                   counter, writers, cast, stop, fault>>

MainStep(c) == \/ BeginHandling(c) \/ Ping(c) \/ Pinged(c) \/ ReaderDone(c)
               \/ Untrack(c) \/ Unregister(c) \/ EndHandling(c)

-----------------------------------------------------------------------------
\* Broadcast: one connection after the other, under the read lock

BeginBroadcast ==
    /\ ~cast.busy
    /\ cast' = [busy |-> TRUE, left |-> connections]
    /\ UNCHANGED <<serverVars, connVars, mapVars, writers, stop, fault>>

WriteBroadcast(c) ==
    /\ c \in cast.left /\ \A d \in Conns : "broadcast" \notin writers[d]
    /\ BeginWrite(c, "broadcast")
    /\ UNCHANGED <<serverVars, connVars, mapVars, cast, stop>>

WrittenBroadcast(c) ==
    /\ "broadcast" \in writers[c] /\ EndWrite(c, "broadcast")
    /\ cast' = [cast EXCEPT !.left = @ \ {c}]
    /\ UNCHANGED <<serverVars, connVars, mapVars, stop, fault>>

EndBroadcast ==
    /\ cast.busy /\ cast.left = {}
    /\ cast' = [cast EXCEPT !.busy = FALSE]
    /\ UNCHANGED <<serverVars, connVars, mapVars, writers, stop, fault>>

Broadcasting == \/ EndBroadcast
                \/ \E c \in Conns : WriteBroadcast(c) \/ WrittenBroadcast(c)

-----------------------------------------------------------------------------
\* GracefulShutdown and ForceStop

Go(p, from, to) == stop[p] = from /\ stop' = [stop EXCEPT ![p] = to]

Stop(p) ==
    /\ p \in Runs => p <= run
    /\ Go(p, "idle", IF running THEN "listener" ELSE "noop")
    /\ running' = FALSE
    /\ UNCHANGED <<run, listening, serving, up, connVars, mapVars, writers, cast, fault>>

CloseListener(p) ==
    /\ Go(p, "listener", "grace")
    /\ listening' = listening \ {run}
    /\ UNCHANGED <<running, run, serving, up, connVars, mapVars, writers, cast, fault>>

\* The grace period: activeRequests counts connections, so it is usually the
\* timer that ends it.  Then close messages go to a copy of the map.
SendCloseMessages(p) ==
    /\ Go(p, "grace", "closing")
    /\ \E sent \in SUBSET connections :      \* those whose write overlaps another
          /\ writers' = [c \in Conns |-> writers[c] \cup
                            IF c \in sent THEN {"close"} ELSE {}]
          /\ fault' \in {FALSE, \E c \in sent : writers[c] # {}}
    /\ UNCHANGED <<serverVars, connVars, mapVars, cast>>

CloseMessageSent(c) ==
    /\ "close" \in writers[c] /\ EndWrite(c, "close")
    /\ UNCHANGED <<serverVars, connVars, mapVars, cast, stop, fault>>

CloseMessagesOver(p) ==
    /\ Go(p, "closing", "drain")
    /\ UNCHANGED <<serverVars, connVars, mapVars, writers, cast, fault>>

CloseAll ==
    /\ link' = [c \in Conns |-> IF c \in connections THEN "closed" ELSE link[c]]
    /\ connections' = {}

\* Mutant of Drain: the map is replaced and the connections stay open.
DrainForgets(p) ==
    /\ Go(p, "drain", "server")
    /\ ~cast.busy /\ connections' = {}
    /\ UNCHANGED <<serverVars, connVars, tracked, counter, activeRequests, writers,
                   cast, fault>>

\* A tick finds the map empty, or the timeout closes what it holds.
Drain(p) ==
    /\ Go(p, "drain", "server")
    /\ connections # {} => ~cast.busy
    /\ CloseAll
    /\ UNCHANGED <<serverVars, linkRun, main, reader, tracked, counter,
                   activeRequests, writers, cast, fault>>

\* Connections that are not upgraded are idle and closed by the server.
Idle(c) == link[c] = "open" /\ main[c] = "none" /\ linkRun[c] = run
ShutdownServer(p) ==
    /\ Go(p, "server", "ok") \/ Go(p, "server", "error")
    /\ up' = up \ {run} /\ listening' = listening \ {run}
    /\ link' = [c \in Conns |-> IF Idle(c) THEN "closed" ELSE link[c]]
    /\ UNCHANGED <<running, run, serving, linkRun, main, reader, mapVars,
                   writers, cast, fault>>

ForceStop ==
    /\ running /\ running' = FALSE
    /\ ~cast.busy
    /\ link' = [c \in Conns |-> IF c \in connections \/ Idle(c) THEN "closed"
                                                                ELSE link[c]]
    /\ connections' = {}
    /\ up' = up \ {run} /\ listening' = listening \ {run}
    /\ UNCHANGED <<run, serving, linkRun, main, reader, tracked, counter,
                   activeRequests, writers, cast, stop, fault>>

StopStep(p) == \/ CloseListener(p) \/ SendCloseMessages(p) \/ CloseMessagesOver(p)
               \/ Drain(p) \/ ShutdownServer(p)

Next ==
    /\ ~fault
    /\ \/ Start \/ ForceStop \/ BeginBroadcast \/ Broadcasting
       \/ \E g \in Runs : ServeReturns(g)
       \/ \E c \in Conns : \/ Accept(c) \/ Upgrade(c) \/ Register(c) \/ MainStep(c)
                           \/ Read(c) \/ HandlerReturns(c) \/ Answered(c) \/ ReadFails(c)
                           \/ PeerGone(c) \/ CloseMessageSent(c)
       \/ \E p \in StopCalls : Stop(p) \/ StopStep(p)

Spec == Init /\ [][Next]_vars

\* Writes have deadlines and so have the phases of a shutdown; goroutines run
\* and pings are sent.  A goroutine that waits to write to the map gets its
\* turn between broadcasts.  Handlers may hang.
Fairness ==
    /\ \A p \in StopCalls : SF_vars(~fault /\ StopStep(p))
    /\ \A c \in Conns : /\ SF_vars(~fault /\ (Register(c) \/ Unregister(c)))
                        /\ WF_vars(~fault /\ MainStep(c))
                        /\ WF_vars(~fault /\ Answered(c))
                        /\ WF_vars(~fault /\ CloseMessageSent(c))
    /\ WF_vars(~fault /\ Broadcasting)

-----------------------------------------------------------------------------
\* Properties

(* An open connection that is being served is in the map, where Broadcast   *)
(* and the next shutdown find it; the tracker holds exactly the connections *)
(* that were upgraded and are not leaving, under ids of their own; and      *)
(* activeRequests is the number of connections being handled.               *)
ConnectionsKnown ==
    /\ \A c \in Conns : main[c] \in {"looping", "pinging"} /\ link[c] = "open"
                            => c \in connections
    /\ {t[1] : t \in tracked} =
          {c \in Conns : main[c] \in {"upgraded", "registered", "looping", "pinging", "leaving"}}
    /\ \A t, u \in tracked : t[2] = u[2] => t = u
    /\ activeRequests = Cardinality({c \in Conns : main[c] \in Handling})

(* Stop returns, and the goroutine of a connection that was closed ends     *)
(* even when its handler hangs: the next ping fails.                        *)
ClosedConnectionsEnd ==
    /\ \A p \in StopCalls : stop[p] = "listener" ~> stop[p] \in {"ok", "error"} \/ fault
    /\ \A c \in Conns :
          main[c] \in Handling /\ link[c] = "closed" ~> main[c] = "gone" \/ fault
=============================================================================
