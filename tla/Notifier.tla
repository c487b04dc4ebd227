------------------------------ MODULE Notifier ------------------------------
(***************************************************************************)
(* notifications.Notifier (notifications/notifier.go): a table of clients  *)
(* under an RWMutex, a bounded channel of messages, and one goroutine that *)
(* takes a message, looks its client up and tries the delivery handlers    *)
(* until one accepts it.  Broadcasts send to a snapshot of the table.      *)
(*                                                                         *)
(* The mutex is held for single steps only and is left out.  Delivery      *)
(* ranges over the handlers' map after unlocking: a registration meanwhile *)
(* is a concurrent map access, which the Go runtime may end the process    *)
(* for.                                                                    *)
(***************************************************************************)
EXTENDS Integers, Sequences, FiniteSets, Functions

CONSTANTS Clients,
          Names,              \* what a message may be addressed to
          Senders,            \* goroutines that call the sending operations
          Transports,         \* keys of n.handlers
          Features,           \* sets a client may say it supports
          QueueSize,
          MaxAccepted,        \* bound: messages put in the queue
          MaxHandlers         \* bound: handlers per transport type

VARIABLES clientInfo,         \* a map from clients to what they support
          stale,              \* clients whose LastSeen is before the cutoff
          handlerCount,       \* length of n.handlers[transport]
          phase, closed,      \* Start and Stop; is n.queue closed?
          queue, accepted,    \* the channel; messages accepted so far
          loop, message,      \* processQueue and the message it delivers
          held,               \* is the entry it holds still the table's?
          untried,            \* handlers it has not called yet
          sends,              \* per sender, the operation under way
          delivered,          \* handler calls that succeeded, in order
          fatal               \* the runtime saw a concurrent map access

tableVars == <<clientInfo, stale>>
queueVars == <<queue, accepted>>
loopVars == <<loop, message, held, untried, delivered>>
vars == <<tableVars, handlerCount, phase, closed, queueVars, loopVars, sends, fatal>>

Message == [to : Names, n : 1..MaxAccepted]
NoMessage == [to |-> CHOOSE x \in Names : TRUE, n |-> 0]
Idle == [pc |-> "idle", left |-> {}]
Registered == DOMAIN clientInfo

TypeOK ==
    /\ Registered \subseteq Clients /\ clientInfo \in [Registered -> Features]
    /\ stale \subseteq Registered
    /\ handlerCount \in [Transports -> 0..MaxHandlers]
    /\ phase \in {"new", "running", "stopping", "stopped", "panicked"}
    /\ queue \in Seq(Message) /\ Len(queue) <= QueueSize /\ accepted <= MaxAccepted
    /\ loop \in {"off", "select", "lookup", "touch", "try"}
    /\ message \in Message \cup {NoMessage}
    /\ untried \subseteq Transports \X (1..MaxHandlers)
    /\ \A s \in Senders :
          /\ sends[s].left \subseteq Names
          /\ sends[s].pc \in {"idle", "send", "full", "panicked"}
    /\ {closed, held, fatal} \subseteq BOOLEAN

Init ==
    /\ clientInfo = <<>> /\ stale = {}
    /\ handlerCount = [t \in Transports |-> 0]
    /\ phase = "new" /\ closed = FALSE
    /\ queue = <<>> /\ accepted = 0
    /\ loop = "off" /\ message = NoMessage /\ held = FALSE /\ untried = {}
    /\ sends = [s \in Senders |-> Idle]
    /\ delivered = <<>>
    /\ fatal = FALSE

-----------------------------------------------------------------------------
\* The table of clients and the handlers

RegisterClient(c, supports) ==
    /\ clientInfo' = [d \in Registered \cup {c} |-> IF d = c THEN supports ELSE clientInfo[d]]
    /\ stale' = stale \ {c}
    /\ held' = (held /\ message.to # c)
    /\ UNCHANGED <<handlerCount, phase, closed, queueVars, loop, message, untried,
                   delivered, sends, fatal>>

UnregisterClients(gone) ==
    /\ gone \subseteq Registered
    /\ clientInfo' = Restrict(clientInfo, Registered \ gone)
    /\ stale' = stale \ gone
    /\ held' = (held /\ message.to \notin gone)
    /\ UNCHANGED <<handlerCount, phase, closed, queueVars, loop, message, untried,
                   delivered, sends, fatal>>

UnregisterClient(c) == c \in Registered /\ UnregisterClients({c})

CleanupInactiveClients == UnregisterClients(Registered \cap stale)

\* Time passes: the client was last seen before the cutoff.
GrowStale(c) ==
    /\ c \in Registered \ stale
    /\ stale' = stale \cup {c}
    /\ UNCHANGED <<clientInfo, handlerCount, phase, closed, queueVars, loopVars,
                   sends, fatal>>

RegisterHandler(t) ==
    /\ handlerCount[t] < MaxHandlers
    /\ handlerCount' = [handlerCount EXCEPT ![t] = @ + 1]
    /\ fatal' \in IF loop = "try" THEN BOOLEAN ELSE {FALSE}
    /\ UNCHANGED <<tableVars, phase, closed, queueVars, loopVars, sends>>

-----------------------------------------------------------------------------
\* SendToClient, Broadcast and the operations made of them

BeginSend(s, targets) ==
    /\ sends[s].pc \in {"idle", "full"}
    /\ targets # {}
    /\ sends' = [sends EXCEPT ![s] = [pc |-> "send", left |-> targets]]
    /\ UNCHANGED <<tableVars, handlerCount, phase, closed, queueVars, loopVars, fatal>>

SendToClient(s, to) == BeginSend(s, {to})

SendProgress(s, c) ==
    /\ c \in Registered /\ "progress" \in clientInfo[c]
    /\ BeginSend(s, {c})

Broadcast(s) == BeginSend(s, Registered)

SendLogMessage(s) == BeginSend(s, {c \in Registered : "logging" \in clientInfo[c]})

Sent(s, to, outcome) ==
    sends' = [sends EXCEPT ![s].left = @ \ {to},
                           ![s].pc = CASE outcome = "panicked" -> "panicked"
                                       [] sends[s].left # {to} -> "send"
                                       [] OTHER -> outcome]

\* One target: the message is queued, or the queue stays full for a second,
\* or the queue is closed and the send panics.
Enqueue(s, to) ==
    /\ sends[s].pc = "send" /\ to \in sends[s].left
    /\ ~closed /\ Len(queue) < QueueSize /\ accepted < MaxAccepted
    /\ accepted' = accepted + 1
    /\ queue' = Append(queue, [to |-> to, n |-> accepted + 1])
    /\ Sent(s, to, "idle")
    /\ UNCHANGED <<tableVars, handlerCount, phase, closed, loopVars, fatal>>

\* Mutant of SendTimeout: no timer once the notifier is being stopped.
SendTimeoutRunning(s, to) ==
    /\ sends[s].pc = "send" /\ to \in sends[s].left
    /\ ~closed /\ Len(queue) = QueueSize /\ phase = "running"
    /\ Sent(s, to, "full")
    /\ UNCHANGED <<tableVars, handlerCount, phase, closed, queueVars, loopVars, fatal>>

SendTimeout(s, to) ==
    /\ sends[s].pc = "send" /\ to \in sends[s].left
    /\ ~closed /\ (Len(queue) = QueueSize \/ accepted = MaxAccepted)
    /\ Sent(s, to, "full")
    /\ UNCHANGED <<tableVars, handlerCount, phase, closed, queueVars, loopVars, fatal>>

SendPanics(s, to) ==
    /\ sends[s].pc = "send" /\ to \in sends[s].left
    /\ closed
    /\ Sent(s, to, "panicked")
    /\ UNCHANGED <<tableVars, handlerCount, phase, closed, queueVars, loopVars, fatal>>

-----------------------------------------------------------------------------
\* Start, Stop and processQueue

Start ==
    /\ phase \in {"new", "stopped"}
    /\ phase' = "running" /\ loop' = "select"
    /\ UNCHANGED <<tableVars, handlerCount, closed, queueVars, message, held, untried,
                   delivered, sends, fatal>>

Stop ==
    /\ phase \in {"new", "running", "stopped"}
    /\ phase' = "stopping"
    /\ UNCHANGED <<tableVars, handlerCount, closed, queueVars, loopVars, sends, fatal>>

\* wg.Wait, then close: closing a closed channel panics.
StopClose ==
    /\ phase = "stopping" /\ loop = "off"
    /\ phase' = IF closed THEN "panicked" ELSE "stopped"
    /\ closed' = TRUE
    /\ UNCHANGED <<tableVars, handlerCount, queueVars, loopVars, sends, fatal>>

ExitLoop ==
    /\ loop = "select" /\ phase = "stopping"
    /\ loop' = "off"
    /\ UNCHANGED <<tableVars, handlerCount, phase, closed, queueVars, message, held,
                   untried, delivered, sends, fatal>>

TakeMessage ==
    /\ loop = "select" /\ queue # <<>>
    /\ message' = Head(queue) /\ queue' = Tail(queue)
    /\ loop' = "lookup"
    /\ UNCHANGED <<tableVars, handlerCount, phase, closed, accepted, held, untried,
                   delivered, sends, fatal>>

LookUp ==
    /\ loop = "lookup"
    /\ held' = (message.to \in Registered)
    /\ loop' = IF held' THEN "touch" ELSE "select"
    /\ UNCHANGED <<tableVars, handlerCount, phase, closed, queueVars, message, untried,
                   delivered, sends, fatal>>

\* client.LastSeen is set in the entry that was found, which the table may
\* have lost since.
TouchClient ==
    /\ loop = "touch"
    /\ stale' = IF held THEN stale \ {message.to} ELSE stale
    /\ untried' = {h \in Transports \X (1..MaxHandlers) : h[2] <= handlerCount[h[1]]}
    /\ loop' = "try" /\ held' = FALSE
    /\ UNCHANGED <<clientInfo, handlerCount, phase, closed, queueVars, message,
                   delivered, sends, fatal>>

\* The map's keys in any order, each key's handlers in theirs.
NextHandlers ==
    {h \in untried :
        /\ \A j \in 1..(h[2] - 1) : <<h[1], j>> \notin untried
        /\ \A u \in Transports \ {h[1]} :
              (<<u, 1>> \notin untried) => \A j \in 1..MaxHandlers : <<u, j>> \notin untried}

\* Mutant of HandlerAccepts: only the inner loop is left.
HandlerAcceptsInner(h) ==
    /\ loop = "try" /\ h \in NextHandlers
    /\ delivered' = Append(delivered, message)
    /\ untried' = {x \in untried : x[1] # h[1]}
    /\ UNCHANGED <<tableVars, handlerCount, phase, closed, queueVars, loop, message,
                   held, sends, fatal>>

HandlerAccepts(h) ==
    /\ loop = "try" /\ h \in NextHandlers
    /\ delivered' = Append(delivered, message)
    /\ untried' = {} /\ loop' = "select"
    /\ UNCHANGED <<tableVars, handlerCount, phase, closed, queueVars, message, held,
                   sends, fatal>>

HandlerFails(h) ==
    /\ loop = "try" /\ h \in NextHandlers
    /\ untried' = untried \ {h}
    /\ UNCHANGED <<tableVars, handlerCount, phase, closed, queueVars, loop, message,
                   held, delivered, sends, fatal>>

Undelivered ==
    /\ loop = "try" /\ untried = {}
    /\ loop' = "select"
    /\ UNCHANGED <<tableVars, handlerCount, phase, closed, queueVars, message, held,
                   untried, delivered, sends, fatal>>

-----------------------------------------------------------------------------

LoopStep ==
    \/ ExitLoop \/ TakeMessage \/ LookUp \/ TouchClient \/ Undelivered
    \/ \E h \in untried : HandlerAccepts(h) \/ HandlerFails(h)

SendStep(s) ==
    \E to \in sends[s].left : Enqueue(s, to) \/ SendTimeout(s, to) \/ SendPanics(s, to)

TableStep ==
    \/ \E c \in Clients : \/ \E f \in Features : RegisterClient(c, f)
                          \/ UnregisterClient(c)
                          \/ GrowStale(c)
    \/ CleanupInactiveClients
    \/ \E t \in Transports : RegisterHandler(t)

CallStep(s) ==
    \/ \E to \in Names : SendToClient(s, to)
    \/ \E c \in Clients : SendProgress(s, c)
    \/ Broadcast(s)
    \/ SendLogMessage(s)

Next ==
    /\ ~fatal
    /\ \/ TableStep
       \/ \E s \in Senders : CallStep(s) \/ SendStep(s)
       \/ Start \/ Stop \/ StopClose
       \/ LoopStep

Spec == Init /\ [][Next]_vars

\* The scheduler runs every goroutine; handlers return.
Fairness ==
    /\ WF_vars(~fatal /\ LoopStep)
    /\ WF_vars(~fatal /\ StopClose)
    /\ \A s \in Senders : WF_vars(~fatal /\ SendStep(s))

-----------------------------------------------------------------------------
\* Properties

(* Handlers see the messages in the order of the queue, and no message is   *)
(* accepted by two handlers, however many transports are registered while   *)
(* deliveries are under way.                                                *)
DeliveredOnceInOrder ==
    \A i, j \in DOMAIN delivered : i < j => delivered[i].n < delivered[j].n

(* Stop returns, or panics at a closed queue, and so does every operation   *)
(* that sends: neither a full queue nor a Stop leaves a caller waiting.     *)
SendsAndStopReturn ==
    /\ \A s \in Senders : sends[s].pc = "send" ~> sends[s].pc # "send" \/ fatal
    /\ phase = "stopping" ~> phase # "stopping" \/ fatal
=============================================================================
