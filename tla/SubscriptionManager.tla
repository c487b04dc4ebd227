------------------------- MODULE SubscriptionManager -------------------------
(***************************************************************************)
(* subscriptions.Manager (subscriptions/manager.go): subscriptions indexed *)
(* by client and by method under one RWMutex, a bounded channel of events, *)
(* and a loop that fans each event out to the matching subscriptions, one  *)
(* goroutine per call of the method's handler.                             *)
(*                                                                         *)
(* A map entry with an empty slice and a missing entry behave alike in     *)
(* every operation and are one value here, the empty sequence.  The        *)
(* operations that loop over subscriptions take one step per iteration     *)
(* and hold the mutex from the first to the last.                          *)
(***************************************************************************)
EXTENDS Integers, Sequences, FiniteSets, SequencesExt

CONSTANTS Ids,                \* subscription ids; uuid.New never repeats one
          Clients,
          Uris,
          Methods,            \* what clients ask to subscribe to
          EventTypes,         \* what is published
          MaxPerClient,       \* Manager.maxPerClient
          QueueCap,           \* capacity of eventChan (1000 in the code)
          MaxEvents,          \* bound: calls of PublishEvent
          MaxClock,           \* bound: the clock
          NoId

ASSUME SubscriptionAssumption ==
    /\ MaxPerClient \in Nat /\ QueueCap \in Nat
    /\ MaxEvents \in Nat /\ MaxClock \in Nat
    /\ NoId \notin Ids
    /\ Clients # {} /\ Uris # {} /\ Methods # {}

VARIABLES live,               \* keys of m.subscriptions
          info,               \* the Subscription each id stands or stood for
          used,               \* ids handed out so far
          byClient, byMethod, \* the two indices
          handlers,           \* methods with a registered handler
          clock,
          mutex,              \* the operation that holds m.mutex, or "free"
          todo,               \* what a looping writer has still to remove
          target              \* the client of UnsubscribeClient

VARIABLES manager,            \* Start and Stop
          loop,               \* where processEvents is
          published,          \* every event published so far
          eventChan,          \* numbers of the events in the channel
          current,            \* number of the event being handled, or 0
          route,              \* subscription ids handleEvent has still to visit
          seenId,             \* event.SubscriptionID of each event's variable
          spawned,            \* handler goroutines that have not started
          delivered           \* handler calls, with the SubscriptionID they saw

indexVars == <<live, info, used, byClient, byMethod>>
writerVars == <<mutex, todo, target>>
envVars == <<handlers, clock>>
loopVars == <<manager, loop>>
queueVars == <<published, eventChan>>
fanVars == <<current, route, seenId>>
callVars == <<spawned, delivered>>
eventVars == <<loopVars, queueVars, fanVars, callVars>>
vars == <<indexVars, writerVars, envVars, eventVars>>

ResourceMethod == "resources/subscribe"
ValidMethods == {ResourceMethod, "resources/subscribeList", "tools/subscribe",
                 "prompts/subscribe", "roots/subscribe"}

EventTypeToMethod(type) ==
    CASE type \in {"resource/changed", "resource/deleted"} -> ResourceMethod
      [] type = "tools/list_changed"     -> "tools/subscribe"
      [] type = "resources/list_changed" -> "resources/subscribeList"
      [] type = "prompts/list_changed"   -> "prompts/subscribe"
      [] type = "roots/list_changed"     -> "roots/subscribe"
      [] OTHER                           -> "none"

Subscription == [client : Clients, method : Methods, uri : Uris,
                 lastActive : 0..MaxClock]
Event == [type : EventTypes, uri : Uris]
Call == [event : 1..MaxEvents, sub : Ids]

MatchesSubscription(sub, event) ==
    sub.method = ResourceMethod => sub.uri = event.uri

IndexTypeOK ==
    /\ live \in SUBSET used /\ used \in SUBSET Ids
    /\ info \in [Ids -> Subscription]
    /\ byClient \in [Clients -> Seq(Ids)]
    /\ byMethod \in [Methods -> Seq(Ids)]
    /\ handlers \in SUBSET Methods
    /\ clock \in 0..MaxClock
    /\ mutex \in {"free", "client", "cleanup", "handle"}
    /\ todo \in SUBSET Ids
    /\ target \in Clients

EventsTypeOK ==
    /\ manager \in {"new", "running", "stopping", "stopped"}
    /\ loop \in {"off", "select", "rlock", "handle"}
    /\ published \in Seq(Event)
    /\ eventChan \in Seq(1..MaxEvents) /\ Len(eventChan) <= QueueCap
    /\ current \in 0..MaxEvents
    /\ route \in Seq(Ids)
    /\ seenId \in [1..MaxEvents -> Ids \cup {NoId}]
    /\ spawned \in SUBSET Call
    /\ delivered \in SUBSET [call : Call, saw : Ids \cup {NoId}]

TypeOK == IndexTypeOK /\ EventsTypeOK

Init ==
    /\ live = {}
    /\ info = [i \in Ids |-> CHOOSE s \in Subscription : TRUE]
    /\ used = {}
    /\ byClient = [c \in Clients |-> <<>>]
    /\ byMethod = [m \in Methods |-> <<>>]
    /\ handlers = {}
    /\ clock = 0
    /\ mutex = "free"
    /\ todo = {}
    /\ target = CHOOSE c \in Clients : TRUE
    /\ manager = "new"
    /\ loop = "off"
    /\ published = <<>>
    /\ eventChan = <<>>
    /\ current = 0
    /\ route = <<>>
    /\ seenId = [n \in 1..MaxEvents |-> NoId]
    /\ spawned = {}
    /\ delivered = {}

-----------------------------------------------------------------------------
\* Subscribe and Unsubscribe

Subscribe(id, c, m, u) ==
    /\ mutex = "free"
    /\ Len(byClient[c]) < MaxPerClient
    /\ m \in ValidMethods
    /\ id \notin used
    /\ live' = live \cup {id}
    /\ used' = used \cup {id}
    /\ info' = [info EXCEPT ![id] = [client |-> c, method |-> m, uri |-> u,
                                     lastActive |-> clock]]
    /\ byClient' = [byClient EXCEPT ![c] = Append(@, id)]
    /\ byMethod' = [byMethod EXCEPT ![m] = Append(@, id)]
    /\ UNCHANGED <<writerVars, envVars, eventVars>>

Unsubscribe(id) ==
    /\ mutex = "free"
    /\ id \in live
    /\ live' = live \ {id}
    /\ byClient' = [byClient EXCEPT ![info[id].client] = RemoveFirst(@, id)]
    /\ byMethod' = [byMethod EXCEPT ![info[id].method] = RemoveFirst(@, id)]
    /\ UNCHANGED <<info, used, writerVars, envVars, eventVars>>

-----------------------------------------------------------------------------
\* UnsubscribeClient: every id of the client's slice, then the slice itself

UnsubscribeClient(c) ==
    /\ mutex = "free"
    /\ byClient[c] # <<>>
    /\ mutex' = "client"
    /\ target' = c
    /\ todo' = {byClient[c][i] : i \in DOMAIN byClient[c]}
    /\ UNCHANGED <<indexVars, envVars, eventVars>>

\* Mutant of UnsubscribeClientNext: the method index is forgotten.
UnsubscribeClientNextKeepingMethod(id) ==
    /\ mutex = "client" /\ id \in todo
    /\ todo' = todo \ {id}
    /\ live' = live \ {id}
    /\ UNCHANGED <<info, used, byClient, byMethod, mutex, target, envVars, eventVars>>

UnsubscribeClientNext(id) ==
    /\ mutex = "client" /\ id \in todo
    /\ todo' = todo \ {id}
    /\ IF id \in live
       THEN /\ live' = live \ {id}
            /\ byMethod' = [byMethod EXCEPT ![info[id].method] = RemoveFirst(@, id)]
       ELSE UNCHANGED <<live, byMethod>>
    /\ UNCHANGED <<info, used, byClient, mutex, target, envVars, eventVars>>

UnsubscribeClientDone ==
    /\ mutex = "client" /\ todo = {}
    /\ byClient' = [byClient EXCEPT ![target] = <<>>]
    /\ mutex' = "free"
    /\ UNCHANGED <<live, info, used, byMethod, todo, target, envVars,
                   eventVars>>

-----------------------------------------------------------------------------
\* TouchSubscription and CleanupInactive

TouchSubscription(id) ==
    /\ mutex = "free"
    /\ id \in live
    /\ info' = [info EXCEPT ![id].lastActive = clock]
    /\ UNCHANGED <<live, used, byClient, byMethod, writerVars, envVars,
                   eventVars>>

CleanupInactive(maxInactive) ==
    /\ mutex = "free"
    /\ mutex' = "cleanup"
    /\ todo' = {id \in live : info[id].lastActive < clock - maxInactive}
    /\ UNCHANGED <<indexVars, target, envVars, eventVars>>

CleanupNext(id) ==
    /\ mutex = "cleanup" /\ id \in todo
    /\ todo' = todo \ {id}
    /\ live' = live \ {id}
    /\ byClient' = [byClient EXCEPT ![info[id].client] = RemoveFirst(@, id)]
    /\ byMethod' = [byMethod EXCEPT ![info[id].method] = RemoveFirst(@, id)]
    /\ UNCHANGED <<info, used, mutex, target, envVars, eventVars>>

CleanupDone ==
    /\ mutex = "cleanup" /\ todo = {}
    /\ mutex' = "free"
    /\ UNCHANGED <<indexVars, todo, target, envVars, eventVars>>

RegisterHandler(m) ==
    /\ mutex = "free"
    /\ handlers' = handlers \cup {m}
    /\ UNCHANGED <<indexVars, writerVars, clock, eventVars>>

Tick ==
    /\ clock < MaxClock
    /\ clock' = clock + 1
    /\ UNCHANGED <<indexVars, writerVars, handlers, eventVars>>

-----------------------------------------------------------------------------
\* PublishEvent, Start, Stop

\* The select has a default case: a full channel drops the event.
PublishEvent(type, u) ==
    /\ Len(published) < MaxEvents
    /\ published' = Append(published, [type |-> type, uri |-> u])
    /\ eventChan' = IF Len(eventChan) < QueueCap
                    THEN Append(eventChan, Len(published'))
                    ELSE eventChan
    /\ UNCHANGED <<indexVars, writerVars, envVars, loopVars, fanVars, callVars>>

Start ==
    /\ manager \in {"new", "stopped"}
    /\ manager' = "running"
    /\ loop' = "select"
    /\ UNCHANGED <<indexVars, writerVars, envVars, queueVars, fanVars,
                   callVars>>

StopCancel ==
    /\ manager = "running"
    /\ manager' = "stopping"
    /\ UNCHANGED <<indexVars, writerVars, envVars, loop, queueVars, fanVars,
                   callVars>>

StopReturn ==
    /\ manager = "stopping"
    /\ loop = "off"
    /\ manager' = "stopped"
    /\ UNCHANGED <<indexVars, writerVars, envVars, loop, queueVars, fanVars,
                   callVars>>

-----------------------------------------------------------------------------
\* processEvents and handleEvent

ExitLoop ==
    /\ loop = "select" /\ manager = "stopping"
    /\ loop' = "off"
    /\ UNCHANGED <<indexVars, writerVars, envVars, manager, queueVars, fanVars,
                   callVars>>

TakeEvent ==
    /\ loop = "select" /\ eventChan # <<>>
    /\ current' = Head(eventChan)
    /\ eventChan' = Tail(eventChan)
    /\ loop' = "rlock"
    /\ UNCHANGED <<indexVars, writerVars, envVars, manager, published, route,
                   seenId, callVars>>

CurrentMethod == EventTypeToMethod(published[current].type)

\* The read lock excludes the writers; the other readers take no step.
BeginHandle ==
    /\ loop = "rlock" /\ mutex = "free"
    /\ mutex' = "handle"
    /\ loop' = "handle"
    /\ route' = IF CurrentMethod \in Methods THEN byMethod[CurrentMethod] ELSE <<>>
    /\ UNCHANGED <<indexVars, todo, target, envVars, manager, queueVars,
                   current, seenId, callVars>>

\* Mutant of HandleNext: the first subscription that does not match ends the loop.
HandleNextOrBreak ==
    /\ loop = "handle" /\ route # <<>>
    /\ LET id == Head(route)
           hit == id \in live /\ MatchesSubscription(info[id], published[current])
       IN  /\ route' = IF hit THEN Tail(route) ELSE <<>>
           /\ seenId' = IF hit THEN [seenId EXCEPT ![current] = id] ELSE seenId
           /\ spawned' = IF hit /\ CurrentMethod \in handlers
                         THEN spawned \cup {[event |-> current, sub |-> id]}
                         ELSE spawned
    /\ UNCHANGED <<indexVars, writerVars, envVars, loopVars, queueVars, current,
                   delivered>>

\* The goroutine captures the variable event, not its value.
HandleNext ==
    /\ loop = "handle" /\ route # <<>>
    /\ route' = Tail(route)
    /\ LET id == Head(route)
           hit == id \in live /\ MatchesSubscription(info[id], published[current])
       IN  /\ seenId' = IF hit THEN [seenId EXCEPT ![current] = id] ELSE seenId
           /\ spawned' = IF hit /\ CurrentMethod \in handlers
                         THEN spawned \cup {[event |-> current, sub |-> id]}
                         ELSE spawned
    /\ UNCHANGED <<indexVars, writerVars, envVars, loopVars, queueVars,
                   current, delivered>>

EndHandle ==
    /\ loop = "handle" /\ route = <<>>
    /\ mutex' = "free"
    /\ loop' = "select"
    /\ current' = 0
    /\ UNCHANGED <<indexVars, todo, target, envVars, manager, queueVars, route,
                   seenId, callVars>>

\* A handler goroutine gets the processor and evaluates its arguments.
CallHandler(call) ==
    /\ call \in spawned
    /\ spawned' = spawned \ {call}
    /\ delivered' = delivered \cup {[call |-> call, saw |-> seenId[call.event]]}
    /\ UNCHANGED <<indexVars, writerVars, envVars, loopVars, queueVars,
                   fanVars>>

-----------------------------------------------------------------------------

WriterStep ==
    \/ \E id \in Ids : UnsubscribeClientNext(id) \/ CleanupNext(id)
    \/ UnsubscribeClientDone
    \/ CleanupDone

LoopStep == ExitLoop \/ TakeEvent \/ BeginHandle \/ HandleNext \/ EndHandle

Next ==
    \/ \E id \in Ids, c \in Clients, m \in Methods, u \in Uris : Subscribe(id, c, m, u)
    \/ \E id \in Ids : Unsubscribe(id) \/ TouchSubscription(id)
    \/ \E c \in Clients : UnsubscribeClient(c)
    \/ \E d \in 0..MaxClock : CleanupInactive(d)
    \/ \E m \in Methods : RegisterHandler(m)
    \/ WriterStep
    \/ Tick
    \/ \E type \in EventTypes, u \in Uris : PublishEvent(type, u)
    \/ Start
    \/ StopCancel
    \/ StopReturn
    \/ LoopStep
    \/ \E call \in spawned : CallHandler(call)

\* RWMutex admits a waiting reader after at most one writer: the loop gets the
\* read lock even when writers keep coming.
Fairness ==
    /\ WF_vars(WriterStep)
    /\ WF_vars(LoopStep)
    /\ SF_vars(BeginHandle)
    /\ WF_vars(StopReturn)

Spec == Init /\ [][Next]_vars
FairSpec == Spec /\ Fairness

-----------------------------------------------------------------------------
\* Properties

IsIndex(s, S) ==
    /\ {s[i] : i \in DOMAIN s} = S
    /\ \A i, j \in DOMAIN s : s[i] = s[j] => i = j

(* Whenever no writer holds the mutex, the two indices and the table of     *)
(* subscriptions say the same: each client's slice lists exactly its        *)
(* subscriptions, each method's slice exactly those of the method, none     *)
(* twice.  Four operations that each edit all three must keep it.           *)
IndexConsistent ==
    mutex \in {"free", "handle"} =>
        /\ \A c \in Clients :
              IsIndex(byClient[c], {id \in live : info[id].client = c})
        /\ \A m \in Methods :
              IsIndex(byMethod[m], {id \in live : info[id].method = m})

(* Whatever the data race on the captured event makes of SubscriptionID, a  *)
(* handler only ever sees the id of a subscription that the event matches.  *)
DeliverySound ==
    \A d \in delivered :
        LET event == published[d.call.event]
        IN  /\ d.saw \in used
            /\ info[d.saw].method = EventTypeToMethod(event.type)
            /\ MatchesSubscription(info[d.saw], event)

(* When handleEvent returns, a handler call was started for every live      *)
(* subscription the event matches, if the method has a handler.             *)
EventReachesEveryMatch ==
    [][EndHandle =>
          \A id \in live :
              /\ info[id].method = CurrentMethod
              /\ MatchesSubscription(info[id], published[current])
              /\ CurrentMethod \in handlers
              => LET call == [event |-> current, sub |-> id]
                 IN  call \in spawned \/ \E d \in delivered : d.call = call]_vars

(* Events reach every subscription that matches, and no other, whatever the *)
(* race on the captured event does to the id (subscriptions/manager.go).    *)
EventsReachSubscribers ==
    [](TypeOK /\ DeliverySound) /\ EventReachesEveryMatch

(* "Send event to each matching subscription"                               *)
(* (subscriptions/manager.go:236): the handler call made for a subscription *)
(* carries that subscription's id.                                          *)
EachCallSeesItsSubscription == \A d \in delivered : d.saw = d.call.sub

(* An event accepted by the channel is taken out and handled, unless the    *)
(* manager is stopped first.                                                *)
AcceptedEventsHandled ==
    \A n \in 1..MaxEvents :
        (\E i \in DOMAIN eventChan : eventChan[i] = n) /\ manager = "running"
            ~> (n \notin {eventChan[i] : i \in DOMAIN eventChan}
                /\ current # n) \/ manager # "running"

(* Stop returns, whatever writers and events are under way.                 *)
StopReturns == manager = "stopping" ~> manager # "stopping"
=============================================================================
