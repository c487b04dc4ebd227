------------------------- MODULE FullFeaturedServer -------------------------
(***************************************************************************)
(* server.FullFeaturedServer (server/full_featured.go): the composition of *)
(* the request handling, the subscription manager S and the notifier N.    *)
(* Subscriptions made by requests feed S; the handler it registers with S  *)
(* sends through N; changes found by discovery are broadcast through N.    *)
(*                                                                         *)
(* Client profiles are written under the server's mutex and read without   *)
(* it: a read during a write is a data race for which the Go runtime may   *)
(* end the process.  A panic of a sending goroutine ends it as well.       *)
(***************************************************************************)
EXTENDS Integers, Sequences, FiniteSets, Functions, Compatibility

CONSTANTS Ids, Clients, Uris, MaxPerClient, QueueCap, MaxEvents, NoId,
          ClientKinds,        \* profiles' names a client may match
          Asked,              \* prefixes of the methods that are asked for
          Nobody

VARIABLES live, info, used, byClient, byMethod, handlers, clock, mutex, todo,
          target, manager, loop, published, eventChan, current, route, seenId,
          spawned, delivered                       \* of the subscription manager

VARIABLES clientInfo, stale, handlerCount, phase, closed, queue, accepted,
          nLoop, message, held, untried, sends, nDelivered, fatal  \* of the notifier

VARIABLES profiles, fallbacks, \* clientProfiles and fallbackHandlers
          writing,            \* the client whose initialize writes the maps
          pending,            \* per client, the profile its initialize stores
          asking,             \* per client, the request under way
          answer,             \* the answer to its last request
          advertised,         \* profiles it has been told of since it asked
          stage               \* how far Start or Stop has got

Senders == {"discovery"} \cup Ids    \* one goroutine each

S == INSTANCE SubscriptionManager
        WITH Methods <- {"resources/subscribe"}, EventTypes <- {"resource/changed"},
             MaxClock <- 0
N == INSTANCE Notifier
        WITH Names <- Clients \cup Ids, Senders <- Senders,
             Transports <- {"transport"}, Features <- {{}}, QueueSize <- 1,
             MaxAccepted <- MaxEvents, MaxHandlers <- 1,
             loop <- nLoop, delivered <- nDelivered

serverVars == <<profiles, fallbacks, writing, pending, asking, answer, advertised, stage>>
subscriptionVars == <<live, info, used, byClient, byMethod, handlers, clock, mutex,
                      todo, target, manager, loop, published, eventChan, current,
                      route, seenId, spawned, delivered>>
notifierVars == <<clientInfo, stale, handlerCount, phase, closed, queue, accepted,
                  nLoop, message, held, untried, sends, nDelivered>>
vars == <<serverVars, subscriptionVars, notifierVars, fatal>>

NotAsking == "none"
NoAnswer == <<"none", "none">>
KnownAs(kind) == DetectClient(kind, FALSE)

ServerInit ==
    /\ profiles = <<>> /\ fallbacks = <<>>
    /\ writing = Nobody
    /\ pending = [c \in Clients |-> Nobody]
    /\ asking = [c \in Clients |-> NotAsking]
    /\ answer = [c \in Clients |-> NoAnswer]
    /\ advertised = [c \in Clients |-> {}]
    /\ stage = "new"

Init == ServerInit /\ S!Init /\ N!Init

Crashed == fatal \/ \E s \in Senders : sends[s].pc = "panicked"

-----------------------------------------------------------------------------
\* NewFullFeaturedServer, Start and Stop

\* setupSubscriptionHandlers: only resource subscriptions get a handler.
SetUp ==
    /\ stage = "new"
    /\ stage' = "ready"
    /\ S!RegisterHandler("resources/subscribe")
    /\ UNCHANGED <<profiles, fallbacks, writing, pending, asking, answer, advertised, notifierVars, fatal>>

StartServices ==
    /\ stage = "ready"
    /\ stage' = "started"
    /\ S!Start /\ N!Start
    /\ UNCHANGED <<profiles, fallbacks, writing, pending, asking, answer, advertised>>

\* Stop: the notifier first, then the subscription manager.
StopNotifier ==
    /\ stage = "started"
    /\ stage' = "stopping"
    /\ N!Stop
    /\ UNCHANGED <<profiles, fallbacks, writing, pending, asking, answer, advertised, subscriptionVars>>

StopSubscriptions ==
    /\ stage = "stopping" /\ phase = "stopped"
    /\ stage' = "stopped"
    /\ S!StopCancel
    /\ UNCHANGED <<profiles, fallbacks, writing, pending, asking, answer, advertised, notifierVars, fatal>>

-----------------------------------------------------------------------------
\* initialize: detect the profile, store it under the mutex, register the client

BeginInitialize(c, kind) ==
    /\ writing = Nobody /\ pending[c] = Nobody
    /\ writing' = c
    /\ pending' = [pending EXCEPT ![c] = kind]
    /\ UNCHANGED <<profiles, fallbacks, asking, answer, advertised, stage, subscriptionVars, notifierVars, fatal>>

\* A map in which the client has the profile its initialize found.
Stored(map, c) ==
    [d \in DOMAIN map \cup {c} |-> IF d = c THEN KnownAs(pending[c]) ELSE map[d]]

\* Mutant of StoreProfile: a client that is known keeps its fallback handler.
StoreProfileOnce(c) ==
    /\ writing = c
    /\ writing' = Nobody
    /\ profiles' = Stored(profiles, c)
    /\ fallbacks' = IF c \in DOMAIN fallbacks THEN fallbacks ELSE Stored(fallbacks, c)
    /\ advertised' = [advertised EXCEPT ![c] = @ \cup {KnownAs(pending[c])}]
    /\ pending' = [pending EXCEPT ![c] = Nobody]
    /\ N!RegisterClient(c, {})
    /\ UNCHANGED <<asking, answer, stage, subscriptionVars>>

StoreProfile(c) ==
    /\ writing = c
    /\ writing' = Nobody
    /\ profiles' = Stored(profiles, c)
    /\ fallbacks' = Stored(fallbacks, c)
    /\ advertised' = [advertised EXCEPT ![c] = @ \cup {KnownAs(pending[c])}]
    /\ pending' = [pending EXCEPT ![c] = Nobody]
    /\ N!RegisterClient(c, {})
    /\ UNCHANGED <<asking, answer, stage, subscriptionVars>>

\* Capabilities the answer names: the server's own where the profile has them.
Advertises(p, prefix) ==
    (IF prefix = "discovery" THEN "experimental.discovery" ELSE prefix)
        \in GetSupportedCapabilities(p)

-----------------------------------------------------------------------------
\* Requests that are refused or passed on by the client's profile

MapRead == fatal' \in IF writing = Nobody THEN {fatal} ELSE BOOLEAN

\* clientProfiles is read: supported, unsupported, or no such client.
ReadProfile(c, prefix) ==
    LET known == c \in DOMAIN profiles
        refused == known /\ ~CheckFeatureSupport(profiles[c], MethodToFeature(prefix)).supported
    IN  /\ asking[c] = NotAsking
        /\ MapRead
        /\ asking' = [asking EXCEPT ![c] = IF refused /\ prefix # "discovery"
                                           THEN prefix ELSE NotAsking]
        /\ answer' = [answer EXCEPT ![c] =
                          CASE ~refused -> <<"passed on", prefix>>
                            [] refused /\ prefix = "discovery" -> <<"Unsupported", prefix>>
                            [] OTHER -> NoAnswer]
        /\ advertised' = [advertised EXCEPT ![c] = IF known THEN {profiles[c]} ELSE {}]
        /\ UNCHANGED <<profiles, fallbacks, writing, pending, stage, subscriptionVars,
                       notifierVars>>

\* fallbackHandlers is read, and its handler looks at its own profile.
ReadFallback(c) ==
    /\ asking[c] # NotAsking
    /\ MapRead
    /\ answer' = [answer EXCEPT ![c] = <<HandleUnsupportedMethod(fallbacks[c], asking[c]),
                                         asking[c]>>]
    /\ asking' = [asking EXCEPT ![c] = NotAsking]
    /\ UNCHANGED <<profiles, fallbacks, writing, pending, advertised, stage, subscriptionVars, notifierVars>>

-----------------------------------------------------------------------------
\* Subscriptions, and what becomes of events

HandleResourceSubscribe(id, c, u) ==
    /\ S!Subscribe(id, c, "resources/subscribe", u)
    /\ UNCHANGED <<serverVars, notifierVars, fatal>>

HandleUnsubscribe(id) ==
    /\ S!Unsubscribe(id)
    /\ UNCHANGED <<serverVars, notifierVars, fatal>>

PublishEvent(u) ==
    /\ S!PublishEvent("resource/changed", u)
    /\ UNCHANGED <<serverVars, notifierVars, fatal>>

SubscriptionLoop ==
    /\ S!LoopStep \/ S!StopReturn
    /\ UNCHANGED <<serverVars, notifierVars, fatal>>

\* The handler's goroutine calls SendToClient with event.SubscriptionID.
NotifySubscriber(call) ==
    /\ S!CallHandler(call)
    /\ N!SendToClient(call.sub, seenId[call.event])
    /\ UNCHANGED serverVars

\* setupDiscoveryNotifications: one goroutine, one broadcast after the other.
NotifyListChanged ==
    /\ N!Broadcast("discovery")
    /\ UNCHANGED <<serverVars, subscriptionVars>>

NotifierStep ==
    /\ \/ N!LoopStep \/ N!StopClose
       \/ \E s \in Senders : N!SendStep(s)
       \/ N!RegisterHandler("transport")
    /\ UNCHANGED <<serverVars, subscriptionVars>>

-----------------------------------------------------------------------------

Next ==
    /\ ~Crashed
    /\ \/ SetUp \/ StartServices \/ StopNotifier \/ StopSubscriptions
       \/ \E c \in Clients :
             \/ \E kind \in ClientKinds : BeginInitialize(c, kind)
             \/ StoreProfile(c)
             \/ \E prefix \in Asked : ReadProfile(c, prefix)
             \/ ReadFallback(c)
       \/ \E id \in Ids : \/ \E c \in Clients, u \in Uris : HandleResourceSubscribe(id, c, u)
                          \/ HandleUnsubscribe(id)
       \/ \E u \in Uris : PublishEvent(u)
       \/ SubscriptionLoop
       \/ \E call \in spawned : NotifySubscriber(call)
       \/ NotifyListChanged
       \/ NotifierStep

Spec == Init /\ [][Next]_vars

-----------------------------------------------------------------------------
\* Properties

(* A client is refused a feature only if an initialize whose answer did not *)
(* name it was in force since it asked; it is told that a supported feature *)
(* is not implemented only if it was initialized again, with another        *)
(* profile, between the two reads.                                          *)
RefusalsJustified ==
    \A c \in Clients :
        /\ answer[c][1] = "Unsupported" =>
              \E p \in advertised[c] : ~Advertises(p, answer[c][2])
        /\ answer[c][1] = "InternalError" => Cardinality(advertised[c]) > 1

(* Composed, the parts keep what they promise alone: a handler sees ids of  *)
(* subscriptions its event matches, messages reach clients in the order of  *)
(* the queue and only clients that were initialized, and a sender meets a   *)
(* closed queue only once Stop has begun (server/full_featured.go).         *)
NotificationsJustified ==
    /\ S!DeliverySound /\ N!DeliveredOnceInOrder
    /\ \A i \in DOMAIN nDelivered : nDelivered[i].to \in DOMAIN profiles
    /\ (\E s \in Senders : sends[s].pc = "panicked") => stage \in {"stopping", "stopped"}

(* What the parts promise alone they keep composed, and clients are refused *)
(* only what they were not told they have (server/full_featured.go).        *)
ServerKeepsItsPromises == RefusalsJustified /\ NotificationsJustified

(* "Send notification to the specific client"                               *)
(* (server/full_featured.go:350): what the handler of a subscription sends  *)
(* is addressed to a client.                                                *)
NotifiesTheClient ==
    \A id \in Ids : sends[id].left \subseteq Clients
=============================================================================
