---------------------------- MODULE Notifications ----------------------------
(***************************************************************************)
(* What carries events to clients: the subscription manager with its loop  *)
(* and fan-out, and the notifier N.  They share no state; a server puts    *)
(* one before the other (FullFeaturedServer).                              *)
(***************************************************************************)
EXTENDS SubscriptionManager

CONSTANTS NotifiedClients,    \* clients the notifier knows
          Names, Senders, Transports, Features, QueueSize, MaxAccepted, MaxHandlers

ASSUME NotifierAssumption ==
    /\ NotifiedClients \subseteq Names /\ Names # {}
    /\ QueueSize \in Nat /\ MaxAccepted \in Nat /\ MaxHandlers \in Nat

VARIABLES clientInfo, stale, handlerCount, phase, closed, queue, accepted, nLoop,
          message, held, untried, sends, nDelivered, fatal

N == INSTANCE Notifier
        WITH Clients <- NotifiedClients, loop <- nLoop, delivered <- nDelivered

notifierVars == <<clientInfo, stale, handlerCount, phase, closed, queue, accepted,
                  nLoop, message, held, untried, sends, nDelivered, fatal>>

(* Handlers see messages in the order of the queue, each accepted by one    *)
(* (notifications/notifier.go, processQueue).                               *)
DeliveredOnceInOrder == N!TypeOK /\ N!DeliveredOnceInOrder
=============================================================================
