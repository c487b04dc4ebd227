-------------------------- MODULE MCNotifications --------------------------
(***************************************************************************)
(* Notifications for TLC: the initial state chooses which of the manager   *)
(* and the notifier runs; the other stays as it starts.                    *)
(***************************************************************************)
EXTENDS Notifications

VARIABLE part

TwoFeatures == {{"progress", "logging"}}

MCInit == Init /\ N!Init /\ part \in {"subscriptions", "notifier"}

MCNext ==
    \/ part = "subscriptions" /\ Next /\ UNCHANGED <<part, notifierVars>>
    \/ part = "notifier" /\ N!Next /\ UNCHANGED <<part, vars>>

\* The part that does not run has nothing to be fair to.
MCSpec ==
    /\ MCInit /\ [][MCNext]_<<part, vars, notifierVars>>
    /\ Fairness /\ N!Fairness

-----------------------------------------------------------------------------

(* Accepted events are handled, and every Stop and every operation that     *)
(* sends returns, in the manager and in the notifier.                       *)
EventsAndSendsEnd == AcceptedEventsHandled /\ StopReturns /\ N!SendsAndStopReturn
=============================================================================
