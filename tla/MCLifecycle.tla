---------------------------- MODULE MCLifecycle ----------------------------
(***************************************************************************)
(* Lifecycle for TLC: the initial state chooses which of the server and    *)
(* the manager runs; the other stays as it starts.                         *)
(***************************************************************************)
EXTENDS Lifecycle

VARIABLE part

MCInit == Init /\ G!Init /\ part \in {"server", "manager"}

MCNext ==
    \/ part = "server" /\ Next /\ UNCHANGED <<part, managerVars>>
    \/ part = "manager" /\ G!Next /\ UNCHANGED <<part, vars>>

\* The part that does not run has nothing to be fair to.
MCSpec ==
    /\ MCInit /\ [][MCNext]_<<part, vars, managerVars>>
    /\ Fairness /\ G!Fairness

-----------------------------------------------------------------------------

(* Every Stop of the server returns, and so does Shutdown, even if a        *)
(* service hangs (server/server.go, shutdown/graceful.go).                  *)
StopsReturn == EveryStopReturns /\ G!ShutdownReturns
=============================================================================
