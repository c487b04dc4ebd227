------------------------------ MODULE Lifecycle ------------------------------
(***************************************************************************)
(* What starts and stops things: the server's lifecycle, and the graceful  *)
(* shutdown manager G that a program uses beside it.  The two share no     *)
(* state.                                                                  *)
(***************************************************************************)
EXTENDS ServerLifecycle

CONSTANTS Services,           \* services registered with the manager
          Closers,            \* goroutines that call Shutdown, once each
          MaxConns            \* bound: connections of a service at a time

ASSUME ManagerAssumption == MaxConns \in Nat

VARIABLES services, isRunning, gpc, goroutine, failed, conns, up, stopped, forced

G == INSTANCE GracefulShutdown WITH Callers <- Closers, pc <- gpc

managerVars == <<services, isRunning, gpc, goroutine, failed, conns, up, stopped, forced>>

(* Whoever gets nil from Shutdown gets it after the services have stopped,  *)
(* or after an earlier Shutdown (shutdown/graceful.go).                     *)
NilMeansDone == G!TypeOK /\ G!NilMeansDone
=============================================================================
