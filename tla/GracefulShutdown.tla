-------------------------- MODULE GracefulShutdown --------------------------
(***************************************************************************)
(* shutdown.GracefulShutdown (shutdown/graceful.go): Register and Shutdown *)
(* of a set of services.  Shutdown holds the manager's mutex from its      *)
(* first line to its last: a grace period and a drain phase that end when  *)
(* no service has a connection or when a timer fires, then every service's *)
(* Stop in a goroutine of its own against the shutdown deadline, then,     *)
(* if any failed, ForceStop of the services that say they are running.     *)
(*                                                                         *)
(* The services are the repository's transports, seen through              *)
(* ShutdownHandler: Stop resets IsRunning first and does its waiting       *)
(* afterwards (transport/http.go:346-352), ForceStop does nothing on a     *)
(* service that is not running (transport/http.go:311-313).                *)
(***************************************************************************)
EXTENDS Naturals, FiniteSets

CONSTANTS Services,           \* services that may be registered
          Callers,            \* goroutines that call Shutdown, once each
          MaxConns            \* bound: connections of a service at a time

VARIABLES services,           \* gs.services
          isRunning,          \* gs.isRunning
          pc,                 \* where each caller of Shutdown is
          goroutine,          \* the goroutine shutdownServices starts per service
          failed,             \* services whose error is in errorChan
          conns,              \* each service's ConnectionCount
          up,                 \* services whose IsRunning says so
          stopped,            \* services whose Stop has returned, and how
          forced              \* services whose ForceStop took effect

vars == <<services, isRunning, pc, goroutine, failed, conns, up, stopped,
          forced>>
serviceVars == <<conns, up, stopped, forced>>

PcStates == {"idle", "grace", "drain", "services", "wait", "force",
             "returnedNil", "returnedError"}
Busy == {"grace", "drain", "services", "wait", "force"}

TypeOK ==
    /\ services \in SUBSET Services
    /\ isRunning \in BOOLEAN
    /\ pc \in [Callers -> PcStates]
    /\ goroutine \in [Services -> {"none", "waiting", "over"}]
    /\ failed \in SUBSET services
    /\ conns \in [Services -> 0..MaxConns]
    /\ up \in SUBSET Services
    /\ stopped \in [Services -> {"no", "stopping", "ok", "error"}]
    /\ forced \in SUBSET Services

Init ==
    /\ services = {}
    /\ isRunning = TRUE
    /\ pc = [c \in Callers |-> "idle"]
    /\ goroutine = [s \in Services |-> "none"]
    /\ failed = {}
    /\ conns = [s \in Services |-> 0]
    /\ up = Services
    /\ stopped = [s \in Services |-> "no"]
    /\ forced = {}

Locked == \E c \in Callers : pc[c] \in Busy
Goto(c, label) == pc' = [pc EXCEPT ![c] = label]

-----------------------------------------------------------------------------

Register(s) ==
    /\ ~Locked
    /\ services' = services \cup {s}
    /\ UNCHANGED <<isRunning, pc, goroutine, failed, serviceVars>>

Shutdown(c) ==
    /\ pc[c] = "idle"
    /\ ~Locked
    /\ Goto(c, IF isRunning THEN "grace" ELSE "returnedNil")
    /\ isRunning' = FALSE
    /\ UNCHANGED <<services, goroutine, failed, serviceVars>>

\* waitForRequestsToComplete and drainConnections poll until no service has a
\* connection; their timers may end them at any moment before.
GraceOver(c) ==
    /\ pc[c] = "grace"
    /\ Goto(c, "drain")
    /\ UNCHANGED <<services, isRunning, goroutine, failed, serviceVars>>

DrainOver(c) ==
    /\ pc[c] = "drain"
    /\ Goto(c, "services")
    /\ UNCHANGED <<services, isRunning, goroutine, failed, serviceVars>>

\* Each service's goroutine starts its Stop and waits for it or the deadline.
ShutdownServices(c) ==
    /\ pc[c] = "services"
    /\ goroutine' = [s \in Services |-> IF s \in services THEN "waiting" ELSE "none"]
    /\ stopped' = [s \in Services |-> IF s \in services THEN "stopping" ELSE stopped[s]]
    /\ Goto(c, "wait")
    /\ UNCHANGED <<services, isRunning, failed, conns, up, forced>>

ServiceResult(s) ==
    /\ goroutine[s] = "waiting"
    /\ stopped[s] \in {"ok", "error"}
    /\ goroutine' = [goroutine EXCEPT ![s] = "over"]
    /\ failed' = IF stopped[s] = "error" THEN failed \cup {s} ELSE failed
    /\ UNCHANGED <<services, isRunning, pc, serviceVars>>

\* The deadline may pass at any moment; by default it is the grace period plus
\* the drain timeout, so after two timeouts it has passed already.
ServiceTimeout(s) ==
    /\ goroutine[s] = "waiting"
    /\ goroutine' = [goroutine EXCEPT ![s] = "over"]
    /\ failed' = failed \cup {s}
    /\ UNCHANGED <<services, isRunning, pc, serviceVars>>

\* Mutant of ServicesDone: no wg.Wait.
ServicesDoneAtOnce(c) ==
    /\ pc[c] = "wait"
    /\ Goto(c, IF failed = {} THEN "returnedNil" ELSE "force")
    /\ UNCHANGED <<services, isRunning, goroutine, failed, serviceVars>>

ServicesDone(c) ==
    /\ pc[c] = "wait"
    /\ \A s \in services : goroutine[s] = "over"
    /\ Goto(c, IF failed = {} THEN "returnedNil" ELSE "force")
    /\ UNCHANGED <<services, isRunning, goroutine, failed, serviceVars>>

\* forceStopServices: ForceStop of the services that are still running.
ForceStopServices(c) ==
    /\ pc[c] = "force"
    /\ forced' = forced \cup (services \cap up)
    /\ up' = up \ services
    /\ Goto(c, "returnedError")
    /\ UNCHANGED <<services, isRunning, goroutine, failed, conns, stopped>>

-----------------------------------------------------------------------------
\* The services (transport.Transport, seen through ShutdownHandler)

ServiceStops(s) ==
    /\ stopped[s] = "stopping" /\ s \in up
    /\ up' = up \ {s}
    /\ UNCHANGED <<services, isRunning, pc, goroutine, failed, conns,
                   stopped, forced>>

\* Stop gives up on its connections with an error, or returns nil without any.
ServiceStopped(s) ==
    /\ stopped[s] = "stopping" /\ s \notin up
    /\ \E result \in {"ok", "error"} :
          /\ conns[s] > 0 => result = "error"
          /\ stopped' = [stopped EXCEPT ![s] = result]
    /\ UNCHANGED <<services, isRunning, pc, goroutine, failed, conns,
                   up, forced>>

Connect(s) ==
    /\ s \in up
    /\ conns[s] < MaxConns
    /\ conns' = [conns EXCEPT ![s] = @ + 1]
    /\ UNCHANGED <<services, isRunning, pc, goroutine, failed, up,
                   stopped, forced>>

Disconnect(s) ==
    /\ conns[s] > 0
    /\ conns' = [conns EXCEPT ![s] = @ - 1]
    /\ UNCHANGED <<services, isRunning, pc, goroutine, failed, up,
                   stopped, forced>>

-----------------------------------------------------------------------------

ShutdownStep(c) ==
    GraceOver(c) \/ DrainOver(c) \/ ShutdownServices(c) \/ ServicesDone(c)
        \/ ForceStopServices(c)
GoroutineStep(s) == ServiceResult(s) \/ ServiceTimeout(s)

Next ==
    \/ \E c \in Callers : Shutdown(c) \/ ShutdownStep(c)
    \/ \E s \in Services :
          \/ Register(s)
          \/ GoroutineStep(s)
          \/ ServiceStops(s) \/ ServiceStopped(s)
          \/ Connect(s) \/ Disconnect(s)

\* Timers fire and the manager's goroutines run.  A caller that waits for the
\* mutex gets it.  Nothing is assumed of the services: one may hang in Stop.
Fairness ==
    /\ \A c \in Callers : WF_vars(ShutdownStep(c))
    /\ \A s \in Services : WF_vars(GoroutineStep(s))

Spec == Init /\ [][Next]_vars
FairSpec == Spec /\ Fairness

-----------------------------------------------------------------------------
\* Properties

(* Shutdown is done once: whoever gets nil from it gets it only after all   *)
(* the services that were registered have stopped without error, or after   *)
(* an earlier Shutdown has returned, whatever came of that one.             *)
NilMeansDone ==
    \A c \in Callers : pc[c] = "returnedNil" =>
        /\ ~isRunning /\ ~Locked
        /\ \/ \A s \in services : goroutine[s] # "none" => stopped[s] = "ok"
           \/ \E d \in Callers \ {c} : pc[d] = "returnedError"

(* Shutdown returns even if a service hangs in Stop: grace, drain and the   *)
(* wait for the services are all bounded.                                   *)
ShutdownReturns ==
    \A c \in Callers :
        pc[c] = "grace" ~> pc[c] \in {"returnedNil", "returnedError"}

(* "Some services failed to shutdown gracefully, forcing stop..."           *)
(* (shutdown/graceful.go:135): when Shutdown returns an error, a service    *)
(* whose Stop is still waiting has been stopped by force.                   *)
HungServiceIsForced ==
    \A s \in Services :
        (\E c \in Callers : pc[c] = "returnedError") /\ stopped[s] = "stopping"
            => s \in forced
=============================================================================
