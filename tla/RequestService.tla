--------------------------- MODULE RequestService ---------------------------
(***************************************************************************)
(* What every implementation of the Go interface server.RequestHandler     *)
(* that puts a queue between caller and handler promises its callers:      *)
(*                                                                         *)
(*   - the wrapped handler runs at most once for each request;             *)
(*   - a call returns a response only if the handler ran for it, and the   *)
(*     handler never starts for a call that was rejected;                  *)
(*   - a call fails with a cancellation only if its own context or the     *)
(*     service's was cancelled.                                            *)
(*                                                                         *)
(* A call that was cancelled may still be handled: its work item stays in  *)
(* the queue when the caller leaves.                                       *)
(***************************************************************************)
EXTENDS Naturals

CONSTANTS Requests            \* identities of HandleRequest calls

VARIABLES call,               \* what each caller knows of its request
          runs,               \* how often the wrapped handler was started
          ctxDone,            \* requests whose own context is done
          closed              \* the service's context is done

serviceVars == <<call, runs, ctxDone, closed>>

CallStates == {"idle", "waiting", "response", "canceled", "rejected"}

ServiceInit ==
    /\ call = [r \in Requests |-> "idle"]
    /\ runs = [r \in Requests |-> 0]
    /\ ctxDone = {}
    /\ closed = FALSE

Call(r) ==
    /\ call[r] = "idle"
    /\ call' = [call EXCEPT ![r] = "waiting"]
    /\ UNCHANGED <<runs, ctxDone, closed>>

\* Several handlers may start at once, as those of a batch do.
Run(R) ==
    /\ \A r \in R : call[r] \notin {"idle", "rejected"} /\ runs[r] = 0
    /\ runs' = [r \in Requests |-> IF r \in R THEN 1 ELSE runs[r]]
    /\ UNCHANGED <<call, ctxDone, closed>>

Respond(r) ==
    /\ call[r] = "waiting"
    /\ runs[r] = 1
    /\ call' = [call EXCEPT ![r] = "response"]
    /\ UNCHANGED <<runs, ctxDone, closed>>

Abort(r) ==
    /\ call[r] = "waiting"
    /\ r \in ctxDone \/ closed
    /\ call' = [call EXCEPT ![r] = "canceled"]
    /\ UNCHANGED <<runs, ctxDone, closed>>

Reject(r) ==
    /\ call[r] = "waiting"
    /\ runs[r] = 0
    /\ call' = [call EXCEPT ![r] = "rejected"]
    /\ UNCHANGED <<runs, ctxDone, closed>>

CtxDone(r) ==
    /\ ctxDone' = ctxDone \cup {r}
    /\ UNCHANGED <<call, runs, closed>>

Close ==
    /\ closed' = TRUE
    /\ UNCHANGED <<call, runs, ctxDone>>

ServiceNext ==
    \/ \E r \in Requests : Call(r) \/ Respond(r) \/ Abort(r) \/ Reject(r)
                            \/ CtxDone(r)
    \/ \E R \in SUBSET Requests : Run(R)
    \/ Close

ServiceSpec == ServiceInit /\ [][ServiceNext]_serviceVars
=============================================================================
