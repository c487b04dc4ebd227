-------------------------- MODULE ConcurrentHandler --------------------------
(***************************************************************************)
(* server.ConcurrentHandler (server/concurrent.go): admission by a counter *)
(* of active requests, a buffered channel of work, a pool of workers, and  *)
(* Shutdown with a deadline.  The admission check loads the counter and    *)
(* adds to it in two atomic operations.                                    *)
(*                                                                         *)
(* processWork defers activeWork.Store(nil); atomic.Value panics when nil  *)
(* is stored, and no goroutine of the pool recovers, so the deferred call  *)
(* ends the process: `crashed`.                                            *)
(***************************************************************************)
EXTENDS Integers, Sequences, FiniteSets

CONSTANTS Requests,           \* one identity per call of HandleRequest
          Workers,            \* the goroutines of NewConcurrentHandler
          MaxQueueSize,       \* opts.MaxQueueSize
          NoWork              \* a worker that holds no work

ASSUME ConcurrentAssumption ==
    /\ IsFiniteSet(Requests)
    /\ MaxQueueSize \in Nat
    /\ NoWork \notin Requests

VARIABLES caller,             \* where each caller is in HandleRequest
          requestChan,        \* submitted work
          respChan,           \* responses buffered in each call's channel
          worker, work,       \* where each worker is, and what it holds
          runs,               \* starts of the wrapped handler, per request
          activeRequests, totalRequests, rejectedRequests,
          ctxDone,            \* requests whose own context is done
          closed,             \* ch.ctx is done
          shutdown,           \* where the call of Shutdown is
          late,               \* requests called after Shutdown returned nil
          crashed             \* a panic ended the process

counters == <<activeRequests, totalRequests, rejectedRequests>>
callerVars == <<caller, late>>
workerVars == <<worker, work, runs>>
controlVars == <<ctxDone, closed, shutdown>>
vars == <<callerVars, requestChan, respChan, workerVars, counters, controlVars,
          crashed>>

RespCap == 1

\* "gotResponse" and "gotError": the select is decided, the deferred decrement
\* of activeRequests is still to run.
CallerStates == {"idle", "check", "admitted", "submit", "await", "gotResponse",
                 "gotError", "response", "canceled", "rejected"}
Inside == {"submit", "await", "gotResponse", "gotError"}
WorkerStates == {"select", "handle", "send", "clear", "exited"}

TypeOK ==
    /\ caller \in [Requests -> CallerStates]
    /\ requestChan \in Seq(Requests)
    /\ Len(requestChan) <= MaxQueueSize
    /\ respChan \in [Requests -> 0..RespCap]
    /\ worker \in [Workers -> WorkerStates]
    /\ work \in [Workers -> Requests \cup {NoWork}]
    /\ runs \in [Requests -> Nat]
    /\ activeRequests \in Int /\ totalRequests \in Nat /\ rejectedRequests \in Nat
    /\ ctxDone \in SUBSET Requests
    /\ closed \in BOOLEAN
    /\ shutdown \in {"none", "waiting", "ok", "deadline"}
    /\ late \in SUBSET Requests
    /\ crashed \in BOOLEAN

Init ==
    /\ caller = [r \in Requests |-> "idle"]
    /\ requestChan = <<>>
    /\ respChan = [r \in Requests |-> 0]
    /\ worker = [w \in Workers |-> "select"]
    /\ work = [w \in Workers |-> NoWork]
    /\ runs = [r \in Requests |-> 0]
    /\ activeRequests = 0 /\ totalRequests = 0 /\ rejectedRequests = 0
    /\ ctxDone = {}
    /\ closed = FALSE
    /\ shutdown = "none"
    /\ late = {}
    /\ crashed = FALSE

Goto(r, pc) == caller' = [caller EXCEPT ![r] = pc]

-----------------------------------------------------------------------------
\* HandleRequest

Enter(r) ==
    /\ caller[r] = "idle"
    /\ totalRequests' = totalRequests + 1
    /\ Goto(r, "check")
    /\ late' = IF shutdown = "ok" THEN late \cup {r} ELSE late
    /\ UNCHANGED <<requestChan, respChan, workerVars, activeRequests,
                   rejectedRequests, controlVars>>

CheckCapacity(r) ==
    /\ caller[r] = "check"
    /\ IF activeRequests >= MaxQueueSize
       THEN /\ rejectedRequests' = rejectedRequests + 1
            /\ Goto(r, "rejected")
       ELSE /\ Goto(r, "admitted")
            /\ UNCHANGED rejectedRequests
    /\ UNCHANGED <<late, requestChan, respChan, workerVars, activeRequests,
                   totalRequests, controlVars>>

Activate(r) ==
    /\ caller[r] = "admitted"
    /\ activeRequests' = activeRequests + 1
    /\ Goto(r, "submit")
    /\ UNCHANGED <<late, requestChan, respChan, workerVars, totalRequests,
                   rejectedRequests, controlVars>>

\* MaxQueueSize = 0 makes an unbuffered channel, but then no call is admitted.
Submit(r) ==
    /\ caller[r] = "submit"
    /\ Len(requestChan) < MaxQueueSize
    /\ requestChan' = Append(requestChan, r)
    /\ Goto(r, "await")
    /\ UNCHANGED <<late, respChan, workerVars, counters, controlVars>>

Receive(r) ==
    /\ caller[r] = "await"
    /\ respChan[r] > 0
    /\ respChan' = [respChan EXCEPT ![r] = @ - 1]
    /\ Goto(r, "gotResponse")
    /\ UNCHANGED <<late, requestChan, workerVars, counters, controlVars>>

\* Mutant of GiveUp: the case for the handler's own context is missing.
GiveUpOnOwnContext(r) ==
    /\ caller[r] \in {"submit", "await"}
    /\ r \in ctxDone
    /\ Goto(r, "gotError")
    /\ UNCHANGED <<late, requestChan, respChan, workerVars, counters,
                   controlVars>>

\* Mutant of GiveUp: a default case gives up when the channel is full.
GiveUpWhenFull(r) ==
    /\ \/ caller[r] = "submit" /\ Len(requestChan) = MaxQueueSize
       \/ caller[r] = "await" /\ (r \in ctxDone \/ closed)
    /\ Goto(r, "gotError")
    /\ UNCHANGED <<late, requestChan, respChan, workerVars, counters,
                   controlVars>>

GiveUp(r) ==
    /\ caller[r] \in {"submit", "await"}
    /\ r \in ctxDone \/ closed
    /\ Goto(r, "gotError")
    /\ UNCHANGED <<late, requestChan, respChan, workerVars, counters,
                   controlVars>>

\* Mutant of Return: only a call with a response is uncounted.
ReturnCountingErrors(r) ==
    /\ caller[r] \in {"gotResponse", "gotError"}
    /\ Goto(r, IF caller[r] = "gotResponse" THEN "response" ELSE "canceled")
    /\ activeRequests' = IF caller[r] = "gotResponse" THEN activeRequests - 1
                         ELSE activeRequests
    /\ UNCHANGED <<late, requestChan, respChan, workerVars, totalRequests,
                   rejectedRequests, controlVars>>

Return(r) ==
    /\ caller[r] \in {"gotResponse", "gotError"}
    /\ Goto(r, IF caller[r] = "gotResponse" THEN "response" ELSE "canceled")
    /\ activeRequests' = activeRequests - 1
    /\ UNCHANGED <<late, requestChan, respChan, workerVars, totalRequests,
                   rejectedRequests, controlVars>>

-----------------------------------------------------------------------------
\* worker.run and processWork

Take(w) ==
    /\ worker[w] = "select"
    /\ requestChan # <<>>
    /\ work' = [work EXCEPT ![w] = Head(requestChan)]
    /\ requestChan' = Tail(requestChan)
    /\ runs' = [runs EXCEPT ![Head(requestChan)] = @ + 1]
    /\ worker' = [worker EXCEPT ![w] = "handle"]
    /\ UNCHANGED <<callerVars, respChan, counters, controlVars>>

HandlerReturns(w) ==
    /\ worker[w] = "handle"
    /\ worker' = [worker EXCEPT ![w] = "send"]
    /\ UNCHANGED <<callerVars, requestChan, respChan, work, runs, counters,
                   controlVars>>

SendResponse(w) ==
    /\ worker[w] = "send"
    /\ respChan[work[w]] < RespCap
    /\ respChan' = [respChan EXCEPT ![work[w]] = @ + 1]
    /\ worker' = [worker EXCEPT ![w] = "clear"]
    /\ UNCHANGED <<callerVars, requestChan, work, runs, counters, controlVars>>

Discard(w) ==
    /\ worker[w] = "send"
    /\ work[w] \in ctxDone \/ closed
    /\ worker' = [worker EXCEPT ![w] = "clear"]
    /\ UNCHANGED <<callerVars, requestChan, respChan, work, runs, counters,
                   controlVars>>

Exit(w) ==
    /\ worker[w] = "select"
    /\ closed
    /\ worker' = [worker EXCEPT ![w] = "exited"]
    /\ UNCHANGED <<callerVars, requestChan, respChan, work, runs, counters,
                   controlVars>>

\* The deferred activeWork.Store(nil), and what it does to the process.
ClearActiveWork(w) ==
    /\ worker[w] = "clear"
    /\ crashed' = TRUE
    /\ UNCHANGED <<callerVars, requestChan, respChan, workerVars, counters,
                   controlVars>>

-----------------------------------------------------------------------------
\* Shutdown, and the callers' contexts

ShutdownCancel ==
    /\ shutdown = "none"
    /\ closed' = TRUE
    /\ shutdown' = "waiting"
    /\ UNCHANGED <<callerVars, requestChan, respChan, workerVars, counters,
                   ctxDone>>

\* Mutant of ShutdownDone: does not wait for the workers.
ShutdownDoneAtOnce ==
    /\ shutdown = "waiting"
    /\ shutdown' = "ok"
    /\ UNCHANGED <<callerVars, requestChan, respChan, workerVars, counters,
                   ctxDone, closed>>

ShutdownDone ==
    /\ shutdown = "waiting"
    /\ \A w \in Workers : worker[w] = "exited"
    /\ shutdown' = "ok"
    /\ UNCHANGED <<callerVars, requestChan, respChan, workerVars, counters,
                   ctxDone, closed>>

ShutdownDeadline ==
    /\ shutdown = "waiting"
    /\ shutdown' = "deadline"
    /\ UNCHANGED <<callerVars, requestChan, respChan, workerVars, counters,
                   ctxDone, closed>>

CancelContext(r) ==
    /\ r \notin ctxDone
    /\ ctxDone' = ctxDone \cup {r}
    /\ UNCHANGED <<callerVars, requestChan, respChan, workerVars, counters,
                   closed, shutdown>>

-----------------------------------------------------------------------------

CallerStep(r) ==
    CheckCapacity(r) \/ Activate(r) \/ Submit(r) \/ Receive(r) \/ GiveUp(r)
        \/ Return(r)
WorkerStep(w) == Take(w) \/ HandlerReturns(w) \/ SendResponse(w) \/ Discard(w)
                    \/ Exit(w)
ShutdownStep == ShutdownDone \/ ShutdownDeadline
Running == ~crashed /\ UNCHANGED crashed

Next ==
    \/ \E r \in Requests :
          /\ Running
          /\ Enter(r) \/ CallerStep(r) \/ CancelContext(r)
    \/ \E w \in Workers : Running /\ WorkerStep(w)
    \/ Running /\ (ShutdownCancel \/ ShutdownStep)
    \/ \E w \in Workers : ~crashed /\ ClearActiveWork(w)

\* Goroutines are scheduled fairly, the wrapped handler returns and Shutdown's
\* timer fires; nobody is obliged to call, to cancel or to shut down.
Fairness ==
    /\ \A r \in Requests : WF_vars(Running /\ CallerStep(r))
    /\ \A w \in Workers : /\ WF_vars(Running /\ WorkerStep(w))
                          /\ WF_vars(~crashed /\ ClearActiveWork(w))
    /\ WF_vars(Running /\ ShutdownStep)

Spec == Init /\ [][Next]_vars
FairSpec == Spec /\ Fairness

-----------------------------------------------------------------------------
\* Properties

(* The counters agree with the callers whatever path a call takes out of    *)
(* HandleRequest: activeRequests counts the calls past admission that have  *)
(* not returned, and every call is counted in total, at most once in        *)
(* rejected.                                                                *)
CountersAgree ==
    /\ activeRequests = Cardinality({r \in Requests : caller[r] \in Inside})
    /\ totalRequests = Cardinality({r \in Requests : caller[r] # "idle"})
    /\ rejectedRequests = Cardinality({r \in Requests : caller[r] = "rejected"})

(* When Shutdown returns nil no worker is inside the wrapped handler, and a *)
(* call made afterwards is never handled and never answered, although the   *)
(* capacity check lets it in.                                               *)
QuietAfterShutdown ==
    shutdown = "ok" =>
        /\ \A w \in Workers : worker[w] \notin {"handle", "send"}
        /\ \A r \in late : runs[r] = 0 /\ caller[r] # "response"

(* A call always returns, unless the process ends first.                    *)
EveryCallReturns ==
    \A r \in Requests :
        caller[r] = "check" ~>
            (caller[r] \in {"response", "canceled", "rejected"} \/ crashed)

(* "run is the worker loop" (server/concurrent.go:200): a worker that has   *)
(* finished an item goes on with its loop, and the process with it.         *)
WorkerSurvivesItem == ~crashed

-----------------------------------------------------------------------------
\* The promise to callers that this handler implements.

callView ==
    [r \in Requests |->
        CASE caller[r] \in {"check", "admitted", "submit", "await"} -> "waiting"
          [] caller[r] = "gotResponse" -> "response"
          [] caller[r] = "gotError"    -> "canceled"
          [] OTHER                     -> caller[r]]

Service == INSTANCE RequestService WITH call <- callView

(* ConcurrentHandler implements RequestService, crash or no crash.          *)
ImplementsService == Service!ServiceSpec
=============================================================================
