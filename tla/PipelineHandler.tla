-------------------------- MODULE PipelineHandler --------------------------
(***************************************************************************)
(* server.PipelineHandler (server/concurrent.go): callers put work into a  *)
(* buffered channel and wait on a result channel of their own; a fixed set *)
(* of workers takes the work, runs the wrapped handler and sends the       *)
(* result; Shutdown cancels the handler's context and waits for the        *)
(* workers.  Every select statement is a set of actions, one per case: Go  *)
(* may take any case that is ready.                                        *)
(***************************************************************************)
EXTENDS Naturals, Sequences, FiniteSets

CONSTANTS Requests,           \* one identity per call of HandleRequest
          Workers,            \* the goroutines of NewPipelineHandler
          NoWork              \* a worker that holds no work

ASSUME PipelineAssumption ==
    /\ IsFiniteSet(Workers)
    /\ NoWork \notin Requests

VARIABLES caller,             \* where each caller is in HandleRequest
          pipeline,           \* the channel of submitted work
          resultCh,           \* results buffered in each request's channel
          worker,             \* where each worker is in its loop
          work,               \* the work each worker holds
          runs,               \* starts of the wrapped handler, per request
          ctxDone,            \* requests whose own context is done
          closed,             \* ph.ctx is done
          shutdown,           \* where the call of Shutdown is
          late                \* requests called after Shutdown returned

vars == <<caller, pipeline, resultCh, worker, work, runs, ctxDone, closed,
          shutdown, late>>

callerVars == <<caller, late>>
workerVars == <<worker, work, runs>>

Cap == 2 * Cardinality(Workers)
\* Mutant of ResultCap: an unbuffered result channel.
UnbufferedResultCap == 0

ResultCap == 1

CallerStates == {"idle", "submit", "await", "response", "canceled"}
WorkerStates == {"select", "handle", "send", "exited"}

TypeOK ==
    /\ caller \in [Requests -> CallerStates]
    /\ pipeline \in Seq(Requests)
    /\ Len(pipeline) <= Cap
    /\ resultCh \in [Requests -> 0..ResultCap]
    /\ worker \in [Workers -> WorkerStates]
    /\ work \in [Workers -> Requests \cup {NoWork}]
    /\ runs \in [Requests -> Nat]
    /\ ctxDone \in SUBSET Requests
    /\ closed \in BOOLEAN
    /\ shutdown \in {"none", "waiting", "returned"}
    /\ late \in SUBSET Requests

Init ==
    /\ caller = [r \in Requests |-> "idle"]
    /\ pipeline = <<>>
    /\ resultCh = [r \in Requests |-> 0]
    /\ worker = [w \in Workers |-> "select"]
    /\ work = [w \in Workers |-> NoWork]
    /\ runs = [r \in Requests |-> 0]
    /\ ctxDone = {}
    /\ closed = FALSE
    /\ shutdown = "none"
    /\ late = {}

-----------------------------------------------------------------------------
\* HandleRequest

Enter(r) ==
    /\ caller[r] = "idle"
    /\ caller' = [caller EXCEPT ![r] = "submit"]
    /\ late' = IF shutdown = "returned" THEN late \cup {r} ELSE late
    /\ UNCHANGED <<pipeline, resultCh, workerVars, ctxDone, closed, shutdown>>

Submit(r) ==
    /\ caller[r] = "submit"
    /\ Len(pipeline) < Cap
    /\ pipeline' = Append(pipeline, r)
    /\ caller' = [caller EXCEPT ![r] = "await"]
    /\ UNCHANGED <<resultCh, workerVars, ctxDone, closed, shutdown, late>>

Receive(r) ==
    /\ caller[r] = "await"
    /\ resultCh[r] > 0
    /\ resultCh' = [resultCh EXCEPT ![r] = @ - 1]
    /\ caller' = [caller EXCEPT ![r] = "response"]
    /\ UNCHANGED <<pipeline, workerVars, ctxDone, closed, shutdown, late>>

\* Mutant of GiveUp: the case for the handler's own context is missing.
GiveUpOnOwnContext(r) ==
    /\ caller[r] \in {"submit", "await"}
    /\ r \in ctxDone
    /\ caller' = [caller EXCEPT ![r] = "canceled"]
    /\ UNCHANGED <<pipeline, resultCh, workerVars, ctxDone, closed, shutdown,
                   late>>

\* Both selects of HandleRequest also wait for the two contexts.
GiveUp(r) ==
    /\ caller[r] \in {"submit", "await"}
    /\ r \in ctxDone \/ closed
    /\ caller' = [caller EXCEPT ![r] = "canceled"]
    /\ UNCHANGED <<pipeline, resultCh, workerVars, ctxDone, closed, shutdown,
                   late>>

-----------------------------------------------------------------------------
\* pipelineWorker

\* Mutant of Take: reads the work without removing it from the channel.
TakeWithoutRemoving(w) ==
    /\ worker[w] = "select"
    /\ pipeline # <<>>
    /\ work' = [work EXCEPT ![w] = Head(pipeline)]
    /\ worker' = [worker EXCEPT ![w] = "handle"]
    /\ runs' = [runs EXCEPT ![Head(pipeline)] = @ + 1]
    /\ UNCHANGED <<callerVars, pipeline, resultCh, ctxDone, closed, shutdown>>

Take(w) ==
    /\ worker[w] = "select"
    /\ pipeline # <<>>
    /\ work' = [work EXCEPT ![w] = Head(pipeline)]
    /\ pipeline' = Tail(pipeline)
    /\ worker' = [worker EXCEPT ![w] = "handle"]
    /\ runs' = [runs EXCEPT ![Head(pipeline)] = @ + 1]
    /\ UNCHANGED <<callerVars, resultCh, ctxDone, closed, shutdown>>

HandlerReturns(w) ==
    /\ worker[w] = "handle"
    /\ worker' = [worker EXCEPT ![w] = "send"]
    /\ UNCHANGED <<callerVars, pipeline, resultCh, work, runs, ctxDone,
                   closed, shutdown>>

BackToSelect(w) ==
    /\ worker' = [worker EXCEPT ![w] = "select"]
    /\ work' = [work EXCEPT ![w] = NoWork]

Send(w) ==
    /\ worker[w] = "send"
    /\ resultCh[work[w]] < ResultCap
    /\ resultCh' = [resultCh EXCEPT ![work[w]] = @ + 1]
    /\ BackToSelect(w)
    /\ UNCHANGED <<callerVars, pipeline, runs, ctxDone, closed, shutdown>>

Discard(w) ==
    /\ worker[w] = "send"
    /\ work[w] \in ctxDone
    /\ BackToSelect(w)
    /\ UNCHANGED <<callerVars, pipeline, resultCh, runs, ctxDone, closed,
                   shutdown>>

Exit(w) ==
    /\ worker[w] = "select"
    /\ closed
    /\ worker' = [worker EXCEPT ![w] = "exited"]
    /\ UNCHANGED <<callerVars, pipeline, resultCh, work, runs, ctxDone,
                   closed, shutdown>>

-----------------------------------------------------------------------------
\* Shutdown, and the callers' contexts

ShutdownCancel ==
    /\ shutdown = "none"
    /\ closed' = TRUE
    /\ shutdown' = "waiting"
    /\ UNCHANGED <<callerVars, pipeline, resultCh, workerVars, ctxDone>>

\* Mutant of ShutdownReturn: does not wait for the workers.
ShutdownReturnAtOnce ==
    /\ shutdown = "waiting"
    /\ shutdown' = "returned"
    /\ UNCHANGED <<callerVars, pipeline, resultCh, workerVars, ctxDone, closed>>

ShutdownReturn ==
    /\ shutdown = "waiting"
    /\ \A w \in Workers : worker[w] = "exited"
    /\ shutdown' = "returned"
    /\ UNCHANGED <<callerVars, pipeline, resultCh, workerVars, ctxDone, closed>>

CancelContext(r) ==
    /\ r \notin ctxDone
    /\ ctxDone' = ctxDone \cup {r}
    /\ UNCHANGED <<callerVars, pipeline, resultCh, workerVars, closed, shutdown>>

-----------------------------------------------------------------------------

CallerStep(r) == Submit(r) \/ Receive(r) \/ GiveUp(r)
WorkerStep(w) == Take(w) \/ HandlerReturns(w) \/ Send(w) \/ Discard(w) \/ Exit(w)

Next ==
    \/ \E r \in Requests : Enter(r) \/ CallerStep(r) \/ CancelContext(r)
    \/ \E w \in Workers : WorkerStep(w)
    \/ ShutdownCancel
    \/ ShutdownReturn

\* Goroutines are scheduled fairly and the wrapped handler returns; nobody is
\* obliged to call, to cancel or to shut down.
Fairness ==
    /\ \A r \in Requests : WF_vars(CallerStep(r))
    /\ \A w \in Workers : WF_vars(WorkerStep(w))
    /\ WF_vars(ShutdownReturn)

Spec == Init /\ [][Next]_vars
FairSpec == Spec /\ Fairness

-----------------------------------------------------------------------------
\* Properties

(* A worker never blocks on the result channel: whoever else has given up,  *)
(* the one-slot buffer of the request it has just handled is free.          *)
SendNeverBlocks ==
    \A w \in Workers : worker[w] = "send" => resultCh[work[w]] < ResultCap

(* Shutdown waits for the workers: once it has returned the wrapped handler *)
(* is not running, and although a later call may still find room in the     *)
(* channel (its select may take the submit case), it is never handled and   *)
(* never gets a response.                                                   *)
QuietAfterShutdown ==
    shutdown = "returned" =>
        /\ \A w \in Workers : worker[w] \notin {"handle", "send"}
        /\ \A r \in late : runs[r] = 0 /\ caller[r] # "response"

(* A waiting call always returns: with a response, or because a context is  *)
(* done.  Work abandoned in the queue by Shutdown strands no caller.        *)
EveryCallReturns ==
    \A r \in Requests :
        caller[r] = "submit" ~> caller[r] \in {"response", "canceled"}

(* Shutdown returns once the handlers that are running have returned.       *)
ShutdownReturns == shutdown = "waiting" ~> shutdown = "returned"

-----------------------------------------------------------------------------
\* The promise to callers that this handler implements.

callView ==
    [r \in Requests |->
        IF caller[r] \in {"submit", "await"} THEN "waiting" ELSE caller[r]]

Service == INSTANCE RequestService WITH call <- callView

(* PipelineHandler implements RequestService.                               *)
ImplementsService == Service!ServiceSpec
=============================================================================
