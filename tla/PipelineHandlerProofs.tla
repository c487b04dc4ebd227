----------------------- MODULE PipelineHandlerProofs -----------------------
(***************************************************************************)
(* Proofs about PipelineHandler, for every set of requests and every       *)
(* finite set of workers: type correctness, sends that never block, quiet  *)
(* after Shutdown, and the refinement of RequestService.                   *)
(*                                                                         *)
(* A worker finds its result channel empty because the request it holds is *)
(* nowhere else: not in the channel of work, not with another worker, and  *)
(* not handled before.  That is Queued, Held and Progress below, and it is *)
(* inductive only as a whole.  Quiet adds that Shutdown returns after the  *)
(* last worker has left.                                                   *)
(***************************************************************************)
EXTENDS PipelineHandler, FiniteSetTheorems, TLAPS

Busy(w) == worker[w] \in {"handle", "send"}

\* Work in the channel: submitted once, not started.
Queued ==
    /\ \A i \in DOMAIN pipeline :
          /\ runs[pipeline[i]] = 0
          /\ caller[pipeline[i]] \notin {"idle", "submit"}
    /\ \A i, j \in DOMAIN pipeline : pipeline[i] = pipeline[j] => i = j

\* Work held by a worker: started, its result not yet sent, no other's work.
Held ==
    /\ \A w \in Workers :
          Busy(w) => /\ work[w] \in Requests
                     /\ runs[work[w]] = 1
                     /\ resultCh[work[w]] = 0
                     /\ caller[work[w]] # "response"
    /\ \A v, w \in Workers : Busy(v) /\ Busy(w) /\ work[v] = work[w] => v = w

\* How far a request can have come.
Progress ==
    \A r \in Requests :
        /\ runs[r] \in {0, 1}
        /\ caller[r] \in {"idle", "submit"} => runs[r] = 0
        /\ resultCh[r] > 0 \/ caller[r] = "response" => runs[r] = 1

Quiet ==
    /\ shutdown = "returned" => \A w \in Workers : worker[w] = "exited"
    /\ late # {} => shutdown = "returned"
    /\ \A r \in late : runs[r] = 0

IInv == TypeOK /\ Queued /\ Held /\ Progress /\ Quiet

-----------------------------------------------------------------------------
\* Lemmas about the channel of work.

LEMMA CapType == Cap \in Nat
  BY PipelineAssumption, FS_CardinalityType DEF Cap

LEMMA AppendFacts ==
    ASSUME NEW s \in Seq(Requests), NEW r \in Requests
    PROVE  /\ Append(s, r) \in Seq(Requests) /\ Len(Append(s, r)) = Len(s) + 1
           /\ \A i \in DOMAIN Append(s, r) :
                 \/ i \in DOMAIN s /\ Append(s, r)[i] = s[i]
                 \/ i = Len(s) + 1 /\ Append(s, r)[i] = r
  OBVIOUS

LEMMA TailFacts ==
    ASSUME NEW s \in Seq(Requests), s # <<>>
    PROVE  /\ 1 \in DOMAIN s /\ Head(s) = s[1] /\ Head(s) \in Requests
           /\ Tail(s) \in Seq(Requests) /\ Len(Tail(s)) = Len(s) - 1
           /\ \A i \in DOMAIN Tail(s) :
                 i \in Nat \ {0} /\ i + 1 \in DOMAIN s /\ Tail(s)[i] = s[i + 1]
  OBVIOUS

-----------------------------------------------------------------------------

LEMMA InitIInv == Init => IInv
<1> SUFFICES ASSUME Init PROVE IInv
  OBVIOUS
<1>1. TypeOK
  <2>1. 0 \in 0..ResultCap
    BY DEF ResultCap
  <2>2. caller \in [Requests -> CallerStates] /\ worker \in [Workers -> WorkerStates]
    BY DEF Init, CallerStates, WorkerStates
  <2>3. pipeline \in Seq(Requests) /\ Len(pipeline) <= Cap
    BY CapType DEF Init
  <2> QED
    BY <2>1, <2>2, <2>3 DEF Init, TypeOK
<1>2. Queued /\ Held /\ Progress /\ Quiet
  BY DEF Init, Queued, Held, Progress, Quiet, Busy
<1> QED
  BY <1>1, <1>2 DEF IInv

-----------------------------------------------------------------------------
\* Steps of callers.

LEMMA EnterIInv == ASSUME IInv, NEW r \in Requests, Enter(r) PROVE IInv'
<1> USE DEF IInv, Enter, workerVars
<1>1. TypeOK'
  BY DEF TypeOK, CallerStates
<1>2. Queued' /\ Held' /\ Progress'
  BY DEF TypeOK, Queued, Held, Progress, Busy
<1>3. Quiet'
  BY DEF TypeOK, Progress, Quiet
<1> QED
  BY <1>1, <1>2, <1>3

LEMMA SubmitIInv == ASSUME IInv, NEW r \in Requests, Submit(r) PROVE IInv'
<1> USE DEF IInv, Submit, workerVars
<1>1. /\ pipeline \in Seq(Requests) /\ Len(pipeline) < Cap
      /\ pipeline' = Append(pipeline, r)
  BY DEF TypeOK
<1>2. /\ pipeline' \in Seq(Requests) /\ Len(pipeline') = Len(pipeline) + 1
      /\ \A i \in DOMAIN pipeline' :
            \/ i \in DOMAIN pipeline /\ pipeline'[i] = pipeline[i]
            \/ i = Len(pipeline) + 1 /\ pipeline'[i] = r
  BY <1>1, AppendFacts
<1>3. TypeOK'
  <2>1. Len(pipeline') <= Cap
    BY <1>1, <1>2, CapType
  <2> QED
    BY <1>2, <2>1 DEF TypeOK, CallerStates
<1>4. Queued'
  BY <1>2 DEF TypeOK, Queued, Progress
<1>5. Held' /\ Progress' /\ Quiet'
  BY DEF TypeOK, Held, Progress, Quiet, Busy
<1> QED
  BY <1>3, <1>4, <1>5

LEMMA ReceiveIInv == ASSUME IInv, NEW r \in Requests, Receive(r) PROVE IInv'
<1> USE DEF IInv, Receive, workerVars
<1>1. resultCh[r] = 1 /\ resultCh' = [resultCh EXCEPT ![r] = 0]
  <2>1. resultCh[r] \in 0..1 /\ resultCh[r] > 0
    BY DEF TypeOK, ResultCap
  <2>2. resultCh[r] = 1 /\ resultCh[r] - 1 = 0
    BY <2>1
  <2>3. resultCh' = [resultCh EXCEPT ![r] = resultCh[r] - 1]
    OBVIOUS
  <2> QED
    BY <2>2, <2>3
<1>2. TypeOK'
  <2>1. caller' \in [Requests -> CallerStates]
    BY DEF TypeOK, CallerStates
  <2>2. resultCh' \in [Requests -> 0..ResultCap]
    BY <1>1 DEF TypeOK, ResultCap
  <2> QED
    BY <2>1, <2>2 DEF TypeOK
<1>3. Queued' /\ Quiet'
  BY DEF TypeOK, Queued, Quiet
<1>4. Held'
  BY <1>1 DEF TypeOK, Held, Busy
<1>5. Progress'
  BY <1>1 DEF TypeOK, Progress
<1> QED
  BY <1>2, <1>3, <1>4, <1>5

LEMMA GiveUpIInv == ASSUME IInv, NEW r \in Requests, GiveUp(r) PROVE IInv'
<1> USE DEF IInv, GiveUp, workerVars
<1>1. TypeOK'
  BY DEF TypeOK, CallerStates
<1>2. Queued' /\ Held' /\ Progress' /\ Quiet'
  BY DEF TypeOK, Queued, Held, Progress, Quiet, Busy
<1> QED
  BY <1>1, <1>2

-----------------------------------------------------------------------------
\* Steps of workers.

LEMMA TakeIInv == ASSUME IInv, NEW w \in Workers, Take(w) PROVE IInv'
<1> DEFINE r == Head(pipeline)
<1>1. /\ pipeline \in Seq(Requests) /\ pipeline # <<>> /\ pipeline' = Tail(pipeline)
      /\ Len(pipeline) <= Cap
  BY DEF IInv, TypeOK, Take
<1>2. /\ 1 \in DOMAIN pipeline /\ r = pipeline[1] /\ r \in Requests
      /\ pipeline' \in Seq(Requests) /\ Len(pipeline') = Len(pipeline) - 1
      /\ \A i \in DOMAIN pipeline' :
            /\ i \in Nat \ {0} /\ i + 1 \in DOMAIN pipeline
            /\ pipeline'[i] = pipeline[i + 1]
  BY <1>1, TailFacts
<1>3. /\ work' = [work EXCEPT ![w] = r] /\ worker' = [worker EXCEPT ![w] = "handle"]
      /\ runs' = [runs EXCEPT ![r] = @ + 1] /\ worker[w] = "select"
      /\ UNCHANGED <<caller, late, resultCh, ctxDone, closed, shutdown>>
  BY DEF Take, callerVars
<1>4. runs[r] = 0 /\ caller[r] \notin {"idle", "submit"}
  BY <1>2 DEF IInv, Queued
<1>5. \A i \in DOMAIN pipeline' : pipeline'[i] # r
  BY <1>2 DEF IInv, Queued
<1> HIDE DEF r
<1>6. TypeOK'
  <2>1. worker' \in [Workers -> WorkerStates]
    BY <1>3 DEF IInv, TypeOK, WorkerStates
  <2>2. Len(pipeline') <= Cap
    BY <1>1, <1>2, CapType
  <2> QED
    BY <1>2, <1>3, <2>1, <2>2 DEF IInv, TypeOK
<1>7. Queued'
  <2>1. \A i \in DOMAIN pipeline' :
           runs'[pipeline'[i]] = 0 /\ caller'[pipeline'[i]] \notin {"idle", "submit"}
    BY <1>2, <1>3, <1>5 DEF IInv, TypeOK, Queued
  <2>2. \A i, j \in DOMAIN pipeline' : pipeline'[i] = pipeline'[j] => i = j
    BY <1>2 DEF IInv, Queued
  <2> QED
    BY <2>1, <2>2 DEF Queued
<1>8. Held'
  <2>1. resultCh[r] = 0 /\ caller[r] # "response"
    BY <1>2, <1>4 DEF IInv, TypeOK, Progress, ResultCap
  <2>2. \A v \in Workers : Busy(v) => work[v] # r
    BY <1>4 DEF IInv, Held
  <2> QED
    BY <1>2, <1>3, <1>4, <2>1, <2>2 DEF IInv, TypeOK, Held, Busy
<1>9. Progress' /\ Quiet'
  BY <1>2, <1>3, <1>4 DEF IInv, TypeOK, Progress, Quiet
<1> QED
  BY <1>6, <1>7, <1>8, <1>9 DEF IInv

LEMMA WorkerStepIInv ==
    ASSUME IInv, NEW w \in Workers, WorkerStep(w)
    PROVE  IInv'
<1> USE DEF IInv, callerVars
<1>1. CASE Take(w)
  BY <1>1, TakeIInv
<1>2. CASE HandlerReturns(w)
  <2>1. TypeOK'
    BY <1>2 DEF TypeOK, HandlerReturns, WorkerStates
  <2>2. Queued' /\ Held' /\ Progress' /\ Quiet'
    BY <1>2 DEF HandlerReturns, TypeOK, Queued, Held, Progress, Quiet, Busy
  <2> QED
    BY <2>1, <2>2
<1>3. CASE Send(w)
  <2>1. /\ work[w] \in Requests /\ runs[work[w]] = 1
        /\ resultCh' = [resultCh EXCEPT ![work[w]] = 1]
    <3>1. work[w] \in Requests /\ runs[work[w]] = 1 /\ resultCh[work[w]] = 0
      BY <1>3 DEF Send, Held, Busy
    <3>2. resultCh' = [resultCh EXCEPT ![work[w]] = resultCh[work[w]] + 1]
      BY <1>3 DEF Send
    <3>3. resultCh[work[w]] + 1 = 1
      BY <3>1
    <3> QED
      BY <3>1, <3>2, <3>3
  <2>2. TypeOK'
    <3>1. resultCh' \in [Requests -> 0..ResultCap]
      BY <2>1 DEF TypeOK, ResultCap
    <3>2. worker' \in [Workers -> WorkerStates] /\ work' \in [Workers -> Requests \cup {NoWork}]
      BY <1>3 DEF TypeOK, Send, BackToSelect, WorkerStates
    <3> QED
      BY <1>3, <3>1, <3>2 DEF TypeOK, Send
  <2>3. Queued' /\ Quiet'
    BY <1>3 DEF Send, BackToSelect, TypeOK, Queued, Quiet
  <2>4. Held'
    BY <1>3, <2>1 DEF Send, BackToSelect, TypeOK, Held, Busy
  <2>5. Progress'
    BY <1>3, <2>1 DEF Send, TypeOK, Progress
  <2> QED
    BY <2>2, <2>3, <2>4, <2>5
<1>4. CASE Discard(w)
  <2>1. TypeOK'
    BY <1>4 DEF TypeOK, Discard, BackToSelect, WorkerStates
  <2>2. Queued' /\ Held' /\ Progress' /\ Quiet'
    BY <1>4 DEF Discard, BackToSelect, TypeOK, Queued, Held, Progress, Quiet, Busy
  <2> QED
    BY <2>1, <2>2
<1>5. CASE Exit(w)
  <2>1. TypeOK'
    BY <1>5 DEF TypeOK, Exit, WorkerStates
  <2>2. Queued' /\ Held' /\ Progress' /\ Quiet'
    BY <1>5 DEF Exit, TypeOK, Queued, Held, Progress, Quiet, Busy
  <2> QED
    BY <2>1, <2>2
<1> QED
  BY <1>1, <1>2, <1>3, <1>4, <1>5 DEF WorkerStep

-----------------------------------------------------------------------------
\* Shutdown, contexts, and all of it.

LEMMA OtherStepIInv ==
    ASSUME IInv,
           \/ ShutdownCancel \/ ShutdownReturn \/ UNCHANGED vars
           \/ \E r \in Requests : CancelContext(r)
    PROVE  IInv'
<1> USE DEF IInv, callerVars, workerVars
<1>1. CASE ShutdownCancel \/ ShutdownReturn
  BY <1>1 DEF ShutdownCancel, ShutdownReturn, TypeOK, Queued, Held, Progress, Quiet, Busy
<1>2. CASE UNCHANGED vars
  BY <1>2 DEF vars, TypeOK, Queued, Held, Progress, Quiet, Busy
<1>3. CASE \E r \in Requests : CancelContext(r)
  BY <1>3 DEF CancelContext, TypeOK, Queued, Held, Progress, Quiet, Busy
<1> QED
  BY <1>1, <1>2, <1>3

LEMMA NextIInv == IInv /\ [Next]_vars => IInv'
<1> SUFFICES ASSUME IInv, [Next]_vars PROVE IInv'
  OBVIOUS
<1>1. ASSUME NEW r \in Requests, Enter(r) \/ CallerStep(r)
      PROVE  IInv'
  BY <1>1, EnterIInv, SubmitIInv, ReceiveIInv, GiveUpIInv DEF CallerStep
<1>2. ASSUME NEW w \in Workers, WorkerStep(w)
      PROVE  IInv'
  BY <1>2, WorkerStepIInv
<1> QED
  BY <1>1, <1>2, OtherStepIInv DEF Next

-----------------------------------------------------------------------------
\* The results.

(* The inductive invariant holds throughout.                                *)
THEOREM Invariance == Spec => []IInv
  BY InitIInv, NextIInv, PTL DEF Spec

(* Every variable keeps its type; in particular the channel of work never   *)
(* holds more than its buffer and no result channel more than one result.   *)
THEOREM TypeCorrect == Spec => []TypeOK
  BY Invariance, PTL DEF IInv

(* For every number of calls and workers, a worker that sends a result      *)
(* finds the slot of the channel free, whether or not its caller has left.  *)
THEOREM WorkersNeverBlock == Spec => []SendNeverBlocks
<1>1. IInv => SendNeverBlocks
  BY DEF IInv, Held, Busy, SendNeverBlocks, ResultCap
<1> QED
  BY <1>1, Invariance, PTL

(* After Shutdown has returned nothing is handled, and a call made later    *)
(* never gets a response, for every number of calls and workers.            *)
THEOREM ShutdownIsQuiet == Spec => []QuietAfterShutdown
<1>1. IInv => QuietAfterShutdown
  BY DEF IInv, TypeOK, Progress, Quiet, QuietAfterShutdown
<1> QED
  BY <1>1, Invariance, PTL

-----------------------------------------------------------------------------
\* The refinement: each step is a step of the service or leaves it unchanged.

LEMMA ViewMoves ==
    ASSUME TypeOK, NEW r \in Requests, NEW pc \in CallerStates,
           caller' = [caller EXCEPT ![r] = pc]
    PROVE  callView' = [callView EXCEPT ![r] =
               IF pc \in {"submit", "await"} THEN "waiting" ELSE pc]
  BY DEF TypeOK, callView

LEMMA RefineCaller ==
    ASSUME IInv, NEW r \in Requests, Enter(r) \/ CallerStep(r)
    PROVE  [Service!ServiceNext]_(Service!serviceVars)
<1> USE DEF CallerStates, workerVars
<1>t. TypeOK
  BY DEF IInv
<1>1. CASE Enter(r)
  <2>1. callView[r] = "idle" /\ callView' = [callView EXCEPT ![r] = "waiting"]
    BY <1>t, <1>1, ViewMoves DEF Enter, callView
  <2> QED
    BY <1>1, <2>1 DEF Enter, Service!Call, Service!ServiceNext
<1>2. CASE Submit(r)
  <2>1. callView' = callView
    BY <1>t, <1>2 DEF Submit, TypeOK, callView
  <2> QED
    BY <1>2, <2>1 DEF Submit, Service!serviceVars
<1>3. CASE Receive(r)
  <2>1. callView[r] = "waiting" /\ callView' = [callView EXCEPT ![r] = "response"]
    BY <1>t, <1>3, ViewMoves DEF Receive, callView
  <2>2. runs[r] = 1
    BY <1>3 DEF IInv, Progress, Receive
  <2> QED
    BY <1>3, <2>1, <2>2 DEF Receive, Service!Respond, Service!ServiceNext
<1>4. CASE GiveUp(r)
  <2>1. callView[r] = "waiting" /\ callView' = [callView EXCEPT ![r] = "canceled"]
    BY <1>t, <1>4, ViewMoves DEF GiveUp, callView
  <2> QED
    BY <1>4, <2>1 DEF GiveUp, Service!Abort, Service!ServiceNext
<1> QED
  BY <1>1, <1>2, <1>3, <1>4 DEF CallerStep

LEMMA RefineWorker ==
    ASSUME IInv, NEW w \in Workers, WorkerStep(w)
    PROVE  [Service!ServiceNext]_(Service!serviceVars)
<1>1. UNCHANGED <<caller, ctxDone, closed>> /\ callView' = callView
  BY DEF WorkerStep, Take, HandlerReturns, Send, Discard, Exit, callerVars, callView
<1>2. CASE Take(w)
  <2> DEFINE r == Head(pipeline)
  <2>1. r = pipeline[1] /\ 1 \in DOMAIN pipeline /\ r \in Requests
    BY <1>2, TailFacts DEF IInv, TypeOK, Take
  <2>2. runs[r] = 0 /\ callView[r] \notin {"idle", "rejected"}
    BY <2>1 DEF IInv, TypeOK, Queued, callView, CallerStates
  <2>3. runs' = [q \in Requests |-> IF q \in {r} THEN 1 ELSE runs[q]]
    <3>1. runs \in [Requests -> Nat] /\ runs' = [runs EXCEPT ![r] = runs[r] + 1]
      BY <1>2 DEF IInv, TypeOK, Take
    <3>2. runs[r] + 1 = 1
      BY <2>2
    <3> HIDE DEF r
    <3> QED
      BY <3>1, <3>2
  <2>4. Service!Run({r})
    BY <1>1, <2>2, <2>3 DEF Service!Run
  <2> QED
    BY <2>1, <2>4 DEF Service!ServiceNext
<1>3. CASE HandlerReturns(w) \/ Send(w) \/ Discard(w) \/ Exit(w)
  BY <1>1, <1>3 DEF HandlerReturns, Send, Discard, Exit, Service!serviceVars
<1> QED
  BY <1>2, <1>3 DEF WorkerStep

LEMMA RefineOther ==
    ASSUME \/ ShutdownCancel \/ ShutdownReturn \/ UNCHANGED vars
           \/ \E r \in Requests : CancelContext(r)
    PROVE  [Service!ServiceNext]_(Service!serviceVars)
<1> USE DEF callerVars, workerVars, callView
<1>1. CASE ShutdownCancel
  BY <1>1 DEF ShutdownCancel, Service!Close, Service!ServiceNext
<1>2. CASE ShutdownReturn
  BY <1>2 DEF ShutdownReturn, Service!serviceVars
<1>3. CASE UNCHANGED vars
  BY <1>3 DEF vars, Service!serviceVars
<1>4. CASE \E r \in Requests : CancelContext(r)
  BY <1>4 DEF CancelContext, Service!CtxDone, Service!ServiceNext
<1> QED
  BY <1>1, <1>2, <1>3, <1>4

(* PipelineHandler keeps the promise of RequestService for every number of  *)
(* calls and workers: at most one run of the handler for each call, a       *)
(* response only after it, a failure only when a context is done.           *)
THEOREM Refinement == Spec => ImplementsService
<1>1. Init => Service!ServiceInit
  BY DEF Init, Service!ServiceInit, callView
<1>2. IInv /\ [Next]_vars => [Service!ServiceNext]_(Service!serviceVars)
  BY RefineCaller, RefineWorker, RefineOther DEF Next
<1> QED
  BY <1>1, <1>2, Invariance, PTL DEF Spec, ImplementsService, Service!ServiceSpec
=============================================================================
