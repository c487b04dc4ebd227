--------------------------- MODULE BatchProcessor ---------------------------
(***************************************************************************)
(* server.BatchProcessor (server/concurrent.go): calls are collected under *)
(* a mutex into a batch; the call that fills it, or a timer callback armed *)
(* by the first call of a batch, runs the whole batch in parallel and      *)
(* keeps the mutex until every item is finished.  timer.Stop does not stop *)
(* a callback that has already fired and waits for the mutex: it runs      *)
(* later, on whatever batch it finds.                                      *)
(***************************************************************************)
EXTENDS Naturals, Sequences, FiniteSets

CONSTANTS Requests,           \* one identity per call of HandleRequest
          BatchSize           \* opts.BatchSize

ASSUME BatchAssumption == BatchSize \in Nat

VARIABLES caller,             \* where each caller is in HandleRequest
          locked,             \* bp.mu is held by a call or callback that flushes
          batch,              \* bp.batch
          timer,              \* bp.timer: an index into timers, or NilTimer
          timers,             \* every timer armed so far, and what became of it
          item,               \* the goroutine of each item of a batch
          resultCh,           \* results buffered in each call's channel
          runs,               \* starts of the wrapped handler, per request
          ctxDone             \* requests whose own context is done

batchVars == <<locked, batch, timer, timers>>
vars == <<caller, batchVars, item, resultCh, runs, ctxDone>>

NilTimer == 0
ResultCap == 1

CallerStates == {"idle", "lock", "flush", "await", "response", "canceled"}
TimerStates == {"armed", "fired", "flush", "over"}
ItemStates == {"none", "handle", "send", "finished"}

TypeOK ==
    /\ caller \in [Requests -> CallerStates]
    /\ locked \in BOOLEAN
    /\ batch \in Seq(Requests)
    /\ timer \in Nat
    /\ timers \in Seq(TimerStates)
    /\ item \in [Requests -> ItemStates]
    /\ resultCh \in [Requests -> 0..ResultCap]
    /\ runs \in [Requests -> Nat]
    /\ ctxDone \in SUBSET Requests

Init ==
    /\ caller = [r \in Requests |-> "idle"]
    /\ locked = FALSE
    /\ batch = <<>>
    /\ timer = NilTimer
    /\ timers = <<>>
    /\ item = [r \in Requests |-> "none"]
    /\ resultCh = [r \in Requests |-> 0]
    /\ runs = [r \in Requests |-> 0]
    /\ ctxDone = {}

Goto(r, pc) == caller' = [caller EXCEPT ![r] = pc]
InBatch(b) == {b[i] : i \in DOMAIN b}

\* timer.Stop: only an armed timer can be stopped.
StopTimer(ts, t) ==
    IF t # NilTimer /\ ts[t] = "armed" THEN [ts EXCEPT ![t] = "over"] ELSE ts

\* Mutant of ProcessBatchLocked: the stopped timer is not set to nil.
ProcessBatchKeepingTimer(b, ts) ==
    /\ locked' = TRUE
    /\ batch' = <<>>
    /\ timers' = StopTimer(ts, timer)
    /\ item' = [r \in Requests |-> IF r \in InBatch(b) THEN "handle" ELSE item[r]]
    /\ runs' = [r \in Requests |-> IF r \in InBatch(b) THEN runs[r] + 1 ELSE runs[r]]
    /\ UNCHANGED timer

\* Mutant of ProcessBatchLocked: the batch is not replaced by an empty one.
ProcessBatchKeepingBatch(b, ts) ==
    /\ locked' = TRUE
    /\ batch' = b
    /\ timer' = NilTimer
    /\ timers' = StopTimer(ts, timer)
    /\ item' = [r \in Requests |-> IF r \in InBatch(b) THEN "handle" ELSE item[r]]
    /\ runs' = [r \in Requests |-> IF r \in InBatch(b) THEN runs[r] + 1 ELSE runs[r]]

\* processBatchLocked up to wg.Wait, on a batch b that is not empty; ts are the
\* timers after the change the flushing party makes to them.  The mutex stays
\* held until FlushDone.
ProcessBatchLocked(b, ts) ==
    /\ locked' = TRUE
    /\ batch' = <<>>
    /\ timer' = NilTimer
    /\ timers' = StopTimer(ts, timer)
    /\ item' = [r \in Requests |-> IF r \in InBatch(b) THEN "handle" ELSE item[r]]
    /\ runs' = [r \in Requests |-> IF r \in InBatch(b) THEN runs[r] + 1 ELSE runs[r]]

-----------------------------------------------------------------------------
\* HandleRequest

Enter(r) ==
    /\ caller[r] = "idle"
    /\ Goto(r, "lock")
    /\ UNCHANGED <<batchVars, item, resultCh, runs, ctxDone>>

\* The critical section of a call that does not fill the batch.
AddToBatch(r) ==
    /\ caller[r] = "lock" /\ ~locked
    /\ Len(batch) + 1 < BatchSize
    /\ batch' = Append(batch, r)
    /\ IF timer = NilTimer
       THEN /\ timers' = Append(timers, "armed")
            /\ timer' = Len(timers')
       ELSE UNCHANGED <<timer, timers>>
    /\ Goto(r, "await")
    /\ UNCHANGED <<locked, item, resultCh, runs, ctxDone>>

FillBatch(r) ==
    /\ caller[r] = "lock" /\ ~locked
    /\ Len(batch) + 1 >= BatchSize
    /\ ProcessBatchLocked(Append(batch, r), timers)
    /\ Goto(r, "flush")
    /\ UNCHANGED <<resultCh, ctxDone>>

\* Mutant of BatchFinished: no wg.Wait.
BatchAbandoned == TRUE

\* wg.Wait is over when every goroutine of the batch is; the mutex is released.
BatchFinished == \A r \in Requests : item[r] \in {"none", "finished"}

FlushDone(r) ==
    /\ caller[r] = "flush"
    /\ BatchFinished
    /\ locked' = FALSE
    /\ Goto(r, "await")
    /\ UNCHANGED <<batch, timer, timers, item, resultCh, runs, ctxDone>>

Receive(r) ==
    /\ caller[r] = "await"
    /\ resultCh[r] > 0
    /\ resultCh' = [resultCh EXCEPT ![r] = @ - 1]
    /\ Goto(r, "response")
    /\ UNCHANGED <<batchVars, item, runs, ctxDone>>

GiveUp(r) ==
    /\ caller[r] = "await"
    /\ r \in ctxDone
    /\ Goto(r, "canceled")
    /\ UNCHANGED <<batchVars, item, resultCh, runs, ctxDone>>

-----------------------------------------------------------------------------
\* The timer and its callback

Fire(t) ==
    /\ timers[t] = "armed"
    /\ timers' = [timers EXCEPT ![t] = "fired"]
    /\ UNCHANGED <<caller, locked, batch, timer, item, resultCh, runs, ctxDone>>

CallbackOnEmptyBatch(t) ==
    /\ timers[t] = "fired" /\ ~locked
    /\ batch = <<>>
    /\ timers' = [timers EXCEPT ![t] = "over"]
    /\ UNCHANGED <<caller, locked, batch, timer, item, resultCh, runs, ctxDone>>

Callback(t) ==
    /\ timers[t] = "fired" /\ ~locked
    /\ batch # <<>>
    /\ ProcessBatchLocked(batch, [timers EXCEPT ![t] = "flush"])
    /\ UNCHANGED <<caller, resultCh, ctxDone>>

CallbackDone(t) ==
    /\ timers[t] = "flush"
    /\ BatchFinished
    /\ locked' = FALSE
    /\ timers' = [timers EXCEPT ![t] = "over"]
    /\ UNCHANGED <<caller, batch, timer, item, resultCh, runs, ctxDone>>

-----------------------------------------------------------------------------
\* The goroutines of a batch, and the callers' contexts

ItemHandled(r) ==
    /\ item[r] = "handle"
    /\ item' = [item EXCEPT ![r] = "send"]
    /\ UNCHANGED <<caller, batchVars, resultCh, runs, ctxDone>>

ItemSend(r) ==
    /\ item[r] = "send"
    /\ resultCh[r] < ResultCap
    /\ resultCh' = [resultCh EXCEPT ![r] = @ + 1]
    /\ item' = [item EXCEPT ![r] = "finished"]
    /\ UNCHANGED <<caller, batchVars, runs, ctxDone>>

ItemDiscard(r) ==
    /\ item[r] = "send"
    /\ r \in ctxDone
    /\ item' = [item EXCEPT ![r] = "finished"]
    /\ UNCHANGED <<caller, batchVars, resultCh, runs, ctxDone>>

CancelContext(r) ==
    /\ r \notin ctxDone
    /\ ctxDone' = ctxDone \cup {r}
    /\ UNCHANGED <<caller, batchVars, item, resultCh, runs>>

-----------------------------------------------------------------------------

CallerStep(r) == AddToBatch(r) \/ FillBatch(r) \/ FlushDone(r) \/ Receive(r)
                    \/ GiveUp(r)
ItemStep(r) == ItemHandled(r) \/ ItemSend(r) \/ ItemDiscard(r)
TimerStep(t) == Fire(t) \/ CallbackOnEmptyBatch(t) \/ Callback(t) \/ CallbackDone(t)

Next ==
    \/ \E r \in Requests : Enter(r) \/ CallerStep(r) \/ ItemStep(r)
                            \/ CancelContext(r)
    \/ \E t \in DOMAIN timers : TimerStep(t)

\* Goroutines are scheduled fairly, timers fire, and the wrapped handler returns.
Fairness ==
    /\ \A r \in Requests : WF_vars(CallerStep(r)) /\ WF_vars(ItemStep(r))
    /\ \A t \in 1..Cardinality(Requests) :
          WF_vars(t \in DOMAIN timers /\ TimerStep(t))

Spec == Init /\ [][Next]_vars
FairSpec == Spec /\ Fairness

-----------------------------------------------------------------------------
\* Properties

(* No call is stranded in a batch: whenever the mutex is free, a batch that *)
(* holds calls is not full and bp.timer is a timer that is armed or whose   *)
(* callback is waiting for the mutex; an empty batch has no timer, so that  *)
(* the next call arms one.  Callbacks that timer.Stop came too late for are *)
(* what could break it.                                                     *)
NoStrandedBatch ==
    ~locked =>
        IF batch = <<>>
        THEN timer = NilTimer
        ELSE /\ Len(batch) < BatchSize
             /\ timer \in DOMAIN timers
             /\ timers[timer] \in {"armed", "fired"}

(* One batch at a time: the items being handled never outnumber BatchSize   *)
(* and exactly one call or callback waits for them.                         *)
OneBatchAtATime ==
    LET busy == {r \in Requests : item[r] \in {"handle", "send"}}
        flushers == Cardinality({r \in Requests : caller[r] = "flush"})
                    + Cardinality({t \in DOMAIN timers : timers[t] = "flush"})
    IN  /\ busy # {} => flushers = 1
        /\ flushers = IF locked THEN 1 ELSE 0
        /\ BatchSize > 0 => Cardinality(busy) <= BatchSize

(* Every call returns, whether its batch fills up or not.                   *)
EveryCallReturns ==
    \A r \in Requests : caller[r] = "lock" ~> caller[r] \in {"response", "canceled"}

-----------------------------------------------------------------------------
\* The promise to callers that this handler implements; it has no Shutdown.

callView ==
    [r \in Requests |->
        IF caller[r] \in {"lock", "flush", "await"} THEN "waiting" ELSE caller[r]]

Service == INSTANCE RequestService WITH call <- callView, closed <- FALSE

(* BatchProcessor implements RequestService.                                *)
ImplementsService == Service!ServiceSpec
=============================================================================
