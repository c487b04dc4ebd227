------------------------ MODULE BatchProcessorProofs ------------------------
(***************************************************************************)
(* Proofs about BatchProcessor, for every set of requests and every batch  *)
(* size: type correctness, no stranded batch, batches that take turns, and *)
(* the refinement of RequestService.                                       *)
(*                                                                         *)
(* NoStrandedBatch is not inductive: it says nothing while the mutex is    *)
(* held, and a flush that ends must find the empty batch and the nil timer *)
(* that it left. That needs the mutex to work as one (Exclusion), and the  *)
(* rest follows each request from the batch to its goroutine (Placement).  *)
(* That never more than one batch is worked on needs the requests at work  *)
(* to be those of the flush that holds the mutex, no more than a batch.    *)
(***************************************************************************)
EXTENDS BatchProcessor, SequenceTheorems, FunctionTheorems, FiniteSetTheorems, TLAPS

\* Whoever flushes holds the mutex, alone; nobody else touches the batch.
Exclusion ==
    /\ \A r \in Requests : caller[r] = "flush" => locked
    /\ \A t \in DOMAIN timers : timers[t] = "flush" => locked
    /\ \A r, q \in Requests : caller[r] = "flush" /\ caller[q] = "flush" => r = q
    /\ \A t, u \in DOMAIN timers : timers[t] = "flush" /\ timers[u] = "flush" => t = u
    /\ \A r \in Requests, t \in DOMAIN timers :
          ~(caller[r] = "flush" /\ timers[t] = "flush")
    /\ locked => batch = <<>> /\ timer = NilTimer
    /\ timer # NilTimer => timer \in DOMAIN timers

\* Where a request is: not submitted, in the batch, or with its goroutine.
Placement ==
    \A r \in Requests :
        /\ item[r] # "finished" => resultCh[r] = 0
        /\ caller[r] \in {"idle", "lock"} => item[r] = "none" /\ r \notin InBatch(batch)
        /\ r \in InBatch(batch) => item[r] = "none"
        /\ runs[r] = IF item[r] = "none" THEN 0 ELSE 1

IInv == TypeOK /\ Exclusion /\ Placement /\ NoStrandedBatch

-----------------------------------------------------------------------------
\* Lemmas about batches and timers.

LEMMA InBatchAppend ==
    ASSUME NEW b \in Seq(Requests), NEW r \in Requests
    PROVE  InBatch(Append(b, r)) = InBatch(b) \cup {r}
<1>1. DOMAIN Append(b, r) = DOMAIN b \cup {Len(b) + 1}
  OBVIOUS
<1>2. \A i \in DOMAIN b : Append(b, r)[i] = b[i]
  OBVIOUS
<1>3. Append(b, r)[Len(b) + 1] = r
  OBVIOUS
<1> QED
  BY <1>1, <1>2, <1>3 DEF InBatch

LEMMA InBatchType ==
    ASSUME NEW b \in Seq(Requests)
    PROVE  InBatch(b) \subseteq Requests
  BY DEF InBatch

LEMMA StopTimerType ==
    ASSUME NEW ts \in Seq(TimerStates), NEW t \in Nat, t # NilTimer => t \in DOMAIN ts
    PROVE  /\ StopTimer(ts, t) \in Seq(TimerStates)
           /\ DOMAIN StopTimer(ts, t) = DOMAIN ts
           /\ \A u \in DOMAIN ts : StopTimer(ts, t)[u] = "flush" <=> ts[u] = "flush"
  BY DEF StopTimer, TimerStates, NilTimer

LEMMA MoveTimer ==
    ASSUME TypeOK, NEW t \in DOMAIN timers, NEW s \in TimerStates,
           timers' = [timers EXCEPT ![t] = s]
    PROVE  timers' \in Seq(TimerStates) /\ DOMAIN timers' = DOMAIN timers
<1>1. timers \in Seq(TimerStates) /\ t \in 1..Len(timers)
  BY DEF TypeOK
<1> QED
  BY <1>1, ExceptSeq

-----------------------------------------------------------------------------

LEMMA InitIInv == Init => IInv
<1> SUFFICES ASSUME Init PROVE IInv
  OBVIOUS
<1>1. TypeOK
  <2>1. 0 \in 0..ResultCap
    BY DEF ResultCap
  <2>2. /\ batch \in Seq(Requests) /\ timers \in Seq(TimerStates)
        /\ timer \in Nat /\ ctxDone \in SUBSET Requests /\ locked \in BOOLEAN
    BY EmptySeq DEF Init, NilTimer
  <2>3. /\ caller \in [Requests -> CallerStates] /\ item \in [Requests -> ItemStates]
        /\ runs \in [Requests -> Nat] /\ resultCh \in [Requests -> 0..ResultCap]
    BY <2>1 DEF Init, CallerStates, ItemStates
  <2> QED
    BY <2>2, <2>3 DEF TypeOK
<1>2. Exclusion /\ Placement /\ NoStrandedBatch
  BY DEF Init, Exclusion, Placement, NoStrandedBatch, InBatch, NilTimer
<1> QED
  BY <1>1, <1>2 DEF IInv

-----------------------------------------------------------------------------
\* What a flush does, whoever starts it.

LEMMA FlushPreserves ==
    ASSUME IInv, ~locked,
           NEW b \in Seq(Requests), NEW ts \in Seq(TimerStates),
           DOMAIN ts = DOMAIN timers, ProcessBatchLocked(b, ts),
           UNCHANGED <<resultCh, ctxDone>>,
           \A r \in InBatch(b) : item[r] = "none"
    PROVE  /\ locked' \in BOOLEAN /\ batch' \in Seq(Requests) /\ timer' \in Nat
           /\ timers' \in Seq(TimerStates) /\ DOMAIN timers' = DOMAIN timers
           /\ \A t \in DOMAIN timers : timers'[t] = "flush" <=> ts[t] = "flush"
           /\ item' \in [Requests -> ItemStates] /\ runs' \in [Requests -> Nat]
           /\ \A r \in Requests :
                /\ item'[r] = IF r \in InBatch(b) THEN "handle" ELSE item[r]
                /\ item'[r] # "finished" => resultCh'[r] = 0
                /\ runs'[r] = IF item'[r] = "none" THEN 0 ELSE 1
           /\ InBatch(batch') = {} /\ NoStrandedBatch'
<1>1. timer \in Nat /\ (timer # NilTimer => timer \in DOMAIN ts)
  BY DEF IInv, TypeOK, Exclusion
<1>2. /\ timers' \in Seq(TimerStates) /\ DOMAIN timers' = DOMAIN timers
      /\ \A t \in DOMAIN timers : timers'[t] = "flush" <=> ts[t] = "flush"
  BY <1>1, StopTimerType DEF ProcessBatchLocked
<1>3. /\ item' \in [Requests -> ItemStates] /\ runs' \in [Requests -> Nat]
  BY DEF IInv, TypeOK, ProcessBatchLocked, ItemStates
<1>4. ASSUME NEW r \in Requests
      PROVE  /\ item'[r] = IF r \in InBatch(b) THEN "handle" ELSE item[r]
             /\ item'[r] # "finished" => resultCh'[r] = 0
             /\ runs'[r] = IF item'[r] = "none" THEN 0 ELSE 1
  BY DEF IInv, TypeOK, Placement, ProcessBatchLocked
<1>5. /\ locked' \in BOOLEAN /\ batch' \in Seq(Requests) /\ timer' \in Nat
      /\ InBatch(batch') = {} /\ NoStrandedBatch'
  BY EmptySeq DEF ProcessBatchLocked, InBatch, NilTimer, NoStrandedBatch
<1> QED
  BY <1>2, <1>3, <1>4, <1>5

-----------------------------------------------------------------------------
\* Every step preserves the invariant.

LEMMA CallerStepIInv ==
    ASSUME IInv, NEW r \in Requests, Enter(r) \/ CallerStep(r)
    PROVE  IInv'
<1> USE DEF IInv
<1>1. CASE Enter(r)
  <2>1. TypeOK'
    BY <1>1 DEF TypeOK, Enter, Goto, CallerStates, batchVars
  <2>2. Exclusion' /\ Placement' /\ NoStrandedBatch'
    BY <1>1 DEF Enter, Goto, batchVars, TypeOK, Exclusion, Placement, NoStrandedBatch
  <2> QED
    BY <2>1, <2>2
<1>2. CASE AddToBatch(r)
  <2>1. /\ batch' = Append(batch, r) /\ InBatch(batch') = InBatch(batch) \cup {r}
        /\ Len(batch') = Len(batch) + 1 /\ batch' # <<>>
    <3>1. batch \in Seq(Requests) /\ batch' = Append(batch, r)
      BY <1>2 DEF AddToBatch, TypeOK
    <3>2. Len(Append(batch, r)) = Len(batch) + 1 /\ Append(batch, r) # <<>>
      BY <3>1
    <3> QED
      BY <3>1, <3>2, InBatchAppend
  <2>2. /\ timers' \in Seq(TimerStates) /\ timer' \in DOMAIN timers'
        /\ timer' \in Nat /\ DOMAIN timers \subseteq DOMAIN timers'
        /\ \A t \in DOMAIN timers' : timers'[t] = "flush" =>
                                        t \in DOMAIN timers /\ timers[t] = "flush"
        /\ timers'[timer'] \in {"armed", "fired"}
    <3>1. CASE timer = NilTimer
      <4>1. /\ timers \in Seq(TimerStates) /\ "armed" \in TimerStates
            /\ timers' = Append(timers, "armed") /\ timer' = Len(timers')
        BY <1>2, <3>1 DEF AddToBatch, TypeOK, TimerStates
      <4> QED
        BY <4>1
    <3>2. CASE timer # NilTimer
      BY <1>2, <3>2 DEF AddToBatch, TypeOK, Exclusion, NoStrandedBatch
    <3> QED
      BY <3>1, <3>2
  <2>3. TypeOK'
    BY <1>2, <2>1, <2>2 DEF TypeOK, AddToBatch, Goto, CallerStates
  <2>4. Exclusion'
    BY <1>2, <2>2 DEF Exclusion, AddToBatch, Goto, TypeOK
  <2>5. Placement'
    BY <1>2, <2>1 DEF Placement, AddToBatch, Goto, TypeOK
  <2>6. NoStrandedBatch'
    BY <1>2, <2>1, <2>2, BatchAssumption DEF NoStrandedBatch, AddToBatch, TypeOK
  <2> QED
    BY <2>3, <2>4, <2>5, <2>6
<1>3. CASE FillBatch(r)
  <2> DEFINE b == Append(batch, r)
  <2>1. /\ b \in Seq(Requests) /\ InBatch(b) = InBatch(batch) \cup {r}
        /\ ~locked /\ ProcessBatchLocked(b, timers) /\ UNCHANGED <<resultCh, ctxDone>>
        /\ caller[r] = "lock" /\ caller' = [caller EXCEPT ![r] = "flush"]
    BY <1>3, InBatchAppend DEF FillBatch, TypeOK, Goto
  <2>2. \A q \in InBatch(b) : item[q] = "none"
    BY <2>1, InBatchType DEF Placement, TypeOK
  <2> HIDE DEF b
  <2>3. /\ locked' \in BOOLEAN /\ batch' \in Seq(Requests) /\ timer' \in Nat
        /\ timers' \in Seq(TimerStates) /\ DOMAIN timers' = DOMAIN timers
        /\ \A t \in DOMAIN timers : timers'[t] = "flush" <=> timers[t] = "flush"
        /\ item' \in [Requests -> ItemStates] /\ runs' \in [Requests -> Nat]
        /\ \A q \in Requests :
             /\ item'[q] = IF q \in InBatch(b) THEN "handle" ELSE item[q]
             /\ item'[q] # "finished" => resultCh'[q] = 0
             /\ runs'[q] = IF item'[q] = "none" THEN 0 ELSE 1
        /\ InBatch(batch') = {} /\ NoStrandedBatch'
    BY <2>1, <2>2, FlushPreserves DEF TypeOK
  <2>4. TypeOK'
    BY <2>1, <2>3 DEF TypeOK, CallerStates
  <2>5. Exclusion'
    BY <2>1, <2>3 DEF Exclusion, TypeOK, ProcessBatchLocked
  <2>6. Placement'
    BY <2>1, <2>3 DEF Placement, TypeOK
  <2> QED
    BY <2>3, <2>4, <2>5, <2>6
<1>4. CASE FlushDone(r)
  <2>1. TypeOK'
    BY <1>4 DEF TypeOK, FlushDone, Goto, CallerStates
  <2>2. Exclusion' /\ Placement'
    BY <1>4 DEF FlushDone, Goto, TypeOK, Exclusion, Placement
  <2>3. NoStrandedBatch'
    BY <1>4 DEF FlushDone, Exclusion, NoStrandedBatch
  <2> QED
    BY <2>1, <2>2, <2>3
<1>5. CASE Receive(r)
  <2>1. TypeOK'
    BY <1>5 DEF TypeOK, Receive, Goto, CallerStates, batchVars, ResultCap
  <2>2. Exclusion' /\ Placement' /\ NoStrandedBatch'
    BY <1>5 DEF Receive, Goto, batchVars, TypeOK, Exclusion, Placement, NoStrandedBatch
  <2> QED
    BY <2>1, <2>2
<1>6. CASE GiveUp(r)
  <2>1. TypeOK'
    BY <1>6 DEF TypeOK, GiveUp, Goto, CallerStates, batchVars
  <2>2. Exclusion' /\ Placement' /\ NoStrandedBatch'
    BY <1>6 DEF GiveUp, Goto, batchVars, TypeOK, Exclusion, Placement, NoStrandedBatch
  <2> QED
    BY <2>1, <2>2
<1> QED
  BY <1>1, <1>2, <1>3, <1>4, <1>5, <1>6 DEF CallerStep

LEMMA TimerStepIInv ==
    ASSUME IInv, NEW t \in DOMAIN timers, TimerStep(t)
    PROVE  IInv'
<1> USE DEF IInv
<1>1. CASE Fire(t)
  <2>1. TypeOK'
    BY <1>1 DEF TypeOK, Fire, TimerStates
  <2>2. Exclusion' /\ Placement' /\ NoStrandedBatch'
    BY <1>1 DEF Fire, TypeOK, Exclusion, Placement, NoStrandedBatch
  <2> QED
    BY <2>1, <2>2
<1>2. CASE CallbackOnEmptyBatch(t)
  <2>1. TypeOK'
    <3>1. TypeOK /\ "over" \in TimerStates /\ timers' = [timers EXCEPT ![t] = "over"]
      BY <1>2 DEF TimerStates, CallbackOnEmptyBatch
    <3>2. timers' \in Seq(TimerStates)
      BY <3>1, MoveTimer
    <3> QED
      BY <1>2, <3>1, <3>2 DEF TypeOK, CallbackOnEmptyBatch
  <2>2. Exclusion' /\ Placement' /\ NoStrandedBatch'
    BY <1>2 DEF CallbackOnEmptyBatch, TypeOK, Exclusion, Placement, NoStrandedBatch
  <2> QED
    BY <2>1, <2>2
<1>3. CASE Callback(t)
  <2> DEFINE ts == [timers EXCEPT ![t] = "flush"]
  <2>1. /\ ts \in Seq(TimerStates) /\ DOMAIN ts = DOMAIN timers
        /\ ~locked /\ ProcessBatchLocked(batch, ts)
        /\ UNCHANGED <<resultCh, ctxDone>> /\ UNCHANGED caller
    BY <1>3 DEF Callback, TypeOK, TimerStates
  <2>2. /\ batch \in Seq(Requests)
        /\ \A q \in InBatch(batch) : item[q] = "none"
    BY InBatchType DEF Placement, TypeOK
  <2>3. \A u \in DOMAIN timers : ts[u] = "flush" => u = t
    BY <2>1 DEF Exclusion, TypeOK
  <2> HIDE DEF ts
  <2>4. /\ locked' \in BOOLEAN /\ batch' \in Seq(Requests) /\ timer' \in Nat
        /\ timers' \in Seq(TimerStates) /\ DOMAIN timers' = DOMAIN timers
        /\ \A u \in DOMAIN timers : timers'[u] = "flush" => u = t
        /\ item' \in [Requests -> ItemStates] /\ runs' \in [Requests -> Nat]
        /\ \A q \in Requests :
             /\ item'[q] = IF q \in InBatch(batch) THEN "handle" ELSE item[q]
             /\ item'[q] # "finished" => resultCh'[q] = 0
             /\ runs'[q] = IF item'[q] = "none" THEN 0 ELSE 1
        /\ InBatch(batch') = {} /\ NoStrandedBatch'
    BY <2>1, <2>2, <2>3, FlushPreserves
  <2>5. TypeOK'
    BY <2>1, <2>4 DEF TypeOK
  <2>6. Exclusion'
    BY <2>1, <2>4 DEF Exclusion, TypeOK, ProcessBatchLocked
  <2>7. Placement'
    BY <2>1, <2>4 DEF Placement, TypeOK
  <2> QED
    BY <2>4, <2>5, <2>6, <2>7
<1>4. CASE CallbackDone(t)
  <2>1. TypeOK'
    <3>1. TypeOK /\ "over" \in TimerStates /\ timers' = [timers EXCEPT ![t] = "over"]
      BY <1>4 DEF TimerStates, CallbackDone
    <3>2. timers' \in Seq(TimerStates)
      BY <3>1, MoveTimer
    <3> QED
      BY <1>4, <3>1, <3>2 DEF TypeOK, CallbackDone
  <2>2. Exclusion' /\ Placement'
    BY <1>4 DEF CallbackDone, TypeOK, Exclusion, Placement
  <2>3. NoStrandedBatch'
    BY <1>4 DEF CallbackDone, Exclusion, NoStrandedBatch
  <2> QED
    BY <2>1, <2>2, <2>3
<1> QED
  BY <1>1, <1>2, <1>3, <1>4 DEF TimerStep

LEMMA ItemStepIInv ==
    ASSUME IInv, NEW r \in Requests, ItemStep(r) \/ CancelContext(r)
    PROVE  IInv'
<1> USE DEF IInv
<1>1. TypeOK'
  <2>1. CASE ItemHandled(r)
    BY <2>1 DEF TypeOK, ItemHandled, ItemStates, batchVars
  <2>2. CASE ItemSend(r)
    <3>1. item' \in [Requests -> ItemStates]
      BY <2>2 DEF TypeOK, ItemSend, ItemStates
    <3>2. resultCh[r] + 1 \in 0..ResultCap
      <4>1. resultCh[r] \in 0..ResultCap /\ resultCh[r] < ResultCap
        BY <2>2 DEF TypeOK, ItemSend
      <4> QED
        BY <4>1 DEF ResultCap
    <3>3. resultCh' \in [Requests -> 0..ResultCap]
      BY <2>2, <3>2 DEF TypeOK, ItemSend
    <3> QED
      BY <2>2, <3>1, <3>3 DEF TypeOK, ItemSend, batchVars
  <2>3. CASE ItemDiscard(r)
    BY <2>3 DEF TypeOK, ItemDiscard, ItemStates, batchVars
  <2>4. CASE CancelContext(r)
    BY <2>4 DEF TypeOK, CancelContext, batchVars
  <2> QED
    BY <2>1, <2>2, <2>3, <2>4 DEF ItemStep
<1>2. Placement'
  <2>1. CASE ItemHandled(r) \/ ItemDiscard(r)
    BY <2>1 DEF TypeOK, Placement, ItemHandled, ItemDiscard, batchVars
  <2>2. CASE ItemSend(r)
    BY <2>2 DEF TypeOK, Placement, ItemSend, batchVars
  <2>3. CASE CancelContext(r)
    BY <2>3 DEF Placement, CancelContext, batchVars
  <2> QED
    BY <2>1, <2>2, <2>3 DEF ItemStep
<1>3. Exclusion' /\ NoStrandedBatch'
  BY DEF Exclusion, NoStrandedBatch, ItemStep, ItemHandled, ItemSend, ItemDiscard,
         CancelContext, batchVars
<1> QED
  BY <1>1, <1>2, <1>3

LEMMA StutterIInv == IInv /\ UNCHANGED vars => IInv'
  BY DEF IInv, TypeOK, Exclusion, Placement, NoStrandedBatch, InBatch, vars, batchVars

LEMMA NextIInv == IInv /\ [Next]_vars => IInv'
<1> SUFFICES ASSUME IInv, [Next]_vars PROVE IInv'
  OBVIOUS
<1>1. CASE UNCHANGED vars
  BY <1>1, StutterIInv
<1>2. ASSUME NEW r \in Requests,
             Enter(r) \/ CallerStep(r) \/ ItemStep(r) \/ CancelContext(r)
      PROVE  IInv'
  BY <1>2, CallerStepIInv, ItemStepIInv
<1>3. ASSUME NEW t \in DOMAIN timers, TimerStep(t)
      PROVE  IInv'
  BY <1>3, TimerStepIInv
<1> QED
  BY <1>1, <1>2, <1>3 DEF Next

-----------------------------------------------------------------------------
\* The results.

(* The inductive invariant holds throughout.                                *)
THEOREM Invariance == Spec => []IInv
  BY InitIInv, NextIInv, PTL DEF Spec

(* Every variable keeps its type, whatever the interleaving of calls, timer *)
(* callbacks and item goroutines.                                           *)
THEOREM TypeCorrect == Spec => []TypeOK
  BY Invariance, PTL DEF IInv

(* For every number of calls and every batch size: while the mutex is free, *)
(* a batch with calls in it has a timer that will flush it.                 *)
THEOREM NothingStranded == Spec => []NoStrandedBatch
  BY Invariance, PTL DEF IInv

-----------------------------------------------------------------------------
\* One batch at a time: who is busy, and who waits for them.

Busy == {r \in Requests : item[r] \in {"handle", "send"}}

\* A held mutex has an owner, only its batch is busy, and that is no larger
\* than a batch may be.
Census ==
    /\ locked => \/ \E r \in Requests : caller[r] = "flush"
                 \/ \E t \in DOMAIN timers : timers[t] = "flush"
    /\ Busy # {} => locked
    /\ IsFiniteSet(Busy)
    /\ BatchSize > 0 => Cardinality(Busy) <= BatchSize

LEMMA InBatchSize ==
    ASSUME NEW b \in Seq(Requests)
    PROVE  IsFiniteSet(InBatch(b)) /\ Cardinality(InBatch(b)) <= Len(b)
<1>1. /\ IsFiniteSet(1..Len(b)) /\ Cardinality(1..Len(b)) = Len(b)
      /\ DOMAIN b = 1..Len(b) /\ Len(b) \in Nat
  <2>1. Len(b) \in Nat /\ DOMAIN b = 1..Len(b)
    OBVIOUS
  <2>2. IsFiniteSet(1..Len(b)) /\ Cardinality(1..Len(b)) = Len(b)
    BY <2>1, FS_Interval
  <2> QED
    BY <2>1, <2>2
<1>2. b \in Surjection(1..Len(b), InBatch(b))
  BY <1>1 DEF InBatch, Surjection
<1> QED
  BY <1>1, <1>2, FS_Surjection

\* A flush of b begins: nobody was busy before, and b is busy after it.
LEMMA FlushCensus ==
    ASSUME IInv, Census, ~locked, NEW b \in Seq(Requests), NEW ts,
           BatchSize > 0 => Len(b) <= BatchSize, ProcessBatchLocked(b, ts)
    PROVE  /\ Busy' # {} => locked'
           /\ IsFiniteSet(Busy')
           /\ BatchSize > 0 => Cardinality(Busy') <= BatchSize
<1>1. Busy' = InBatch(b)
  <2>1. InBatch(b) \subseteq Requests
    BY InBatchType
  <2>2. \A r \in Requests : item[r] \notin {"handle", "send"}
    BY DEF Census, Busy
  <2>3. \A r \in Requests : item'[r] = IF r \in InBatch(b) THEN "handle" ELSE item[r]
    BY DEF ProcessBatchLocked
  <2> QED
    BY <2>1, <2>2, <2>3 DEF Busy
<1>2. IsFiniteSet(InBatch(b)) /\ Cardinality(InBatch(b)) <= Len(b)
  BY InBatchSize
<1>3. Cardinality(InBatch(b)) \in Nat /\ Len(b) \in Nat
  BY <1>2, FS_CardinalityType
<1>4. locked'
  BY DEF ProcessBatchLocked
<1> QED
  BY <1>1, <1>2, <1>3, <1>4, BatchAssumption

\* Fewer are busy, or none: the rest of the census is about the owner.
LEMMA BusyShrinks ==
    ASSUME Census, Busy' \subseteq Busy
    PROVE  /\ IsFiniteSet(Busy')
           /\ BatchSize > 0 => Cardinality(Busy') <= BatchSize
<1>1. IsFiniteSet(Busy)
  BY DEF Census
<1>2. IsFiniteSet(Busy') /\ Cardinality(Busy') <= Cardinality(Busy)
  BY <1>1, FS_Subset
<1>3. Cardinality(Busy) \in Nat /\ Cardinality(Busy') \in Nat
  BY <1>1, <1>2, FS_CardinalityType
<1> QED
  BY <1>2, <1>3, BatchAssumption DEF Census

LEMMA InitCensus == Init => Census
<1> SUFFICES ASSUME Init PROVE Census
  OBVIOUS
<1>1. Busy = {} /\ ~locked
  BY DEF Init, Busy
<1> QED
  BY <1>1, FS_EmptySet, BatchAssumption DEF Census

LEMMA CallerStepCensus ==
    ASSUME IInv, Census, NEW r \in Requests, Enter(r) \/ CallerStep(r)
    PROVE  Census'
<1>t. /\ caller \in [Requests -> CallerStates]
      /\ batch \in Seq(Requests) /\ locked \in BOOLEAN
  BY DEF IInv, TypeOK
<1>1. CASE Enter(r) \/ Receive(r) \/ GiveUp(r)
  <2>1. /\ Busy' = Busy /\ UNCHANGED <<locked, timers>>
        /\ \A q \in Requests : caller[q] = "flush" => caller'[q] = "flush"
    BY <1>t, <1>1 DEF Enter, Receive, GiveUp, Goto, batchVars, Busy
  <2> QED
    BY <2>1, BusyShrinks DEF Census
<1>2. CASE AddToBatch(r)
  <2>1. Busy' = Busy /\ ~locked /\ UNCHANGED locked
    BY <1>2 DEF AddToBatch, Busy
  <2> QED
    BY <2>1, BusyShrinks DEF Census
<1>3. CASE FillBatch(r)
  <2>1. /\ ~locked /\ ProcessBatchLocked(Append(batch, r), timers)
        /\ caller'[r] = "flush"
    BY <1>t, <1>3 DEF FillBatch, Goto
  <2>2. Append(batch, r) \in Seq(Requests) /\ Len(Append(batch, r)) = Len(batch) + 1
    BY <1>t
  <2>3. BatchSize > 0 => Len(batch) + 1 <= BatchSize
    <3>1. CASE batch = <<>>
      <4>1. Len(batch) = 0
        BY <3>1
      <4> QED
        BY <4>1, BatchAssumption
    <3>2. CASE batch # <<>>
      <4>1. Len(batch) < BatchSize /\ Len(batch) \in Nat
        BY <1>t, <2>1, <3>2 DEF IInv, NoStrandedBatch
      <4> QED
        BY <4>1, BatchAssumption
    <3> QED
      BY <3>1, <3>2
  <2> QED
    BY <2>1, <2>2, <2>3, FlushCensus DEF Census
<1>4. CASE FlushDone(r)
  <2>1. Busy = {} /\ Busy' = {} /\ ~locked'
    BY <1>4 DEF FlushDone, BatchFinished, Busy
  <2> QED
    BY <2>1, BusyShrinks DEF Census
<1> QED
  BY <1>1, <1>2, <1>3, <1>4 DEF CallerStep

LEMMA TimerStepCensus ==
    ASSUME IInv, Census, NEW t \in DOMAIN timers, TimerStep(t)
    PROVE  Census'
<1>t. timers \in Seq(TimerStates) /\ batch \in Seq(Requests)
  BY DEF IInv, TypeOK
<1>1. CASE Fire(t) \/ CallbackOnEmptyBatch(t)
  <2>1. /\ Busy' = Busy /\ UNCHANGED <<locked, caller>>
        /\ DOMAIN timers' = DOMAIN timers
        /\ \A u \in DOMAIN timers : timers[u] = "flush" => timers'[u] = "flush"
    BY <1>t, <1>1 DEF Fire, CallbackOnEmptyBatch, Busy
  <2> QED
    BY <2>1, BusyShrinks DEF Census
<1>2. CASE Callback(t)
  <2> DEFINE ts == [timers EXCEPT ![t] = "flush"]
  <2>1. /\ ~locked /\ batch # <<>> /\ ProcessBatchLocked(batch, ts)
        /\ ts \in Seq(TimerStates) /\ DOMAIN ts = DOMAIN timers /\ ts[t] = "flush"
    <3>1. "flush" \in TimerStates /\ t \in 1..Len(timers)
      BY <1>t DEF TimerStates
    <3>2. ts \in Seq(TimerStates)
      BY <1>t, <3>1, ExceptSeq
    <3> QED
      BY <1>2, <3>2 DEF Callback
  <2>2. DOMAIN timers' = DOMAIN timers /\ timers'[t] = "flush"
    <3>1. timer \in Nat /\ (timer # NilTimer => timer \in DOMAIN ts)
      BY <2>1 DEF IInv, TypeOK, Exclusion
    <3>2. timers' = StopTimer(ts, timer)
      BY <2>1 DEF ProcessBatchLocked
    <3> QED
      BY <2>1, <3>1, <3>2, StopTimerType
  <2>3. BatchSize > 0 => Len(batch) <= BatchSize
    <3>1. Len(batch) < BatchSize /\ Len(batch) \in Nat
      BY <1>t, <2>1 DEF IInv, NoStrandedBatch
    <3> QED
      BY <3>1, BatchAssumption
  <2> HIDE DEF ts
  <2> QED
    BY <1>t, <2>1, <2>2, <2>3, FlushCensus DEF Census
<1>3. CASE CallbackDone(t)
  <2>1. Busy = {} /\ Busy' = {} /\ ~locked'
    BY <1>3 DEF CallbackDone, BatchFinished, Busy
  <2> QED
    BY <2>1, BusyShrinks DEF Census
<1> QED
  BY <1>1, <1>2, <1>3 DEF TimerStep

LEMMA ItemStepCensus ==
    ASSUME IInv, Census, NEW r \in Requests, ItemStep(r) \/ CancelContext(r)
    PROVE  Census'
<1>1. /\ Busy' \subseteq Busy /\ UNCHANGED <<locked, caller, timers>>
  BY DEF ItemStep, ItemHandled, ItemSend, ItemDiscard, CancelContext, batchVars,
         Busy, IInv, TypeOK
<1> QED
  BY <1>1, BusyShrinks DEF Census

LEMMA NextCensus == IInv /\ Census /\ [Next]_vars => Census'
<1> SUFFICES ASSUME IInv, Census, [Next]_vars PROVE Census'
  OBVIOUS
<1>1. CASE UNCHANGED vars
  BY <1>1 DEF vars, batchVars, Census, Busy
<1>2. CASE Next
  BY <1>2, CallerStepCensus, TimerStepCensus, ItemStepCensus DEF Next
<1> QED
  BY <1>1, <1>2

\* One flusher if the mutex is held, none otherwise.
LEMMA FlushersCounted ==
    ASSUME IInv, Census
    PROVE  Cardinality({r \in Requests : caller[r] = "flush"})
              + Cardinality({t \in DOMAIN timers : timers[t] = "flush"})
           = IF locked THEN 1 ELSE 0
<1> DEFINE C == {r \in Requests : caller[r] = "flush"}
           T == {t \in DOMAIN timers : timers[t] = "flush"}
<1>x. Exclusion
  BY DEF IInv
<1>1. CASE ~locked
  <2>1. C = {} /\ T = {}
    BY <1>1, <1>x DEF Exclusion
  <2> QED
    BY <1>1, <2>1, FS_EmptySet
<1>2. CASE locked /\ \E r \in Requests : caller[r] = "flush"
  <2>1. PICK r \in Requests : caller[r] = "flush"
    BY <1>2
  <2>2. C = {r} /\ T = {}
    BY <1>x, <2>1 DEF Exclusion
  <2>3. Cardinality(C) = 1 /\ Cardinality(T) = 0
    BY <2>2, FS_EmptySet, FS_Singleton
  <2>4. Cardinality(C) + Cardinality(T) = 1
    BY <2>3
  <2> QED
    BY <1>2, <2>4
<1>3. CASE locked /\ \E t \in DOMAIN timers : timers[t] = "flush"
  <2>1. PICK t \in DOMAIN timers : timers[t] = "flush"
    BY <1>3
  <2>2. C = {} /\ T = {t}
    BY <1>x, <2>1 DEF Exclusion
  <2>3. Cardinality(C) = 0 /\ Cardinality(T) = 1
    BY <2>2, FS_EmptySet, FS_Singleton
  <2>4. Cardinality(C) + Cardinality(T) = 1
    BY <2>3
  <2> QED
    BY <1>3, <2>4
<1> QED
  BY <1>1, <1>2, <1>3 DEF Census

(* For every number of calls and every batch size: the items being handled  *)
(* never outnumber BatchSize, and exactly one call or callback, the one     *)
(* that holds the mutex, waits for them.                                    *)
THEOREM BatchesTakeTurns == Spec => []OneBatchAtATime
<1>1. IInv /\ Census => OneBatchAtATime
  <2> SUFFICES ASSUME IInv, Census PROVE OneBatchAtATime
    OBVIOUS
  <2> QED
    BY FlushersCounted DEF OneBatchAtATime, Census, Busy
<1> QED
  BY <1>1, InitCensus, NextCensus, Invariance, PTL DEF Spec

-----------------------------------------------------------------------------
\* The refinement: each step is a step of the service or leaves it unchanged.

LEMMA ViewAt ==
    ASSUME NEW r \in Requests
    PROVE  /\ callView[r] = IF caller[r] \in {"lock", "flush", "await"} THEN "waiting"
                            ELSE caller[r]
           /\ callView'[r] = IF caller'[r] \in {"lock", "flush", "await"} THEN "waiting"
                             ELSE caller'[r]
  BY DEF callView

LEMMA ViewMoves ==
    ASSUME TypeOK, NEW r \in Requests, NEW pc \in CallerStates, Goto(r, pc)
    PROVE  callView' = [callView EXCEPT ![r] =
               IF pc \in {"lock", "flush", "await"} THEN "waiting" ELSE pc]
  BY DEF TypeOK, Goto, callView

LEMMA FlushRuns ==
    ASSUME IInv, NEW b, InBatch(b) \subseteq Requests, NEW ts, ProcessBatchLocked(b, ts),
           \A r \in InBatch(b) : item[r] = "none" /\ caller[r] # "idle",
           callView' = callView, UNCHANGED ctxDone
    PROVE  Service!ServiceNext
<1>1. \A r \in InBatch(b) : callView[r] \notin {"idle", "rejected"} /\ runs[r] = 0
  BY DEF IInv, TypeOK, Placement, callView, CallerStates
<1>2. runs' = [r \in Requests |-> IF r \in InBatch(b) THEN 1 ELSE runs[r]]
  BY <1>1 DEF ProcessBatchLocked
<1>3. Service!Run(InBatch(b))
  BY <1>1, <1>2 DEF Service!Run
<1> QED
  BY <1>3 DEF Service!ServiceNext

LEMMA RefineCaller ==
    ASSUME IInv, NEW r \in Requests, Enter(r) \/ CallerStep(r)
    PROVE  [Service!ServiceNext]_(Service!serviceVars)
<1> USE DEF CallerStates
<1>t. TypeOK
  BY DEF IInv
<1>1. CASE Enter(r)
  <2>1. callView[r] = "idle" /\ callView' = [callView EXCEPT ![r] = "waiting"]
    BY <1>t, <1>1, ViewMoves DEF Enter, callView
  <2> QED
    BY <1>1, <2>1 DEF Enter, Service!Call, Service!ServiceNext
<1>2. CASE AddToBatch(r) \/ FlushDone(r)
  <2>1. callView' = callView
    BY <1>t, <1>2 DEF AddToBatch, FlushDone, Goto, TypeOK, callView
  <2> QED
    BY <1>2, <2>1 DEF AddToBatch, FlushDone, Service!serviceVars
<1>3. CASE FillBatch(r)
  <2>1. callView' = callView
    BY <1>t, <1>3 DEF FillBatch, Goto, TypeOK, callView
  <2>2. InBatch(Append(batch, r)) = InBatch(batch) \cup {r} /\ InBatch(batch) \subseteq Requests
    BY <1>t, InBatchAppend, InBatchType DEF TypeOK
  <2>3. \A q \in InBatch(batch) \cup {r} : item[q] = "none" /\ caller[q] # "idle"
    BY <1>3, <2>2 DEF IInv, Placement, FillBatch
  <2> QED
    BY <1>3, <2>1, <2>2, <2>3, FlushRuns DEF FillBatch
<1>4. CASE Receive(r)
  <2>1. callView[r] = "waiting" /\ callView' = [callView EXCEPT ![r] = "response"]
    BY <1>t, <1>4, ViewMoves DEF Receive, callView
  <2>2. runs[r] = 1
    BY <1>4 DEF IInv, Placement, TypeOK, Receive, ResultCap
  <2> QED
    BY <1>4, <2>1, <2>2 DEF Receive, Service!Respond, Service!ServiceNext
<1>5. CASE GiveUp(r)
  <2>1. callView[r] = "waiting" /\ callView' = [callView EXCEPT ![r] = "canceled"]
    BY <1>t, <1>5, ViewMoves DEF GiveUp, callView
  <2> QED
    BY <1>5, <2>1 DEF GiveUp, Service!Abort, Service!ServiceNext
<1> QED
  BY <1>1, <1>2, <1>3, <1>4, <1>5 DEF CallerStep

LEMMA RefineTimer ==
    ASSUME IInv, NEW t \in DOMAIN timers, TimerStep(t)
    PROVE  [Service!ServiceNext]_(Service!serviceVars)
<1>1. UNCHANGED <<caller, ctxDone>> /\ callView' = callView
  BY DEF TimerStep, Fire, CallbackOnEmptyBatch, Callback, CallbackDone, callView
<1>2. CASE Fire(t) \/ CallbackOnEmptyBatch(t) \/ CallbackDone(t)
  BY <1>1, <1>2 DEF Fire, CallbackOnEmptyBatch, CallbackDone, Service!serviceVars
<1>3. CASE Callback(t)
  <2>1. InBatch(batch) \subseteq Requests
    BY InBatchType DEF IInv, TypeOK
  <2>2. \A r \in InBatch(batch) : item[r] = "none" /\ caller[r] # "idle"
    BY <2>1 DEF IInv, Placement
  <2> QED
    BY <1>1, <1>3, <2>1, <2>2, FlushRuns DEF Callback
<1> QED
  BY <1>2, <1>3 DEF TimerStep

LEMMA RefineItem ==
    ASSUME NEW r \in Requests, ItemStep(r) \/ CancelContext(r)
    PROVE  [Service!ServiceNext]_(Service!serviceVars)
<1>1. UNCHANGED <<caller, runs>> /\ callView' = callView
  BY DEF ItemStep, ItemHandled, ItemSend, ItemDiscard, CancelContext, callView
<1>2. CASE ItemStep(r)
  BY <1>1, <1>2 DEF ItemStep, ItemHandled, ItemSend, ItemDiscard, Service!serviceVars
<1>3. CASE CancelContext(r)
  BY <1>1, <1>3 DEF CancelContext, Service!CtxDone, Service!ServiceNext
<1> QED
  BY <1>2, <1>3

(* BatchProcessor keeps the promise of RequestService: whatever batches the *)
(* calls end up in and whoever flushes them, the handler runs at most once  *)
(* for each call, a response comes only after it ran, and a call fails only *)
(* if its own context is done.                                              *)
THEOREM Refinement == Spec => ImplementsService
<1>1. Init => Service!ServiceInit
  BY DEF Init, Service!ServiceInit, callView
<1>2. IInv /\ [Next]_vars => [Service!ServiceNext]_(Service!serviceVars)
  <2> SUFFICES ASSUME IInv, [Next]_vars
               PROVE  [Service!ServiceNext]_(Service!serviceVars)
    OBVIOUS
  <2>1. CASE UNCHANGED vars
    BY <2>1 DEF vars, Service!serviceVars, callView
  <2>2. CASE Next
    BY <2>2, RefineCaller, RefineTimer, RefineItem DEF Next
  <2> QED
    BY <2>1, <2>2
<1> QED
  BY <1>1, <1>2, Invariance, PTL DEF Spec, ImplementsService, Service!ServiceSpec
=============================================================================
