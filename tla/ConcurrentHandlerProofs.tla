---------------------- MODULE ConcurrentHandlerProofs ----------------------
(***************************************************************************)
(* Proofs about ConcurrentHandler, for every finite set of requests, every *)
(* set of workers and every queue size: type correctness, counters that    *)
(* agree with the calls, quiet after Shutdown, and the refinement of       *)
(* RequestService; and, at the end, about the pool that adapts the number  *)
(* of workers.                                                             *)
(*                                                                         *)
(* The counters agree because each step of a call moves it in or out of    *)
(* exactly the sets whose counters it changes (CountersMove). The rest     *)
(* follows each request through the channel and the workers, as for the    *)
(* pipeline, past an admission check that rejects before anything runs.    *)
(***************************************************************************)
EXTENDS ConcurrentHandler, FiniteSetTheorems, TLAPS

\* The calls whose work has not been submitted.
Outside == {"idle", "check", "admitted", "submit", "rejected"}
Answered == {"gotResponse", "response"}
Busy(w) == worker[w] \in {"handle", "send"}

Queued ==
    /\ \A i \in DOMAIN requestChan :
          /\ runs[requestChan[i]] = 0
          /\ caller[requestChan[i]] \notin Outside
    /\ \A i, j \in DOMAIN requestChan : requestChan[i] = requestChan[j] => i = j

Held ==
    /\ \A w \in Workers :
          Busy(w) => /\ work[w] \in Requests
                     /\ runs[work[w]] = 1
                     /\ respChan[work[w]] = 0
                     /\ caller[work[w]] \notin Answered
    /\ \A v, w \in Workers : Busy(v) /\ Busy(w) /\ work[v] = work[w] => v = w

Progress ==
    \A r \in Requests :
        /\ runs[r] \in {0, 1}
        /\ caller[r] \in Outside => runs[r] = 0
        /\ respChan[r] > 0 \/ caller[r] \in Answered => runs[r] = 1

Quiet ==
    /\ shutdown = "ok" => \A w \in Workers : worker[w] = "exited"
    /\ late # {} => shutdown = "ok"
    /\ \A r \in late : runs[r] = 0

IInv == TypeOK /\ Queued /\ Held /\ Progress /\ Quiet /\ CountersAgree

-----------------------------------------------------------------------------
\* Lemmas about the channel and about counting.

LEMMA AppendFacts ==
    ASSUME NEW s \in Seq(Requests), NEW r \in Requests
    PROVE  /\ Append(s, r) \in Seq(Requests) /\ Len(Append(s, r)) = Len(s) + 1
           /\ \A i \in DOMAIN Append(s, r) :
                 \/ i \in DOMAIN s /\ Append(s, r)[i] = s[i]
                 \/ i = Len(s) + 1 /\ Append(s, r)[i] = r
  OBVIOUS

LEMMA TailFacts ==
    ASSUME NEW s \in Seq(Requests), s # <<>>
    PROVE  /\ 1 \in DOMAIN s /\ Head(s) = s[1] /\ Head(s) \in Requests
           /\ Tail(s) \in Seq(Requests) /\ Len(Tail(s)) = Len(s) - 1
           /\ \A i \in DOMAIN Tail(s) :
                 i \in Nat \ {0} /\ i + 1 \in DOMAIN s /\ Tail(s)[i] = s[i + 1]
  OBVIOUS

One(b) == IF b THEN 1 ELSE 0

LEMMA CountMove ==
    ASSUME caller \in [Requests -> CallerStates], NEW r \in Requests, NEW pc,
           Goto(r, pc), NEW S
    PROVE  /\ Cardinality({q \in Requests : caller[q] \in S}) \in Nat
           /\ Cardinality({q \in Requests : caller'[q] \in S})
                = Cardinality({q \in Requests : caller[q] \in S})
                  + One(pc \in S) - One(caller[r] \in S)
<1> DEFINE A == {q \in Requests : caller[q] \in S}
           B == {q \in Requests : caller'[q] \in S}
<1>1. IsFiniteSet(A) /\ Cardinality(A) \in Nat
  BY ConcurrentAssumption, FS_Subset, FS_CardinalityType
<1>2. r \in A <=> caller[r] \in S
  OBVIOUS
<1>3. CASE pc \in S
  <2>1. B = A \cup {r}
    BY <1>3 DEF Goto
  <2> HIDE DEF A, B
  <2>2. Cardinality(B) = IF r \in A THEN Cardinality(A) ELSE Cardinality(A) + 1
    BY <1>1, <2>1, FS_AddElement
  <2> QED
    BY <1>1, <1>2, <1>3, <2>2 DEF One, A, B
<1>4. CASE pc \notin S
  <2>1. B = A \ {r}
    BY <1>4 DEF Goto
  <2> HIDE DEF A, B
  <2>2. Cardinality(B) = IF r \in A THEN Cardinality(A) - 1 ELSE Cardinality(A)
    BY <1>1, <2>1, FS_RemoveElement
  <2> QED
    BY <1>1, <1>2, <1>4, <2>2 DEF One, A, B
<1> QED
  BY <1>3, <1>4

\* The step moves r to pc and changes each counter by what that does to the
\* set it counts.
Counted(r, pc) ==
    /\ Goto(r, pc)
    /\ activeRequests' = activeRequests + One(pc \in Inside) - One(caller[r] \in Inside)
    /\ totalRequests' = totalRequests + One(pc # "idle") - One(caller[r] # "idle")
    /\ rejectedRequests' = rejectedRequests + One(pc = "rejected")
                              - One(caller[r] = "rejected")

LEMMA CountersMove ==
    ASSUME TypeOK, CountersAgree, NEW r \in Requests, NEW pc \in CallerStates,
           Counted(r, pc)
    PROVE  CountersAgree'
<1> USE DEF Counted
<1>t. caller \in [Requests -> CallerStates] /\ caller' \in [Requests -> CallerStates]
  BY DEF TypeOK, Goto
<1>1. activeRequests' = Cardinality({q \in Requests : caller'[q] \in Inside})
  <2>1. Cardinality({q \in Requests : caller'[q] \in Inside})
          = Cardinality({q \in Requests : caller[q] \in Inside})
            + One(pc \in Inside) - One(caller[r] \in Inside)
    BY <1>t, CountMove
  <2> QED
    BY <2>1 DEF CountersAgree
<1>2. totalRequests' = Cardinality({q \in Requests : caller'[q] # "idle"})
  <2> DEFINE Called == CallerStates \ {"idle"}
  <2>1. Cardinality({q \in Requests : caller'[q] \in Called})
          = Cardinality({q \in Requests : caller[q] \in Called})
            + One(pc \in Called) - One(caller[r] \in Called)
    <3> HIDE DEF Called
    <3> QED
      BY <1>t, CountMove
  <2>2. /\ {q \in Requests : caller'[q] \in Called} = {q \in Requests : caller'[q] # "idle"}
        /\ {q \in Requests : caller[q] \in Called} = {q \in Requests : caller[q] # "idle"}
        /\ (pc \in Called) = (pc # "idle") /\ (caller[r] \in Called) = (caller[r] # "idle")
    BY <1>t
  <2> QED
    BY <2>1, <2>2 DEF CountersAgree
<1>3. rejectedRequests' = Cardinality({q \in Requests : caller'[q] = "rejected"})
  <2>1. Cardinality({q \in Requests : caller'[q] \in {"rejected"}})
          = Cardinality({q \in Requests : caller[q] \in {"rejected"}})
            + One(pc \in {"rejected"}) - One(caller[r] \in {"rejected"})
    BY <1>t, CountMove
  <2>2. /\ {q \in Requests : caller'[q] \in {"rejected"}}
             = {q \in Requests : caller'[q] = "rejected"}
        /\ {q \in Requests : caller[q] \in {"rejected"}}
             = {q \in Requests : caller[q] = "rejected"}
        /\ (pc \in {"rejected"}) = (pc = "rejected")
        /\ (caller[r] \in {"rejected"}) = (caller[r] = "rejected")
    OBVIOUS
  <2> QED
    BY <2>1, <2>2 DEF CountersAgree
<1> QED
  BY <1>1, <1>2, <1>3 DEF CountersAgree

-----------------------------------------------------------------------------

LEMMA InitIInv == Init => IInv
<1> SUFFICES ASSUME Init PROVE IInv
  OBVIOUS
<1>1. TypeOK
  <2>1. 0 \in 0..RespCap
    BY DEF RespCap
  <2>2. caller \in [Requests -> CallerStates] /\ worker \in [Workers -> WorkerStates]
    BY DEF Init, CallerStates, WorkerStates
  <2>3. requestChan \in Seq(Requests) /\ Len(requestChan) <= MaxQueueSize
    BY ConcurrentAssumption DEF Init
  <2>4. respChan \in [Requests -> 0..RespCap] /\ runs \in [Requests -> Nat]
    BY <2>1 DEF Init
  <2>5. work \in [Workers -> Requests \cup {NoWork}]
    BY DEF Init
  <2>6. activeRequests \in Int /\ totalRequests \in Nat /\ rejectedRequests \in Nat
    BY DEF Init
  <2>7. /\ ctxDone \in SUBSET Requests /\ closed \in BOOLEAN /\ late \in SUBSET Requests
        /\ shutdown \in {"none", "waiting", "ok", "deadline"} /\ crashed \in BOOLEAN
    BY DEF Init
  <2> QED
    BY <2>2, <2>3, <2>4, <2>5, <2>6, <2>7 DEF TypeOK
<1>2. Queued /\ Held /\ Progress /\ Quiet
  BY DEF Init, Queued, Held, Progress, Quiet, Busy, Answered
<1>3. CountersAgree
  <2>1. /\ {r \in Requests : caller[r] \in Inside} = {}
        /\ {r \in Requests : caller[r] # "idle"} = {}
        /\ {r \in Requests : caller[r] = "rejected"} = {}
    BY DEF Init, Inside
  <2> QED
    BY <2>1, FS_EmptySet DEF Init, CountersAgree
<1> QED
  BY <1>1, <1>2, <1>3 DEF IInv

-----------------------------------------------------------------------------
\* Steps of callers.

LEMMA EnterIInv == ASSUME IInv, NEW r \in Requests, Enter(r), UNCHANGED crashed PROVE IInv'
<1> USE DEF IInv, Enter, workerVars, controlVars, Goto
<1>1. TypeOK'
  BY DEF TypeOK, CallerStates
<1>2. Queued' /\ Held' /\ Progress'
  BY DEF TypeOK, Queued, Held, Progress, Busy, Outside, Answered
<1>3. Quiet'
  BY DEF TypeOK, Progress, Quiet, Outside
<1>4. Counted(r, "check")
  BY DEF Counted, One, TypeOK, Inside
<1>5. CountersAgree'
  BY <1>4, CountersMove DEF CallerStates
<1> QED
  BY <1>1, <1>2, <1>3, <1>5

LEMMA AdmissionIInv ==
    ASSUME IInv, NEW r \in Requests, CheckCapacity(r) \/ Activate(r), UNCHANGED crashed
    PROVE  IInv'
<1> USE DEF IInv, workerVars, controlVars, Goto
<1>1. CASE CheckCapacity(r)
  <2>1. TypeOK'
    <3>1. caller' \in [Requests -> CallerStates]
      BY <1>1 DEF TypeOK, CheckCapacity, CallerStates
    <3>2. rejectedRequests' \in Nat
      BY <1>1 DEF TypeOK, CheckCapacity
    <3> QED
      BY <1>1, <3>1, <3>2 DEF TypeOK, CheckCapacity
  <2>2. Queued' /\ Held' /\ Progress' /\ Quiet'
    BY <1>1 DEF CheckCapacity, TypeOK, Queued, Held, Progress, Quiet, Busy, Outside,
                Answered
  <2>3. CountersAgree'
    <3>1. Counted(r, "rejected") \/ Counted(r, "admitted")
      BY <1>1 DEF CheckCapacity, Counted, One, TypeOK, Inside
    <3> QED
      BY <3>1, CountersMove DEF CallerStates
  <2> QED
    BY <2>1, <2>2, <2>3
<1>2. CASE Activate(r)
  <2>1. TypeOK'
    BY <1>2 DEF TypeOK, Activate, CallerStates
  <2>2. Queued' /\ Held' /\ Progress' /\ Quiet'
    BY <1>2 DEF Activate, TypeOK, Queued, Held, Progress, Quiet, Busy, Outside, Answered
  <2>3. Counted(r, "submit")
    BY <1>2 DEF Activate, Counted, One, TypeOK, Inside
  <2>4. CountersAgree'
    BY <2>3, CountersMove DEF CallerStates
  <2> QED
    BY <2>1, <2>2, <2>4
<1> QED
  BY <1>1, <1>2

LEMMA SubmitIInv ==
    ASSUME IInv, NEW r \in Requests, Submit(r), UNCHANGED crashed PROVE IInv'
<1> USE DEF IInv, Submit, workerVars, controlVars, counters, Goto
<1>1. /\ requestChan \in Seq(Requests) /\ Len(requestChan) < MaxQueueSize
      /\ requestChan' = Append(requestChan, r)
  BY DEF TypeOK
<1>2. /\ requestChan' \in Seq(Requests) /\ Len(requestChan') = Len(requestChan) + 1
      /\ \A i \in DOMAIN requestChan' :
            \/ i \in DOMAIN requestChan /\ requestChan'[i] = requestChan[i]
            \/ i = Len(requestChan) + 1 /\ requestChan'[i] = r
  BY <1>1, AppendFacts
<1>3. TypeOK'
  <2>1. Len(requestChan') <= MaxQueueSize
    BY <1>1, <1>2, ConcurrentAssumption
  <2> QED
    BY <1>2, <2>1 DEF TypeOK, CallerStates
<1>4. Queued'
  BY <1>2 DEF TypeOK, Queued, Progress, Outside
<1>5. Held' /\ Progress' /\ Quiet'
  BY DEF TypeOK, Held, Progress, Quiet, Busy, Outside, Answered
<1>6. Counted(r, "await")
  BY DEF Counted, One, TypeOK, Inside
<1>7. CountersAgree'
  BY <1>6, CountersMove DEF CallerStates
<1> QED
  BY <1>3, <1>4, <1>5, <1>7

LEMMA ReceiveIInv ==
    ASSUME IInv, NEW r \in Requests, Receive(r), UNCHANGED crashed PROVE IInv'
<1> USE DEF IInv, Receive, workerVars, controlVars, counters, Goto
<1>1. respChan[r] = 1 /\ respChan' = [respChan EXCEPT ![r] = 0]
  <2>1. respChan[r] \in 0..1 /\ respChan[r] > 0
    BY DEF TypeOK, RespCap
  <2>2. respChan[r] = 1 /\ respChan[r] - 1 = 0
    BY <2>1
  <2>3. respChan' = [respChan EXCEPT ![r] = respChan[r] - 1]
    OBVIOUS
  <2> QED
    BY <2>2, <2>3
<1>2. TypeOK'
  <2>1. caller' \in [Requests -> CallerStates]
    BY DEF TypeOK, CallerStates
  <2>2. respChan' \in [Requests -> 0..RespCap]
    BY <1>1 DEF TypeOK, RespCap
  <2> QED
    BY <2>1, <2>2 DEF TypeOK
<1>3. Queued' /\ Quiet'
  BY DEF TypeOK, Queued, Quiet, Outside
<1>4. Held'
  BY <1>1 DEF TypeOK, Held, Busy, Answered
<1>5. Progress'
  BY <1>1 DEF TypeOK, Progress, Outside, Answered
<1>6. Counted(r, "gotResponse")
  BY DEF Counted, One, TypeOK, Inside
<1>7. CountersAgree'
  BY <1>6, CountersMove DEF CallerStates
<1> QED
  BY <1>2, <1>3, <1>4, <1>5, <1>7

LEMMA LeaveIInv ==
    ASSUME IInv, NEW r \in Requests, GiveUp(r) \/ Return(r), UNCHANGED crashed
    PROVE  IInv'
<1> USE DEF IInv, workerVars, controlVars, counters, Goto
<1>1. CASE GiveUp(r)
  <2>1. TypeOK'
    BY <1>1 DEF TypeOK, GiveUp, CallerStates
  <2>2. Queued' /\ Held' /\ Progress' /\ Quiet'
    BY <1>1 DEF GiveUp, TypeOK, Queued, Held, Progress, Quiet, Busy, Outside, Answered
  <2>3. Counted(r, "gotError")
    BY <1>1 DEF GiveUp, Counted, One, TypeOK, Inside
  <2>4. CountersAgree'
    BY <2>3, CountersMove DEF CallerStates
  <2> QED
    BY <2>1, <2>2, <2>4
<1>2. CASE Return(r)
  <2>1. TypeOK'
    BY <1>2 DEF TypeOK, Return, CallerStates
  <2>2. Queued' /\ Held' /\ Progress' /\ Quiet'
    BY <1>2 DEF Return, TypeOK, Queued, Held, Progress, Quiet, Busy, Outside, Answered
  <2>3. CountersAgree'
    <3>1. CASE caller[r] = "gotResponse"
      <4>1. Counted(r, "response")
        BY <1>2, <3>1 DEF Return, Counted, One, TypeOK, Inside
      <4> QED
        BY <4>1, CountersMove DEF CallerStates
    <3>2. CASE caller[r] = "gotError"
      <4>1. Counted(r, "canceled")
        BY <1>2, <3>2 DEF Return, Counted, One, TypeOK, Inside
      <4> QED
        BY <4>1, CountersMove DEF CallerStates
    <3> QED
      BY <1>2, <3>1, <3>2 DEF Return
  <2> QED
    BY <2>1, <2>2, <2>3
<1> QED
  BY <1>1, <1>2

-----------------------------------------------------------------------------
\* Steps of workers; none of them changes a counter.

LEMMA TakeIInv ==
    ASSUME IInv, NEW w \in Workers, Take(w), UNCHANGED crashed PROVE IInv'
<1> DEFINE r == Head(requestChan)
<1>1. /\ requestChan \in Seq(Requests) /\ requestChan # <<>>
      /\ requestChan' = Tail(requestChan) /\ Len(requestChan) <= MaxQueueSize
  BY DEF IInv, TypeOK, Take
<1>2. /\ 1 \in DOMAIN requestChan /\ r = requestChan[1] /\ r \in Requests
      /\ requestChan' \in Seq(Requests) /\ Len(requestChan') = Len(requestChan) - 1
      /\ \A i \in DOMAIN requestChan' :
            /\ i \in Nat \ {0} /\ i + 1 \in DOMAIN requestChan
            /\ requestChan'[i] = requestChan[i + 1]
  BY <1>1, TailFacts
<1>3. /\ work' = [work EXCEPT ![w] = r] /\ worker' = [worker EXCEPT ![w] = "handle"]
      /\ runs' = [runs EXCEPT ![r] = @ + 1] /\ worker[w] = "select"
      /\ UNCHANGED <<caller, late, respChan, counters, ctxDone, closed, shutdown>>
  BY DEF Take, callerVars, controlVars
<1>4. runs[r] = 0 /\ caller[r] \notin Outside
  BY <1>2 DEF IInv, Queued
<1>5. \A i \in DOMAIN requestChan' : requestChan'[i] # r
  BY <1>2 DEF IInv, Queued
<1> HIDE DEF r
<1>6. TypeOK'
  <2>1. worker' \in [Workers -> WorkerStates]
    BY <1>3 DEF IInv, TypeOK, WorkerStates
  <2>2. Len(requestChan') <= MaxQueueSize
    BY <1>1, <1>2, ConcurrentAssumption
  <2> QED
    BY <1>2, <1>3, <2>1, <2>2 DEF IInv, TypeOK, counters
<1>7. Queued'
  <2>1. \A i \in DOMAIN requestChan' :
           runs'[requestChan'[i]] = 0 /\ caller'[requestChan'[i]] \notin Outside
    BY <1>2, <1>3, <1>5 DEF IInv, TypeOK, Queued
  <2>2. \A i, j \in DOMAIN requestChan' : requestChan'[i] = requestChan'[j] => i = j
    BY <1>2 DEF IInv, Queued
  <2> QED
    BY <2>1, <2>2 DEF Queued
<1>8. Held'
  <2>1. respChan[r] = 0 /\ caller[r] \notin Answered
    BY <1>2, <1>4 DEF IInv, TypeOK, Progress, RespCap
  <2>2. \A v \in Workers : Busy(v) => work[v] # r
    BY <1>4 DEF IInv, Held
  <2> QED
    BY <1>2, <1>3, <1>4, <2>1, <2>2 DEF IInv, TypeOK, Held, Busy
<1>9. Progress' /\ Quiet'
  BY <1>2, <1>3, <1>4 DEF IInv, TypeOK, Progress, Quiet
<1>10. CountersAgree'
  BY <1>3 DEF IInv, CountersAgree, counters
<1> QED
  BY <1>6, <1>7, <1>8, <1>9, <1>10 DEF IInv

LEMMA WorkerStepIInv ==
    ASSUME IInv, NEW w \in Workers, WorkerStep(w), UNCHANGED crashed
    PROVE  IInv'
<1> USE DEF IInv, callerVars, controlVars, counters
<1>1. CASE Take(w)
  BY <1>1, TakeIInv
<1>2. CASE HandlerReturns(w)
  <2>1. TypeOK'
    BY <1>2 DEF TypeOK, HandlerReturns, WorkerStates
  <2>2. Queued' /\ Held' /\ Progress' /\ Quiet' /\ CountersAgree'
    BY <1>2 DEF HandlerReturns, TypeOK, Queued, Held, Progress, Quiet, Busy, CountersAgree
  <2> QED
    BY <2>1, <2>2
<1>3. CASE SendResponse(w)
  <2>1. /\ work[w] \in Requests /\ runs[work[w]] = 1
        /\ respChan' = [respChan EXCEPT ![work[w]] = 1]
    <3>1. work[w] \in Requests /\ runs[work[w]] = 1 /\ respChan[work[w]] = 0
      BY <1>3 DEF SendResponse, Held, Busy
    <3>2. respChan' = [respChan EXCEPT ![work[w]] = respChan[work[w]] + 1]
      BY <1>3 DEF SendResponse
    <3>3. respChan[work[w]] + 1 = 1
      BY <3>1
    <3> QED
      BY <3>1, <3>2, <3>3
  <2>2. TypeOK'
    <3>1. respChan' \in [Requests -> 0..RespCap]
      BY <2>1 DEF TypeOK, RespCap
    <3>2. worker' \in [Workers -> WorkerStates]
      BY <1>3 DEF TypeOK, SendResponse, WorkerStates
    <3> QED
      BY <1>3, <3>1, <3>2 DEF TypeOK, SendResponse
  <2>3. Queued' /\ Quiet' /\ CountersAgree'
    BY <1>3 DEF SendResponse, TypeOK, Queued, Quiet, CountersAgree
  <2>4. Held'
    BY <1>3, <2>1 DEF SendResponse, TypeOK, Held, Busy
  <2>5. Progress'
    BY <1>3, <2>1 DEF SendResponse, TypeOK, Progress
  <2> QED
    BY <2>2, <2>3, <2>4, <2>5
<1>4. CASE Discard(w) \/ Exit(w)
  <2>1. TypeOK'
    BY <1>4 DEF TypeOK, Discard, Exit, WorkerStates
  <2>2. /\ UNCHANGED <<caller, late, requestChan, respChan, work, runs, counters, shutdown>>
        /\ \A v \in Workers : Busy(v)' => Busy(v)
        /\ \A v \in Workers : worker[v] = "exited" => worker'[v] = "exited"
    BY <1>4 DEF Discard, Exit, TypeOK, Busy
  <2>3. Queued' /\ Progress' /\ CountersAgree'
    BY <2>2 DEF Queued, Progress, CountersAgree
  <2>4. Held'
    BY <2>2 DEF Held
  <2>5. Quiet'
    BY <2>2 DEF Quiet
  <2> QED
    BY <2>1, <2>3, <2>4, <2>5
<1> QED
  BY <1>1, <1>2, <1>3, <1>4 DEF WorkerStep

-----------------------------------------------------------------------------
\* Shutdown, the crash, contexts, and all of it.

LEMMA OtherStepIInv ==
    ASSUME IInv,
           \/ Running /\ (ShutdownCancel \/ ShutdownStep)
           \/ \E w \in Workers : ClearActiveWork(w)
           \/ UNCHANGED vars
           \/ \E r \in Requests : Running /\ CancelContext(r)
    PROVE  IInv'
<1> USE DEF IInv, callerVars, workerVars, counters, controlVars, CountersAgree
<1>1. CASE Running /\ (ShutdownCancel \/ ShutdownStep)
  <2>1. UNCHANGED <<callerVars, requestChan, respChan, workerVars, counters, ctxDone, crashed>>
    BY <1>1 DEF ShutdownCancel, ShutdownStep, ShutdownDone, ShutdownDeadline, Running
  <2>2. TypeOK'
    BY <1>1, <2>1 DEF ShutdownCancel, ShutdownStep, ShutdownDone, ShutdownDeadline, TypeOK
  <2>3. Queued' /\ Held' /\ Progress' /\ CountersAgree'
    BY <2>1 DEF Queued, Held, Progress, Busy
  <2>4. Quiet'
    BY <1>1, <2>1 DEF ShutdownCancel, ShutdownStep, ShutdownDone, ShutdownDeadline, Quiet
  <2> QED
    BY <2>2, <2>3, <2>4
<1>2. CASE \E w \in Workers : ClearActiveWork(w)
  BY <1>2 DEF ClearActiveWork, TypeOK, Queued, Held, Progress, Quiet, Busy
<1>3. CASE UNCHANGED vars
  BY <1>3 DEF vars, TypeOK, Queued, Held, Progress, Quiet, Busy
<1>4. CASE \E r \in Requests : Running /\ CancelContext(r)
  BY <1>4 DEF CancelContext, Running, TypeOK, Queued, Held, Progress, Quiet, Busy
<1> QED
  BY <1>1, <1>2, <1>3, <1>4

LEMMA NextIInv == IInv /\ [Next]_vars => IInv'
<1> SUFFICES ASSUME IInv, [Next]_vars PROVE IInv'
  OBVIOUS
<1>1. ASSUME NEW r \in Requests, Running, Enter(r) \/ CallerStep(r)
      PROVE  IInv'
  BY <1>1, EnterIInv, AdmissionIInv, SubmitIInv, ReceiveIInv, LeaveIInv
     DEF CallerStep, Running
<1>2. ASSUME NEW w \in Workers, Running, WorkerStep(w)
      PROVE  IInv'
  BY <1>2, WorkerStepIInv DEF Running
<1> QED
  BY <1>1, <1>2, OtherStepIInv DEF Next

-----------------------------------------------------------------------------
\* The results.

(* The inductive invariant holds throughout.                                *)
THEOREM Invariance == Spec => []IInv
  BY InitIInv, NextIInv, PTL DEF Spec

(* Every variable keeps its type; in particular the channel never holds     *)
(* more than MaxQueueSize pieces of work, although more calls may be active.*)
THEOREM TypeCorrect == Spec => []TypeOK
  BY Invariance, PTL DEF IInv

(* Whatever way calls leave HandleRequest, the three counters equal the     *)
(* numbers of calls that are active, were made and were rejected.           *)
THEOREM CountersCorrect == Spec => []CountersAgree
  BY Invariance, PTL DEF IInv

(* After a Shutdown that returned nil nothing is handled, and a call made   *)
(* later is admitted but never answered.                                    *)
THEOREM ShutdownIsQuiet == Spec => []QuietAfterShutdown
<1>1. IInv => QuietAfterShutdown
  BY DEF IInv, TypeOK, Progress, Quiet, QuietAfterShutdown, Answered
<1> QED
  BY <1>1, Invariance, PTL

-----------------------------------------------------------------------------
\* The refinement: each step is a step of the service or leaves it unchanged.

View(pc) ==
    CASE pc \in {"check", "admitted", "submit", "await"} -> "waiting"
      [] pc = "gotResponse" -> "response"
      [] pc = "gotError"    -> "canceled"
      [] OTHER              -> pc

LEMMA ViewMoves ==
    ASSUME TypeOK, NEW r \in Requests, NEW pc, Goto(r, pc)
    PROVE  callView' = [callView EXCEPT ![r] = View(pc)] /\ callView[r] = View(caller[r])
  BY DEF TypeOK, Goto, callView, View

LEMMA RefineCaller ==
    ASSUME IInv, NEW r \in Requests, Enter(r) \/ CallerStep(r)
    PROVE  [Service!ServiceNext]_(Service!serviceVars)
<1> USE DEF workerVars, controlVars
<1>t. TypeOK
  BY DEF IInv
<1>1. CASE Enter(r)
  <2>1. callView[r] = "idle" /\ callView' = [callView EXCEPT ![r] = "waiting"]
    BY <1>t, <1>1, ViewMoves DEF Enter, View
  <2> QED
    BY <1>1, <2>1 DEF Enter, Service!Call, Service!ServiceNext
<1>2. CASE CheckCapacity(r)
  <2>1. CASE activeRequests >= MaxQueueSize
    <3>1. callView[r] = "waiting" /\ callView' = [callView EXCEPT ![r] = "rejected"]
      BY <1>t, <1>2, <2>1, ViewMoves DEF CheckCapacity, View
    <3>2. runs[r] = 0
      BY <1>2 DEF IInv, Progress, Outside, CheckCapacity
    <3> QED
      BY <1>2, <3>1, <3>2 DEF CheckCapacity, Service!Reject, Service!ServiceNext
  <2>2. CASE ~(activeRequests >= MaxQueueSize)
    <3>1. callView' = callView
      BY <1>t, <1>2, <2>2 DEF CheckCapacity, Goto, TypeOK, callView
    <3> QED
      BY <1>2, <3>1 DEF CheckCapacity, Service!serviceVars
  <2> QED
    BY <2>1, <2>2
<1>3. CASE Activate(r) \/ Submit(r) \/ Return(r)
  <2>1. callView' = callView
    BY <1>t, <1>3 DEF Activate, Submit, Return, Goto, TypeOK, callView
  <2> QED
    BY <1>3, <2>1 DEF Activate, Submit, Return, Service!serviceVars
<1>4. CASE Receive(r)
  <2>1. callView[r] = "waiting" /\ callView' = [callView EXCEPT ![r] = "response"]
    BY <1>t, <1>4, ViewMoves DEF Receive, View
  <2>2. runs[r] = 1
    BY <1>4 DEF IInv, Progress, Receive
  <2> QED
    BY <1>4, <2>1, <2>2 DEF Receive, Service!Respond, Service!ServiceNext
<1>5. CASE GiveUp(r)
  <2>1. callView[r] = "waiting" /\ callView' = [callView EXCEPT ![r] = "canceled"]
    BY <1>t, <1>5, ViewMoves DEF GiveUp, View
  <2> QED
    BY <1>5, <2>1 DEF GiveUp, Service!Abort, Service!ServiceNext
<1> QED
  BY <1>1, <1>2, <1>3, <1>4, <1>5 DEF CallerStep

LEMMA RefineWorker ==
    ASSUME IInv, NEW w \in Workers, WorkerStep(w)
    PROVE  [Service!ServiceNext]_(Service!serviceVars)
<1>1. UNCHANGED <<caller, ctxDone, closed>> /\ callView' = callView
  BY DEF WorkerStep, Take, HandlerReturns, SendResponse, Discard, Exit, callerVars,
         controlVars, callView
<1>2. CASE Take(w)
  <2> DEFINE r == Head(requestChan)
  <2>1. r = requestChan[1] /\ 1 \in DOMAIN requestChan /\ r \in Requests
    BY <1>2, TailFacts DEF IInv, TypeOK, Take
  <2>2. runs[r] = 0 /\ callView[r] \notin {"idle", "rejected"}
    BY <2>1 DEF IInv, TypeOK, Queued, Outside, callView, CallerStates
  <2>3. runs' = [q \in Requests |-> IF q \in {r} THEN 1 ELSE runs[q]]
    <3>1. runs \in [Requests -> Nat] /\ runs' = [runs EXCEPT ![r] = runs[r] + 1]
      BY <1>2 DEF IInv, TypeOK, Take
    <3>2. runs[r] + 1 = 1
      BY <2>2
    <3> HIDE DEF r
    <3> QED
      BY <3>1, <3>2
  <2>4. Service!Run({r})
    BY <1>1, <2>2, <2>3 DEF Service!Run
  <2> QED
    BY <2>1, <2>4 DEF Service!ServiceNext
<1>3. CASE HandlerReturns(w) \/ SendResponse(w) \/ Discard(w) \/ Exit(w)
  BY <1>1, <1>3 DEF HandlerReturns, SendResponse, Discard, Exit, Service!serviceVars
<1> QED
  BY <1>2, <1>3 DEF WorkerStep

LEMMA RefineOther ==
    ASSUME \/ Running /\ (ShutdownCancel \/ ShutdownStep)
           \/ \E w \in Workers : ClearActiveWork(w)
           \/ UNCHANGED vars
           \/ \E r \in Requests : Running /\ CancelContext(r)
    PROVE  [Service!ServiceNext]_(Service!serviceVars)
<1> USE DEF callerVars, workerVars, controlVars, callView
<1>1. CASE ShutdownCancel
  BY <1>1 DEF ShutdownCancel, Service!Close, Service!ServiceNext
<1>2. CASE ShutdownStep
  BY <1>2 DEF ShutdownStep, ShutdownDone, ShutdownDeadline, Service!serviceVars
<1>3. CASE \E w \in Workers : ClearActiveWork(w)
  BY <1>3 DEF ClearActiveWork, Service!serviceVars
<1>4. CASE UNCHANGED vars
  BY <1>4 DEF vars, Service!serviceVars
<1>5. CASE \E r \in Requests : CancelContext(r)
  BY <1>5 DEF CancelContext, Service!CtxDone, Service!ServiceNext
<1> QED
  BY <1>1, <1>2, <1>3, <1>4, <1>5

(* ConcurrentHandler keeps the promise of RequestService for every number   *)
(* of calls, workers and every queue size: a rejected call is never         *)
(* handled, any other at most once, and answered only after that.           *)
THEOREM Refinement == Spec => ImplementsService
<1>1. Init => Service!ServiceInit
  BY DEF Init, Service!ServiceInit, callView
<1>2. IInv /\ [Next]_vars => [Service!ServiceNext]_(Service!serviceVars)
  BY RefineCaller, RefineWorker, RefineOther DEF Next
<1> QED
  BY <1>1, <1>2, Invariance, PTL DEF Spec, ImplementsService, Service!ServiceSpec

-----------------------------------------------------------------------------
(***************************************************************************)
(* The pool whose monitor adapts the number of workers.                    *)
(***************************************************************************)
CONSTANTS MinWorkers, MaxWorkers, NumWorkers, HistoryNeeded, MaxGoroutines
VARIABLES current, slice, live, started, samples, monitor, poolShutdown

Pool == INSTANCE AdaptiveWorkerPool WITH shutdown <- poolShutdown

\* What NewAdaptiveWorkerPool makes of its options.
PoolOptions ==
    /\ MinWorkers \in Nat /\ MaxWorkers \in Nat /\ NumWorkers \in Nat
    /\ 1 <= MinWorkers /\ MinWorkers <= NumWorkers /\ NumWorkers <= MaxWorkers
    /\ HistoryNeeded \in Nat

\* While the monitor adds workers the slice is on its way from the count to
\* the target; otherwise it is the count.
Scaling ==
    /\ current \in Nat /\ slice \in Nat /\ started \in Nat
    /\ MinWorkers <= current /\ current <= MaxWorkers
    /\ monitor \in [pc : {"ticker", "adding", "done"}, target : 0..MaxWorkers]
    /\ monitor.pc # "adding" => slice = current
    /\ monitor.pc = "adding" => current <= slice /\ slice <= monitor.target
    /\ slice <= started

Staffing ==
    /\ live \in Nat /\ started \in Nat
    /\ samples \in 0..HistoryNeeded
    /\ poolShutdown \in {"no", "stopping", "waiting", "nil", "timeout"}
    /\ poolShutdown \in {"no", "stopping"} => live = started

PoolInv == Scaling /\ Staffing

LEMMA PoolShape ==
    ASSUME PoolOptions
    PROVE  Scaling => /\ current \in Nat /\ slice \in Nat /\ started \in Nat
                      /\ monitor.target \in Nat /\ monitor.target <= MaxWorkers
                      /\ monitor.pc \in {"ticker", "adding", "done"}
  BY DEF Scaling, PoolOptions

\* Scaling moves the count, but not past its limits.
LEMMA ScaleBounds ==
    ASSUME PoolOptions, Scaling
    PROVE  /\ current < MaxWorkers => /\ Pool!ScaleUp \in Nat
                                      /\ current <= Pool!ScaleUp /\ Pool!ScaleUp <= MaxWorkers
           /\ current > MinWorkers => /\ Pool!ScaleDown \in Nat
                                      /\ MinWorkers <= Pool!ScaleDown /\ Pool!ScaleDown < current
<1>1. current \in Nat /\ MinWorkers <= current /\ current <= MaxWorkers
  BY DEF Scaling
<1>2. MinWorkers \in Nat /\ MaxWorkers \in Nat
  BY DEF PoolOptions
<1>3. current \div 4 \in Int
  BY <1>1
<1> DEFINE some == Pool!AtLeast(1, current \div 4)
<1>4. some \in Int /\ 1 <= some
  BY <1>3 DEF Pool!AtLeast
<1>5. Pool!ScaleUp = Pool!AtMost(MaxWorkers, current + some)
  BY DEF Pool!ScaleUp
<1>6. Pool!ScaleDown = Pool!AtLeast(MinWorkers, current - some)
  BY DEF Pool!ScaleDown
<1> HIDE DEF some
<1> QED
  BY <1>1, <1>2, <1>4, <1>5, <1>6 DEF Pool!AtMost, Pool!AtLeast

\* A decision of the monitor leaves the slice at the count.
LEMMA EvaluateKeeps ==
    ASSUME PoolOptions, PoolInv, Pool!Evaluate
    PROVE  PoolInv'
<1>0. Scaling /\ Staffing
  BY DEF PoolInv
<1>1. /\ live' = live /\ started' = started /\ poolShutdown' = poolShutdown
      /\ samples' = Pool!AtMost(samples + 1, HistoryNeeded)
      /\ monitor.pc = "ticker"
  BY DEF Pool!Evaluate
<1>2. Staffing'
  BY <1>0, <1>1 DEF Staffing, PoolOptions, Pool!AtMost
<1>3. /\ current \in Nat /\ slice = current /\ started \in Nat /\ slice <= started
      /\ MinWorkers \in Nat /\ MaxWorkers \in Nat
      /\ MinWorkers <= current /\ current <= MaxWorkers
  BY <1>0, <1>1 DEF Scaling, PoolOptions
<1>4. Scaling'
  <2>1. CASE UNCHANGED <<current, slice, monitor>>
    BY <1>0, <1>1, <2>1 DEF Scaling
  <2>2. CASE /\ current < MaxWorkers
             /\ monitor' = [pc |-> "adding", target |-> Pool!ScaleUp]
             /\ UNCHANGED <<current, slice>>
    <3>1. /\ Pool!ScaleUp \in 0..MaxWorkers /\ current <= Pool!ScaleUp
      BY <1>0, <1>3, <2>2, ScaleBounds
    <3> QED
      BY <1>1, <1>3, <2>2, <3>1 DEF Scaling
  <2>3. CASE /\ current > MinWorkers
             /\ slice' = Pool!SliceAfterRemoving(current - Pool!ScaleDown)
             /\ current' = Pool!ScaleDown /\ UNCHANGED monitor
    <3>1. PICK n \in Nat : n = Pool!ScaleDown
      BY <1>0, <2>3, ScaleBounds
    <3>2. MinWorkers <= n /\ n < current
      BY <1>0, <2>3, <3>1, ScaleBounds
    <3>3. slice' = n
      BY <1>3, <2>3, <3>1, <3>2 DEF PoolOptions, Pool!SliceAfterRemoving
    <3>4. current' = n /\ monitor' = monitor
      BY <2>3, <3>1
    <3> QED
      BY <1>0, <1>1, <1>3, <3>2, <3>3, <3>4 DEF Scaling
  <2> QED
    BY <2>1, <2>2, <2>3 DEF Pool!Evaluate
<1> QED
  BY <1>2, <1>4 DEF PoolInv

LEMMA PoolInvariance == ASSUME PoolOptions PROVE Pool!Spec => []PoolInv
<1>1. Pool!Init => PoolInv
  BY DEF Pool!Init, PoolInv, Scaling, Staffing, PoolOptions
<1>2. PoolInv /\ [Pool!Next]_(Pool!vars) => PoolInv'
  <2> SUFFICES ASSUME PoolInv, [Pool!Next]_(Pool!vars) PROVE PoolInv'
    OBVIOUS
  <2>0. Scaling /\ Staffing
    BY DEF PoolInv
  <2>1. CASE Pool!Evaluate
    BY <2>1, EvaluateKeeps
  <2>2. CASE Pool!AddWorker
    <3>1. Scaling'
      BY <2>0, <2>2, PoolShape DEF Pool!AddWorker, Scaling
    <3>2. Staffing'
      BY <2>0, <2>2 DEF Pool!AddWorker, Staffing
    <3> QED
      BY <3>1, <3>2 DEF PoolInv
  <2>3. CASE Pool!Added
    <3>1. Scaling'
      BY <2>0, <2>3, PoolShape DEF Pool!Added, Scaling, PoolOptions
    <3>2. Staffing'
      BY <2>0, <2>3 DEF Pool!Added, Staffing
    <3> QED
      BY <3>1, <3>2 DEF PoolInv
  <2>4. CASE Pool!MonitorEnds
    <3>1. Scaling'
      BY <2>0, <2>4 DEF Pool!MonitorEnds, Scaling, PoolOptions
    <3>2. Staffing'
      BY <2>0, <2>4 DEF Pool!MonitorEnds, Staffing
    <3> QED
      BY <3>1, <3>2 DEF PoolInv
  <2>5. CASE \/ Pool!Shutdown \/ Pool!CancelWorkers \/ Pool!ShutdownReturns
             \/ Pool!WorkerEnds \/ UNCHANGED Pool!vars
    <3> USE <2>5 DEF Pool!Shutdown, Pool!CancelWorkers, Pool!ShutdownReturns,
                     Pool!WorkerEnds, Pool!vars
    <3>1. Scaling'
      BY <2>0 DEF Scaling
    <3>2. Staffing'
      BY <2>0 DEF Staffing
    <3> QED
      BY <3>1, <3>2 DEF PoolInv
  <2> QED
    BY <2>1, <2>2, <2>3, <2>4, <2>5 DEF Pool!Next
<1> QED
  BY <1>1, <1>2, PTL DEF Pool!Spec

(* However large the pool and its limits, scaling keeps the count between   *)
(* them and equal to the list of workers, and at least that many run until  *)
(* the pool is shut down (scaleWorkers, addWorkers, removeWorkers).         *)
THEOREM StaffedWhileScaling == ASSUME PoolOptions PROVE Pool!Spec => []Pool!PoolStaffed
<1>1. PoolInv => Pool!PoolStaffed
  <2> SUFFICES ASSUME PoolInv PROVE Pool!PoolStaffed
    OBVIOUS
  <2>0. Scaling /\ Staffing
    BY DEF PoolInv
  <2>1. Pool!TypeOK
    BY <2>0 DEF Scaling, Staffing, Pool!TypeOK
  <2>2. current \in MinWorkers..MaxWorkers
    BY <2>0 DEF Scaling, PoolOptions
  <2>3. slice >= current
    BY <2>0, PoolShape DEF Scaling
  <2>4. poolShutdown \in {"no", "stopping"} => live = started /\ live >= slice
    BY <2>0 DEF Scaling, Staffing
  <2> QED
    BY <2>0, <2>1, <2>2, <2>3, <2>4 DEF Pool!PoolStaffed, Scaling
<1>2. Pool!Spec => []PoolInv
  BY PoolInvariance
<1> QED
  BY <1>1, <1>2, PTL
=============================================================================
