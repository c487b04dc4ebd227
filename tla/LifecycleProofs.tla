--------------------------- MODULE LifecycleProofs ---------------------------
(***************************************************************************)
(* Proofs about what starts, stops, loads and watches things:              *)
(* ServerLifecycle, for every set of callers and of hooks; the graceful    *)
(* shutdown manager G, for every set of services and of callers; the       *)
(* health checker H, for every set of checks and of requests; the registry *)
(* of plugins P, for every set of plugins and of loaders; the handler S    *)
(* that talks to a subprocess, for every set of calls; and the discovery D *)
(* of plugins in a directory, for every set of plugins and of manifests.   *)
(*                                                                         *)
(* Neither of the server's properties is inductive. What a returned Stop   *)
(* promises rests on what calls under way have and have not done: whose    *)
(* Start the running transport can be (Owned), who sets the phase to       *)
(* Stopping and who takes it away (Stopping), what excludes a Start while  *)
(* a Stop is alone (Alone), and what each step of an orderly Start and     *)
(* Stop finds (Orderly). The hooks that have run are at all times the end  *)
(* of the copy, reversed (HooksRun). What the others rest on is said where *)
(* their sections begin.                                                   *)
(***************************************************************************)
EXTENDS Lifecycle, SequenceTheorems, TLAPS

\* A transport runs only for a Start that has not failed.
Owned == owner # Nobody => pc[owner] \in {"serving", "running", "startOk"}

\* The phase is Stopping only while a Stop is under way.
Stopping == phase = "stopping" => InStop # {}

\* While there is a Stop that no Start has overlapped, no Start is under way;
\* once it has stopped the transport, nobody has started it again.
Alone ==
    /\ alone # {} => InStart = {} /\ phase \in {"stopping", "stopped"}
    /\ \A p \in alone : pc[p] \in StopStates \cup {"stopOk"}
    /\ \A p \in alone : pc[p] \in {"stopped", "stopOk"} => owner = Nobody

\* What each call under way finds as long as no Start overlapped another call
\* or found the server running.
Orderly ==
    orderly =>
        /\ \A p, q \in InStart : p = q
        /\ InStart = {} \/ InStop = {}
        /\ \A p \in Callers : pc[p] = "stopped" => owner = Nobody
        /\ InStop # {} => phase \in {"stopping", "stopped"}
        /\ transport # "blocking" =>
              /\ \A p \in Callers :
                    /\ pc[p] \in {"starting", "transport"} =>
                          phase = "starting" /\ owner = Nobody
                    /\ pc[p] = "serving" => phase = "starting" /\ owner = p
                    /\ pc[p] = "running" => phase = "running" /\ owner = p
                    /\ pc[p] = "undo" => owner = Nobody
              /\ InStart = {} /\ InStop = {} => (phase = "running" <=> owner # Nobody)

\* The hooks a Stop has run are the last ones of its copy, last first.
RanLastFirst(p) ==
    /\ \A i \in 1..Len(executed[p]) :
          executed[p][i] = hooks[p][Len(hooks[p]) - i + 1]
    /\ Len(executed[p]) <= Len(hooks[p])
    /\ pc[p] \in {"stopTransport", "stopped", "stopOk"} =>
          Len(executed[p]) = Len(hooks[p])
    /\ pc[p] \notin {"hooks", "stopTransport", "stopped", "stopOk"} =>
          executed[p] = <<>>

HooksRun == \A p \in Callers : RanLastFirst(p)

IInv == TypeOK /\ Owned /\ Stopping /\ Alone /\ Orderly /\ HooksRun

-----------------------------------------------------------------------------
LEMMA TypeStep ==
    ASSUME TypeOK, Next
    PROVE  TypeOK'
<1>1. ASSUME NEW p \in Callers, Start(p) \/ Stop(p) PROVE TypeOK'
  BY <1>1 DEF Start, Stop, TypeOK, Goto, StartStates, StopStates
<1>2. ASSUME NEW p \in Callers, StartStep(p) PROVE TypeOK'
  BY <1>2
     DEF StartStep, StartingHooks, StartTransport, StartTransportFails, SetRunning, RunningHooks,
         UndoStart, SetStopped, TypeOK, Goto, StartStates, StopStates, EndStates
<1>3. ASSUME NEW p \in Callers, ExecuteHook(p) PROVE TypeOK'
  <2>1. /\ hooks[p] \in Seq(Hooks) /\ executed[p] \in Seq(Hooks)
        /\ NextHook(p) \in 1..Len(hooks[p])
    BY <1>3 DEF ExecuteHook, NextHook, TypeOK
  <2>2. Append(executed[p], hooks[p][NextHook(p)]) \in Seq(Hooks)
    BY <2>1, ElementOfSeq, AppendProperties
  <2> QED
    BY <1>3, <2>2 DEF ExecuteHook, TypeOK
<1>4. ASSUME NEW p \in Callers,
             CopyHooks(p) \/ HooksDone(p) \/ StopTransport(p) \/ StopReturns(p)
      PROVE  TypeOK'
  BY <1>4
     DEF CopyHooks, HooksDone, StopTransport, StopReturns, SetStopped, TypeOK, Goto,
         StartStates, StopStates, EndStates
<1>5. ASSUME NEW h \in Hooks, AddShutdownHook(h) PROVE TypeOK'
  <2>1. Append(shutdownHooks, h) \in Seq(Hooks)
    BY DEF TypeOK
  <2> QED
    BY <1>5, <2>1 DEF AddShutdownHook, TypeOK
<1>6. CASE WaitForShutdownReturns
  BY <1>6 DEF WaitForShutdownReturns, TypeOK
<1> QED
  BY <1>1, <1>2, <1>3, <1>4, <1>5, <1>6 DEF Next, StopStep

\* Only StartTransport makes a transport run, and the caller it runs for goes on to
\* fail only after it has stopped it.
LEMMA OwnedStep ==
    ASSUME TypeOK, Owned, Next
    PROVE  Owned'
<1>1. ASSUME NEW p \in Callers, Start(p) \/ Stop(p) PROVE Owned'
  BY <1>1, LifecycleAssumption DEF Start, Stop, TypeOK, Owned, Goto, StartStates, StopStates
<1>2. ASSUME NEW p \in Callers, StartStep(p) PROVE Owned'
  BY <1>2, LifecycleAssumption
     DEF StartStep, StartingHooks, StartTransport, StartTransportFails, SetRunning, RunningHooks,
         UndoStart, SetStopped, TypeOK, Owned, Goto, StartStates, StopStates
<1>3. ASSUME NEW p \in Callers, StopStep(p) PROVE Owned'
  BY <1>3, LifecycleAssumption
     DEF StopStep, CopyHooks, ExecuteHook, HooksDone, StopTransport, StopReturns, SetStopped,
         TypeOK, Owned, Goto, StartStates, StopStates
<1>4. CASE (\E h \in Hooks : AddShutdownHook(h)) \/ WaitForShutdownReturns
  BY <1>4 DEF AddShutdownHook, WaitForShutdownReturns, Owned
<1> QED
  BY <1>1, <1>2, <1>3, <1>4 DEF Next

\* Stop sets the phase to Stopping and its return sets it to Stopped.
LEMMA StoppingStep ==
    ASSUME TypeOK, Stopping, Next
    PROVE  Stopping'
<1>1. ASSUME NEW p \in Callers, Start(p) \/ Stop(p) PROVE Stopping'
  BY <1>1 DEF Start, Stop, TypeOK, Stopping, Goto, InStop, StartStates, StopStates
<1>2. ASSUME NEW p \in Callers, StartStep(p) PROVE Stopping'
  BY <1>2
     DEF StartStep, StartingHooks, StartTransport, StartTransportFails, SetRunning, RunningHooks,
         UndoStart, SetStopped, TypeOK, Stopping, Goto, InStop, StartStates, StopStates
<1>3. ASSUME NEW p \in Callers, StopStep(p) PROVE Stopping'
  BY <1>3
     DEF StopStep, CopyHooks, ExecuteHook, HooksDone, StopTransport, StopReturns, SetStopped,
         TypeOK, Stopping, Goto, InStop, StartStates, StopStates
<1>4. CASE (\E h \in Hooks : AddShutdownHook(h)) \/ WaitForShutdownReturns
  BY <1>4 DEF AddShutdownHook, WaitForShutdownReturns, Stopping, InStart, InStop
<1> QED
  BY <1>1, <1>2, <1>3, <1>4 DEF Next

\* A call of Start ends it for every Stop; nothing else starts the transport.
LEMMA AloneStep ==
    ASSUME TypeOK, Alone, Next
    PROVE  Alone'
<1>1. ASSUME NEW p \in Callers, Start(p) \/ Stop(p) PROVE Alone'
  BY <1>1 DEF Start, Stop, TypeOK, Alone, Goto, InStart, InStop, StartStates, StopStates
<1>2. ASSUME NEW p \in Callers, StartStep(p) PROVE Alone'
  BY <1>2
     DEF StartStep, StartingHooks, StartTransport, StartTransportFails, SetRunning, RunningHooks,
         UndoStart, SetStopped, TypeOK, Alone, Goto, InStart, InStop, StartStates, StopStates
<1>3. ASSUME NEW p \in Callers, StopStep(p) PROVE Alone'
  BY <1>3
     DEF StopStep, CopyHooks, ExecuteHook, HooksDone, StopTransport, StopReturns, SetStopped,
         TypeOK, Alone, Goto, InStart, InStop, StartStates, StopStates
<1>4. CASE (\E h \in Hooks : AddShutdownHook(h)) \/ WaitForShutdownReturns
  BY <1>4 DEF AddShutdownHook, WaitForShutdownReturns, Alone, InStart, InStop
<1> QED
  BY <1>1, <1>2, <1>3, <1>4 DEF Next

\* A call made out of order ends it; what an orderly Start or Stop does next is
\* settled by where it is.
LEMMA OrderlyStep ==
    ASSUME TypeOK, Orderly, Next
    PROVE  Orderly'
<1>1. ASSUME NEW p \in Callers, Start(p) PROVE Orderly'
  BY <1>1, LifecycleAssumption DEF Start, TypeOK, Orderly, Goto, InStart, InStop, StartStates, StopStates
<1>2. ASSUME NEW p \in Callers, StartingHooks(p) PROVE Orderly'
  BY <1>2, LifecycleAssumption
     DEF StartingHooks, TypeOK, Orderly, Goto, InStart, InStop, StartStates, StopStates
<1>3. ASSUME NEW p \in Callers, StartTransport(p) PROVE Orderly'
  BY <1>3, LifecycleAssumption
     DEF StartTransport, TypeOK, Orderly, Goto, InStart, InStop, StartStates, StopStates
<1>4. ASSUME NEW p \in Callers, StartTransportFails(p) PROVE Orderly'
  BY <1>4, LifecycleAssumption
     DEF StartTransportFails, SetStopped, TypeOK, Orderly, Goto, InStart, InStop, StartStates, StopStates
<1>5. ASSUME NEW p \in Callers, SetRunning(p) PROVE Orderly'
  BY <1>5, LifecycleAssumption
     DEF SetRunning, TypeOK, Orderly, Goto, InStart, InStop, StartStates, StopStates
<1>6. ASSUME NEW p \in Callers, RunningHooks(p) PROVE Orderly'
  BY <1>6, LifecycleAssumption
     DEF RunningHooks, TypeOK, Orderly, Goto, InStart, InStop, StartStates, StopStates
<1>7. ASSUME NEW p \in Callers, UndoStart(p) PROVE Orderly'
  BY <1>7, LifecycleAssumption
     DEF UndoStart, SetStopped, TypeOK, Orderly, Goto, InStart, InStop, StartStates, StopStates
<1>8. ASSUME NEW p \in Callers, Stop(p) PROVE Orderly'
  BY <1>8 DEF Stop, TypeOK, Orderly, Goto, InStart, InStop, StartStates, StopStates
<1>9. ASSUME NEW p \in Callers, StopStep(p) PROVE Orderly'
  BY <1>9
     DEF StopStep, CopyHooks, ExecuteHook, HooksDone, StopTransport, StopReturns, SetStopped,
         TypeOK, Orderly, Goto, InStart, InStop, StartStates, StopStates
<1>10. CASE (\E h \in Hooks : AddShutdownHook(h)) \/ WaitForShutdownReturns
  BY <1>10 DEF AddShutdownHook, WaitForShutdownReturns, Orderly, InStart, InStop
<1> QED
  BY <1>1, <1>2, <1>3, <1>4, <1>5, <1>6, <1>7, <1>8, <1>9, <1>10 DEF Next, StartStep

\* ExecuteHook adds the hook that precedes, in the copy, those that have run.
LEMMA HooksStep ==
    ASSUME TypeOK, HooksRun, Next
    PROVE  HooksRun'
<1>1. ASSUME NEW p \in Callers, Start(p) \/ Stop(p) \/ StartStep(p) PROVE HooksRun'
  BY <1>1
     DEF Start, Stop, StartStep, StartingHooks, StartTransport, StartTransportFails, SetRunning,
         RunningHooks, UndoStart, SetStopped, TypeOK, HooksRun, RanLastFirst, Goto, StartStates, StopStates
<1>2. ASSUME NEW p \in Callers, CopyHooks(p) PROVE HooksRun'
  BY <1>2, EmptySeq DEF CopyHooks, TypeOK, HooksRun, RanLastFirst, Goto
<1>3. ASSUME NEW p \in Callers, ExecuteHook(p) PROVE HooksRun'
  <2> DEFINE n == Len(executed[p])
             l == Len(hooks[p])
             e == Append(executed[p], hooks[p][l - n])
  <2>1. /\ hooks[p] \in Seq(Hooks) /\ executed[p] \in Seq(Hooks)
        /\ n \in Nat /\ l \in Nat /\ l - n > 0
        /\ pc[p] = "hooks" /\ executed' = [executed EXCEPT ![p] = e]
        /\ UNCHANGED <<pc, hooks>>
    BY <1>3 DEF ExecuteHook, NextHook, TypeOK
  <2> HIDE DEF n, l, e
  <2>2. l - n \in 1..l
    BY <2>1
  <2>3. /\ Len(e) = n + 1 /\ e[n + 1] = hooks[p][l - n]
        /\ \A i \in 1..n : e[i] = executed[p][i]
    BY <2>1, <2>2, ElementOfSeq, AppendProperties DEF n, l, e
  <2>4. executed'[p] = e /\ \A q \in Callers : q # p => executed'[q] = executed[q]
    BY <2>1 DEF TypeOK
  <2>5. \A i \in 1..n : executed[p][i] = hooks[p][l - i + 1]
    BY DEF HooksRun, RanLastFirst, n, l
  <2>6. n + 1 <= l /\ l - (n + 1) + 1 = l - n
    BY <2>1
  <2>7. \A i \in 1..(n + 1) : e[i] = hooks[p][l - i + 1]
    <3> SUFFICES ASSUME NEW i \in 1..(n + 1) PROVE e[i] = hooks[p][l - i + 1]
      OBVIOUS
    <3>1. i \in 1..n \/ i = n + 1
      BY <2>1
    <3> QED
      BY <2>3, <2>5, <2>6, <3>1
  <2>8. ASSUME NEW q \in Callers, q # p PROVE RanLastFirst(q)'
    BY <2>1, <2>4, <2>8 DEF HooksRun, RanLastFirst
  <2>9. executed'[p] = e /\ hooks'[p] = hooks[p] /\ pc' = pc
    BY <2>1, <2>4
  <2>10. RanLastFirst(p)'
    BY <2>1, <2>3, <2>6, <2>7, <2>9 DEF RanLastFirst, l
  <2> QED
    BY <2>8, <2>10 DEF HooksRun
<1>4. CASE (\E h \in Hooks : AddShutdownHook(h)) \/ WaitForShutdownReturns
  BY <1>4 DEF AddShutdownHook, WaitForShutdownReturns, HooksRun, RanLastFirst
<1>5. ASSUME NEW p \in Callers, HooksDone(p) PROVE HooksRun'
  BY <1>5 DEF HooksDone, NextHook, TypeOK, HooksRun, RanLastFirst, Goto
<1>6. ASSUME NEW p \in Callers, StopTransport(p) \/ StopReturns(p) PROVE HooksRun'
  BY <1>6 DEF StopTransport, StopReturns, SetStopped, TypeOK, HooksRun, RanLastFirst, Goto
<1> QED
  BY <1>1, <1>2, <1>3, <1>4, <1>5, <1>6 DEF Next, StopStep

LEMMA InitIInv == Init => IInv
<1> SUFFICES ASSUME Init PROVE IInv
  OBVIOUS
<1>1. InStart = {} /\ InStop = {}
  BY DEF Init, InStart, InStop, StartStates, StopStates
<1>2. TypeOK
  BY EmptySeq DEF Init, TypeOK, TransportKinds
<1>3. Owned /\ Stopping /\ Alone /\ Orderly
  BY <1>1 DEF Init, Owned, Stopping, Alone, Orderly
<1>4. HooksRun
  BY EmptySeq DEF Init, HooksRun, RanLastFirst
<1> QED
  BY <1>2, <1>3, <1>4 DEF IInv

LEMMA NextIInv == IInv /\ [Next]_vars => IInv'
<1>1. IInv /\ Next => IInv'
  BY TypeStep, OwnedStep, StoppingStep, AloneStep, OrderlyStep, HooksStep DEF IInv
<1>2. IInv /\ UNCHANGED vars => IInv'
  BY DEF vars, IInv, TypeOK, Owned, Stopping, Alone, Orderly, HooksRun, RanLastFirst,
         InStart, InStop
<1> QED
  BY <1>1, <1>2

THEOREM Invariance == Spec => []IInv
  BY InitIInv, NextIInv, PTL DEF Spec

(* A Start that fails leaves no transport running, a Stop that no Start     *)
(* overlapped is complete when it returns, and after calls made in order    *)
(* the phase says whether the transport runs (server/server.go).            *)
THEOREM PhaseTells == Spec => []PhaseTellsOfTransport
<1>1. Owned => FailedStartLeavesNoTransport
  BY LifecycleAssumption DEF Owned, FailedStartLeavesNoTransport
<1>2. Stopping /\ Alone => StopIsFinal
  BY DEF Stopping, Alone, StopIsFinal
<1>3. Orderly => PhaseMatchesTransport
  BY DEF Orderly, PhaseMatchesTransport
<1> QED
  BY <1>1, <1>2, <1>3, Invariance, PTL DEF IInv, PhaseTellsOfTransport

(* A Stop that has got past its hooks has run all those of its copy, last   *)
(* first (server/server.go, ExecuteShutdownHooks).                          *)
THEOREM HooksReversed == Spec => []StopRunsHooksInReverse
<1>1. TypeOK /\ HooksRun => StopRunsHooksInReverse
  <2> SUFFICES ASSUME TypeOK, HooksRun, NEW p \in Callers,
                      pc[p] \in {"stopTransport", "stopped", "stopOk"}
               PROVE  executed[p] = Reverse(hooks[p])
    BY DEF StopRunsHooksInReverse
  <2>1. executed[p] \in Seq(Hooks) /\ hooks[p] \in Seq(Hooks)
    BY DEF TypeOK
  <2>2. /\ Len(executed[p]) = Len(hooks[p])
        /\ \A i \in 1..Len(executed[p]) : executed[p][i] = hooks[p][Len(hooks[p]) - i + 1]
    BY DEF HooksRun, RanLastFirst
  <2>3. executed[p] = [i \in 1..Len(executed[p]) |-> executed[p][i]]
    BY <2>1
  <2> QED
    BY <2>2, <2>3 DEF Reverse
<1> QED
  BY <1>1, Invariance, PTL DEF IInv

-----------------------------------------------------------------------------
(***************************************************************************)
(* The graceful shutdown manager.  Of its limits only MaxConns must be a   *)
(* number, for the type of the services' connection counts.                *)
(***************************************************************************)
\* One caller at a time has the mutex, and only the first to get it finds the
\* manager running.
OneInside ==
    /\ \A c, d \in Closers : gpc[c] \in G!Busy /\ gpc[d] \in G!Busy => c = d
    /\ \A c \in Closers : gpc[c] # "idle" => ~isRunning

\* The goroutine of a service that is over has put in an error or seen Stop
\* succeed.
Accounted ==
    \A s \in Services :
        /\ goroutine[s] # "none" => s \in services
        /\ goroutine[s] = "over" => s \in failed \/ stopped[s] = "ok"

\* What everybody finds once the first Shutdown has returned.
Settled ==
    \/ \A s \in services : goroutine[s] # "none" => stopped[s] = "ok"
    \/ \E d \in Closers : gpc[d] = "returnedError"

GInv ==
    /\ G!TypeOK /\ OneInside /\ Accounted
    /\ \A c \in Closers : gpc[c] \in {"returnedNil", "returnedError"} => ~G!Locked
    /\ ~isRunning /\ ~G!Locked => Settled

LEMMA ManagerInit == ASSUME MaxConns \in Nat, G!Init PROVE GInv
<1>1. G!TypeOK
  BY DEF G!Init, G!TypeOK, G!PcStates
<1>2. OneInside /\ Accounted /\ isRunning
  BY DEF G!Init, OneInside, Accounted, G!Busy
<1>3. \A c \in Closers : gpc[c] = "idle"
  BY DEF G!Init
<1> QED
  BY <1>1, <1>2, <1>3 DEF GInv

\* The services alone: a Stop that has succeeded stays so.
LEMMA ServiceStepGInv ==
    ASSUME MaxConns \in Nat, GInv, NEW s \in Services,
           G!ServiceStops(s) \/ G!ServiceStopped(s) \/ G!Connect(s) \/ G!Disconnect(s)
    PROVE  GInv'
<1>1. UNCHANGED <<services, isRunning, gpc, goroutine, failed>>
  BY DEF G!ServiceStops, G!ServiceStopped, G!Connect, G!Disconnect
<1>2. G!TypeOK'
  <2>1. CASE G!ServiceStops(s) \/ G!ServiceStopped(s)
    BY <2>1 DEF GInv, G!TypeOK, G!ServiceStops, G!ServiceStopped
  <2>2. CASE G!Connect(s) \/ G!Disconnect(s)
    BY <2>2 DEF GInv, G!TypeOK, G!Connect, G!Disconnect
  <2> QED
    BY <2>1, <2>2
<1>3. \A x \in Services : stopped[x] = "ok" => stopped'[x] = "ok"
  BY DEF GInv, G!TypeOK, G!ServiceStops, G!ServiceStopped, G!Connect, G!Disconnect
<1>4. OneInside' /\ Accounted'
  BY <1>1, <1>3 DEF GInv, OneInside, Accounted
<1>5. Settled => Settled'
  BY <1>1, <1>3 DEF GInv, G!TypeOK, Settled
<1> QED
  BY <1>1, <1>2, <1>4, <1>5 DEF GInv, G!Locked

\* A goroutine that waits for a service ends.
LEMMA GoroutineStepGInv ==
    ASSUME GInv, NEW s \in Services, G!GoroutineStep(s)
    PROVE  GInv'
<1>1. /\ UNCHANGED <<services, isRunning, gpc, conns, up, stopped, forced>>
      /\ goroutine[s] = "waiting" /\ goroutine' = [goroutine EXCEPT ![s] = "over"]
      /\ failed' \subseteq failed \cup {s} /\ failed \subseteq failed'
      /\ s \in failed' \/ stopped[s] = "ok"
  BY DEF G!GoroutineStep, G!ServiceResult, G!ServiceTimeout, G!serviceVars
<1>2. s \in services
  BY <1>1 DEF GInv, Accounted
<1>3. G!TypeOK'
  BY <1>1, <1>2 DEF GInv, G!TypeOK
<1>4. OneInside' /\ Accounted'
  BY <1>1, <1>2 DEF GInv, G!TypeOK, OneInside, Accounted
<1>5. Settled => Settled'
  BY <1>1 DEF GInv, G!TypeOK, Settled
<1> QED
  BY <1>1, <1>3, <1>4, <1>5 DEF GInv, G!Locked

LEMMA RegisterGInv ==
    ASSUME GInv, NEW s \in Services, G!Register(s)
    PROVE  GInv'
<1>1. /\ UNCHANGED <<isRunning, gpc, goroutine, failed, conns, up, stopped, forced>>
      /\ services' = services \cup {s}
  BY DEF G!Register, G!serviceVars
<1>2. G!TypeOK' /\ OneInside' /\ Accounted'
  BY <1>1 DEF GInv, G!TypeOK, OneInside, Accounted
<1>3. Settled => Settled'
  BY <1>1 DEF GInv, Accounted, Settled
<1> QED
  BY <1>1, <1>2, <1>3 DEF GInv, G!Locked

LEMMA ShutdownGInv ==
    ASSUME GInv, NEW c \in Closers, G!Shutdown(c)
    PROVE  GInv'
<1>1. /\ UNCHANGED <<services, goroutine, failed, conns, up, stopped, forced>>
      /\ gpc[c] = "idle" /\ ~G!Locked /\ isRunning' = FALSE
      /\ gpc' = [gpc EXCEPT ![c] = IF isRunning THEN "grace" ELSE "returnedNil"]
  BY DEF G!Shutdown, G!Goto, G!serviceVars
<1>2. G!TypeOK'
  BY <1>1 DEF GInv, G!TypeOK, G!PcStates
<1>3. OneInside' /\ Accounted'
  BY <1>1 DEF GInv, G!TypeOK, OneInside, Accounted, G!Locked, G!Busy
<1>4. Settled => Settled'
  BY <1>1 DEF GInv, G!TypeOK, Settled
<1>5. CASE isRunning
  BY <1>1, <1>2, <1>3, <1>5 DEF GInv, G!TypeOK, OneInside, G!Locked, G!Busy
<1>6. CASE ~isRunning
  <2>1. ~G!Locked'
    BY <1>1, <1>6 DEF GInv, G!TypeOK, G!Locked, G!Busy
  <2> QED
    BY <1>1, <1>2, <1>3, <1>4, <1>6, <2>1 DEF GInv
<1> QED
  BY <1>5, <1>6

\* The caller inside goes on, or leaves with everything settled.
LEMMA ShutdownStepGInv ==
    ASSUME GInv, NEW c \in Closers, G!ShutdownStep(c)
    PROVE  GInv'
<1>1. /\ gpc[c] \in G!Busy /\ UNCHANGED <<services, isRunning, failed, conns>>
      /\ \E l \in G!Busy \cup {"returnedNil", "returnedError"} : gpc' = [gpc EXCEPT ![c] = l]
  BY DEF G!ShutdownStep, G!GraceOver, G!DrainOver, G!ShutdownServices, G!ServicesDone,
         G!ForceStopServices, G!Goto, G!serviceVars, G!Busy
<1>2. ~isRunning /\ \A d \in Closers : d # c => gpc[d] \notin G!Busy
  BY <1>1 DEF GInv, OneInside, G!Busy
<1>3. PICK l \in G!Busy \cup {"returnedNil", "returnedError"} : gpc' = [gpc EXCEPT ![c] = l]
  BY <1>1
<1>4. gpc'[c] = l /\ \A d \in Closers : d # c => gpc'[d] = gpc[d]
  BY <1>3 DEF GInv, G!TypeOK
<1>5. OneInside'
  BY <1>1, <1>2, <1>4 DEF OneInside
<1>6. \A d \in Closers : gpc[d] \notin {"returnedNil", "returnedError"}
  BY <1>1 DEF GInv, G!Locked
<1>7. G!TypeOK'
  BY <1>1, <1>3
     DEF GInv, G!TypeOK, G!PcStates, G!Busy, G!ShutdownStep, G!GraceOver, G!DrainOver,
         G!ShutdownServices, G!ServicesDone, G!ForceStopServices, G!serviceVars
<1>8. Accounted'
  <2>1. CASE G!ShutdownServices(c)
    BY <2>1 DEF G!ShutdownServices, Accounted
  <2>2. CASE ~G!ShutdownServices(c)
    <3>1. UNCHANGED <<goroutine, stopped>>
      BY <2>2 DEF G!ShutdownStep, G!GraceOver, G!DrainOver, G!ServicesDone,
                  G!ForceStopServices, G!serviceVars
    <3> QED
      BY <1>1, <3>1 DEF GInv, Accounted
  <2> QED
    BY <2>1, <2>2
<1>9. ASSUME l \in G!Busy
      PROVE  G!Locked' /\ \A d \in Closers : gpc'[d] \notin {"returnedNil", "returnedError"}
  BY <1>4, <1>6, <1>9 DEF G!Locked, G!Busy
<1>10. ASSUME l \notin G!Busy
       PROVE  ~G!Locked' /\ Settled'
  <2>1. ~G!Locked'
    BY <1>2, <1>4, <1>10 DEF G!Locked
  <2>2. CASE l = "returnedError"
    BY <1>4, <2>1, <2>2 DEF Settled
  <2>3. CASE l = "returnedNil"
    <3>1. G!ServicesDone(c)
      BY <1>4, <2>3
         DEF G!ShutdownStep, G!GraceOver, G!DrainOver, G!ShutdownServices, G!ForceStopServices,
             G!Goto, GInv, G!TypeOK
    <3>2. /\ failed = {} /\ \A s \in services : goroutine[s] = "over"
          /\ UNCHANGED <<goroutine, stopped>>
      BY <1>4, <2>3, <3>1 DEF G!ServicesDone, G!Goto, G!serviceVars, GInv, G!TypeOK
    <3>3. \A s \in services : stopped[s] = "ok"
      BY <3>2 DEF GInv, G!TypeOK, Accounted
    <3> QED
      BY <1>1, <2>1, <3>2, <3>3 DEF Settled
  <2> QED
    BY <1>3, <1>10, <2>1, <2>2, <2>3
<1> QED
  BY <1>3, <1>5, <1>7, <1>8, <1>9, <1>10 DEF GInv

LEMMA ManagerStep == ASSUME MaxConns \in Nat PROVE GInv /\ [G!Next]_(G!vars) => GInv'
<1>1. GInv /\ G!Next => GInv'
  BY ServiceStepGInv, GoroutineStepGInv, RegisterGInv, ShutdownGInv, ShutdownStepGInv DEF G!Next
<1>2. GInv /\ UNCHANGED G!vars => GInv'
  BY DEF G!vars, GInv, G!TypeOK, OneInside, Accounted, Settled, G!Locked
<1> QED
  BY <1>1, <1>2

THEOREM ManagerInvariance == ASSUME MaxConns \in Nat PROVE G!Spec => []GInv
<1>1. G!Init => GInv
  BY ManagerInit
<1>2. GInv /\ [G!Next]_(G!vars) => GInv'
  BY ManagerStep
<1> QED
  BY <1>1, <1>2, PTL DEF G!Spec

(* Whoever gets nil from Shutdown gets it after every service registered    *)
(* in time has stopped without error, or after another caller's Shutdown    *)
(* has reported the error (shutdown/graceful.go).                           *)
THEOREM ShutdownDone == G!Spec => []NilMeansDone
<1>1. GInv => NilMeansDone
  BY DEF NilMeansDone, GInv, OneInside, Settled, G!NilMeansDone
<1>2. G!Spec => []GInv
  BY ManagerInvariance, ManagerAssumption
<1> QED
  BY <1>1, <1>2, PTL
-----------------------------------------------------------------------------
(***************************************************************************)
(* The health checker.                                                     *)
(*                                                                         *)
(* A call that nothing comes between finds in the shared results what its  *)
(* own checks have stored, and nothing else: the checks it still waits for *)
(* and those it has results of make up the registered ones (Undisturbed).  *)
(***************************************************************************)
CONSTANTS Calls, Checks, MaxChanges
VARIABLES checks, results, call, task, crashed, changes, undisturbed, revivable

H == INSTANCE HealthChecker WITH alone <- undisturbed

\* Results, by the names of checks.
Kept == UNION {[D -> H!Statuses] : D \in SUBSET Checks}

HealthShape ==
    /\ checks \subseteq Checks /\ changes \in 0..MaxChanges /\ crashed \in BOOLEAN
    /\ results \in Kept
    /\ call \in [Calls -> [pc : {"new", "checking", "done"}, running : SUBSET Checks,
                           results : Kept, verdict : H!Statuses]]
    /\ task \in [Calls \X Checks -> [pc : {"off", "run", "store", "write"},
                                     status : H!Statuses]]
    /\ undisturbed \subseteq Calls /\ revivable \subseteq Checks

\* A call waits for the checks whose goroutines have not written their results.
Waiting ==
    \A c \in Calls :
        /\ call[c].running # {} => call[c].pc = "checking"
        /\ call[c].running \cap DOMAIN call[c].results = {}
        /\ \A n \in Checks : task[<<c, n>>].pc # "off" <=> n \in call[c].running

Registered ==
    /\ DOMAIN results \subseteq checks \cup revivable
    /\ \A c \in Calls, n \in Checks :
          task[<<c, n>>].pc \in {"run", "store"} => n \in checks \cup revivable

\* What a call has stored is what the shared results hold.
Stored(c) ==
    /\ checks = call[c].running \cup DOMAIN call[c].results
    /\ \A n \in DOMAIN call[c].results :
          n \in DOMAIN results /\ results[n] = call[c].results[n]
    /\ \A n \in Checks : task[<<c, n>>].pc = "write" =>
          n \in DOMAIN results /\ results[n] = task[<<c, n>>].status

Undisturbed ==
    \A c \in undisturbed :
        /\ call[c].pc \in {"checking", "done"}
        /\ \A d \in Calls : d # c => call[d].pc # "checking"
        /\ revivable = {} =>
              /\ call[c].pc = "checking" => Stored(c)
              /\ call[c].pc = "done" => call[c].verdict = H!Worst(H!Range(call[c].results))

HealthInv == HealthShape /\ Waiting /\ Registered /\ Undisturbed

LEMMA Keeping ==
    /\ \E f \in Kept : f = <<>> /\ DOMAIN f = {}
    /\ \A f \in Kept : /\ DOMAIN f \subseteq Checks /\ H!Range(f) \subseteq H!Statuses
                       /\ \A n \in DOMAIN f : f[n] \in H!Statuses
<1>1. \E f \in Kept : f = <<>> /\ DOMAIN f = {}
  <2>1. <<>> \in [{} -> H!Statuses] /\ {} \in SUBSET Checks /\ DOMAIN <<>> = {}
    OBVIOUS
  <2>2. <<>> \in Kept
    BY <2>1 DEF Kept
  <2> QED
    BY <2>1, <2>2
<1>2. ASSUME NEW f \in Kept
      PROVE  /\ DOMAIN f \subseteq Checks /\ H!Range(f) \subseteq H!Statuses
             /\ \A n \in DOMAIN f : f[n] \in H!Statuses
  <2>1. PICK D \in SUBSET Checks : f \in [D -> H!Statuses]
    BY DEF Kept
  <2> QED
    BY <2>1 DEF H!Range
<1> QED
  BY <1>1, <1>2

LEMMA Putting ==
    ASSUME NEW f \in Kept, NEW n \in Checks, NEW v \in H!Statuses
    PROVE  /\ H!Put(f, n, v) \in Kept /\ DOMAIN H!Put(f, n, v) = DOMAIN f \cup {n}
           /\ H!Put(f, n, v)[n] = v
           /\ \A m \in DOMAIN f : m # n => H!Put(f, n, v)[m] = f[m]
<1>1. H!Put(f, n, v) \in [DOMAIN f \cup {n} -> H!Statuses]
  BY Keeping DEF H!Put
<1>2. DOMAIN f \cup {n} \in SUBSET Checks
  BY Keeping
<1>3. H!Put(f, n, v) \in Kept
  BY <1>1, <1>2 DEF Kept
<1> QED
  BY <1>3 DEF H!Put

LEMMA Restricting ==
    ASSUME NEW f \in Kept, NEW D
    PROVE  H!Restrict(f, DOMAIN f \ D) \in Kept
<1>1. H!Restrict(f, DOMAIN f \ D) \in [DOMAIN f \ D -> H!Statuses]
  BY Keeping DEF H!Restrict
<1>2. DOMAIN f \ D \in SUBSET Checks
  BY Keeping
<1> QED
  BY <1>1, <1>2 DEF Kept

LEMMA Severity == \A S : H!Worst(S) \in H!Statuses
  BY DEF H!Worst, H!Statuses

LEMMA NewCall ==
    ASSUME NEW R \in SUBSET Checks, NEW f \in Kept
    PROVE  \E new \in [pc : {"new", "checking", "done"}, running : SUBSET Checks,
                        results : Kept, verdict : H!Statuses] :
              /\ new = [[pc |-> "new", running |-> {}, results |-> f, verdict |-> "healthy"]
                           EXCEPT !.pc = "checking", !.running = R]
              /\ new.pc = "checking" /\ new.running = R /\ new.results = f
<1> DEFINE S == [pc : {"new", "checking", "done"}, running : SUBSET Checks,
                 results : Kept, verdict : H!Statuses]
           first == [pc |-> "new", running |-> {}, results |-> f, verdict |-> "healthy"]
<1>1. first \in S /\ first.results = f
  BY DEF H!Statuses
<1>2. ASSUME NEW r \in S, r.results = f
      PROVE  /\ [r EXCEPT !.pc = "checking", !.running = R] \in S
             /\ [r EXCEPT !.pc = "checking", !.running = R].pc = "checking"
             /\ [r EXCEPT !.pc = "checking", !.running = R].running = R
             /\ [r EXCEPT !.pc = "checking", !.running = R].results = f
  BY <1>2
<1> HIDE DEF S, first
<1>3. \E new \in S : /\ new = [first EXCEPT !.pc = "checking", !.running = R]
                     /\ new.pc = "checking" /\ new.running = R /\ new.results = f
  BY <1>1, <1>2
<1> QED
  BY <1>3 DEF S, first

LEMMA ChangeKeeps ==
    ASSUME HealthInv, MaxChanges \in Nat, NEW n \in Checks,
           H!RegisterCheck(n) \/ H!UnregisterCheck(n)
    PROVE  HealthInv'
<1>0. HealthShape /\ Waiting /\ Registered
  BY DEF HealthInv
<1>1. UNCHANGED <<call, task, crashed>> /\ undisturbed' = {} /\ changes' \in 0..MaxChanges
  BY <1>0 DEF H!RegisterCheck, H!UnregisterCheck, HealthShape
<1>2. checks' \subseteq Checks /\ revivable' \subseteq Checks
  BY <1>0 DEF H!RegisterCheck, H!UnregisterCheck, HealthShape
<1>3. results' \in Kept
  <2>1. results \in Kept
    BY <1>0 DEF HealthShape
  <2>2. H!Restrict(results, DOMAIN results \ {n}) \in Kept
    BY <2>1, Restricting
  <2> QED
    BY <2>1, <2>2 DEF H!RegisterCheck, H!UnregisterCheck
<1>4. HealthShape'
  BY <1>0, <1>1, <1>2, <1>3 DEF HealthShape
<1>5. Waiting' /\ Undisturbed'
  BY <1>0, <1>1 DEF Waiting, Undisturbed
<1>6. Registered'
  <2>1. CASE H!RegisterCheck(n)
    BY <1>0, <2>1 DEF H!RegisterCheck, Registered
  <2>2. CASE H!UnregisterCheck(n)
    <3>1. DOMAIN results' = DOMAIN results \ {n} /\ checks' = checks \ {n} /\ task' = task
      BY <2>2 DEF H!UnregisterCheck, H!Restrict
    <3>2. CASE H!Running(n)
      BY <1>0, <2>2, <3>1, <3>2 DEF H!UnregisterCheck, Registered
    <3>3. CASE ~H!Running(n)
      <4>1. revivable' = revivable \ {n}
        BY <2>2, <3>3 DEF H!UnregisterCheck
      <4>2. \A c \in Calls : task[<<c, n>>].pc \notin {"run", "store"}
        BY <3>3 DEF H!Running
      <4> QED
        BY <1>0, <3>1, <4>1, <4>2 DEF Registered
    <3> QED
      BY <3>2, <3>3
  <2> QED
    BY <2>1, <2>2
<1> QED
  BY <1>4, <1>5, <1>6 DEF HealthInv

LEMMA CheckHealthKeeps ==
    ASSUME HealthInv, NEW c \in Calls, H!CheckHealth(c)
    PROVE  HealthInv'
<1>0. HealthShape /\ Waiting /\ Registered /\ Undisturbed
  BY DEF HealthInv
<1>1. /\ call[c].pc = "new" /\ UNCHANGED <<checks, results, crashed, changes, revivable>>
      /\ call' = [call EXCEPT ![c] = [H!NoCall EXCEPT !.pc = "checking", !.running = checks]]
  BY DEF H!CheckHealth
<1>e. PICK e \in Kept : e = <<>> /\ DOMAIN e = {}
  BY Keeping
<1>n. PICK new \in [pc : {"new", "checking", "done"}, running : SUBSET Checks,
                      results : Kept, verdict : H!Statuses] :
         /\ new = [H!NoCall EXCEPT !.pc = "checking", !.running = checks]
         /\ new.pc = "checking" /\ new.running = checks /\ new.results = e
  <2>1. /\ checks \in SUBSET Checks /\ "healthy" \in H!Statuses
        /\ H!NoCall = [pc |-> "new", running |-> {}, results |-> e, verdict |-> "healthy"]
    BY <1>0, <1>e DEF H!NoCall, H!Statuses, HealthShape
  <2>2. PICK R \in SUBSET Checks : R = checks
    BY <2>1
  <2>3. \E new \in [pc : {"new", "checking", "done"}, running : SUBSET Checks,
                    results : Kept, verdict : H!Statuses] :
           /\ new = [[pc |-> "new", running |-> {}, results |-> e, verdict |-> "healthy"]
                        EXCEPT !.pc = "checking", !.running = R]
           /\ new.pc = "checking" /\ new.running = R /\ new.results = e
    BY NewCall
  <2>4. \E new \in [pc : {"new", "checking", "done"}, running : SUBSET Checks,
                    results : Kept, verdict : H!Statuses] :
           /\ new = [H!NoCall EXCEPT !.pc = "checking", !.running = R]
           /\ new.pc = "checking" /\ new.running = R /\ new.results = e
    BY <2>1, <2>3, Zenon
  <2> QED
    BY <2>2, <2>4, Zenon
<1>2. \A d \in Calls, n \in Checks :
         task'[<<d, n>>] = IF d = c /\ n \in checks THEN [task[<<d, n>>] EXCEPT !.pc = "run"]
                           ELSE task[<<d, n>>]
  BY DEF H!CheckHealth
<1>3. \A n \in Checks : task[<<c, n>>].pc = "off"
  BY <1>0, <1>1 DEF Waiting
<1>4. /\ call'[c].pc = "checking" /\ call'[c].running = checks /\ call'[c].results = e
      /\ \A d \in Calls : d # c => call'[d] = call[d]
  BY <1>0, <1>1, <1>n DEF HealthShape
<1>5. \A d \in Calls, n \in Checks :
         /\ d # c => task'[<<d, n>>] = task[<<d, n>>]
         /\ task'[<<c, n>>].pc = IF n \in checks THEN "run" ELSE "off"
  <2>1. \A d \in Calls, n \in Checks : d # c => task'[<<d, n>>] = task[<<d, n>>]
    BY <1>2
  <2>2. ASSUME NEW n \in Checks PROVE task'[<<c, n>>].pc = IF n \in checks THEN "run" ELSE "off"
    BY <1>0, <1>2, <1>3 DEF HealthShape
  <2> QED
    BY <2>1, <2>2
<1>6. task' \in [Calls \X Checks -> [pc : {"off", "run", "store", "write"},
                                     status : H!Statuses]]
  BY <1>0 DEF H!CheckHealth, HealthShape
<1>7. undisturbed' = {d \in {c} : \A k \in Calls : call[k].pc # "checking"}
  BY DEF H!CheckHealth
<1>8. HealthShape'
  <2>2. call' \in [Calls -> [pc : {"new", "checking", "done"}, running : SUBSET Checks,
                             results : Kept, verdict : H!Statuses]]
    BY <1>0, <1>1, <1>n DEF HealthShape
  <2> QED
    BY <1>0, <1>1, <1>6, <1>7, <2>2 DEF HealthShape
<1>9. Waiting'
  <2>1. DOMAIN call'[c].results = {}
    BY <1>4, <1>e
  <2>2. ASSUME NEW d \in Calls
        PROVE  /\ call'[d].running # {} => call'[d].pc = "checking"
               /\ call'[d].running \cap DOMAIN call'[d].results = {}
               /\ \A n \in Checks : task'[<<d, n>>].pc # "off" <=> n \in call'[d].running
    <3>1. CASE d = c
      BY <1>4, <1>5, <2>1, <3>1
    <3>2. CASE d # c
      <4>1. call'[d] = call[d] /\ \A n \in Checks : task'[<<d, n>>] = task[<<d, n>>]
        BY <1>4, <1>5, <3>2
      <4> QED
        BY <1>0, <4>1 DEF Waiting
    <3> QED
      BY <3>1, <3>2
  <2> QED
    BY <2>2 DEF Waiting
<1>10. Registered'
  BY <1>0, <1>1, <1>5 DEF Registered
<1>11. Undisturbed'
  <2> SUFFICES ASSUME c \in undisturbed', \A k \in Calls : call[k].pc # "checking"
               PROVE  /\ call'[c].pc = "checking"
                      /\ \A d \in Calls : d # c => call'[d].pc # "checking"
                      /\ Stored(c)'
    BY <1>4, <1>7 DEF Undisturbed
  <2>1. checks' = call'[c].running \cup DOMAIN call'[c].results
    BY <1>1, <1>4, <1>e
  <2>2. \A n \in Checks : task'[<<c, n>>].pc # "write"
    BY <1>5
  <2>3. Stored(c)'
    BY <1>4, <1>e, <2>1, <2>2 DEF Stored
  <2> QED
    BY <1>4, <2>3
<1> QED
  BY <1>8, <1>9, <1>10, <1>11 DEF HealthInv

LEMMA CheckedKeeps ==
    ASSUME HealthInv, NEW c \in Calls, NEW n \in Checks, H!Checked(c, n)
    PROVE  HealthInv'
<1>0. HealthShape /\ Waiting /\ Registered /\ Undisturbed
  BY DEF HealthInv
<1>1. PICK s \in H!Statuses : /\ task[<<c, n>>].pc = "run"
                             /\ task' = [task EXCEPT ![<<c, n>>] = [pc |-> "store", status |-> s]]
  BY DEF H!Checked
<1>2. UNCHANGED <<checks, results, call, crashed, changes, undisturbed, revivable>>
  BY DEF H!Checked, H!ghosts
<1>3. /\ task'[<<c, n>>].pc = "store"
      /\ \A d \in Calls, m \in Checks : <<d, m>> # <<c, n>> => task'[<<d, m>>] = task[<<d, m>>]
  BY <1>0, <1>1 DEF HealthShape
<1>4. HealthShape'
  BY <1>0, <1>1, <1>2 DEF HealthShape
<1>5. Waiting' /\ Registered'
  BY <1>0, <1>1, <1>2, <1>3 DEF Waiting, Registered
<1>6. \A d \in Calls : Stored(d) => Stored(d)'
  BY <1>2, <1>3 DEF Stored
<1>7. Undisturbed'
  BY <1>0, <1>2, <1>6 DEF Undisturbed, HealthShape
<1> QED
  BY <1>4, <1>5, <1>7 DEF HealthInv

LEMMA StoreKeeps ==
    ASSUME HealthInv, NEW c \in Calls, NEW n \in Checks, H!StoreResult(c, n)
    PROVE  HealthInv'
<1>0. HealthShape /\ Waiting /\ Registered /\ Undisturbed
  BY DEF HealthInv
<1>1. /\ task[<<c, n>>].pc = "store" /\ results' = H!Put(results, n, task[<<c, n>>].status)
      /\ task' = [task EXCEPT ![<<c, n>>].pc = "write"]
      /\ UNCHANGED <<checks, call, crashed, changes, undisturbed, revivable>>
  BY DEF H!StoreResult, H!ghosts
<1>2. PICK v \in H!Statuses : v = task[<<c, n>>].status
  BY <1>0 DEF HealthShape
<1>3. /\ results' \in Kept /\ DOMAIN results' = DOMAIN results \cup {n} /\ results'[n] = v
      /\ \A m \in DOMAIN results : m # n => results'[m] = results[m]
  <2>1. results \in Kept /\ results' = H!Put(results, n, v)
    BY <1>0, <1>1, <1>2 DEF HealthShape
  <2> QED
    BY <2>1, Putting
<1>4. /\ task'[<<c, n>>].pc = "write" /\ task'[<<c, n>>].status = v
      /\ \A d \in Calls, m \in Checks : <<d, m>> # <<c, n>> => task'[<<d, m>>] = task[<<d, m>>]
  BY <1>0, <1>1, <1>2 DEF HealthShape
<1>5. HealthShape'
  BY <1>0, <1>1, <1>3 DEF HealthShape
<1>6. Waiting'
  BY <1>0, <1>1, <1>4 DEF Waiting
<1>7. Registered'
  BY <1>0, <1>1, <1>3, <1>4 DEF Registered
<1>8. n \in call[c].running /\ call[c].pc = "checking" /\ n \notin DOMAIN call[c].results
  BY <1>0, <1>1 DEF Waiting
<1>9. Undisturbed'
  <2> SUFFICES ASSUME NEW d \in undisturbed, d \in Calls, revivable = {}
               PROVE  /\ call[d].pc = "checking" => Stored(d)'
                      /\ call[d].pc = "done" =>
                            call[d].verdict = H!Worst(H!Range(call[d].results))
    BY <1>0, <1>1 DEF Undisturbed, HealthShape
  <2>1. d = c
    BY <1>0, <1>8 DEF Undisturbed
  <2>2. Stored(c)
    BY <1>0, <1>8, <2>1 DEF Undisturbed
  <2>3. \A m \in DOMAIN call'[c].results :
           m \in DOMAIN results' /\ results'[m] = call'[c].results[m]
    BY <1>1, <1>3, <1>8, <2>2 DEF Stored
  <2>4. \A m \in Checks : task'[<<c, m>>].pc = "write" =>
           m \in DOMAIN results' /\ results'[m] = task'[<<c, m>>].status
    <3> SUFFICES ASSUME NEW m \in Checks, task'[<<c, m>>].pc = "write"
                 PROVE  m \in DOMAIN results' /\ results'[m] = task'[<<c, m>>].status
      OBVIOUS
    <3>1. CASE m = n
      BY <1>3, <1>4, <3>1
    <3>2. CASE m # n
      BY <1>3, <1>4, <2>2, <3>2 DEF Stored
    <3> QED
      BY <3>1, <3>2
  <2>5. checks' = call'[c].running \cup DOMAIN call'[c].results
    BY <1>1, <2>2 DEF Stored
  <2> QED
    BY <1>8, <2>1, <2>3, <2>4, <2>5 DEF Stored
<1> QED
  BY <1>5, <1>6, <1>7, <1>9 DEF HealthInv

LEMMA WriteKeeps ==
    ASSUME HealthInv, NEW c \in Calls, NEW n \in Checks, H!WriteResult(c, n)
    PROVE  HealthInv'
<1>0. HealthShape /\ Waiting /\ Registered /\ Undisturbed
  BY DEF HealthInv
<1>1. /\ task[<<c, n>>].pc = "write" /\ task' = [task EXCEPT ![<<c, n>>].pc = "off"]
      /\ UNCHANGED <<checks, results, changes, undisturbed, revivable>>
      /\ crashed' \in BOOLEAN
  BY DEF H!WriteResult, H!ghosts
<1>2. PICK v \in H!Statuses : v = task[<<c, n>>].status
  BY <1>0 DEF HealthShape
<1>3. /\ n \in call[c].running /\ call[c].pc = "checking" /\ n \notin DOMAIN call[c].results
      /\ call[c].results \in Kept
  BY <1>0, <1>1 DEF Waiting, HealthShape
<1>4. PICK f \in Kept : f = H!Put(call[c].results, n, v)
  BY <1>3, Putting
<1>5. /\ DOMAIN f = DOMAIN call[c].results \cup {n} /\ f[n] = v
      /\ \A m \in DOMAIN call[c].results : m # n => f[m] = call[c].results[m]
  <2>1. PICK g \in Kept : g = call[c].results
    BY <1>3
  <2>2. /\ DOMAIN H!Put(g, n, v) = DOMAIN g \cup {n} /\ H!Put(g, n, v)[n] = v
        /\ \A m \in DOMAIN g : m # n => H!Put(g, n, v)[m] = g[m]
    BY Putting
  <2> QED
    BY <1>4, <2>1, <2>2
<1>6. call' = [call EXCEPT ![c].results = f, ![c].running = call[c].running \ {n}]
  BY <1>2, <1>4 DEF H!WriteResult
<1>7. /\ call'[c].results = f /\ call'[c].running = call[c].running \ {n}
      /\ call'[c].pc = "checking" /\ \A d \in Calls : d # c => call'[d] = call[d]
  BY <1>0, <1>3, <1>6 DEF HealthShape
<1>8. /\ task'[<<c, n>>].pc = "off"
      /\ \A d \in Calls, m \in Checks : <<d, m>> # <<c, n>> => task'[<<d, m>>] = task[<<d, m>>]
  BY <1>0, <1>1 DEF HealthShape
<1>9. HealthShape'
  <2>1. call' \in [Calls -> [pc : {"new", "checking", "done"}, running : SUBSET Checks,
                             results : Kept, verdict : H!Statuses]]
    BY <1>0, <1>6 DEF HealthShape
  <2>2. task' \in [Calls \X Checks -> [pc : {"off", "run", "store", "write"},
                                       status : H!Statuses]]
    BY <1>0, <1>1 DEF HealthShape
  <2> QED
    BY <1>0, <1>1, <2>1, <2>2 DEF HealthShape
<1>10. Waiting'
  <2> SUFFICES ASSUME NEW d \in Calls
               PROVE  /\ call'[d].running # {} => call'[d].pc = "checking"
                      /\ call'[d].running \cap DOMAIN call'[d].results = {}
                      /\ \A m \in Checks : task'[<<d, m>>].pc # "off" <=> m \in call'[d].running
    BY DEF Waiting
  <2>1. CASE d = c
    BY <1>0, <1>5, <1>7, <1>8, <2>1 DEF Waiting
  <2>2. CASE d # c
    BY <1>0, <1>7, <1>8, <2>2 DEF Waiting
  <2> QED
    BY <2>1, <2>2
<1>11. Registered'
  BY <1>0, <1>1, <1>8 DEF Registered
<1>12. Undisturbed'
  <2>1. ASSUME c \in undisturbed, revivable = {} PROVE Stored(c)'
    <3>1. Stored(c)
      BY <1>0, <1>3, <2>1 DEF Undisturbed
    <3>2. checks' = call'[c].running \cup DOMAIN call'[c].results
      BY <1>1, <1>3, <1>5, <1>7, <3>1 DEF Stored
    <3>3. n \in DOMAIN results /\ results[n] = v
      BY <1>1, <1>2, <3>1 DEF Stored
    <3>4. \A m \in DOMAIN f : m \in DOMAIN results /\ results[m] = f[m]
      BY <1>5, <3>1, <3>3 DEF Stored
    <3>5. \A m \in Checks : task'[<<c, m>>].pc = "write" =>
             m \in DOMAIN results /\ results[m] = task'[<<c, m>>].status
      BY <1>8, <3>1 DEF Stored
    <3> QED
      BY <1>1, <1>7, <3>2, <3>4, <3>5 DEF Stored
  <2>3. \A d \in undisturbed : d = c
    BY <1>0, <1>3 DEF Undisturbed
  <2> QED
    BY <1>0, <1>1, <1>7, <2>1, <2>3 DEF Undisturbed
<1> QED
  BY <1>9, <1>10, <1>11, <1>12 DEF HealthInv

LEMMA AnswerKeeps ==
    ASSUME HealthInv, NEW c \in Calls, H!Answer(c)
    PROVE  HealthInv'
<1>0. HealthShape /\ Waiting /\ Registered /\ Undisturbed
  BY DEF HealthInv
<1>1. /\ call[c].pc = "checking" /\ call[c].running = {}
      /\ UNCHANGED <<checks, results, task, crashed, changes, undisturbed, revivable>>
      /\ call' = [call EXCEPT ![c].pc = "done", ![c].verdict = H!GetOverallStatus]
  BY DEF H!Answer, H!ghosts
<1>2. PICK v \in H!Statuses : v = H!Worst(H!Range(results))
  BY Severity
<1>3. /\ call'[c].pc = "done" /\ call'[c].verdict = v /\ call'[c].running = {}
      /\ call'[c].results = call[c].results
      /\ \A d \in Calls : d # c => call'[d] = call[d]
  BY <1>0, <1>1, <1>2 DEF HealthShape, H!GetOverallStatus
<1>4. call' \in [Calls -> [pc : {"new", "checking", "done"}, running : SUBSET Checks,
                           results : Kept, verdict : H!Statuses]]
  BY <1>0, <1>1, <1>2 DEF HealthShape, H!GetOverallStatus
<1>5. HealthShape'
  BY <1>0, <1>1, <1>4 DEF HealthShape
<1>6. Waiting' /\ Registered'
  BY <1>0, <1>1, <1>3 DEF Waiting, Registered
<1>7. Undisturbed'
  <2>1. ASSUME c \in undisturbed, revivable = {}
        PROVE  v = H!Worst(H!Range(call[c].results))
    <3>1. Stored(c)
      BY <1>0, <1>1, <2>1 DEF Undisturbed
    <3>2. /\ DOMAIN results = DOMAIN call[c].results
          /\ \A m \in DOMAIN results : results[m] = call[c].results[m]
      BY <1>0, <1>1, <2>1, <3>1 DEF Stored, Registered
    <3>3. H!Range(results) = H!Range(call[c].results)
      BY <3>2 DEF H!Range
    <3> QED
      BY <1>2, <3>3
  <2>2. \A d \in undisturbed : d = c
    BY <1>0, <1>1 DEF HealthShape, Undisturbed
  <2> QED
    BY <1>0, <1>1, <1>3, <2>1, <2>2 DEF Undisturbed
<1> QED
  BY <1>5, <1>6, <1>7 DEF HealthInv

(* The results kept are those of registered checks, but for the checks that *)
(* were removed while they were running, and a request that nothing has     *)
(* come between answers by its own results, for every set of checks and of  *)
(* requests (health/health.go, CheckHealth).                                *)
THEOREM HealthReflectsChecks ==
    ASSUME MaxChanges \in Nat
    PROVE  H!Spec => []H!StatusReflectsChecks
<1>1. H!Init => HealthInv
  <2> SUFFICES ASSUME H!Init PROVE HealthInv
    OBVIOUS
  <2>1. PICK e \in Kept : e = <<>> /\ DOMAIN e = {}
    BY Keeping
  <2>2. HealthShape
    <3>1. H!NoCall \in [pc : {"new", "checking", "done"}, running : SUBSET Checks,
                        results : Kept, verdict : H!Statuses]
      BY <2>1 DEF H!NoCall, H!Statuses
    <3>2. results \in Kept
      BY <2>1 DEF H!Init
    <3>3. call \in [Calls -> [pc : {"new", "checking", "done"}, running : SUBSET Checks,
                               results : Kept, verdict : H!Statuses]]
      BY <3>1 DEF H!Init
    <3>4. task \in [Calls \X Checks -> [pc : {"off", "run", "store", "write"},
                                         status : H!Statuses]]
      BY DEF H!Init, H!Statuses
    <3>5. /\ checks \subseteq Checks /\ crashed \in BOOLEAN
          /\ undisturbed \subseteq Calls /\ revivable \subseteq Checks
      BY DEF H!Init
    <3>6. changes \in 0..MaxChanges
      BY DEF H!Init
    <3> QED
      BY <3>2, <3>3, <3>4, <3>5, <3>6 DEF HealthShape
  <2>3. Waiting /\ Registered /\ Undisturbed
    BY <2>1 DEF H!Init, H!NoCall, Waiting, Registered, Undisturbed
  <2> QED
    BY <2>2, <2>3 DEF HealthInv
<1>2. HealthInv /\ UNCHANGED H!vars => HealthInv'
  BY DEF H!vars, HealthInv, HealthShape, Waiting, Registered, Undisturbed, Stored
<1>3. HealthInv /\ H!Next => HealthInv'
  BY ChangeKeeps, CheckHealthKeeps, CheckedKeeps, StoreKeeps, WriteKeeps, AnswerKeeps DEF H!Next
<1>4. HealthInv => H!StatusReflectsChecks
  <2> SUFFICES ASSUME HealthInv PROVE H!StatusReflectsChecks
    OBVIOUS
  <2>0. HealthShape /\ Registered /\ Undisturbed
    BY DEF HealthInv
  <2>1. DOMAIN results \subseteq Checks /\ H!Range(results) \subseteq H!Statuses
    BY <2>0, Keeping DEF HealthShape
  <2>2. \A c \in Calls : H!Range(call[c].results) \subseteq H!Statuses
    BY <2>0, Keeping DEF HealthShape
  <2>3. H!TypeOK
    BY <2>0, <2>1, <2>2 DEF H!TypeOK, HealthShape
  <2> QED
    BY <2>0, <2>3 DEF H!StatusReflectsChecks, Registered, Undisturbed
<1> QED
  BY <1>1, <1>2, <1>3, <1>4, PTL DEF H!Spec
-----------------------------------------------------------------------------
(***************************************************************************)
(* The registry of plugins, for every set of names, copies and loaders.    *)
(*                                                                         *)
(* What it promises a loader at the end of LoadFromPath rests on whose     *)
(* plugin its entry is in the middle (LoadersOK).                          *)
(***************************************************************************)
CONSTANTS Names, Copies, Loaders
VARIABLES plugins, running, orphans, loader

P == INSTANCE PluginRegistry

Serves(p) ==
    /\ P!Found(P!NameOf(p)) /\ plugins[P!NameOf(p)].plugin = p
    /\ plugins[P!NameOf(p)].state = "enabled"

\* What every single operation of the registry keeps.
Table ==
    /\ DOMAIN plugins \subseteq Names
    /\ plugins \in [DOMAIN plugins -> [plugin : P!AllPlugins, state : P!States]]
    /\ \A n \in DOMAIN plugins : P!NameOf(plugins[n].plugin) = n
    /\ running \subseteq P!AllPlugins /\ orphans \subseteq running
    /\ \A n \in DOMAIN plugins : plugins[n].state = "enabled" => plugins[n].plugin \in running
    /\ \A p \in running \ orphans : Serves(p)

LoaderStates == {"idle", "load", "rollback", "loaded", "failed"}

\* As long as no one else has worked on its name, a loader finds the entry it
\* made, enabled or gone when it has finished.
LoadersOK ==
    /\ undisturbed \subseteq Loaders
    /\ loader \in [Loaders -> [pc : LoaderStates, plugin : P!AllPlugins]]
    /\ \A l \in undisturbed :
          LET n == P!NameOf(loader[l].plugin)
          IN  /\ loader[l].pc \in {"load", "rollback"} =>
                     P!Found(n) /\ plugins[n].plugin = loader[l].plugin
              /\ loader[l].pc = "loaded" => Serves(loader[l].plugin)
              /\ loader[l].pc = "failed" => ~P!Found(n)

RegistryInv == Table /\ LoadersOK

LEMMA NameOfPlugin == \A p \in P!AllPlugins : P!NameOf(p) \in Names
  BY DEF P!AllPlugins, P!NameOf

LEMMA TableMeans ==
    ASSUME RegistryInv
    PROVE  P!PluginsAccountedFor
<1>1. P!TypeOK
  BY DEF RegistryInv, Table, LoadersOK, LoaderStates, P!TypeOK
<1>2. P!ServedPluginsRun
  BY DEF RegistryInv, Table, P!ServedPluginsRun, P!Get, P!Found
<1>3. \A p \in P!AllPlugins : Serves(p) => P!NameOf(p) \in Names /\ p \in P!Get(P!NameOf(p))
  BY NameOfPlugin DEF Serves, P!Get
<1>4. P!NoPluginIsLost
  BY <1>3 DEF RegistryInv, Table, P!NoPluginIsLost
<1>5. P!LoadsWholeOrNot
  BY <1>3 DEF RegistryInv, Table, LoadersOK, Serves, P!LoadsWholeOrNot
<1> QED
  BY <1>1, <1>2, <1>4, <1>5 DEF P!PluginsAccountedFor

-----------------------------------------------------------------------------
\* The operations of the registry on the entry n.

SameElsewhere(n) ==
    \A m : m # n => /\ P!Found(m)' <=> P!Found(m)
                    /\ P!Found(m) => plugins'[m] = plugins[m]

LEMMA RegisterKeeps ==
    ASSUME Table, NEW p \in P!AllPlugins, P!Register(p)
    PROVE  /\ Table' /\ SameElsewhere(P!NameOf(p))
           /\ P!Found(P!NameOf(p))' /\ plugins'[P!NameOf(p)].plugin = p
<1> DEFINE n == P!NameOf(p)
           entry == [plugin |-> p, state |-> "unloaded"]
<1>1. /\ n \in Names /\ n \notin DOMAIN plugins /\ UNCHANGED <<running, orphans>>
      /\ DOMAIN plugins' = DOMAIN plugins \cup {n}
      /\ plugins' = [m \in DOMAIN plugins' |-> plugins'[m]]
      /\ plugins'[n] = entry /\ \A m \in DOMAIN plugins : plugins'[m] = plugins[m]
      /\ entry \in [plugin : P!AllPlugins, state : P!States] /\ entry.state # "enabled"
  BY NameOfPlugin DEF P!Register, P!Found, P!States
<1>2. entry.plugin = p
  OBVIOUS
<1> HIDE DEF entry
<1>3. SameElsewhere(n)
  BY <1>1 DEF SameElsewhere, P!Found
<1>4. plugins' \in [DOMAIN plugins' -> [plugin : P!AllPlugins, state : P!States]]
  BY <1>1 DEF Table
<1>5. \A m \in DOMAIN plugins' : /\ P!NameOf(plugins'[m].plugin) = m
                                 /\ plugins'[m].state = "enabled" => plugins'[m].plugin \in running
  BY <1>1, <1>2 DEF Table
<1>6. \A q \in running \ orphans : Serves(q)'
  BY <1>1 DEF Table, Serves, P!Found
<1> QED
  BY <1>1, <1>2, <1>3, <1>4, <1>5, <1>6 DEF Table, P!Found

LEMMA UnregisterKeeps ==
    ASSUME Table, NEW n, NEW stops \in BOOLEAN, P!Unregister(n, stops)
    PROVE  Table' /\ SameElsewhere(n) /\ ~P!Found(n)'
<1> DEFINE p == plugins[n].plugin
           asked == plugins[n].state = "enabled"
<1>1. /\ n \in DOMAIN plugins /\ DOMAIN plugins' = DOMAIN plugins \ {n}
      /\ plugins' = [m \in DOMAIN plugins' |-> plugins'[m]]
      /\ \A m \in DOMAIN plugins' : plugins'[m] = plugins[m]
      /\ P!NameOf(p) = n
  BY DEF P!Unregister, P!Found, P!Restrict, Table
<1>2. /\ running' = IF asked /\ stops THEN running \ {p} ELSE running
      /\ orphans' = IF asked /\ stops THEN orphans \ {p}
                    ELSE IF asked THEN orphans \cup {p} ELSE orphans
  BY DEF P!Unregister
<1> HIDE DEF p, asked
<1>3. SameElsewhere(n) /\ ~P!Found(n)'
  BY <1>1 DEF SameElsewhere, P!Found
<1>4. plugins' \in [DOMAIN plugins' -> [plugin : P!AllPlugins, state : P!States]]
  BY <1>1 DEF Table
<1>5. ASSUME NEW m \in DOMAIN plugins'
      PROVE  /\ P!NameOf(plugins'[m].plugin) = m
             /\ plugins'[m].state = "enabled" => plugins'[m].plugin \in running'
  <2>1. m \in DOMAIN plugins /\ m # n /\ plugins'[m] = plugins[m]
    BY <1>1
  <2>2. plugins[m].plugin # p
    BY <1>1, <2>1 DEF Table
  <2> QED
    BY <1>2, <2>1, <2>2 DEF Table
<1>6. asked => p \in running
  BY <1>1 DEF Table, asked, p
<1>7. orphans' \subseteq running' /\ running' \subseteq P!AllPlugins
  BY <1>2, <1>6 DEF Table
<1>8. ASSUME NEW q \in running' \ orphans' PROVE Serves(q)'
  <2>1. q \in running \ orphans /\ Serves(q)
    BY <1>2, <1>8 DEF Table
  <2>2. q # p
    BY <1>1, <1>2, <1>8, <2>1 DEF Serves, asked, p
  <2>3. P!NameOf(q) # n
    BY <2>1, <2>2 DEF Serves, p
  <2> QED
    BY <1>1, <2>1, <2>3 DEF Serves, P!Found
<1> QED
  BY <1>1, <1>3, <1>4, <1>5, <1>7, <1>8 DEF Table

LEMMA UnloadKeeps ==
    ASSUME Table, NEW n, NEW stops \in BOOLEAN, P!Unload(n, stops)
    PROVE  Table' /\ SameElsewhere(n)
<1> DEFINE p == plugins[n].plugin
<1>1. CASE stops
  <2>1. /\ n \in DOMAIN plugins /\ DOMAIN plugins' = DOMAIN plugins
        /\ plugins' = [m \in DOMAIN plugins' |-> plugins'[m]]
        /\ \A m \in DOMAIN plugins' : m # n => plugins'[m] = plugins[m]
        /\ plugins'[n].plugin = p /\ plugins'[n].state = "unloaded"
        /\ plugins'[n] \in [plugin : P!AllPlugins, state : P!States]
        /\ running' = running \ {p} /\ orphans' = orphans \ {p}
    BY <1>1 DEF P!Unload, P!Found, Table, P!States
  <2>2. SameElsewhere(n)
    BY <2>1 DEF SameElsewhere, P!Found
  <2>3. plugins' \in [DOMAIN plugins' -> [plugin : P!AllPlugins, state : P!States]]
    BY <2>1 DEF Table
  <2>4. ASSUME NEW m \in DOMAIN plugins'
        PROVE  /\ P!NameOf(plugins'[m].plugin) = m
               /\ plugins'[m].state = "enabled" => plugins'[m].plugin \in running'
    BY <2>1 DEF Table
  <2>5. \A q \in running' \ orphans' : Serves(q)'
    BY <2>1 DEF Table, Serves, P!Found
  <2> QED
    BY <2>1, <2>2, <2>3, <2>4, <2>5 DEF Table
<1>2. CASE ~stops
  BY <1>2 DEF P!Unload, Table, SameElsewhere, Serves, P!Found
<1> QED
  BY <1>1, <1>2

LEMMA LoadKeeps ==
    ASSUME Table, NEW n, NEW inits \in BOOLEAN, NEW starts \in BOOLEAN, P!Load(n, inits, starts)
    PROVE  /\ Table' /\ SameElsewhere(n) /\ P!Found(n)
           /\ P!Found(n)' /\ plugins'[n].plugin = plugins[n].plugin
           /\ inits /\ starts => Serves(plugins[n].plugin)'
<1> DEFINE p == plugins[n].plugin
           ok == inits /\ starts
<1>1. /\ n \in DOMAIN plugins /\ DOMAIN plugins' = DOMAIN plugins
      /\ plugins' = [m \in DOMAIN plugins' |-> plugins'[m]]
      /\ \A m \in DOMAIN plugins' : m # n => plugins'[m] = plugins[m]
      /\ plugins'[n].plugin = p /\ plugins'[n].state = IF ok THEN "enabled" ELSE "error"
      /\ plugins'[n] \in [plugin : P!AllPlugins, state : P!States]
      /\ p \in P!AllPlugins /\ P!NameOf(p) = n
      /\ running' = IF ok THEN running \cup {p} ELSE running
      /\ orphans' = IF ok THEN orphans \ {p} ELSE orphans \cup ({p} \cap running)
  BY DEF P!Load, P!Found, Table, P!States
<1>2. SameElsewhere(n)
  BY <1>1 DEF SameElsewhere, P!Found
<1>3. plugins' \in [DOMAIN plugins' -> [plugin : P!AllPlugins, state : P!States]]
  BY <1>1 DEF Table
<1>4. ASSUME NEW m \in DOMAIN plugins'
      PROVE  /\ P!NameOf(plugins'[m].plugin) = m
             /\ plugins'[m].state = "enabled" => plugins'[m].plugin \in running'
  BY <1>1 DEF Table
<1>5. \A q \in running' \ orphans' : Serves(q)'
  BY <1>1 DEF Table, Serves, P!Found
<1> QED
  BY <1>1, <1>2, <1>3, <1>4, <1>5 DEF Table, P!Found, Serves

-----------------------------------------------------------------------------
\* The steps of the callers and of LoadFromPath.

LEMMA CallerKeeps ==
    ASSUME RegistryInv, NEW n \in Names, P!Caller(n)
    PROVE  RegistryInv'
<1>1. Table' /\ SameElsewhere(n)
  BY RegisterKeeps, UnregisterKeeps, UnloadKeeps, LoadKeeps DEF P!Caller, RegistryInv
<1>2. /\ loader' = loader
      /\ undisturbed' = {l \in undisturbed : P!NameOf(loader[l].plugin) # n}
  BY DEF P!Caller, P!Disturb
<1>3. LoadersOK'
  BY <1>1, <1>2 DEF RegistryInv, LoadersOK, SameElsewhere, Serves
<1> QED
  BY <1>1, <1>3 DEF RegistryInv

LEMMA LoadFromPathKeeps ==
    ASSUME RegistryInv, NEW l \in Loaders, P!LoadFromPath(l)
    PROVE  RegistryInv'
<1>1. PICK p \in P!AllPlugins :
          /\ P!Register(p)
          /\ loader' = [loader EXCEPT ![l] = [pc |-> "load", plugin |-> p]]
          /\ undisturbed' = {k \in undisturbed : P!NameOf(loader[k].plugin) # P!NameOf(p)} \cup {l}
  BY DEF P!LoadFromPath
<1>2. /\ Table' /\ SameElsewhere(P!NameOf(p))
      /\ P!Found(P!NameOf(p))' /\ plugins'[P!NameOf(p)].plugin = p
  BY <1>1, RegisterKeeps DEF RegistryInv
<1>3. /\ loader' \in [Loaders -> [pc : LoaderStates, plugin : P!AllPlugins]]
      /\ loader'[l].pc = "load" /\ loader'[l].plugin = p
      /\ \A k \in Loaders \ {l} : loader'[k] = loader[k]
  BY <1>1 DEF RegistryInv, LoadersOK, LoaderStates
<1>4. LoadersOK'
  BY <1>1, <1>2, <1>3 DEF RegistryInv, LoadersOK, SameElsewhere, Serves
<1> QED
  BY <1>2, <1>4 DEF RegistryInv

LEMMA LoadRegisteredKeeps ==
    ASSUME RegistryInv, NEW l \in Loaders, P!LoadRegistered(l)
    PROVE  RegistryInv'
<1> DEFINE p == loader[l].plugin
           n == P!NameOf(p)
<1>1. /\ loader[l].pc = "load"
      /\ undisturbed' = {k \in undisturbed \ {l} : P!NameOf(loader[k].plugin) # n}
                            \cup (undisturbed \cap {l})
  BY DEF P!LoadRegistered, P!Disturb
<1>2. ASSUME NEW inits \in BOOLEAN, NEW starts \in BOOLEAN, P!Load(n, inits, starts),
             loader' = [loader EXCEPT ![l].pc = IF inits /\ starts THEN "loaded" ELSE "rollback"]
      PROVE  RegistryInv'
  <2>1. /\ Table' /\ SameElsewhere(n) /\ P!Found(n)' /\ plugins'[n].plugin = plugins[n].plugin
        /\ inits /\ starts => Serves(plugins[n].plugin)'
    BY <1>2, LoadKeeps DEF RegistryInv
  <2>2. /\ loader' \in [Loaders -> [pc : LoaderStates, plugin : P!AllPlugins]]
        /\ loader'[l].pc = IF inits /\ starts THEN "loaded" ELSE "rollback"
        /\ loader'[l].plugin = p
        /\ \A k \in Loaders \ {l} : loader'[k] = loader[k]
    BY <1>2 DEF RegistryInv, LoadersOK, LoaderStates
  <2>3. l \in undisturbed => plugins[n].plugin = p
    BY <1>1 DEF RegistryInv, LoadersOK
  <2>4. LoadersOK'
    BY <1>1, <2>1, <2>2, <2>3 DEF RegistryInv, LoadersOK, SameElsewhere, Serves
  <2> QED
    BY <2>1, <2>4 DEF RegistryInv
<1>3. CASE /\ ~P!Found(n) /\ loader' = [loader EXCEPT ![l].pc = "rollback"]
           /\ UNCHANGED <<plugins, running, orphans>>
  <2>1. Table' /\ l \notin undisturbed
    BY <1>1, <1>3 DEF RegistryInv, Table, Serves, P!Found, LoadersOK
  <2>2. /\ loader' \in [Loaders -> [pc : LoaderStates, plugin : P!AllPlugins]]
        /\ \A k \in Loaders \ {l} : loader'[k] = loader[k]
    BY <1>3 DEF RegistryInv, LoadersOK, LoaderStates
  <2>3. LoadersOK'
    BY <1>1, <1>3, <2>1, <2>2 DEF RegistryInv, LoadersOK, Serves, P!Found
  <2> QED
    BY <2>1, <2>3 DEF RegistryInv
<1> QED
  BY <1>2, <1>3 DEF P!LoadRegistered

LEMMA RollbackKeeps ==
    ASSUME RegistryInv, NEW l \in Loaders, P!Rollback(l)
    PROVE  RegistryInv'
<1> DEFINE p == loader[l].plugin
           n == P!NameOf(p)
<1>1. /\ loader[l].pc = "rollback" /\ loader' = [loader EXCEPT ![l].pc = "failed"]
      /\ undisturbed' = {k \in undisturbed \ {l} : P!NameOf(loader[k].plugin) # n}
                            \cup (undisturbed \cap {l})
  BY DEF P!Rollback, P!Disturb
<1>2. Table' /\ SameElsewhere(n) /\ ~P!Found(n)'
  <2>1. CASE P!Found(n)
    BY <2>1, UnregisterKeeps DEF P!Rollback, RegistryInv
  <2>2. CASE ~P!Found(n)
    BY <2>2 DEF P!Rollback, RegistryInv, Table, Serves, P!Found, SameElsewhere
  <2> QED
    BY <2>1, <2>2
<1>3. /\ loader' \in [Loaders -> [pc : LoaderStates, plugin : P!AllPlugins]]
      /\ loader'[l].pc = "failed" /\ loader'[l].plugin = p
      /\ \A k \in Loaders \ {l} : loader'[k] = loader[k]
  BY <1>1 DEF RegistryInv, LoadersOK, LoaderStates
<1>4. LoadersOK'
  BY <1>1, <1>2, <1>3 DEF RegistryInv, LoadersOK, SameElsewhere, Serves
<1> QED
  BY <1>2, <1>4 DEF RegistryInv

LEMMA LoaderReturnsKeeps ==
    ASSUME RegistryInv, P!AllPlugins # {}, NEW l \in Loaders, P!LoaderReturns(l)
    PROVE  RegistryInv'
<1>1. /\ loader' = [loader EXCEPT ![l] = P!Idle] /\ undisturbed' = undisturbed \ {l}
      /\ UNCHANGED <<plugins, running, orphans>>
  BY DEF P!LoaderReturns
<1>2. P!Idle \in [pc : LoaderStates, plugin : P!AllPlugins]
  BY DEF P!Idle, LoaderStates
<1> QED
  BY <1>1, <1>2 DEF RegistryInv, Table, LoadersOK, Serves, P!Found

THEOREM RegistryInvariance == ASSUME P!AllPlugins # {} PROVE P!Spec => []RegistryInv
<1>1. P!Init => RegistryInv
  <2> SUFFICES ASSUME P!Init PROVE RegistryInv
    OBVIOUS
  <2>1. DOMAIN plugins = {} /\ plugins \in [{} -> [plugin : P!AllPlugins, state : P!States]]
    BY EmptySeq DEF P!Init
  <2>2. P!Idle \in [pc : LoaderStates, plugin : P!AllPlugins]
    BY DEF P!Idle, LoaderStates
  <2>3. Table /\ LoadersOK
    BY <2>1, <2>2 DEF P!Init, Table, LoadersOK
  <2> QED
    BY <2>3 DEF RegistryInv
<1>2. RegistryInv /\ [P!Next]_(P!vars) => RegistryInv'
  <2>1. RegistryInv /\ P!Next => RegistryInv'
    BY CallerKeeps, LoadFromPathKeeps, LoadRegisteredKeeps, RollbackKeeps, LoaderReturnsKeeps
       DEF P!Next
  <2>2. RegistryInv /\ UNCHANGED P!vars => RegistryInv'
    BY DEF P!vars, RegistryInv, Table, LoadersOK, Serves, P!Found
  <2> QED
    BY <2>1, <2>2
<1> QED
  BY <1>1, <1>2, PTL DEF P!Spec

(* The registry, the plugins that run and the loads under way agree: what   *)
(* Get hands out runs, a plugin runs unserved only after a Stop or a second *)
(* load of it failed, and LoadFromPath is all or nothing while no one else  *)
(* works on its name (plugin/plugin.go).                                    *)
THEOREM PluginsAgree == ASSUME P!AllPlugins # {} PROVE P!Spec => []P!PluginsAccountedFor
<1>1. RegistryInv => P!PluginsAccountedFor
  BY TableMeans
<1>2. P!Spec => []RegistryInv
  BY RegistryInvariance
<1> QED
  BY <1>1, <1>2, PTL

-----------------------------------------------------------------------------
(***************************************************************************)
(* The handler that talks to a subprocess, for every set of calls.         *)
(*                                                                         *)
(* That no answer is returned twice rests on there being one of each, in a *)
(* pipe or with a decoder (OnePlace); that a call gets its own, on the     *)
(* pipes holding no one else's until a call has timed out (OwnPipe).       *)
(***************************************************************************)
CONSTANT ToolCalls
VARIABLES holder, stdin, stdout, alive, decoder, result, hasTimeout, timedOut

S == INSTANCE SubprocessHandler WITH Calls <- ToolCalls

Reading == <<"reading">>
In(s) == {s[i] : i \in DOMAIN s}
Distinct(s) == \A i, j \in DOMAIN s : s[i] = s[j] => i = j

\* There is one request of each call and one answer to it.
OnePlace ==
    /\ stdin \in Seq(ToolCalls) /\ stdout \in Seq(ToolCalls)
    /\ Distinct(stdin) /\ Distinct(stdout)
    /\ In(stdin) \cap In(stdout) = {}
    /\ \A x \in In(stdin) \cup In(stdout) :
          pc[x] \in {"select", "done"} /\ \A d \in ToolCalls : decoder[d] # S!Of(x)
    /\ \A x, d \in ToolCalls : decoder[d] = S!Of(x) => pc[x] \in {"select", "done"}
    /\ \A c, d, x \in ToolCalls : decoder[c] = S!Of(x) /\ decoder[d] = S!Of(x) => c = d

\* What a call has returned, and who has the mutex.
Returned ==
    \A c \in ToolCalls :
        /\ \/ result[c] \in {S!None, S!Error}
           \/ result[c] = decoder[c] /\ decoder[c] # Reading
        /\ pc[c] # "done" => result[c] = S!None
        /\ holder = <<c>> <=> pc[c] \in {"locked", "select"}

\* Until a call has timed out, only the holder of the mutex has anything in
\* the pipes or a decoder that reads.
OwnPipe ==
    /\ ~alive => stdin = <<>>
    /\ ~timedOut =>
          /\ \A x \in In(stdin) \cup In(stdout) : holder = <<x>>
          /\ \A c \in ToolCalls :
                /\ decoder[c] \in {S!None, Reading, S!Error, S!Of(c)}
                /\ decoder[c] = Reading => pc[c] = "select"
                /\ pc[c] = "select" /\ decoder[c] = S!Error => stdout = <<>> /\ ~alive


\* What S!TypeOK says of the pipes follows from their being sequences of calls.
Shape ==
    /\ pc \in [ToolCalls -> {"new", "locked", "select", "done"}]
    /\ holder \in {S!None} \cup {<<c>> : c \in ToolCalls}
    /\ decoder \in [ToolCalls -> {S!None, Reading, S!Error} \cup {S!Of(c) : c \in ToolCalls}]
    /\ result \in [ToolCalls -> {S!None, S!Error} \cup {S!Of(c) : c \in ToolCalls}]
    /\ {alive, hasTimeout, timedOut} \subseteq BOOLEAN

SInv == Shape /\ OnePlace /\ Returned /\ OwnPipe

LEMMA AnswersDiffer ==
    \A x, y : /\ S!Of(x) # S!None /\ S!Of(x) # S!Error /\ S!Of(x) # Reading
              /\ S!Of(x) = S!Of(y) => x = y
              /\ S!None # S!Error /\ S!None # Reading /\ S!Error # Reading
  BY DEF S!Of, S!None, S!Error, Reading

LEMMA DistinctAppend ==
    ASSUME NEW s \in Seq(ToolCalls), Distinct(s), NEW c \in ToolCalls, c \notin In(s)
    PROVE  Append(s, c) \in Seq(ToolCalls) /\ Distinct(Append(s, c)) /\ In(Append(s, c)) = In(s) \cup {c}
<1> DEFINE t == Append(s, c)
<1>1. /\ t \in Seq(ToolCalls) /\ DOMAIN t = DOMAIN s \cup {Len(s) + 1}
      /\ Len(s) + 1 \notin DOMAIN s
      /\ t[Len(s) + 1] = c /\ \A i \in DOMAIN s : t[i] = s[i]
  OBVIOUS
<1> HIDE DEF t
<1>2. In(t) = In(s) \cup {c}
  BY <1>1 DEF In
<1>3. Distinct(t)
  BY <1>1 DEF Distinct, In
<1> QED
  BY <1>1, <1>2, <1>3 DEF t

LEMMA DistinctTail ==
    ASSUME NEW s \in Seq(ToolCalls), Distinct(s), s # <<>>
    PROVE  /\ Tail(s) \in Seq(ToolCalls) /\ Distinct(Tail(s)) /\ In(Tail(s)) \subseteq In(s)
           /\ Head(s) \in ToolCalls /\ Head(s) \in In(s) /\ Head(s) \notin In(Tail(s))
           /\ In(s) = In(Tail(s)) \cup {Head(s)}
<1> DEFINE t == Tail(s)
<1>1. Len(s) \in Nat \ {0} /\ DOMAIN s = 1..Len(s)
  BY EmptySeq
<1>2. /\ t \in Seq(ToolCalls) /\ DOMAIN t = 1..(Len(s) - 1) /\ Head(s) = s[1]
      /\ \A i \in 1..(Len(s) - 1) : t[i] = s[i + 1]
  BY HeadTailProperties
<1> HIDE DEF t
<1>3. \A i \in DOMAIN t : i + 1 \in DOMAIN s /\ i + 1 # 1
  BY <1>1, <1>2
<1>4. \A j \in DOMAIN s : j = 1 \/ (j - 1 \in DOMAIN t /\ (j - 1) + 1 = j)
  BY <1>1, <1>2
<1>5. 1 \in DOMAIN s /\ s[1] \in ToolCalls
  BY <1>1, ElementOfSeq
<1>6. \A i, j \in DOMAIN t : t[i] = t[j] => i = j
  BY <1>2, <1>3 DEF Distinct
<1>7. In(s) = In(t) \cup {s[1]}
  BY <1>2, <1>3, <1>4, <1>5 DEF In
<1>8. s[1] \notin In(t)
  BY <1>2, <1>3, <1>5 DEF In, Distinct
<1> QED
  BY <1>2, <1>5, <1>6, <1>7, <1>8 DEF Distinct, t

\* What is left after a read of n answers.
LEMMA DistinctSuffix ==
    ASSUME NEW s \in Seq(ToolCalls), Distinct(s), NEW n \in 1..Len(s)
    PROVE  LET t == SubSeq(s, n + 1, Len(s))
           IN  /\ t \in Seq(ToolCalls) /\ Distinct(t) /\ In(t) \subseteq In(s)
               /\ Head(s) \notin In(t)
<1> DEFINE t == SubSeq(s, n + 1, Len(s))
<1>1. Len(s) \in Nat \ {0} /\ DOMAIN s = 1..Len(s) /\ n \in Nat /\ 1 <= n
  OBVIOUS
<1>2. \A i \in (n + 1)..Len(s) : s[i] \in ToolCalls
  BY <1>1, ElementOfSeq
<1>3. /\ t \in Seq(ToolCalls)
      /\ Len(t) = IF n + 1 <= Len(s) THEN Len(s) - (n + 1) + 1 ELSE 0
      /\ \A i \in 1..(Len(s) - (n + 1) + 1) : t[i] = s[(n + 1) + i - 1]
  BY <1>1, <1>2, SubSeqProperties
<1> HIDE DEF t
<1>4. DOMAIN t = 1..Len(t)
  BY <1>3
<1>5. ASSUME NEW i \in DOMAIN t
      PROVE  n + i \in DOMAIN s /\ n + i # 1 /\ t[i] = s[n + i]
  <2>1. n + 1 <= Len(s) /\ Len(t) = Len(s) - (n + 1) + 1 /\ i \in 1..(Len(s) - (n + 1) + 1)
    BY <1>1, <1>3, <1>4, <1>5
  <2>2. (n + 1) + i - 1 = n + i /\ n + i \in 1..Len(s) /\ n + i # 1
    BY <1>1, <2>1
  <2> QED
    BY <1>1, <1>3, <2>1, <2>2
<1>6. \A i, j \in DOMAIN t : n + i = n + j => i = j
  BY <1>1, <1>4
<1>7. Distinct(t) /\ In(t) \subseteq In(s)
  BY <1>5, <1>6 DEF Distinct, In
<1>8. Head(s) = s[1] /\ 1 \in DOMAIN s
  BY <1>1
<1>9. Head(s) \notin In(t)
  BY <1>5, <1>8 DEF In, Distinct
<1> QED
  BY <1>3, <1>7, <1>9 DEF t

\* What every step can use: whom the pipes belong to, and that there is one holder.
LEMMA Pipes ==
    ASSUME SInv
    PROVE  /\ In(stdin) \subseteq ToolCalls /\ In(stdout) \subseteq ToolCalls
           /\ \A x, y : <<x>> # S!None /\ (<<x>> = <<y>> => x = y)
           /\ \A c, d \in ToolCalls : pc[c] \in {"locked", "select"} /\ pc[d] \in {"locked", "select"} => c = d
           /\ holder = S!None => \A c \in ToolCalls : pc[c] \notin {"locked", "select"}
           /\ holder = S!None /\ ~timedOut => In(stdin) \cup In(stdout) = {}
<1>1. In(stdin) \subseteq ToolCalls /\ In(stdout) \subseteq ToolCalls
  <2>1. stdin \in Seq(ToolCalls) /\ stdout \in Seq(ToolCalls)
    BY DEF SInv, OnePlace
  <2> QED
    BY <2>1 DEF In
<1>2. \A x, y : <<x>> # S!None /\ (<<x>> = <<y>> => x = y)
  BY DEF S!None
<1>3. \A c \in ToolCalls : holder = <<c>> <=> pc[c] \in {"locked", "select"}
  BY DEF SInv, Returned
<1>4. ~timedOut => \A x \in In(stdin) \cup In(stdout) : holder = <<x>>
  BY DEF SInv, OwnPipe
<1> QED
  BY <1>1, <1>2, <1>3, <1>4

LEMMA LockKeeps ==
    ASSUME SInv, NEW c \in ToolCalls, S!Lock(c)
    PROVE  SInv'
<1>1. /\ pc[c] = "new" /\ holder = S!None /\ holder' = <<c>>
      /\ pc' = [pc EXCEPT ![c] = "locked"]
      /\ stdin' = stdin /\ stdout' = stdout /\ alive' = alive /\ decoder' = decoder
      /\ result' = result /\ hasTimeout' = hasTimeout /\ timedOut' = timedOut
  BY DEF S!Lock
<1>2. Shape /\ Shape'
  BY <1>1 DEF SInv, Shape
<1>3. /\ pc'[c] = "locked" /\ \A d \in ToolCalls : d # c => pc'[d] = pc[d]
  BY <1>1, <1>2 DEF Shape
<1>4. In(stdin)' = In(stdin) /\ In(stdout)' = In(stdout)
  BY <1>1 DEF In
<1>5. OnePlace'
  BY <1>1, <1>3, <1>4, Pipes DEF SInv, OnePlace, Distinct
<1>6. Returned'
  BY <1>1, <1>3, Pipes DEF SInv, Returned
<1>7. OwnPipe'
  <2>1. ~timedOut' => In(stdin)' \cup In(stdout)' = {}
    BY <1>1, <1>4, Pipes
  <2>2. \A d \in ToolCalls : pc'[d] = "select" <=> pc[d] = "select"
    BY <1>1, <1>3
  <2> QED
    BY <1>1, <2>1, <2>2 DEF SInv, OwnPipe
<1> QED
  BY <1>2, <1>5, <1>6, <1>7 DEF SInv

LEMMA SendRequestKeeps ==
    ASSUME SInv, NEW c \in ToolCalls, S!SendRequest(c)
    PROVE  SInv'
<1>1. /\ pc[c] = "locked" /\ stdout' = stdout /\ alive' = alive
      /\ hasTimeout' = hasTimeout /\ timedOut' = timedOut
  BY DEF S!SendRequest
<1>2. /\ holder = <<c>> /\ result[c] = S!None
      /\ c \notin In(stdin) /\ c \notin In(stdout)
      /\ \A d \in ToolCalls : decoder[d] # S!Of(c)
      /\ \A d \in ToolCalls : d # c => pc[d] \notin {"locked", "select"}
  BY <1>1, Pipes DEF SInv, Returned, OnePlace
<1>3. Shape
  BY DEF SInv
<1>4. CASE alive
  <2>1. /\ stdin' = Append(stdin, c) /\ decoder' = [decoder EXCEPT ![c] = Reading]
        /\ pc' = [pc EXCEPT ![c] = "select"] /\ holder' = holder /\ result' = result
    BY <1>4 DEF S!SendRequest, Reading
  <2>2. Shape'
    BY <1>1, <1>3, <2>1 DEF Shape
  <2>3. /\ pc'[c] = "select" /\ decoder'[c] = Reading
        /\ \A d \in ToolCalls : d # c => pc'[d] = pc[d] /\ decoder'[d] = decoder[d]
    BY <1>3, <2>1 DEF Shape
  <2>4. stdin \in Seq(ToolCalls) /\ Distinct(stdin)
    BY DEF SInv, OnePlace
  <2>5. /\ stdin' \in Seq(ToolCalls) /\ Distinct(stdin)' /\ In(stdin)' = In(stdin) \cup {c}
        /\ In(stdout)' = In(stdout) /\ Distinct(stdout)' = Distinct(stdout)
    <3>1. In(stdin)' = In(Append(stdin, c)) /\ Distinct(stdin)' = Distinct(Append(stdin, c))
      BY <2>1 DEF In, Distinct
    <3>2. In(stdout)' = In(stdout) /\ Distinct(stdout)' = Distinct(stdout)
      BY <1>1 DEF In, Distinct
    <3>3. /\ Append(stdin, c) \in Seq(ToolCalls) /\ Distinct(Append(stdin, c))
          /\ In(Append(stdin, c)) = In(stdin) \cup {c}
      BY <1>2, <2>4, DistinctAppend
    <3> QED
      BY <2>1, <3>1, <3>2, <3>3
  <2>6. OnePlace'
    <3>1. \A d, x \in ToolCalls : decoder'[d] = S!Of(x) => decoder[d] = S!Of(x)
      BY <2>3, AnswersDiffer
    <3>2. \A x \in ToolCalls : pc[x] \in {"select", "done"} => pc'[x] \in {"select", "done"}
      BY <2>3
    <3>3. In(stdin)' \cap In(stdout)' = {}
      BY <1>2, <2>5 DEF SInv, OnePlace
    <3>4. \A x \in In(stdin)' \cup In(stdout)' :
              pc'[x] \in {"select", "done"} /\ \A d \in ToolCalls : decoder'[d] # S!Of(x)
      <4>1. In(stdin) \subseteq ToolCalls /\ In(stdout) \subseteq ToolCalls
        BY Pipes
      <4>2. \A x \in In(stdin) \cup In(stdout) :
                pc[x] \in {"select", "done"} /\ \A d \in ToolCalls : decoder[d] # S!Of(x)
        BY DEF SInv, OnePlace
      <4>3. \A x \in In(stdin) \cup In(stdout) :
                pc'[x] \in {"select", "done"} /\ \A d \in ToolCalls : decoder'[d] # S!Of(x)
        BY <3>1, <3>2, <4>1, <4>2
      <4>4. pc'[c] \in {"select", "done"} /\ \A d \in ToolCalls : decoder'[d] # S!Of(c)
        BY <1>2, <2>3, <3>1
      <4> QED
        BY <2>5, <4>3, <4>4
    <3>5. \A x, d \in ToolCalls : decoder'[d] = S!Of(x) => pc'[x] \in {"select", "done"}
      BY <3>1, <3>2 DEF SInv, OnePlace
    <3>6. \A a, d, x \in ToolCalls : decoder'[a] = S!Of(x) /\ decoder'[d] = S!Of(x) => a = d
      BY <3>1 DEF SInv, OnePlace
    <3>7. stdout' \in Seq(ToolCalls) /\ Distinct(stdout)'
      BY <1>1, <2>5 DEF SInv, OnePlace
    <3> QED
      BY <2>5, <3>3, <3>4, <3>5, <3>6, <3>7 DEF OnePlace
  <2>7. Returned'
    BY <1>2, <2>1, <2>3 DEF SInv, Returned
  <2>8. OwnPipe'
    BY <1>1, <1>2, <1>4, <2>1, <2>3, <2>5, AnswersDiffer DEF SInv, OwnPipe
  <2> QED
    BY <2>2, <2>6, <2>7, <2>8 DEF SInv
<1>5. CASE ~alive
  <2>1. /\ pc' = [pc EXCEPT ![c] = "done"] /\ result' = [result EXCEPT ![c] = S!Error]
        /\ holder' = S!None /\ stdin' = stdin /\ decoder' = decoder
    BY <1>5 DEF S!SendRequest, S!Return
  <2>2. Shape'
    BY <1>1, <1>3, <2>1 DEF Shape
  <2>3. /\ pc'[c] = "done" /\ result'[c] = S!Error
        /\ \A d \in ToolCalls : d # c => pc'[d] = pc[d] /\ result'[d] = result[d]
    BY <1>3, <2>1 DEF Shape
  <2>4. In(stdin)' = In(stdin) /\ In(stdout)' = In(stdout)
    BY <1>1, <2>1 DEF In
  <2>5. OnePlace'
    BY <1>1, <2>1, <2>3, <2>4, Pipes DEF SInv, OnePlace, Distinct
  <2>6. Returned'
    BY <1>2, <2>1, <2>3, Pipes DEF SInv, Returned
  <2>7. OwnPipe'
    <3>1. ~timedOut => In(stdin) \cup In(stdout) = {}
      BY <1>2, Pipes DEF SInv, OwnPipe
    <3>2. ~timedOut => \A d \in ToolCalls : decoder[d] # Reading
      BY <1>1, <1>2 DEF SInv, OwnPipe
    <3>3. \A d \in ToolCalls : pc'[d] # "select"
      BY <1>2, <2>3
    <3> QED
      BY <1>1, <2>1, <2>4, <3>1, <3>2, <3>3 DEF SInv, OwnPipe
  <2> QED
    BY <2>2, <2>5, <2>6, <2>7 DEF SInv
<1> QED
  BY <1>4, <1>5

LEMMA DecodeKeeps ==
    ASSUME SInv, NEW c \in ToolCalls, S!Decode(c)
    PROVE  SInv'
<1>1. /\ decoder[c] = Reading /\ pc' = pc /\ holder' = holder /\ stdin' = stdin
      /\ alive' = alive /\ result' = result /\ hasTimeout' = hasTimeout /\ timedOut' = timedOut
  BY DEF S!Decode, Reading
<1>2. Shape /\ stdout \in Seq(ToolCalls) /\ Distinct(stdout)
  BY DEF SInv, OnePlace
<1>3. result[c] \in {S!None, S!Error}
  BY <1>1 DEF SInv, Returned
<1>4. In(stdin)' = In(stdin) /\ Distinct(stdin)' = Distinct(stdin)
  BY <1>1 DEF In, Distinct
<1>5. ~timedOut => pc[c] = "select" /\ holder = <<c>>
  BY <1>1 DEF SInv, OwnPipe, Returned
<1>6. CASE stdout # <<>>
  <2> DEFINE h == Head(stdout)
  <2>1. PICK n \in 1..Len(stdout) :
            /\ decoder' = [decoder EXCEPT ![c] = S!Of(h)]
            /\ stdout' = SubSeq(stdout, n + 1, Len(stdout))
    BY <1>6 DEF S!Decode
  <2>2. h \in ToolCalls /\ h \in In(stdout)
    BY <1>2, <1>6, DistinctTail
  <2>3. /\ stdout' \in Seq(ToolCalls) /\ Distinct(stdout)' /\ In(stdout)' \subseteq In(stdout)
        /\ h \notin In(stdout)'
    <3> DEFINE t == SubSeq(stdout, n + 1, Len(stdout))
    <3>1. t \in Seq(ToolCalls) /\ Distinct(t) /\ In(t) \subseteq In(stdout) /\ h \notin In(t)
      BY <1>2, DistinctSuffix
    <3>2. In(stdout)' = In(t) /\ Distinct(stdout)' = Distinct(t) /\ stdout' = t
      BY <2>1 DEF In, Distinct
    <3> QED
      BY <3>1, <3>2
  <2> HIDE DEF h
  <2>4. Shape'
    BY <1>1, <1>2, <2>1, <2>2 DEF Shape
  <2>5. /\ decoder'[c] = S!Of(h) /\ \A d \in ToolCalls : d # c => decoder'[d] = decoder[d]
    BY <1>2, <2>1 DEF Shape
  <2>6. OnePlace'
    <3>1. h \notin In(stdin) /\ pc[h] \in {"select", "done"} /\ \A d \in ToolCalls : decoder[d] # S!Of(h)
      BY <2>2 DEF SInv, OnePlace
    <3>2. \A x \in In(stdin)' \cup In(stdout)' :
              pc'[x] \in {"select", "done"} /\ \A d \in ToolCalls : decoder'[d] # S!Of(x)
      BY <1>1, <1>4, <2>3, <2>5, <3>1, AnswersDiffer DEF SInv, OnePlace
    <3>3. \A x, d \in ToolCalls : decoder'[d] = S!Of(x) => pc'[x] \in {"select", "done"}
      BY <1>1, <2>5, <3>1, AnswersDiffer DEF SInv, OnePlace
    <3>4. \A a, d, x \in ToolCalls : decoder'[a] = S!Of(x) /\ decoder'[d] = S!Of(x) => a = d
      BY <2>5, <3>1, AnswersDiffer DEF SInv, OnePlace
    <3>5. In(stdin)' \cap In(stdout)' = {} /\ stdin' \in Seq(ToolCalls) /\ Distinct(stdin)'
      BY <1>1, <1>4, <2>3 DEF SInv, OnePlace
    <3> QED
      BY <2>3, <3>2, <3>3, <3>4, <3>5 DEF OnePlace
  <2>7. Returned'
    BY <1>1, <1>3, <2>5 DEF SInv, Returned
  <2>8. OwnPipe'
    <3>1. ~timedOut => h = c
      BY <1>5, <2>2, Pipes DEF SInv, OwnPipe
    <3> QED
      BY <1>1, <1>4, <2>3, <2>5, <3>1, <1>6, AnswersDiffer DEF SInv, OwnPipe
  <2> QED
    BY <2>4, <2>6, <2>7, <2>8 DEF SInv
<1>7. CASE stdout = <<>>
  <2>1. ~alive /\ decoder' = [decoder EXCEPT ![c] = S!Error] /\ stdout' = stdout
    BY <1>7 DEF S!Decode
  <2>2. Shape'
    BY <1>1, <1>2, <2>1 DEF Shape
  <2>3. /\ decoder'[c] = S!Error /\ \A d \in ToolCalls : d # c => decoder'[d] = decoder[d]
    BY <1>2, <2>1 DEF Shape
  <2>4. In(stdout)' = In(stdout) /\ Distinct(stdout)' = Distinct(stdout)
    BY <2>1 DEF In, Distinct
  <2>5. OnePlace'
    BY <1>1, <1>4, <2>1, <2>3, <2>4, AnswersDiffer DEF SInv, OnePlace
  <2>6. Returned'
    BY <1>1, <1>3, <2>3 DEF SInv, Returned
  <2>7. OwnPipe'
    BY <1>1, <1>4, <1>7, <2>1, <2>3, <2>4, AnswersDiffer DEF SInv, OwnPipe
  <2> QED
    BY <2>2, <2>5, <2>6, <2>7 DEF SInv
<1> QED
  BY <1>6, <1>7

\* A call that returns with an answer of its own leaves nothing behind.
LEMMA RespondKeeps ==
    ASSUME SInv, NEW c \in ToolCalls, S!Respond(c)
    PROVE  SInv'
<1>1. /\ pc[c] = "select" /\ decoder[c] \notin {S!None, Reading} /\ holder' = S!None
      /\ pc' = [pc EXCEPT ![c] = "done"] /\ result' = [result EXCEPT ![c] = decoder[c]]
      /\ stdin' = stdin /\ stdout' = stdout /\ alive' = alive /\ decoder' = decoder
      /\ hasTimeout' = hasTimeout /\ timedOut' = timedOut
  BY DEF S!Respond, S!Return, Reading
<1>2. Shape
  BY DEF SInv
<1>3. /\ pc'[c] = "done" /\ result'[c] = decoder[c]
      /\ \A d \in ToolCalls : d # c => pc'[d] = pc[d] /\ result'[d] = result[d]
  BY <1>1, <1>2 DEF Shape
<1>4. Shape'
  BY <1>1, <1>2 DEF Shape
<1>5. In(stdin)' = In(stdin) /\ In(stdout)' = In(stdout)
  BY <1>1 DEF In
<1>6. holder = <<c>> /\ \A d \in ToolCalls : d # c => pc[d] \notin {"locked", "select"}
  BY <1>1, Pipes DEF SInv, Returned
<1>7. OnePlace'
  BY <1>1, <1>3, <1>5, Pipes DEF SInv, OnePlace, Distinct
<1>8. Returned'
  BY <1>1, <1>3, <1>6, Pipes DEF SInv, Returned
<1>9. OwnPipe'
  <2>1. ~timedOut => \A x \in In(stdin) \cup In(stdout) : x = c
    BY <1>6, Pipes DEF SInv, OwnPipe
  <2>2. ~timedOut /\ decoder[c] = S!Of(c) => In(stdin) \cup In(stdout) = {}
    BY <2>1 DEF SInv, OnePlace
  <2>3. ~timedOut /\ decoder[c] = S!Error => stdin = <<>> /\ stdout = <<>>
    BY <1>1 DEF SInv, OwnPipe
  <2>4. In(<<>>) = {}
    BY DEF In
  <2>5. ~timedOut => In(stdin) \cup In(stdout) = {}
    BY <1>1, <2>2, <2>3, <2>4 DEF SInv, OwnPipe
  <2>6. ~timedOut => \A d \in ToolCalls : decoder[d] # Reading
    BY <1>1, <1>6 DEF SInv, OwnPipe
  <2>7. \A d \in ToolCalls : pc'[d] # "select"
    BY <1>3, <1>6
  <2> QED
    BY <1>1, <1>5, <2>5, <2>6, <2>7 DEF SInv, OwnPipe
<1> QED
  BY <1>4, <1>7, <1>8, <1>9 DEF SInv

LEMMA TimeOutKeeps ==
    ASSUME SInv, NEW c \in ToolCalls, S!TimeOut(c)
    PROVE  SInv'
<1>1. /\ pc[c] = "select" /\ holder' = S!None /\ timedOut' = TRUE
      /\ pc' = [pc EXCEPT ![c] = "done"] /\ result' = [result EXCEPT ![c] = S!Error]
      /\ stdin' = stdin /\ stdout' = stdout /\ alive' = alive /\ decoder' = decoder
      /\ hasTimeout' = hasTimeout
  BY DEF S!TimeOut, S!Return
<1>2. Shape
  BY DEF SInv
<1>3. /\ pc'[c] = "done" /\ result'[c] = S!Error
      /\ \A d \in ToolCalls : d # c => pc'[d] = pc[d] /\ result'[d] = result[d]
  BY <1>1, <1>2 DEF Shape
<1>4. Shape'
  BY <1>1, <1>2 DEF Shape
<1>5. In(stdin)' = In(stdin) /\ In(stdout)' = In(stdout)
  BY <1>1 DEF In
<1>6. \A d \in ToolCalls : d # c => pc[d] \notin {"locked", "select"}
  BY <1>1, Pipes
<1>7. OnePlace'
  BY <1>1, <1>3, <1>5, Pipes DEF SInv, OnePlace, Distinct
<1>8. Returned'
  BY <1>1, <1>3, <1>6, Pipes DEF SInv, Returned
<1>9. OwnPipe'
  BY <1>1 DEF SInv, OwnPipe
<1> QED
  BY <1>4, <1>7, <1>8, <1>9 DEF SInv

LEMMA ReplyKeeps ==
    ASSUME SInv, S!Answer
    PROVE  SInv'
<1> DEFINE h == Head(stdin)
<1>1. /\ alive /\ stdin # <<>> /\ stdin' = Tail(stdin) /\ stdout' = Append(stdout, h)
      /\ pc' = pc /\ holder' = holder /\ alive' = alive /\ decoder' = decoder
      /\ result' = result /\ hasTimeout' = hasTimeout /\ timedOut' = timedOut
  BY DEF S!Answer
<1>2. /\ stdin \in Seq(ToolCalls) /\ Distinct(stdin) /\ stdout \in Seq(ToolCalls) /\ Distinct(stdout)
      /\ In(stdin) \cap In(stdout) = {}
  BY DEF SInv, OnePlace
<1>3. /\ stdin' \in Seq(ToolCalls) /\ Distinct(stdin)' /\ In(stdin)' \subseteq In(stdin)
      /\ h \in ToolCalls /\ h \in In(stdin) /\ h \notin In(stdin)'
  <2>1. In(stdin)' = In(Tail(stdin)) /\ Distinct(stdin)' = Distinct(Tail(stdin))
    BY <1>1 DEF In, Distinct
  <2> QED
    BY <1>1, <1>2, <2>1, DistinctTail
<1> HIDE DEF h
<1>4. stdout' \in Seq(ToolCalls) /\ Distinct(stdout)' /\ In(stdout)' = In(stdout) \cup {h}
  <2>1. In(stdout)' = In(Append(stdout, h)) /\ Distinct(stdout)' = Distinct(Append(stdout, h))
    BY <1>1 DEF In, Distinct
  <2> QED
    BY <1>1, <1>2, <1>3, <2>1, DistinctAppend
<1>5. OnePlace'
  BY <1>1, <1>2, <1>3, <1>4 DEF SInv, OnePlace
<1>6. Shape' /\ Returned'
  BY <1>1 DEF SInv, Shape, Returned
<1>7. OwnPipe'
  BY <1>1, <1>3, <1>4 DEF SInv, OwnPipe
<1> QED
  BY <1>5, <1>6, <1>7 DEF SInv

LEMMA ExitKeeps ==
    ASSUME SInv, S!Exit
    PROVE  SInv'
<1>1. /\ alive /\ alive' = FALSE /\ stdin' = <<>> /\ stdout' \in {stdout, <<>>}
      /\ pc' = pc /\ holder' = holder /\ decoder' = decoder
      /\ result' = result /\ hasTimeout' = hasTimeout /\ timedOut' = timedOut
  BY DEF S!Exit
<1>2. <<>> \in Seq(ToolCalls) /\ Distinct(<<>>) /\ In(<<>>) = {}
  BY DEF Distinct, In
<1>3. /\ stdin' \in Seq(ToolCalls) /\ Distinct(stdin)' /\ In(stdin)' = {}
  BY <1>1, <1>2 DEF Distinct, In
<1>4. stdout' \in Seq(ToolCalls) /\ Distinct(stdout)' /\ In(stdout)' \subseteq In(stdout)
  <2>1. CASE stdout' = stdout
    BY <2>1 DEF SInv, OnePlace, Distinct, In
  <2>2. CASE stdout' = <<>>
    BY <2>2, <1>2 DEF Distinct, In
  <2> QED
    BY <1>1, <2>1, <2>2
<1>5. OnePlace'
  BY <1>1, <1>3, <1>4 DEF SInv, OnePlace
<1>6. Shape' /\ Returned'
  BY <1>1 DEF SInv, Shape, Returned
<1>7. OwnPipe'
  BY <1>1, <1>3, <1>4 DEF SInv, OwnPipe
<1> QED
  BY <1>5, <1>6, <1>7 DEF SInv

LEMMA HandlerInvariance == S!Spec => []SInv
<1>1. S!Init => SInv
  <2> SUFFICES ASSUME S!Init PROVE SInv
    OBVIOUS
  <2>1. <<>> \in Seq(ToolCalls) /\ Distinct(<<>>) /\ In(<<>>) = {}
    BY DEF Distinct, In
  <2>2. Shape
    BY DEF S!Init, Shape
  <2>3. OnePlace
    BY <2>1, AnswersDiffer DEF S!Init, OnePlace
  <2>4. Returned
    BY DEF S!Init, Returned, S!None
  <2>5. OwnPipe
    BY <2>1, AnswersDiffer DEF S!Init, OwnPipe
  <2> QED
    BY <2>2, <2>3, <2>4, <2>5 DEF SInv
<1>2. SInv /\ [S!Next]_S!vars => SInv'
  <2> SUFFICES ASSUME SInv, [S!Next]_S!vars PROVE SInv'
    OBVIOUS
  <2>1. CASE UNCHANGED S!vars
    <3>1. /\ pc' = pc /\ holder' = holder /\ stdin' = stdin /\ stdout' = stdout
          /\ alive' = alive /\ decoder' = decoder /\ result' = result
          /\ hasTimeout' = hasTimeout /\ timedOut' = timedOut
      BY <2>1 DEF S!vars
    <3>2. /\ In(stdin)' = In(stdin) /\ In(stdout)' = In(stdout)
          /\ Distinct(stdin)' = Distinct(stdin) /\ Distinct(stdout)' = Distinct(stdout)
      BY <3>1 DEF In, Distinct
    <3>3. Shape' /\ Returned'
      BY <3>1 DEF SInv, Shape, Returned
    <3>4. OnePlace' /\ OwnPipe'
      BY <3>1, <3>2 DEF SInv, OnePlace, OwnPipe
    <3> QED
      BY <3>3, <3>4 DEF SInv
  <2>2. CASE S!Next
    BY <2>2, ReplyKeeps, ExitKeeps, LockKeeps, SendRequestKeeps, DecodeKeeps, RespondKeeps,
       TimeOutKeeps DEF S!Next
  <2> QED
    BY <2>1, <2>2
<1> QED
  BY <1>1, <1>2, PTL DEF S!Spec

\* No answer of the subprocess is returned by two calls of Handle, whatever
\* times out and whoever reads; and no call returns another's answer as long as
\* none has timed out (SubprocessHandler.Handle).
THEOREM AnswersMatched == S!Spec => []S!CallsMatchAnswers
<1>1. SInv => S!CallsMatchAnswers
  <2> SUFFICES ASSUME SInv PROVE S!CallsMatchAnswers
    OBVIOUS
  <2>1. S!TypeOK
    BY DEF SInv, OnePlace, Shape, S!TypeOK, S!Range, Reading
  <2>2. S!OwnAnswers
    BY DEF SInv, Returned, OwnPipe, S!OwnAnswers
  <2>3. S!AnswersReturnedOnce
    <3> SUFFICES ASSUME NEW c \in ToolCalls, NEW d \in ToolCalls, c # d, result[c] = result[d],
                        result[c] \notin {S!None, S!Error}
                 PROVE  FALSE
      BY DEF S!AnswersReturnedOnce
    <3>1. PICK x \in ToolCalls : result[c] = S!Of(x)
      BY DEF SInv, Shape
    <3>2. decoder[c] = S!Of(x) /\ decoder[d] = S!Of(x)
      BY <3>1, AnswersDiffer DEF SInv, Returned
    <3> QED
      BY <3>2 DEF SInv, OnePlace
  <2> QED
    BY <2>1, <2>2, <2>3 DEF S!CallsMatchAnswers
<1> QED
  BY <1>1, HandlerInvariance, PTL
-----------------------------------------------------------------------------
(***************************************************************************)
(* The discovery service, for every set of plugins and of manifests.  What *)
(* is registered for a plugin is what is known of it, except for the one   *)
(* the scan works on: of that, it is what remains to be unregistered and   *)
(* what has been registered again (Halfway).  What a listener will know    *)
(* when it has taken its events is told by the last event about each item  *)
(* (Followed).                                                             *)
(***************************************************************************)
CONSTANTS Plugins, Manifests, QueueSize, MaxCalls
VARIABLES disk, watch, scan, known, registry, loaded, listener, history

D == INSTANCE Discovery WITH phase <- watch

DiscoveryOptions ==
    /\ QueueSize \in Nat /\ MaxChanges \in Nat /\ MaxCalls \in Nat
    /\ \A m \in Manifests : m \in Seq(D!Items)
    /\ D!Absent \notin Manifests /\ D!Broken \notin Manifests /\ D!App \notin Plugins

Owners == Plugins \cup {D!App}
ScanPcs == {"none", "manifests", "items", "sweep"}
ScanOps == {"unload", "unregister", "register"} \X D!Items
Nexts == Manifests \cup {D!Absent}
ScanRecord == [pc : ScanPcs, todo : SUBSET Plugins, seen : SUBSET Plugins, plugin : Owners,
               ops : Seq(ScanOps), next : Nexts]
Entry == [source : Owners, handler : BOOLEAN, available : BOOLEAN]
ListenerPcs == {"none", "subscribed", "listening"}
Events == {"register", "unregister"} \X D!Items
ListenerRecord == [pc : ListenerPcs, queue : Seq(Events), view : SUBSET D!Items, missed : BOOLEAN]
HistoryRecord == [clean : BOOLEAN, still : BOOLEAN, stopped : BOOLEAN,
                  changes : 0..MaxChanges, calls : 0..MaxCalls]

ScanShape ==
    /\ scan \in ScanRecord
    /\ scan.pc = "items" => scan.plugin \in Plugins
    /\ scan.pc # "items" => scan.ops = <<>>

ListenerShape ==
    /\ listener \in ListenerRecord
    /\ Len(listener.queue) <= QueueSize
    /\ listener.pc = "none" => listener.queue = <<>> /\ ~listener.missed

RegistryShape ==
    /\ DOMAIN registry \subseteq D!Items
    /\ \A i \in DOMAIN registry : registry[i] \in Entry
    /\ loaded \subseteq {i \in D!Items : D!IsTool(i)}

DiscoveryShape ==
    /\ disk \in [Plugins -> Manifests \cup {D!Absent, D!Broken}]
    /\ watch \in {"off", "starting", "running", "stopping"}
    /\ DOMAIN known \subseteq Plugins /\ \A p \in DOMAIN known : known[p] \in Manifests
    /\ history \in HistoryRecord

\* What is registered for a plugin.
Has(p) == {i \in DOMAIN registry : registry[i].source = p}
NoRepeat(m) == \A n, k \in DOMAIN m : m[n] = m[k] => n = k

Matched ==
    history.clean =>
        /\ \A p \in DOMAIN known : NoRepeat(known[p])
        /\ \A p \in Plugins : ~(scan.pc = "items" /\ scan.plugin = p) =>
              Has(p) = {i \in D!Items : p \in DOMAIN known /\ \E n \in DOMAIN known[p] : i = known[p][n]}

\* The manifest that goes, from its j-th item on, and the one that comes, of
\* which k items are registered.
Old == IF scan.plugin \in DOMAIN known THEN known[scan.plugin] ELSE <<>>
New == IF scan.next = D!Absent THEN <<>> ELSE scan.next
At(j, k) ==
    /\ j <= Len(Old) => k = 0
    /\ Len(scan.ops) = Len(Old) + 1 - j + Len(New) - k
    /\ \A n \in 1..(Len(Old) + 1 - j) :
          scan.ops[n][1] # "register" /\ scan.ops[n][2] = Old[n + j - 1]
    /\ \A n \in 1..(Len(New) - k) : scan.ops[Len(Old) + 1 - j + n] = <<"register", New[k + n]>>
    /\ history.clean =>
          /\ Has(scan.plugin) = {Old[n] : n \in j..Len(Old)} \cup {New[n] : n \in 1..k}
          /\ \A n, l \in 1..k : New[n] = New[l] => n = l

Halfway == scan.pc = "items" => \E j \in 1..(Len(Old) + 1), k \in 0..Len(New) : At(j, k)

\* The two parts of a scan.
Listing == scan.pc = "manifests" \/ (scan.pc = "items" /\ scan.next # D!Absent)
Sweeping == scan.pc = "sweep" \/ (scan.pc = "items" /\ scan.next = D!Absent)

Found(p) == disk[p] # D!Broken => p \in DOMAIN known /\ known[p] = disk[p]

Scanned ==
    /\ scan.pc = "items" => scan.plugin \notin scan.todo
    /\ Listing => /\ scan.todo \subseteq scan.seen
                  /\ scan.pc = "items" => scan.plugin \in scan.seen
    /\ Sweeping => /\ scan.todo \subseteq DOMAIN known \ scan.seen
                   /\ scan.pc = "items" => scan.plugin \in DOMAIN known \ scan.seen
                   /\ DOMAIN known \subseteq scan.seen \cup scan.todo
                           \cup {p \in Plugins : scan.pc = "items" /\ p = scan.plugin}
    /\ history.still /\ scan.pc # "none" => scan.seen = {p \in Plugins : disk[p] # D!Absent}
    /\ history.still /\ Listing /\ scan.pc = "items" => scan.next = disk[scan.plugin]
    /\ history.still /\ history.clean =>
          /\ scan.pc = "none" => \A p \in Plugins : /\ disk[p] = D!Absent => p \notin DOMAIN known
                                                    /\ disk[p] # D!Absent => Found(p)
          /\ Listing => \A p \in scan.seen \ scan.todo :
                           Found(p) \/ (scan.pc = "items" /\ scan.plugin = p)
          /\ Sweeping => \A p \in scan.seen : Found(p)

Followed ==
    listener.pc # "none" /\ ~listener.missed =>
        \A i \in D!Items :
            LET about == {n \in DOMAIN listener.queue : listener.queue[n][2] = i}
            IN /\ \A n \in about : (\A k \in about : k <= n) =>
                     (listener.queue[n][1] = "register" <=> i \in DOMAIN registry)
               /\ about = {} /\ listener.pc = "listening" =>
                     (i \in listener.view <=> i \in DOMAIN registry)

DiscoveryInv ==
    /\ DiscoveryShape /\ ScanShape /\ ListenerShape /\ RegistryShape
    /\ Matched /\ Halfway /\ Scanned /\ Followed /\ D!ServedHandlersLoaded

-----------------------------------------------------------------------------
\* Sequences of operations.

LEMMA OpsElement ==
    ASSUME NEW Q, NEW q \in Seq(Q)
    PROVE  Len(q) \in Nat /\ DOMAIN q = 1..Len(q) /\ \A i \in 1..Len(q) : q[i] \in Q
  OBVIOUS

LEMMA OpsTail ==
    ASSUME NEW Q, NEW q \in Seq(Q), q # <<>>
    PROVE  /\ Len(q) \in Nat \ {0} /\ Head(q) = q[1] /\ q[1] \in Q
           /\ Tail(q) \in Seq(Q) /\ Len(Tail(q)) = Len(q) - 1
           /\ \A i \in 1..Len(Tail(q)) : Tail(q)[i] = q[i + 1]
  OBVIOUS

\* The operations that unregister old, whose handlers may be unloaded first,
\* and then register new.
Replaces(ops, old, new) ==
    /\ ops \in Seq(ScanOps) /\ Len(ops) = Len(old) + Len(new)
    /\ \A n \in 1..Len(old) : ops[n][1] # "register" /\ ops[n][2] = old[n]
    /\ \A n \in 1..Len(new) : ops[Len(old) + n] = <<"register", new[n]>>

LEMMA OpsOfOne ==
    ASSUME NEW m \in Seq(D!Items)
    PROVE  /\ Replaces(D!UnregisterOps(m), m, <<>>)
           /\ Replaces(D!RegisterOps(m), <<>>, m)
<1>1. Len(m) \in Nat /\ DOMAIN m = 1..Len(m) /\ \A n \in 1..Len(m) : m[n] \in D!Items
  BY OpsElement
<1>2. /\ D!UnregisterOps(m) \in Seq(ScanOps) /\ Len(D!UnregisterOps(m)) = Len(m)
      /\ \A n \in 1..Len(m) : /\ D!UnregisterOps(m)[n][1] # "register"
                              /\ D!UnregisterOps(m)[n][2] = m[n]
  BY <1>1 DEF D!UnregisterOps, ScanOps
<1>3. /\ D!RegisterOps(m) \in Seq(ScanOps) /\ Len(D!RegisterOps(m)) = Len(m)
      /\ \A n \in 1..Len(m) : D!RegisterOps(m)[n] = <<"register", m[n]>>
  BY <1>1 DEF D!RegisterOps, ScanOps
<1> QED
  BY <1>1, <1>2, <1>3 DEF Replaces

LEMMA OpsOfTwo ==
    ASSUME NEW old \in Seq(D!Items), NEW new \in Seq(D!Items)
    PROVE  Replaces(D!UnregisterOps(old) \o D!RegisterOps(new), old, new)
<1> DEFINE a == D!UnregisterOps(old)
           b == D!RegisterOps(new)
<1>1. Replaces(a, old, <<>>) /\ Replaces(b, <<>>, new)
  BY OpsOfOne
<1>2. Len(old) \in Nat /\ Len(new) \in Nat
  BY OpsElement
<1> HIDE DEF a, b
<1>3. a \in Seq(ScanOps) /\ b \in Seq(ScanOps) /\ Len(a) = Len(old) /\ Len(b) = Len(new)
  BY <1>1, <1>2 DEF Replaces
<1>4. /\ a \o b \in Seq(ScanOps) /\ Len(a \o b) = Len(a) + Len(b)
      /\ \A n \in 1..Len(a) : (a \o b)[n] = a[n]
      /\ \A n \in 1..Len(b) : (a \o b)[Len(a) + n] = b[n]
  <2>1. /\ a \o b \in Seq(ScanOps) /\ Len(a \o b) = Len(a) + Len(b)
        /\ \A i \in 1..(Len(a) + Len(b)) :
              (a \o b)[i] = IF i <= Len(a) THEN a[i] ELSE b[i - Len(a)]
    BY <1>3, ConcatProperties
  <2>2. PICK k \in Nat, l \in Nat : k = Len(a) /\ l = Len(b)
    BY <1>2, <1>3
  <2>3. ASSUME NEW n \in 1..k PROVE n \in 1..(k + l) /\ n <= k
    BY <2>3
  <2>4. ASSUME NEW n \in 1..l PROVE k + n \in 1..(k + l) /\ ~(k + n <= k) /\ (k + n) - k = n
    BY <2>4
  <2> QED
    BY <2>1, <2>2, <2>3, <2>4
<1>5. \A n \in 1..Len(new) : b[n] = <<"register", new[n]>>
  BY <1>1, <1>2 DEF Replaces
<1>6. \A n \in 1..Len(old) : a[n][1] # "register" /\ a[n][2] = old[n]
  BY <1>1 DEF Replaces
<1>7. Replaces(a \o b, old, new)
  BY <1>3, <1>4, <1>5, <1>6 DEF Replaces
<1> QED
  BY <1>7 DEF a, b

-----------------------------------------------------------------------------
\* What the invariant says of one state.

LEMMA ScanTyped ==
    ASSUME ScanShape
    PROVE  /\ scan.pc \in ScanPcs /\ scan.todo \subseteq Plugins /\ scan.seen \subseteq Plugins
           /\ scan.plugin \in Owners /\ scan.ops \in Seq(ScanOps) /\ scan.next \in Nexts
  BY DEF ScanShape, ScanRecord

LEMMA ManifestsTyped ==
    ASSUME DiscoveryOptions, DiscoveryShape, ScanShape
    PROVE  /\ Old \in Seq(D!Items) /\ New \in Seq(D!Items)
           /\ \A p \in DOMAIN known : known[p] \in Seq(D!Items)
<1>1. scan.next \in Manifests \cup {D!Absent}
  BY ScanTyped DEF Nexts
<1>2. <<>> \in Seq(D!Items)
  OBVIOUS
<1> QED
  BY <1>1, <1>2 DEF DiscoveryOptions, DiscoveryShape, Old, New

\* The scan after a step, field by field.
ScanBecomes(at, todo, plugin, ops, next) ==
    /\ scan' \in ScanRecord
    /\ scan'.pc = at /\ scan'.todo = todo /\ scan'.seen = scan.seen
    /\ scan'.plugin = plugin /\ scan'.ops = ops /\ scan'.next = next

LEMMA NextScan ==
    ASSUME ScanShape, NEW at \in ScanPcs, NEW todo \in SUBSET Plugins, NEW plugin \in Owners,
           NEW ops \in Seq(ScanOps), NEW next \in Nexts,
           scan' = [scan EXCEPT !.pc = at, !.todo = todo, !.plugin = plugin, !.ops = ops,
                                !.next = next]
    PROVE  ScanBecomes(at, todo, plugin, ops, next)
<1> DEFINE Q == Seq(ScanOps)
<1>1. ops \in Q /\ scan \in [pc : ScanPcs, todo : SUBSET Plugins, seen : SUBSET Plugins,
                             plugin : Owners, ops : Q, next : Nexts]
  BY DEF ScanShape, ScanRecord
<1> HIDE DEF Q
<1>2. /\ scan' \in [pc : ScanPcs, todo : SUBSET Plugins, seen : SUBSET Plugins,
                    plugin : Owners, ops : Q, next : Nexts]
      /\ scan'.pc = at /\ scan'.todo = todo /\ scan'.seen = scan.seen
      /\ scan'.plugin = plugin /\ scan'.ops = ops /\ scan'.next = next
  BY <1>1
<1> QED
  BY <1>2 DEF Q, ScanBecomes, ScanRecord

LEMMA DiscoveryMeans ==
    ASSUME DiscoveryOptions, DiscoveryInv
    PROVE  D!DiscoveryAgrees
<1> USE DEF DiscoveryInv
<1>1. D!TypeOK
  <2>1. /\ scan.pc \in {"none", "manifests", "items", "sweep"}
        /\ scan.todo \subseteq Plugins /\ scan.seen \subseteq Plugins
    BY ScanTyped DEF ScanPcs
  <2>2. D!Range(known) \subseteq Manifests
    BY DEF DiscoveryShape, D!Range
  <2>3. \A i \in DOMAIN registry : /\ registry[i].source \in Plugins \cup {D!App}
                                   /\ registry[i].handler \in BOOLEAN
                                   /\ registry[i].available \in BOOLEAN
    BY DEF RegistryShape, Entry, Owners
  <2>4. history.changes <= MaxChanges /\ history.calls <= MaxCalls
    BY DEF DiscoveryShape, HistoryRecord, DiscoveryOptions
  <2> QED
    BY <2>1, <2>2, <2>3, <2>4 DEF D!TypeOK, DiscoveryShape, RegistryShape, ListenerShape
<1>2. ASSUME scan.pc = "none", history.clean
      PROVE  /\ \A p \in Plugins :
                   D!Discover(BOOLEAN, {p}) = IF p \in DOMAIN known THEN D!Range(known[p]) ELSE {}
             /\ history.still /\ watch # "off" =>
                   \A p \in Plugins : IF disk[p] = D!Absent THEN p \notin DOMAIN known
                                      ELSE disk[p] # D!Broken => p \in DOMAIN known /\ known[p] = disk[p]
  <2>1. ASSUME NEW p \in Plugins
        PROVE  D!Discover(BOOLEAN, {p}) = IF p \in DOMAIN known THEN D!Range(known[p]) ELSE {}
    <3>1. D!Discover(BOOLEAN, {p}) = Has(p)
      BY DEF D!Discover, Has, RegistryShape, Entry
    <3>2. Has(p) = {i \in D!Items : p \in DOMAIN known /\ \E n \in DOMAIN known[p] : i = known[p][n]}
      BY <1>2 DEF Matched
    <3>3. p \in DOMAIN known =>
              /\ known[p] \in Seq(D!Items) /\ D!Range(known[p]) = {known[p][n] : n \in DOMAIN known[p]}
              /\ \A n \in DOMAIN known[p] : known[p][n] \in D!Items
      BY ManifestsTyped, OpsElement DEF D!Range
    <3> QED
      BY <3>1, <3>2, <3>3
  <2>2. ASSUME history.still, NEW p \in Plugins
        PROVE  IF disk[p] = D!Absent THEN p \notin DOMAIN known
               ELSE disk[p] # D!Broken => p \in DOMAIN known /\ known[p] = disk[p]
    BY <1>2, <2>2 DEF Scanned, Found
  <2> QED
    BY <2>1, <2>2
<1>3. D!RegistryMatchesManifests
  BY <1>2 DEF D!RegistryMatchesManifests
<1>4. D!ListenerFollows
  <2>1. ASSUME listener.pc = "listening", listener.queue = <<>>, ~listener.missed, NEW i \in D!Items
        PROVE  i \in listener.view <=> i \in DOMAIN registry
    BY <2>1 DEF Followed
  <2>2. listener.view \subseteq D!Items /\ DOMAIN registry \subseteq D!Items
    BY DEF ListenerShape, ListenerRecord, RegistryShape
  <2> QED
    BY <2>1, <2>2 DEF D!ListenerFollows
<1> QED
  BY <1>1, <1>3, <1>4 DEF D!DiscoveryAgrees

-----------------------------------------------------------------------------
\* Listeners.

LEMMA EventSent ==
    ASSUME DiscoveryOptions, ListenerShape, Followed,
           NEW type \in {"register", "unregister"}, NEW i \in D!Items,
           D!NotifyListeners(type, i), i \in DOMAIN registry' <=> type = "register",
           \A j \in D!Items \ {i} : j \in DOMAIN registry' <=> j \in DOMAIN registry
    PROVE  ListenerShape' /\ Followed'
<1> DEFINE Q == Seq(Events)
<1>1. /\ listener \in [pc : ListenerPcs, queue : Q, view : SUBSET D!Items, missed : BOOLEAN]
      /\ Len(listener.queue) \in Nat
  BY OpsElement DEF ListenerShape, ListenerRecord
<1>2. CASE listener.pc = "none"
  <2>1. listener' = listener
    BY <1>2 DEF D!NotifyListeners
  <2> QED
    BY <1>2, <2>1 DEF ListenerShape, Followed
<1>3. CASE listener.pc # "none" /\ Len(listener.queue) < QueueSize
  <2> DEFINE q == listener.queue
             r == Append(q, <<type, i>>)
  <2>1. listener' = [listener EXCEPT !.queue = r]
    BY <1>3 DEF D!NotifyListeners
  <2>2. q \in Q /\ <<type, i>> \in Events
    BY <1>1 DEF Events
  <2>3. /\ r \in Q /\ Len(r) = Len(q) + 1 /\ DOMAIN r = DOMAIN q \cup {Len(q) + 1}
        /\ Len(q) + 1 \notin DOMAIN q /\ \A n \in DOMAIN q : n \in Nat /\ n <= Len(q)
        /\ r[Len(q) + 1] = <<type, i>> /\ \A n \in DOMAIN q : r[n] = q[n]
    BY <2>2
  <2> HIDE DEF Q, r
  <2>4. /\ listener' \in [pc : ListenerPcs, queue : Q, view : SUBSET D!Items, missed : BOOLEAN]
        /\ listener'.pc = listener.pc /\ listener'.queue = r
        /\ listener'.view = listener.view /\ listener'.missed = listener.missed
    BY <1>1, <2>1, <2>3
  <2>5. ListenerShape'
    <3>1. Len(r) <= QueueSize
      BY <1>1, <1>3, <2>3 DEF DiscoveryOptions
    <3> QED
      BY <1>3, <2>4, <3>1 DEF Q, ListenerShape, ListenerRecord
  <2>6. ASSUME ~listener.missed, NEW j \in D!Items
        PROVE  LET about == {n \in DOMAIN r : r[n][2] = j}
               IN /\ \A n \in about : (\A k \in about : k <= n) =>
                        (r[n][1] = "register" <=> j \in DOMAIN registry')
                  /\ about = {} /\ listener.pc = "listening" =>
                        (j \in listener.view <=> j \in DOMAIN registry')
    <3> DEFINE about == {n \in DOMAIN r : r[n][2] = j}
               past == {n \in DOMAIN q : q[n][2] = j}
    <3>1. CASE j = i
      <4>1. Len(q) + 1 \in about
        BY <2>3, <3>1
      <4>2. ASSUME NEW n \in about, \A k \in about : k <= n PROVE n = Len(q) + 1
        <5>1. Len(q) + 1 <= n
          BY <4>1, <4>2
        <5>2. n \in DOMAIN r
          OBVIOUS
        <5> QED
          BY <1>1, <2>3, <5>1, <5>2
      <4>3. r[Len(q) + 1][1] = type
        BY <2>3
      <4>4. ASSUME NEW n \in about, \A k \in about : k <= n
            PROVE  r[n][1] = "register" <=> j \in DOMAIN registry'
        BY <3>1, <4>2, <4>3, <4>4
      <4> QED
        BY <4>1, <4>4
    <3>2. CASE j # i
      <4>1. about = past
        BY <2>3, <3>2
      <4>2. j \in DOMAIN registry' <=> j \in DOMAIN registry
        BY <3>2
      <4>3. /\ \A n \in past : (\A k \in past : k <= n) =>
                  (q[n][1] = "register" <=> j \in DOMAIN registry)
            /\ past = {} /\ listener.pc = "listening" =>
                  (j \in listener.view <=> j \in DOMAIN registry)
        BY <1>3, <2>6 DEF Followed
      <4>4. \A n \in past : r[n] = q[n]
        BY <2>3
      <4> HIDE DEF about, past
      <4>5. /\ \A n \in about : (\A k \in about : k <= n) =>
                  (r[n][1] = "register" <=> j \in DOMAIN registry')
            /\ about = {} /\ listener.pc = "listening" =>
                  (j \in listener.view <=> j \in DOMAIN registry')
        BY <4>1, <4>2, <4>3, <4>4
      <4> QED
        BY <4>5 DEF about
    <3> QED
      BY <3>1, <3>2
  <2>7. Followed'
    BY <2>4, <2>6 DEF Followed
  <2> QED
    BY <2>5, <2>7
<1>4. CASE listener.pc # "none" /\ ~(Len(listener.queue) < QueueSize)
  <2>1. listener' = [listener EXCEPT !.missed = TRUE]
    BY <1>4 DEF D!NotifyListeners
  <2> HIDE DEF Q
  <2>2. /\ listener' \in [pc : ListenerPcs, queue : Q, view : SUBSET D!Items, missed : BOOLEAN]
        /\ listener'.pc = listener.pc /\ listener'.queue = listener.queue /\ listener'.missed
    BY <1>1, <2>1
  <2>3. ListenerShape'
    BY <1>4, <2>2 DEF Q, ListenerShape, ListenerRecord
  <2>4. Followed'
    BY <2>2 DEF Followed
  <2> QED
    BY <2>3, <2>4
<1> QED
  BY <1>2, <1>3, <1>4

LEMMA Followers ==
    ASSUME DiscoveryOptions, RegistryShape, ListenerShape, Followed, UNCHANGED registry,
           D!Subscribe \/ D!Discovers \/ D!Receive \/ D!Unsubscribe
    PROVE  ListenerShape' /\ Followed'
<1> DEFINE Q == Seq(Events)
           R == [pc : ListenerPcs, queue : Q, view : SUBSET D!Items, missed : BOOLEAN]
<1>1. listener \in R /\ Len(listener.queue) \in Nat /\ QueueSize \in Nat
  BY OpsElement DEF ListenerShape, ListenerRecord, DiscoveryOptions
<1>2. "subscribed" \in ListenerPcs /\ "listening" \in ListenerPcs /\ "none" \in ListenerPcs
  BY DEF ListenerPcs
<1>3. CASE D!Subscribe
  <2> HIDE DEF Q
  <2>1. /\ listener' \in R /\ listener'.pc = "subscribed" /\ listener'.queue = listener.queue
        /\ listener'.missed = listener.missed /\ listener.pc = "none"
    BY <1>1, <1>2, <1>3 DEF D!Subscribe
  <2>2. ListenerShape'
    BY <2>1 DEF Q, ListenerShape, ListenerRecord
  <2>3. listener'.queue = <<>>
    BY <2>1 DEF ListenerShape
  <2>4. Followed'
    BY <2>1, <2>3 DEF Followed
  <2> QED
    BY <2>2, <2>4
<1>4. CASE D!Discovers
  <2>1. D!Discover(BOOLEAN, Plugins \cup {D!App}) = DOMAIN registry
    BY DEF D!Discover, RegistryShape, Entry, Owners
  <2>2. DOMAIN registry \in SUBSET D!Items
    BY DEF RegistryShape
  <2> HIDE DEF Q
  <2>3. /\ listener' \in R /\ listener'.pc = "listening" /\ listener'.queue = listener.queue
        /\ listener'.missed = listener.missed /\ listener.pc = "subscribed"
        /\ listener'.view = DOMAIN registry
    BY <1>1, <1>2, <1>4, <2>1, <2>2 DEF D!Discovers
  <2>4. ListenerShape'
    BY <2>3 DEF Q, ListenerShape, ListenerRecord
  <2>5. Followed'
    BY <2>3 DEF Followed
  <2> QED
    BY <2>4, <2>5
<1>5. CASE D!Receive
  <2> DEFINE q == listener.queue
             e == Head(q)
             r == Tail(q)
             view == IF e[1] = "register" THEN listener.view \cup {e[2]} ELSE listener.view \ {e[2]}
  <2>1. q \in Q /\ q # <<>> /\ listener.pc = "listening"
        /\ listener' = [listener EXCEPT !.queue = r, !.view = view]
    BY <1>1, <1>5 DEF D!Receive
  <2>2. /\ Len(q) \in Nat \ {0} /\ e = q[1] /\ e \in Events
        /\ r \in Q /\ Len(r) = Len(q) - 1
        /\ \A n \in 1..Len(r) : r[n] = q[n + 1]
    BY <2>1, OpsTail
  <2>3. DOMAIN q = 1..Len(q) /\ DOMAIN r = 1..Len(r)
    BY <2>1, <2>2, OpsElement
  <2>4. e[2] \in D!Items /\ e[1] \in {"register", "unregister"}
    BY <2>2 DEF Events
  <2> HIDE DEF Q, r, e
  <2>5. view \in SUBSET D!Items
    BY <1>1, <2>4
  <2> HIDE DEF view
  <2>6. /\ listener' \in R /\ listener'.pc = "listening" /\ listener'.queue = r
        /\ listener'.missed = listener.missed /\ listener'.view = view
    BY <1>1, <1>2, <2>1, <2>2, <2>5
  <2>7. ListenerShape'
    <3>1. Len(q) <= QueueSize
      BY DEF ListenerShape
    <3>2. Len(r) <= QueueSize
      BY <1>1, <2>2, <3>1
    <3> QED
      BY <2>6, <3>2 DEF Q, ListenerShape, ListenerRecord
  <2>8. ASSUME ~listener.missed, NEW j \in D!Items
        PROVE  LET about == {n \in DOMAIN r : r[n][2] = j}
               IN /\ \A n \in about : (\A k \in about : k <= n) =>
                        (r[n][1] = "register" <=> j \in DOMAIN registry)
                  /\ about = {} => (j \in view <=> j \in DOMAIN registry)
    <3> DEFINE about == {n \in DOMAIN r : r[n][2] = j}
               before == {n \in DOMAIN q : q[n][2] = j}
    <3>1. /\ \A n \in before : (\A k \in before : k <= n) =>
                (q[n][1] = "register" <=> j \in DOMAIN registry)
          /\ before = {} => (j \in listener.view <=> j \in DOMAIN registry)
      BY <2>1, <2>8 DEF Followed
    <3>2. ASSUME NEW n \in about, \A k \in about : k <= n
          PROVE  r[n][1] = "register" <=> j \in DOMAIN registry
      <4>1. n \in 1..Len(r) /\ n + 1 \in 1..Len(q) /\ q[n + 1] = r[n] /\ r[n][2] = j
        BY <2>2, <2>3
      <4>2. n + 1 \in before
        BY <2>3, <4>1
      <4>3. ASSUME NEW k \in before PROVE k <= n + 1
        <5>1. k \in 1..Len(q) /\ q[k][2] = j
          BY <2>3
        <5>2. CASE k = 1
          BY <4>1, <5>2
        <5>3. CASE k # 1
          <6>1. k - 1 \in 1..Len(r) /\ (k - 1) + 1 = k
            BY <2>2, <5>1, <5>3
          <6>2. k - 1 \in about
            BY <2>2, <2>3, <5>1, <6>1
          <6> QED
            BY <3>2, <4>1, <5>1, <6>2
        <5> QED
          BY <5>2, <5>3
      <4> QED
        BY <3>1, <4>1, <4>2, <4>3
    <3>3. ASSUME about = {} PROVE j \in view <=> j \in DOMAIN registry
      <4>1. \A n \in before : n = 1
        <5>1. ASSUME NEW n \in before, n # 1 PROVE FALSE
          <6>1. n \in 1..Len(q) /\ q[n][2] = j
            BY <2>3
          <6>2. n - 1 \in 1..Len(r) /\ (n - 1) + 1 = n
            BY <2>2, <5>1, <6>1
          <6>3. n - 1 \in about
            BY <2>2, <2>3, <6>1, <6>2
          <6> QED
            BY <3>3, <6>3
        <5> QED
          BY <5>1
      <4>2. CASE j = e[2]
        <5>1. 1 \in before
          BY <2>2, <2>3, <4>2
        <5>2. q[1][1] = "register" <=> j \in DOMAIN registry
          <6>1. \A k \in before : k <= 1
            BY <4>1
          <6> QED
            BY <3>1, <5>1, <6>1
        <5> QED
          BY <2>2, <4>2, <5>2 DEF view
      <4>3. CASE j # e[2]
        <5>1. 1 \notin before
          BY <2>2, <4>3
        <5>2. before = {}
          BY <4>1, <5>1
        <5> QED
          BY <3>1, <4>3, <5>2 DEF view
      <4> QED
        BY <4>2, <4>3
    <3> QED
      BY <3>2, <3>3
  <2>9. Followed'
    BY <2>6, <2>8 DEF Followed
  <2> QED
    BY <2>7, <2>9
<1>6. CASE D!Unsubscribe
  <2>1. <<>> \in Q
    OBVIOUS
  <2>2. listener' \in R /\ listener'.pc = "none" /\ listener'.queue = <<>> /\ ~listener'.missed
    BY <1>2, <1>6, <2>1 DEF D!Unsubscribe
  <2>3. Len(<<>>) <= QueueSize
    BY <1>1
  <2>4. ListenerShape'
    BY <2>2, <2>3 DEF ListenerShape, ListenerRecord
  <2>5. Followed'
    BY <2>2 DEF Followed
  <2> QED
    BY <2>4, <2>5
<1> QED
  BY <1>3, <1>4, <1>5, <1>6

-----------------------------------------------------------------------------
\* What does not touch the plugins' items keeps what is known of them.

LEMMA PluginsLeftAlone ==
    ASSUME ScanShape, Matched, Halfway, UNCHANGED <<scan, known>>, history'.clean => history.clean,
           history'.clean => \A p \in Plugins : Has(p)' = Has(p)
    PROVE  Matched' /\ Halfway'
<1>1. Matched'
  BY DEF Matched, NoRepeat
<1>2. Halfway'
  <2>1. ASSUME scan.pc = "items" PROVE \E j \in 1..(Len(Old) + 1), k \in 0..Len(New) : At(j, k)'
    <3>1. PICK j \in 1..(Len(Old) + 1), k \in 0..Len(New) : At(j, k)
      BY <2>1 DEF Halfway
    <3>2. Old' = Old /\ New' = New
      BY DEF Old, New
    <3>3. scan.plugin \in Plugins
      BY <2>1 DEF ScanShape
    <3>4. /\ j <= Len(Old') => k = 0
          /\ Len(scan'.ops) = Len(Old') + 1 - j + Len(New') - k
          /\ \A n \in 1..(Len(Old') + 1 - j) :
                scan'.ops[n][1] # "register" /\ scan'.ops[n][2] = Old'[n + j - 1]
          /\ \A n \in 1..(Len(New') - k) :
                scan'.ops[Len(Old') + 1 - j + n] = <<"register", New'[k + n]>>
      BY <3>1, <3>2 DEF At
    <3>5. ASSUME history'.clean
          PROVE  /\ Has(scan.plugin)' = {Old'[n] : n \in j..Len(Old')} \cup {New'[n] : n \in 1..k}
                 /\ \A n, l \in 1..k : New'[n] = New'[l] => n = l
      <4>1. Has(scan.plugin)' = Has(scan.plugin)
        BY <3>3, <3>5
      <4>2. /\ Has(scan.plugin) = {Old[n] : n \in j..Len(Old)} \cup {New[n] : n \in 1..k}
            /\ \A n, l \in 1..k : New[n] = New[l] => n = l
        BY <3>1, <3>5 DEF At
      <4> QED
        BY <3>2, <4>1, <4>2
    <3> QED
      BY <3>4, <3>5 DEF At
  <2>2. Old' = Old /\ New' = New
    BY DEF Old, New
  <2> QED
    BY <2>1, <2>2 DEF Halfway
<1> QED
  BY <1>1, <1>2

\* A scan that works on no plugin before and after a step.
LEMMA NoPluginAtWork ==
    ASSUME Matched, UNCHANGED <<known, registry>>, history'.clean = history.clean,
           scan.pc # "items", scan'.pc # "items"
    PROVE  Matched' /\ Halfway'
BY DEF Matched, Halfway, NoRepeat, Has

\* A scan begins to work on a plugin.
LEMMA PluginBegins ==
    ASSUME DiscoveryOptions, DiscoveryShape, ScanShape, Matched,
           UNCHANGED <<known, registry, history>>,
           scan.pc # "items", NEW p \in Plugins, NEW next \in Nexts, NEW ops, NEW todo,
           ScanBecomes("items", todo, p, ops, next),
           Replaces(ops, IF p \in DOMAIN known THEN known[p] ELSE <<>>,
                    IF next = D!Absent THEN <<>> ELSE next)
    PROVE  Matched' /\ Halfway'
<1> DEFINE old == IF p \in DOMAIN known THEN known[p] ELSE <<>>
           new == IF next = D!Absent THEN <<>> ELSE next
<1>1. scan'.pc = "items" /\ scan'.plugin = p /\ scan'.ops = ops /\ scan'.next = next
  BY DEF ScanBecomes
<1>2. Matched'
  BY <1>1 DEF Matched, NoRepeat, Has
<1>3. Old' = old /\ New' = new
  BY <1>1 DEF Old, New
<1>4. old \in Seq(D!Items) /\ new \in Seq(D!Items)
  <2>1. <<>> \in Seq(D!Items)
    OBVIOUS
  <2> QED
    BY <2>1, ManifestsTyped DEF Nexts, DiscoveryOptions
<1>5. /\ Len(old) \in Nat /\ DOMAIN old = 1..Len(old) /\ Len(new) \in Nat
      /\ \A n \in 1..Len(old) : old[n] \in D!Items
  BY <1>4, OpsElement
<1>6. history.clean => Has(p) = {old[n] : n \in 1..Len(old)}
  <2>1. ASSUME history.clean
        PROVE  Has(p) = {i \in D!Items : p \in DOMAIN known /\ \E n \in DOMAIN known[p] : i = known[p][n]}
    BY <2>1 DEF Matched
  <2>2. CASE p \in DOMAIN known
    <3>1. old = known[p]
      BY <2>2
    <3> HIDE DEF old
    <3> QED
      BY <1>5, <2>1, <2>2, <3>1
  <2>3. CASE p \notin DOMAIN known
    BY <2>1, <2>3
  <2> QED
    BY <2>2, <2>3
<1> HIDE DEF old, new
<1>7. Replaces(ops, old, new)
  BY DEF old, new
<1>8. At(1, 0)'
  <2>1. /\ Len(ops) = Len(old) + Len(new)
        /\ \A n \in 1..Len(old) : ops[n][1] # "register" /\ ops[n][2] = old[n]
        /\ \A n \in 1..Len(new) : ops[Len(old) + n] = <<"register", new[n]>>
    BY <1>7 DEF Replaces
  <2>2. Len(ops) = Len(old) + 1 - 1 + Len(new) - 0
    BY <1>5, <2>1
  <2>3. \A n \in 1..(Len(old) + 1 - 1) : ops[n][1] # "register" /\ ops[n][2] = old[n + 1 - 1]
    <3>1. Len(old) + 1 - 1 = Len(old) /\ \A n \in 1..Len(old) : n + 1 - 1 = n
      BY <1>5
    <3> QED
      BY <2>1, <3>1
  <2>4. \A n \in 1..(Len(new) - 0) : ops[Len(old) + 1 - 1 + n] = <<"register", new[0 + n]>>
    <3>1. Len(old) + 1 - 1 = Len(old) /\ Len(new) - 0 = Len(new) /\ \A n \in 1..Len(new) : 0 + n = n
      BY <1>5
    <3> QED
      BY <2>1, <3>1
  <2>5. history.clean => Has(p)' = {old[n] : n \in 1..Len(old)} \cup {new[n] : n \in 1..0}
    <3>1. Has(p)' = Has(p)
      BY DEF Has
    <3>2. {new[n] : n \in 1..0} = {}
      OBVIOUS
    <3> QED
      BY <1>6, <3>1, <3>2
  <2>6. \A n, l \in 1..0 : new[n] = new[l] => n = l
    OBVIOUS
  <2> QED
    BY <1>1, <1>3, <2>2, <2>3, <2>4, <2>5, <2>6 DEF At
<1>9. 1 \in 1..(Len(old) + 1) /\ 0 \in 0..Len(new)
  BY <1>5
<1>10. Halfway'
  BY <1>3, <1>8, <1>9 DEF Halfway
<1> QED
  BY <1>2, <1>10

\* Where a scan stands in a plugin whose next operation registers an item.
LEMMA Registering ==
    ASSUME DiscoveryOptions, DiscoveryShape, ScanShape, scan.pc = "items", scan.ops # <<>>,
           NEW j \in 1..(Len(Old) + 1), NEW k \in 0..Len(New), At(j, k),
           Head(scan.ops)[1] = "register"
    PROVE  j = Len(Old) + 1 /\ k + 1 \in 1..Len(New) /\ Head(scan.ops)[2] = New[k + 1]
<1>1. Len(Old) \in Nat /\ Len(New) \in Nat
  BY ManifestsTyped, OpsElement
<1>2. Len(scan.ops) \in Nat \ {0} /\ Head(scan.ops) = scan.ops[1]
  BY ScanTyped, OpsTail
<1>3. j = Len(Old) + 1
  <2>1. ASSUME j # Len(Old) + 1 PROVE FALSE
    <3>1. 1 \in 1..(Len(Old) + 1 - j)
      BY <1>1, <2>1
    <3>2. scan.ops[1][1] # "register"
      BY <3>1 DEF At
    <3> QED
      BY <1>2, <3>2
  <2> QED
    BY <2>1
<1>4. Len(Old) + 1 - j = 0 /\ Len(scan.ops) = Len(New) - k
  <2>1. Len(scan.ops) = Len(Old) + 1 - j + Len(New) - k
    BY DEF At
  <2> QED
    BY <1>1, <1>3, <2>1
<1>5. 1 \in 1..(Len(New) - k) /\ k + 1 \in 1..Len(New)
  BY <1>1, <1>2, <1>4
<1>6. scan.ops[Len(Old) + 1 - j + 1] = <<"register", New[k + 1]>>
  BY <1>5 DEF At
<1>7. scan.ops[1] = <<"register", New[k + 1]>>
  BY <1>4, <1>6
<1> QED
  BY <1>2, <1>3, <1>5, <1>7

\* ... and in one whose next operation unregisters one.
LEMMA Unregistering ==
    ASSUME DiscoveryOptions, DiscoveryShape, ScanShape, scan.pc = "items", scan.ops # <<>>,
           NEW j \in 1..(Len(Old) + 1), NEW k \in 0..Len(New), At(j, k),
           Head(scan.ops)[1] # "register"
    PROVE  j \in 1..Len(Old) /\ k = 0 /\ Head(scan.ops)[2] = Old[j]
<1>1. Len(Old) \in Nat /\ Len(New) \in Nat
  BY ManifestsTyped, OpsElement
<1>2. Len(scan.ops) \in Nat \ {0} /\ Head(scan.ops) = scan.ops[1]
  BY ScanTyped, OpsTail
<1>3. j \in 1..Len(Old)
  <2>1. ASSUME j \notin 1..Len(Old) PROVE FALSE
    <3>1. j = Len(Old) + 1
      BY <1>1, <2>1
    <3>2. Len(Old) + 1 - j = 0 /\ Len(scan.ops) = Len(New) - k
      <4>1. Len(scan.ops) = Len(Old) + 1 - j + Len(New) - k
        BY DEF At
      <4> QED
        BY <1>1, <3>1, <4>1
    <3>3. 1 \in 1..(Len(New) - k)
      BY <1>1, <1>2, <3>2
    <3>4. scan.ops[Len(Old) + 1 - j + 1] = <<"register", New[k + 1]>>
      BY <3>3 DEF At
    <3>5. scan.ops[1][1] = "register"
      BY <3>2, <3>4
    <3> QED
      BY <1>2, <3>5
  <2> QED
    BY <2>1
<1>4. k = 0
  BY <1>1, <1>3 DEF At
<1>5. 1 \in 1..(Len(Old) + 1 - j) /\ 1 + j - 1 = j
  BY <1>1, <1>3
<1>6. scan.ops[1][2] = Old[1 + j - 1]
  BY <1>5 DEF At
<1> QED
  BY <1>2, <1>3, <1>4, <1>5, <1>6

-----------------------------------------------------------------------------
\* The steps.

LEMMA HistoryTyped ==
    ASSUME DiscoveryShape
    PROVE  /\ history.clean \in BOOLEAN /\ history.still \in BOOLEAN /\ history.stopped \in BOOLEAN
           /\ history.changes \in 0..MaxChanges /\ history.calls \in 0..MaxCalls
           /\ [history EXCEPT !.still = TRUE] \in HistoryRecord
           /\ [history EXCEPT !.still = TRUE].clean = history.clean
           /\ [history EXCEPT !.still = TRUE].still
           /\ [history EXCEPT !.still = TRUE].stopped = history.stopped
           /\ [history EXCEPT !.clean = FALSE] \in HistoryRecord
           /\ ~[history EXCEPT !.clean = FALSE].clean
           /\ [history EXCEPT !.clean = FALSE].still = history.still
           /\ [history EXCEPT !.clean = FALSE].stopped = history.stopped
           /\ [history EXCEPT !.stopped = TRUE] \in HistoryRecord
           /\ [history EXCEPT !.stopped = TRUE].clean = history.clean
           /\ [history EXCEPT !.stopped = TRUE].still = history.still
           /\ [history EXCEPT !.stopped = TRUE].stopped
BY DEF DiscoveryShape, HistoryRecord

\* Steps that neither register nor load anything.
LEMMA ServedStays ==
    ASSUME D!ServedHandlersLoaded, UNCHANGED <<registry, loaded>>,
           history'.stopped = history.stopped, scan'.ops = scan.ops \/ scan.ops = <<>>
    PROVE  D!ServedHandlersLoaded'
BY DEF D!ServedHandlersLoaded, D!GetToolHandler, D!Has

LEMMA ListenerStays ==
    ASSUME ListenerShape, Followed, UNCHANGED <<listener, registry>>
    PROVE  ListenerShape' /\ Followed'
BY DEF ListenerShape, Followed

LEMMA ScanShaped ==
    ASSUME NEW at, NEW todo, NEW plugin, NEW ops, NEW next,
           ScanBecomes(at, todo, plugin, ops, next),
           at = "items" => plugin \in Plugins, at # "items" => ops = <<>>
    PROVE  ScanShape'
BY DEF ScanBecomes, ScanShape

LEMMA DiscoveryBegins ==
    ASSUME DiscoveryOptions, D!Init
    PROVE  DiscoveryInv
<1>1. DiscoveryShape
  BY DEF D!Init, DiscoveryShape, HistoryRecord, DiscoveryOptions
<1>2. <<>> \in Seq(ScanOps) /\ <<>> \in Seq(Events) /\ Len(<<>>) = 0
  OBVIOUS
<1>3. ScanShape
  BY <1>2 DEF D!Init, ScanShape, ScanRecord, ScanPcs, Owners, Nexts, D!NoScan
<1>4. ListenerShape
  BY <1>2 DEF D!Init, ListenerShape, ListenerRecord, ListenerPcs, DiscoveryOptions
<1>5. RegistryShape
  BY DEF D!Init, RegistryShape
<1>6. Matched /\ Halfway
  BY DEF D!Init, Matched, Halfway, Has, D!NoScan
<1>7. Scanned
  BY DEF D!Init, Scanned, Listing, Sweeping, Found, D!NoScan
<1>8. Followed /\ D!ServedHandlersLoaded
  BY DEF D!Init, Followed, D!ServedHandlersLoaded, D!GetToolHandler, D!Has
<1> QED
  BY <1>1, <1>3, <1>4, <1>5, <1>6, <1>7, <1>8 DEF DiscoveryInv

LEMMA BeginScanKeeps ==
    ASSUME DiscoveryOptions, DiscoveryInv, D!Start \/ D!Tick
    PROVE  DiscoveryInv'
<1> DEFINE present == {p \in Plugins : disk[p] # D!Absent}
<1>1. /\ scan.pc = "none" /\ scan' = [D!NoScan EXCEPT !.pc = "manifests", !.todo = present, !.seen = present]
      /\ history' = [history EXCEPT !.still = TRUE]
      /\ UNCHANGED <<disk, known, registry, loaded, listener>>
      /\ watch' = "starting" \/ watch' = watch
  BY DEF D!Start, D!Tick, D!BeginScan
<1>2. /\ scan'.pc = "manifests" /\ scan'.todo = present /\ scan'.seen = present /\ scan'.ops = <<>>
      /\ scan'.plugin = D!App /\ scan'.next = D!Absent
  BY <1>1 DEF D!NoScan
<1>3. scan.ops = <<>>
  BY <1>1 DEF DiscoveryInv, ScanShape
<1>4. /\ history'.clean = history.clean /\ history'.still /\ history'.stopped = history.stopped
      /\ history' \in HistoryRecord
  BY <1>1, HistoryTyped DEF DiscoveryInv
<1>5. DiscoveryShape' /\ RegistryShape'
  BY <1>1, <1>4 DEF DiscoveryInv, DiscoveryShape, RegistryShape
<1>6. ScanShape'
  <2>1. <<>> \in Seq(ScanOps)
    OBVIOUS
  <2>2. scan' \in ScanRecord
    BY <1>1, <2>1 DEF ScanRecord, ScanPcs, Owners, Nexts, D!NoScan
  <2> QED
    BY <1>2, <2>2 DEF ScanShape
<1>7. Matched' /\ Halfway'
  BY <1>1, <1>2, <1>4, NoPluginAtWork DEF DiscoveryInv
<1>8. Scanned'
  BY <1>1, <1>2 DEF Scanned, Listing, Sweeping
<1>9. ListenerShape' /\ Followed' /\ D!ServedHandlersLoaded'
  BY <1>1, <1>3, <1>4, ListenerStays, ServedStays DEF DiscoveryInv
<1> QED
  BY <1>5, <1>6, <1>7, <1>8, <1>9 DEF DiscoveryInv

LEMMA NextManifestKeeps ==
    ASSUME DiscoveryOptions, DiscoveryInv, NEW p \in Plugins, D!NextManifest(p)
    PROVE  DiscoveryInv'
<1> DEFINE m == disk[p]
           old == IF p \in DOMAIN known THEN known[p] ELSE <<>>
           ops == IF p \in DOMAIN known THEN D!UnregisterOps(known[p]) \o D!RegisterOps(m)
                  ELSE D!RegisterOps(m)
<1>1. /\ scan.pc = "manifests" /\ p \in scan.todo
      /\ UNCHANGED <<disk, watch, known, registry, loaded, listener, history>>
  BY DEF D!NextManifest
<1>2. scan.ops = <<>> /\ scan.todo \subseteq Plugins /\ scan \in ScanRecord
  BY <1>1, ScanTyped DEF DiscoveryInv, ScanShape
<1>3. DiscoveryShape' /\ RegistryShape' /\ ListenerShape' /\ Followed' /\ D!ServedHandlersLoaded'
  BY <1>1, <1>2, ListenerStays, ServedStays DEF DiscoveryInv, DiscoveryShape, RegistryShape
<1>4. /\ scan.todo \subseteq scan.seen
      /\ history.still => scan.seen = {q \in Plugins : disk[q] # D!Absent}
      /\ history.still /\ history.clean => \A q \in scan.seen \ scan.todo : Found(q)
  BY <1>1 DEF DiscoveryInv, Scanned, Listing
<1>5. CASE m \in {D!Absent, D!Broken} \/ (p \in DOMAIN known /\ known[p] = m)
  <2>1. scan' = [scan EXCEPT !.todo = scan.todo \ {p}]
    BY <1>1, <1>5 DEF D!NextManifest
  <2> DEFINE Q == Seq(ScanOps)
  <2>2. /\ scan \in [pc : ScanPcs, todo : SUBSET Plugins, seen : SUBSET Plugins,
                     plugin : Owners, ops : Q, next : Nexts]
        /\ scan.todo \ {p} \in SUBSET Plugins
    BY <1>2 DEF ScanRecord
  <2> HIDE DEF Q
  <2>3. /\ scan' \in [pc : ScanPcs, todo : SUBSET Plugins, seen : SUBSET Plugins,
                      plugin : Owners, ops : Q, next : Nexts]
        /\ scan'.pc = "manifests" /\ scan'.todo = scan.todo \ {p} /\ scan'.seen = scan.seen
        /\ scan'.ops = <<>>
    BY <1>1, <1>2, <2>1, <2>2
  <2>4. ScanShape'
    BY <2>3 DEF Q, ScanShape, ScanRecord
  <2>5. Matched' /\ Halfway'
    BY <1>1, <2>3, NoPluginAtWork DEF DiscoveryInv
  <2>6. history.still => Found(p)
    BY <1>1, <1>4, <1>5 DEF Found
  <2>7. Scanned'
    BY <1>1, <1>4, <2>3, <2>6 DEF Scanned, Listing, Sweeping, Found
  <2> QED
    BY <1>3, <2>4, <2>5, <2>7 DEF DiscoveryInv
<1>6. CASE ~(m \in {D!Absent, D!Broken} \/ (p \in DOMAIN known /\ known[p] = m))
  <2>1. scan' = [scan EXCEPT !.pc = "items", !.todo = scan.todo \ {p}, !.plugin = p,
                             !.ops = ops, !.next = m]
    BY <1>1, <1>6 DEF D!NextManifest
  <2>2. m \in Manifests /\ m \in Nexts /\ m # D!Absent
    BY <1>6 DEF DiscoveryInv, DiscoveryShape, Nexts
  <2>3. m \in Seq(D!Items) /\ (p \in DOMAIN known => known[p] \in Seq(D!Items))
    BY <2>2, ManifestsTyped DEF DiscoveryInv, DiscoveryOptions
  <2>4. Replaces(ops, old, m)
    BY <2>3, OpsOfOne, OpsOfTwo
  <2>5. ops \in Seq(ScanOps)
    BY <2>4 DEF Replaces
  <2> HIDE DEF ops
  <2>6. ScanBecomes("items", scan.todo \ {p}, p, ops, m)
    BY <1>2, <2>1, <2>2, <2>5, NextScan DEF DiscoveryInv, ScanPcs, Owners
  <2>7. ScanShape'
    BY <2>6, ScanShaped
  <2>8. Matched' /\ Halfway'
    BY <1>1, <2>2, <2>4, <2>6, PluginBegins DEF DiscoveryInv
  <2>9. /\ scan'.pc = "items" /\ scan'.todo = scan.todo \ {p} /\ scan'.seen = scan.seen
        /\ scan'.plugin = p /\ scan'.next = m
    BY <2>6 DEF ScanBecomes
  <2>10. Scanned'
    BY <1>1, <1>4, <2>2, <2>9 DEF Scanned, Listing, Sweeping, Found
  <2> QED
    BY <1>3, <2>7, <2>8, <2>10 DEF DiscoveryInv
<1> QED
  BY <1>5, <1>6

LEMMA RegisterItemKeeps ==
    ASSUME DiscoveryOptions, DiscoveryInv, D!RegisterItem
    PROVE  DiscoveryInv'
<1>1. /\ scan.pc = "items" /\ scan.ops # <<>> /\ Head(scan.ops)[1] = "register"
      /\ UNCHANGED <<disk, watch, known>>
  BY DEF D!RegisterItem
<1>2. /\ scan.plugin \in Plugins /\ scan \in ScanRecord
      /\ scan.pc \in ScanPcs /\ scan.todo \in SUBSET Plugins /\ scan.plugin \in Owners
      /\ scan.ops \in Seq(ScanOps) /\ scan.next \in Nexts
  BY <1>1, ScanTyped DEF DiscoveryInv, ScanShape
<1>3. /\ Len(scan.ops) \in Nat \ {0} /\ Head(scan.ops) \in ScanOps /\ Tail(scan.ops) \in Seq(ScanOps)
      /\ Len(Tail(scan.ops)) = Len(scan.ops) - 1
      /\ \A n \in 1..Len(Tail(scan.ops)) : Tail(scan.ops)[n] = scan.ops[n + 1]
  BY <1>1, <1>2, OpsTail
<1>4. PICK i \in D!Items : i = Head(scan.ops)[2]
  BY <1>3 DEF ScanOps
<1>5. PICK j \in 1..(Len(Old) + 1), k \in 0..Len(New) : At(j, k)
  BY <1>1 DEF DiscoveryInv, Halfway
<1>6. j = Len(Old) + 1 /\ k + 1 \in 1..Len(New) /\ i = New[k + 1]
  BY <1>1, <1>4, <1>5, Registering DEF DiscoveryInv
<1>7. Len(Old) \in Nat /\ Len(New) \in Nat
  BY ManifestsTyped, OpsElement DEF DiscoveryInv
<1>8. scan.next # D!Absent
  <2>1. ASSUME scan.next = D!Absent PROVE FALSE
    <3>1. New = <<>>
      BY <2>1 DEF New
    <3> QED
      BY <1>6, <3>1
  <2> QED
    BY <2>1
<1>9. PICK ok \in BOOLEAN :
          /\ D!LoadHandlerFromManifest(i, ok)
          /\ \/ /\ D!Register(i, scan.plugin, ok)
                /\ scan' = [scan EXCEPT !.ops = Tail(scan.ops)] /\ history' = history
             \/ /\ D!Has(i)
                /\ scan' = [scan EXCEPT !.pc = "manifests", !.ops = <<>>]
                /\ history' = [history EXCEPT !.clean = FALSE]
                /\ UNCHANGED <<registry, listener>>
  BY <1>4 DEF D!RegisterItem
<1>10. loaded \subseteq loaded' /\ (ok => i \in loaded') /\ loaded' \subseteq {x \in D!Items : D!IsTool(x)}
  BY <1>4, <1>9 DEF D!LoadHandlerFromManifest, DiscoveryInv, RegistryShape
<1>11. CASE /\ D!Register(i, scan.plugin, ok)
            /\ scan' = [scan EXCEPT !.ops = Tail(scan.ops)] /\ history' = history
  <2>1. ScanBecomes("items", scan.todo, scan.plugin, Tail(scan.ops), scan.next)
    <3>1. scan' = [scan EXCEPT !.pc = scan.pc, !.todo = scan.todo, !.plugin = scan.plugin,
                               !.ops = Tail(scan.ops), !.next = scan.next]
      <4> DEFINE Q == Seq(ScanOps)
      <4>1. scan \in [pc : ScanPcs, todo : SUBSET Plugins, seen : SUBSET Plugins,
                      plugin : Owners, ops : Q, next : Nexts]
        BY <1>2 DEF ScanRecord
      <4> HIDE DEF Q
      <4> QED
        BY <4>1, <1>11
    <3> QED
      BY <1>1, <1>2, <1>3, <3>1, NextScan DEF DiscoveryInv
  <2>2. /\ scan'.pc = "items" /\ scan'.todo = scan.todo /\ scan'.seen = scan.seen
        /\ scan'.plugin = scan.plugin /\ scan'.ops = Tail(scan.ops) /\ scan'.next = scan.next
    BY <2>1 DEF ScanBecomes
  <2>3. /\ i \notin DOMAIN registry /\ DOMAIN registry' = DOMAIN registry \cup {i}
        /\ \A x \in DOMAIN registry : registry'[x] = registry[x]
        /\ registry'[i].source = scan.plugin /\ registry'[i].handler = ok
        /\ \A x \in DOMAIN registry' : registry'[x] \in Entry
        /\ \A p : Has(p)' = IF p = scan.plugin THEN Has(p) \cup {i} ELSE Has(p)
    <3>1. PICK p \in Plugins : p = scan.plugin
      BY <1>2
    <3>2. p \in Owners /\ D!Register(i, p, ok)
      BY <1>2, <1>11, <3>1
    <3>3. RegistryShape
      BY DEF DiscoveryInv
    <3>4. /\ i \notin DOMAIN registry /\ DOMAIN registry' = DOMAIN registry \cup {i}
          /\ \A x \in DOMAIN registry : registry'[x] = registry[x]
          /\ registry'[i].source = p /\ registry'[i].handler = ok
          /\ \A x \in DOMAIN registry' : registry'[x] \in Entry
          /\ \A q : Has(q)' = IF q = p THEN Has(q) \cup {i} ELSE Has(q)
      <4>1. /\ i \notin DOMAIN registry /\ DOMAIN registry' = DOMAIN registry \cup {i}
            /\ \A x \in DOMAIN registry : registry'[x] = registry[x]
            /\ registry'[i] = [source |-> p, handler |-> ok, available |-> TRUE]
        BY <3>2 DEF D!Register, D!Has
      <4>2. registry'[i] \in Entry /\ registry'[i].source = p /\ registry'[i].handler = ok
        BY <3>2, <4>1 DEF Entry
      <4>3. \A x \in DOMAIN registry' : registry'[x] \in Entry
        BY <3>3, <4>1, <4>2 DEF RegistryShape
      <4>4. \A q : Has(q)' = IF q = p THEN Has(q) \cup {i} ELSE Has(q)
        BY <4>1, <4>2 DEF Has
      <4> QED
        BY <4>1, <4>2, <4>3, <4>4
    <3> QED
      BY <3>1, <3>4
  <2>4. DiscoveryShape'
    BY <1>1, <1>11 DEF DiscoveryInv, DiscoveryShape
  <2>5. RegistryShape'
    BY <1>4, <1>10, <2>3 DEF DiscoveryInv, RegistryShape
  <2>6. ScanShape'
    BY <1>2, <2>1, ScanShaped
  <2>7. ListenerShape' /\ Followed'
    <3>1. D!NotifyListeners("register", i)
      BY <1>11 DEF D!Register
    <3>2. \A x \in D!Items \ {i} : x \in DOMAIN registry' <=> x \in DOMAIN registry
      BY <2>3
    <3> QED
      BY <1>4, <2>3, <3>1, <3>2, EventSent DEF DiscoveryInv
  <2>8. Matched'
    <3>1. ASSUME history.clean, NEW p \in Plugins, p # scan.plugin
          PROVE  Has(p)' = {x \in D!Items : p \in DOMAIN known /\ \E n \in DOMAIN known[p] : x = known[p][n]}
      <4>1. Has(p)' = Has(p)
        BY <2>3, <3>1
      <4>2. Has(p) = {x \in D!Items : p \in DOMAIN known /\ \E n \in DOMAIN known[p] : x = known[p][n]}
        BY <3>1 DEF DiscoveryInv, Matched
      <4> QED
        BY <4>1, <4>2
    <3>2. history.clean => \A p \in DOMAIN known : NoRepeat(known[p])
      BY DEF DiscoveryInv, Matched
    <3> QED
      BY <1>1, <1>11, <2>2, <3>1, <3>2 DEF Matched, NoRepeat
  <2>9. Halfway'
    <3>1. Old' = Old /\ New' = New
      BY <1>1, <2>2 DEF Old, New
    <3>2. /\ Len(scan.ops) = Len(Old) + 1 - j + Len(New) - k
          /\ \A n \in 1..(Len(New) - k) : scan.ops[Len(Old) + 1 - j + n] = <<"register", New[k + n]>>
          /\ history.clean =>
                /\ Has(scan.plugin) = {Old[n] : n \in j..Len(Old)} \cup {New[n] : n \in 1..k}
                /\ \A n, l \in 1..k : New[n] = New[l] => n = l
      BY <1>5 DEF At
    <3>3. Len(Old) + 1 - j = 0 /\ k \in Nat /\ k + 1 \in 0..Len(New) /\ Len(New) - k \in Nat
      BY <1>6, <1>7
    <3>4. Len(Tail(scan.ops)) = Len(Old) + 1 - j + Len(New) - (k + 1)
      BY <1>3, <1>6, <1>7, <3>2, <3>3
    <3>5. ASSUME NEW n \in 1..(Len(New) - (k + 1))
          PROVE  Tail(scan.ops)[Len(Old) + 1 - j + n] = <<"register", New[(k + 1) + n]>>
      <4>1. /\ n \in Nat /\ n + 1 \in 1..(Len(New) - k) /\ 0 + n = n /\ 0 + (n + 1) = n + 1
            /\ k + (n + 1) = (k + 1) + n
        BY <1>7, <3>3
      <4>2. n \in 1..Len(Tail(scan.ops))
        BY <1>7, <3>3, <3>4, <4>1
      <4>3. Tail(scan.ops)[n] = scan.ops[n + 1]
        BY <1>3, <4>2
      <4>4. scan.ops[Len(Old) + 1 - j + (n + 1)] = <<"register", New[k + (n + 1)]>>
        BY <3>2, <4>1
      <4>5. Len(Old) + 1 - j + (n + 1) = n + 1 /\ Len(Old) + 1 - j + n = n
        BY <3>3, <4>1
      <4> QED
        BY <4>1, <4>3, <4>4, <4>5
    <3>6. \A n \in 1..(Len(Old) + 1 - j) : FALSE
      BY <3>3
    <3>7. ASSUME history.clean
          PROVE  /\ Has(scan.plugin)' = {Old[n] : n \in j..Len(Old)} \cup {New[n] : n \in 1..(k + 1)}
                 /\ \A n, l \in 1..(k + 1) : New[n] = New[l] => n = l
      <4>1. 1..(k + 1) = (1..k) \cup {k + 1}
        BY <3>3
      <4>2. {New[n] : n \in 1..(k + 1)} = {New[n] : n \in 1..k} \cup {i}
        BY <1>6, <4>1
      <4>3. Has(scan.plugin)' = Has(scan.plugin) \cup {i}
        BY <2>2, <2>3 DEF Has
      <4>4. i \notin Has(scan.plugin)
        BY <2>3 DEF Has
      <4>5. \A n \in 1..k : New[n] # New[k + 1]
        BY <1>6, <3>2, <3>7, <4>4
      <4>6. \A n, l \in 1..(k + 1) : New[n] = New[l] => n = l
        BY <3>2, <3>7, <4>1, <4>5
      <4> QED
        BY <3>2, <3>7, <4>2, <4>3, <4>6
    <3>8. j <= Len(Old) => FALSE
      BY <1>6, <1>7
    <3>9. At(j, k + 1)'
      BY <1>11, <2>2, <3>1, <3>4, <3>5, <3>6, <3>7, <3>8 DEF At
    <3> QED
      BY <3>1, <3>3, <3>9 DEF Halfway
  <2>10. Scanned'
    BY <1>1, <1>8, <1>11, <2>2 DEF DiscoveryInv, Scanned, Listing, Sweeping, Found
  <2>11. D!ServedHandlersLoaded'
    <3>1. ASSUME ~history.stopped, NEW x \in D!Items, x \in DOMAIN registry', D!IsTool(x),
                 registry'[x].handler, registry'[x].source # D!App
          PROVE  x \in loaded'
      <4>1. CASE x = i
        BY <1>10, <2>3, <3>1, <4>1
      <4>2. CASE x # i
        <5>1. D!GetToolHandler(x) /\ registry[x].source # D!App
          BY <2>3, <3>1, <4>2 DEF D!GetToolHandler, D!Has
        <5>2. x \in loaded \/ Head(scan.ops) = <<"unregister", x>>
          BY <3>1, <5>1 DEF DiscoveryInv, D!ServedHandlersLoaded
        <5> QED
          BY <1>1, <1>10, <5>2
      <4> QED
        BY <4>1, <4>2
    <3> QED
      BY <1>11, <3>1 DEF D!ServedHandlersLoaded, D!GetToolHandler, D!Has
  <2> QED
    BY <2>4, <2>5, <2>6, <2>7, <2>8, <2>9, <2>10, <2>11 DEF DiscoveryInv
<1>12. CASE /\ D!Has(i)
            /\ scan' = [scan EXCEPT !.pc = "manifests", !.ops = <<>>]
            /\ history' = [history EXCEPT !.clean = FALSE]
            /\ UNCHANGED <<registry, listener>>
  <2> DEFINE Q == Seq(ScanOps)
  <2>1. /\ scan \in [pc : ScanPcs, todo : SUBSET Plugins, seen : SUBSET Plugins,
                     plugin : Owners, ops : Q, next : Nexts]
        /\ <<>> \in Q /\ "manifests" \in ScanPcs
    BY <1>2 DEF ScanRecord, ScanPcs
  <2> HIDE DEF Q
  <2>2. /\ scan' \in [pc : ScanPcs, todo : SUBSET Plugins, seen : SUBSET Plugins,
                      plugin : Owners, ops : Q, next : Nexts]
        /\ scan'.pc = "manifests" /\ scan'.ops = <<>>
        /\ scan'.todo = scan.todo /\ scan'.seen = scan.seen
    BY <1>12, <2>1
  <2>3. ScanShape'
    BY <2>2 DEF Q, ScanShape, ScanRecord
  <2>4. /\ history' \in HistoryRecord /\ ~history'.clean
        /\ history'.still = history.still /\ history'.stopped = history.stopped
    BY <1>12, HistoryTyped DEF DiscoveryInv
  <2>5. DiscoveryShape' /\ RegistryShape'
    BY <1>1, <1>10, <1>12, <2>4 DEF DiscoveryInv, DiscoveryShape, RegistryShape
  <2>6. Matched' /\ Halfway'
    BY <2>2, <2>4 DEF Matched, Halfway
  <2>7. ListenerShape' /\ Followed'
    BY <1>12, ListenerStays DEF DiscoveryInv
  <2>8. Scanned'
    BY <1>1, <1>8, <2>2, <2>4 DEF DiscoveryInv, Scanned, Listing, Sweeping
  <2>9. D!ServedHandlersLoaded'
    <3>1. \A x \in D!Items : Head(scan.ops) # <<"unregister", x>>
      BY <1>1
    <3> QED
      BY <1>10, <1>12, <2>4, <3>1 DEF DiscoveryInv, D!ServedHandlersLoaded, D!GetToolHandler, D!Has
  <2> QED
    BY <2>3, <2>5, <2>6, <2>7, <2>8, <2>9 DEF DiscoveryInv
<1> QED
  BY <1>9, <1>11, <1>12

LEMMA UnloadHandlerKeeps ==
    ASSUME DiscoveryOptions, DiscoveryInv, D!UnloadHandler
    PROVE  DiscoveryInv'
<1>1. /\ scan.pc = "items" /\ scan.ops # <<>> /\ Head(scan.ops)[1] = "unload"
      /\ UNCHANGED <<disk, watch, known, registry, listener, history>>
      /\ loaded' = loaded \ {Head(scan.ops)[2]}
      /\ scan' = [scan EXCEPT !.ops[1] = <<"unregister", Head(scan.ops)[2]>>]
  BY DEF D!UnloadHandler
<1>2. /\ scan.plugin \in Plugins /\ scan \in ScanRecord
      /\ scan.pc \in ScanPcs /\ scan.todo \in SUBSET Plugins /\ scan.plugin \in Owners
      /\ scan.ops \in Seq(ScanOps) /\ scan.next \in Nexts
  BY <1>1, ScanTyped DEF DiscoveryInv, ScanShape
<1>3. /\ Len(scan.ops) \in Nat \ {0} /\ Head(scan.ops) = scan.ops[1] /\ scan.ops[1] \in ScanOps
  BY <1>1, <1>2, OpsTail
<1>4. PICK i \in D!Items : i = Head(scan.ops)[2]
  BY <1>3 DEF ScanOps
<1>5. PICK ops : ops = [scan.ops EXCEPT ![1] = <<"unregister", i>>]
  OBVIOUS
<1>6. /\ ops \in Seq(ScanOps) /\ Len(ops) = Len(scan.ops) /\ ops[1] = <<"unregister", i>>
      /\ \A n \in 1..Len(scan.ops) : n # 1 => ops[n] = scan.ops[n]
  <2>1. <<"unregister", i>> \in ScanOps
    BY DEF ScanOps
  <2> QED
    BY <1>2, <1>3, <1>5, <2>1
<1>7. Head(ops) = <<"unregister", i>> /\ ops # <<>>
  BY <1>3, <1>6, OpsTail
<1>8. ScanBecomes("items", scan.todo, scan.plugin, ops, scan.next)
  <2>1. scan' = [scan EXCEPT !.pc = scan.pc, !.todo = scan.todo, !.plugin = scan.plugin,
                             !.ops = ops, !.next = scan.next]
    <3> DEFINE Q == Seq(ScanOps)
    <3>1. scan \in [pc : ScanPcs, todo : SUBSET Plugins, seen : SUBSET Plugins,
                    plugin : Owners, ops : Q, next : Nexts]
      BY <1>2 DEF ScanRecord
    <3>2. scan' = [scan EXCEPT !.ops = ops]
      BY <1>1, <1>4, <1>5
    <3> HIDE DEF Q
    <3> QED
      BY <3>1, <3>2
  <2> QED
    BY <1>1, <1>2, <1>6, <2>1, NextScan DEF DiscoveryInv
<1>9. /\ scan'.pc = "items" /\ scan'.todo = scan.todo /\ scan'.seen = scan.seen
      /\ scan'.plugin = scan.plugin /\ scan'.ops = ops /\ scan'.next = scan.next
  BY <1>8 DEF ScanBecomes
<1>10. DiscoveryShape' /\ RegistryShape'
  BY <1>1 DEF DiscoveryInv, DiscoveryShape, RegistryShape
<1>11. ScanShape'
  BY <1>2, <1>8, ScanShaped
<1>12. ListenerShape' /\ Followed'
  BY <1>1, ListenerStays DEF DiscoveryInv
<1>13. Matched'
  BY <1>1, <1>9 DEF DiscoveryInv, Matched, NoRepeat, Has
<1>14. Halfway'
  <2>1. PICK j \in 1..(Len(Old) + 1), k \in 0..Len(New) : At(j, k)
    BY <1>1 DEF DiscoveryInv, Halfway
  <2>2. j \in 1..Len(Old) /\ k = 0 /\ i = Old[j]
    BY <1>1, <1>4, <2>1, Unregistering DEF DiscoveryInv
  <2>3. Len(Old) \in Nat /\ Len(New) \in Nat
    BY ManifestsTyped, OpsElement DEF DiscoveryInv
  <2>4. Old' = Old /\ New' = New
    BY <1>1, <1>9 DEF Old, New
  <2>5. /\ Len(scan.ops) = Len(Old) + 1 - j + Len(New) - k
        /\ \A n \in 1..(Len(Old) + 1 - j) :
              scan.ops[n][1] # "register" /\ scan.ops[n][2] = Old[n + j - 1]
        /\ \A n \in 1..(Len(New) - k) : scan.ops[Len(Old) + 1 - j + n] = <<"register", New[k + n]>>
        /\ history.clean =>
              /\ Has(scan.plugin) = {Old[n] : n \in j..Len(Old)} \cup {New[n] : n \in 1..k}
              /\ \A n, l \in 1..k : New[n] = New[l] => n = l
    BY <2>1 DEF At
  <2>6. ASSUME NEW n \in 1..(Len(Old) + 1 - j)
        PROVE  ops[n][1] # "register" /\ ops[n][2] = Old[n + j - 1]
    <3>1. n \in 1..Len(scan.ops) /\ 1 + j - 1 = j
      BY <2>2, <2>3, <2>5
    <3>2. CASE n = 1
      <4>1. n + j - 1 = j
        BY <3>1, <3>2
      <4>2. ops[n][1] = "unregister" /\ ops[n][2] = i
        BY <1>6, <3>2
      <4> QED
        BY <2>2, <4>1, <4>2
    <3>3. CASE n # 1
      BY <1>6, <2>5, <3>1, <3>3
    <3> QED
      BY <3>2, <3>3
  <2>7. ASSUME NEW n \in 1..(Len(New) - k)
        PROVE  ops[Len(Old) + 1 - j + n] = <<"register", New[k + n]>>
    <3>1. Len(Old) + 1 - j + n \in 1..Len(scan.ops) /\ Len(Old) + 1 - j + n # 1
      BY <2>2, <2>3, <2>5
    <3> QED
      BY <1>6, <2>5, <3>1
  <2>8. ASSUME history.clean
        PROVE  /\ Has(scan.plugin)' = {Old[n] : n \in j..Len(Old)} \cup {New[n] : n \in 1..k}
               /\ \A n, l \in 1..k : New[n] = New[l] => n = l
    <3>1. Has(scan.plugin)' = Has(scan.plugin)
      BY <1>1, <1>9 DEF Has
    <3> QED
      BY <2>5, <2>8, <3>1
  <2>9. Len(ops) = Len(Old) + 1 - j + Len(New) - k
    BY <1>6, <2>5
  <2>10. /\ j <= Len(Old') => k = 0
         /\ Len(scan'.ops) = Len(Old') + 1 - j + Len(New') - k
         /\ \A n \in 1..(Len(Old') + 1 - j) :
               scan'.ops[n][1] # "register" /\ scan'.ops[n][2] = Old'[n + j - 1]
         /\ \A n \in 1..(Len(New') - k) :
               scan'.ops[Len(Old') + 1 - j + n] = <<"register", New'[k + n]>>
    BY <1>9, <2>2, <2>4, <2>6, <2>7, <2>9
  <2>11. ASSUME history'.clean
         PROVE  /\ Has(scan.plugin)' = {Old'[n] : n \in j..Len(Old')} \cup {New'[n] : n \in 1..k}
                /\ \A n, l \in 1..k : New'[n] = New'[l] => n = l
    BY <1>1, <2>4, <2>8, <2>11
  <2>12. At(j, k)'
    BY <2>10, <2>11 DEF At
  <2> QED
    BY <2>1, <2>4, <2>12 DEF Halfway
<1>15. Scanned'
  BY <1>1, <1>9 DEF DiscoveryInv, Scanned, Listing, Sweeping, Found
<1>16. D!ServedHandlersLoaded'
  <2>1. ASSUME ~history.stopped, NEW x \in D!Items, D!GetToolHandler(x), registry[x].source # D!App
        PROVE  x \in loaded' \/ Head(ops) = <<"unregister", x>>
    <3>1. x \in loaded \/ Head(scan.ops) = <<"unregister", x>>
      BY <2>1 DEF DiscoveryInv, D!ServedHandlersLoaded
    <3>2. x \in loaded
      BY <1>1, <3>1
    <3> QED
      BY <1>1, <1>4, <1>7, <3>2
  <2>2. \A x : D!GetToolHandler(x)' <=> D!GetToolHandler(x)
    BY <1>1 DEF D!GetToolHandler, D!Has
  <2> QED
    BY <1>1, <1>7, <1>9, <2>1, <2>2 DEF D!ServedHandlersLoaded
<1> QED
  BY <1>10, <1>11, <1>12, <1>13, <1>14, <1>15, <1>16 DEF DiscoveryInv

LEMMA UnregisterItemKeeps ==
    ASSUME DiscoveryOptions, DiscoveryInv, D!UnregisterItem
    PROVE  DiscoveryInv'
<1>1. /\ scan.pc = "items" /\ scan.ops # <<>> /\ Head(scan.ops)[1] = "unregister"
      /\ UNCHANGED <<disk, watch, known, loaded, history>>
      /\ scan' = [scan EXCEPT !.ops = Tail(scan.ops)]
  BY DEF D!UnregisterItem
<1>2. /\ scan.plugin \in Plugins /\ scan \in ScanRecord
      /\ scan.pc \in ScanPcs /\ scan.todo \in SUBSET Plugins /\ scan.plugin \in Owners
      /\ scan.ops \in Seq(ScanOps) /\ scan.next \in Nexts
  BY <1>1, ScanTyped DEF DiscoveryInv, ScanShape
<1>3. /\ Len(scan.ops) \in Nat \ {0} /\ Head(scan.ops) \in ScanOps /\ Tail(scan.ops) \in Seq(ScanOps)
      /\ Len(Tail(scan.ops)) = Len(scan.ops) - 1
      /\ \A n \in 1..Len(Tail(scan.ops)) : Tail(scan.ops)[n] = scan.ops[n + 1]
  BY <1>1, <1>2, OpsTail
<1>4. PICK i \in D!Items : i = Head(scan.ops)[2]
  BY <1>3 DEF ScanOps
<1>5. D!Unregister(i) \/ (i \notin DOMAIN registry /\ UNCHANGED <<registry, listener>>)
  BY <1>4 DEF D!UnregisterItem, D!Has
<1>6. /\ DOMAIN registry' = DOMAIN registry \ {i}
      /\ \A x \in DOMAIN registry' : registry'[x] = registry[x]
      /\ ListenerShape' /\ Followed'
  <2>1. CASE D!Unregister(i)
    <3>1. /\ DOMAIN registry' = DOMAIN registry \ {i}
          /\ \A x \in DOMAIN registry' : registry'[x] = registry[x]
          /\ D!NotifyListeners("unregister", i)
      BY <2>1 DEF D!Unregister, D!Has
    <3>2. /\ i \in DOMAIN registry' <=> "unregister" = "register"
          /\ \A x \in D!Items \ {i} : x \in DOMAIN registry' <=> x \in DOMAIN registry
      BY <3>1
    <3> QED
      BY <3>1, <3>2, EventSent DEF DiscoveryInv
  <2>2. CASE i \notin DOMAIN registry /\ UNCHANGED <<registry, listener>>
    BY <2>2, ListenerStays DEF DiscoveryInv
  <2> QED
    BY <1>5, <2>1, <2>2
<1>7. \A p : Has(p)' = Has(p) \ {i}
  BY <1>6 DEF Has
<1>8. ScanBecomes("items", scan.todo, scan.plugin, Tail(scan.ops), scan.next)
  <2>1. scan' = [scan EXCEPT !.pc = scan.pc, !.todo = scan.todo, !.plugin = scan.plugin,
                             !.ops = Tail(scan.ops), !.next = scan.next]
    <3> DEFINE Q == Seq(ScanOps)
    <3>1. scan \in [pc : ScanPcs, todo : SUBSET Plugins, seen : SUBSET Plugins,
                    plugin : Owners, ops : Q, next : Nexts]
      BY <1>2 DEF ScanRecord
    <3> HIDE DEF Q
    <3> QED
      BY <1>1, <3>1
  <2> QED
    BY <1>1, <1>2, <1>3, <2>1, NextScan DEF DiscoveryInv
<1>9. /\ scan'.pc = "items" /\ scan'.todo = scan.todo /\ scan'.seen = scan.seen
      /\ scan'.plugin = scan.plugin /\ scan'.ops = Tail(scan.ops) /\ scan'.next = scan.next
  BY <1>8 DEF ScanBecomes
<1>10. DiscoveryShape' /\ RegistryShape'
  BY <1>1, <1>6 DEF DiscoveryInv, DiscoveryShape, RegistryShape
<1>11. ScanShape'
  BY <1>2, <1>8, ScanShaped
<1>12. PICK j \in 1..(Len(Old) + 1), k \in 0..Len(New) : At(j, k)
  BY <1>1 DEF DiscoveryInv, Halfway
<1>13. j \in 1..Len(Old) /\ k = 0 /\ i = Old[j]
  BY <1>1, <1>4, <1>12, Unregistering DEF DiscoveryInv
<1>14. Len(Old) \in Nat /\ Len(New) \in Nat /\ DOMAIN Old = 1..Len(Old)
  BY ManifestsTyped, OpsElement DEF DiscoveryInv
<1>15. Old' = Old /\ New' = New
  BY <1>1, <1>9 DEF Old, New
<1>16. /\ Len(scan.ops) = Len(Old) + 1 - j + Len(New) - k
       /\ \A n \in 1..(Len(Old) + 1 - j) :
             scan.ops[n][1] # "register" /\ scan.ops[n][2] = Old[n + j - 1]
       /\ \A n \in 1..(Len(New) - k) : scan.ops[Len(Old) + 1 - j + n] = <<"register", New[k + n]>>
       /\ history.clean => Has(scan.plugin) = {Old[n] : n \in j..Len(Old)} \cup {New[n] : n \in 1..k}
  BY <1>12 DEF At
<1>17. history.clean => Has(scan.plugin) = {Old[n] : n \in j..Len(Old)} /\ i \in Has(scan.plugin)
  <2>1. {New[n] : n \in 1..k} = {}
    BY <1>13
  <2>2. i \in {Old[n] : n \in j..Len(Old)}
    BY <1>13, <1>14
  <2> QED
    BY <1>16, <2>1, <2>2
<1>18. Matched'
  <2>1. ASSUME history.clean, NEW p \in Plugins, p # scan.plugin
        PROVE  Has(p)' = {x \in D!Items : p \in DOMAIN known /\ \E n \in DOMAIN known[p] : x = known[p][n]}
    <3>1. i \notin Has(p)
      BY <1>17, <2>1 DEF Has
    <3>2. Has(p)' = Has(p)
      BY <1>7, <3>1
    <3>3. Has(p) = {x \in D!Items : p \in DOMAIN known /\ \E n \in DOMAIN known[p] : x = known[p][n]}
      BY <2>1 DEF DiscoveryInv, Matched
    <3> QED
      BY <3>2, <3>3
  <2>2. history.clean => \A p \in DOMAIN known : NoRepeat(known[p])
    BY DEF DiscoveryInv, Matched
  <2> QED
    BY <1>1, <1>9, <2>1, <2>2 DEF Matched, NoRepeat
<1>19. Halfway'
  <2>1. j + 1 \in 1..(Len(Old) + 1) /\ k \in 0..Len(New)
    BY <1>13, <1>14
  <2>2. Len(Tail(scan.ops)) = Len(Old) + 1 - (j + 1) + Len(New) - k
    BY <1>3, <1>13, <1>14, <1>16
  <2>3. ASSUME NEW n \in 1..(Len(Old) + 1 - (j + 1))
        PROVE  Tail(scan.ops)[n][1] # "register" /\ Tail(scan.ops)[n][2] = Old[n + (j + 1) - 1]
    <3>1. /\ n + 1 \in 1..(Len(Old) + 1 - j) /\ n \in 1..Len(Tail(scan.ops))
          /\ (n + 1) + j - 1 = n + (j + 1) - 1
      BY <1>13, <1>14, <2>2
    <3>2. Tail(scan.ops)[n] = scan.ops[n + 1]
      BY <1>3, <3>1
    <3>3. scan.ops[n + 1][1] # "register" /\ scan.ops[n + 1][2] = Old[(n + 1) + j - 1]
      BY <1>16, <3>1
    <3> QED
      BY <3>1, <3>2, <3>3
  <2>4. ASSUME NEW n \in 1..(Len(New) - k)
        PROVE  Tail(scan.ops)[Len(Old) + 1 - (j + 1) + n] = <<"register", New[k + n]>>
    <3>1. /\ Len(Old) + 1 - (j + 1) + n \in 1..Len(Tail(scan.ops))
          /\ (Len(Old) + 1 - (j + 1) + n) + 1 = Len(Old) + 1 - j + n
      BY <1>13, <1>14, <2>2
    <3>2. Tail(scan.ops)[Len(Old) + 1 - (j + 1) + n] = scan.ops[Len(Old) + 1 - j + n]
      BY <1>3, <3>1
    <3>3. scan.ops[Len(Old) + 1 - j + n] = <<"register", New[k + n]>>
      BY <1>16, <3>1
    <3> QED
      BY <3>1, <3>2, <3>3
  <2>5. ASSUME history.clean
        PROVE  Has(scan.plugin)' = {Old[n] : n \in (j + 1)..Len(Old)} \cup {New[n] : n \in 1..k}
    <3>1. Has(scan.plugin)' = Has(scan.plugin) \ {i}
      BY <1>6, <1>9 DEF Has
    <3>2. \A n \in 1..Len(Old) : Old[n] = Old[j] => n = j
      <4>1. CASE scan.plugin \in DOMAIN known
        <5>1. NoRepeat(known[scan.plugin]) /\ Old = known[scan.plugin]
          BY <2>5, <4>1 DEF DiscoveryInv, Matched, Old
        <5> QED
          BY <1>13, <1>14, <5>1 DEF NoRepeat
      <4>2. CASE scan.plugin \notin DOMAIN known
        BY <1>13, <4>2 DEF Old
      <4> QED
        BY <4>1, <4>2
    <3>3. (j..Len(Old)) = {j} \cup ((j + 1)..Len(Old)) /\ j \notin (j + 1)..Len(Old)
          /\ (j + 1)..Len(Old) \subseteq 1..Len(Old)
      BY <1>13, <1>14
    <3>4. {Old[n] : n \in j..Len(Old)} \ {i} = {Old[n] : n \in (j + 1)..Len(Old)}
      BY <1>13, <3>2, <3>3
    <3>5. {New[n] : n \in 1..k} = {}
      BY <1>13
    <3> QED
      BY <1>17, <2>5, <3>1, <3>4, <3>5
  <2>6. \A n, l \in 1..k : New[n] = New[l] => n = l
    BY <1>13
  <2>7. PICK l \in 1..(Len(Old) + 1) : l = j + 1
    BY <2>1
  <2>8. /\ l <= Len(Old') => k = 0
        /\ Len(scan'.ops) = Len(Old') + 1 - l + Len(New') - k
        /\ \A n \in 1..(Len(Old') + 1 - l) :
              scan'.ops[n][1] # "register" /\ scan'.ops[n][2] = Old'[n + l - 1]
        /\ \A n \in 1..(Len(New') - k) :
              scan'.ops[Len(Old') + 1 - l + n] = <<"register", New'[k + n]>>
    BY <1>9, <1>13, <1>15, <2>2, <2>3, <2>4, <2>7
  <2>9. ASSUME history'.clean
        PROVE  /\ Has(scan.plugin)' = {Old'[n] : n \in l..Len(Old')} \cup {New'[n] : n \in 1..k}
               /\ \A n, x \in 1..k : New'[n] = New'[x] => n = x
    BY <1>1, <1>15, <2>5, <2>6, <2>7, <2>9
  <2>10. At(l, k)'
    BY <2>8, <2>9 DEF At
  <2> QED
    BY <1>15, <2>1, <2>10 DEF Halfway
<1>20. Scanned'
  BY <1>1, <1>9 DEF DiscoveryInv, Scanned, Listing, Sweeping, Found
<1>21. D!ServedHandlersLoaded'
  <2>1. ASSUME ~history.stopped, NEW x \in D!Items, x \in DOMAIN registry', D!IsTool(x),
               registry'[x].handler, registry'[x].source # D!App
        PROVE  x \in loaded
    <3>1. x # i /\ D!GetToolHandler(x) /\ registry[x].source # D!App
      BY <1>6, <2>1 DEF D!GetToolHandler, D!Has
    <3>2. x \in loaded \/ Head(scan.ops) = <<"unregister", x>>
      BY <2>1, <3>1 DEF DiscoveryInv, D!ServedHandlersLoaded
    <3> QED
      BY <1>4, <3>1, <3>2
  <2> QED
    BY <1>1, <2>1 DEF D!ServedHandlersLoaded, D!GetToolHandler, D!Has
<1> QED
  BY <1>6, <1>10, <1>11, <1>18, <1>19, <1>20, <1>21 DEF DiscoveryInv

LEMMA PluginDoneKeeps ==
    ASSUME DiscoveryOptions, DiscoveryInv, D!PluginDone
    PROVE  DiscoveryInv'
<1> DEFINE at == IF scan.next = D!Absent THEN "sweep" ELSE "manifests"
<1>1. /\ scan.pc = "items" /\ scan.ops = <<>>
      /\ UNCHANGED <<disk, watch, registry, loaded, listener, history>>
      /\ scan' = [scan EXCEPT !.pc = at]
  BY DEF D!PluginDone
<1>2. /\ scan.plugin \in Plugins /\ scan.next \in Nexts
      /\ scan \in ScanRecord /\ scan.plugin \notin scan.todo
  BY <1>1, ScanTyped DEF DiscoveryInv, ScanShape, Scanned
<1>3. /\ \A p : p # scan.plugin => /\ p \in DOMAIN known' <=> p \in DOMAIN known
                                   /\ p \in DOMAIN known => known'[p] = known[p]
      /\ scan.next = D!Absent => scan.plugin \notin DOMAIN known'
      /\ scan.next # D!Absent => scan.plugin \in DOMAIN known' /\ known'[scan.plugin] = scan.next
  BY DEF D!PluginDone, D!WithPlugin, D!WithoutPlugin
<1>4. /\ scan' \in ScanRecord /\ scan'.pc = at /\ scan'.todo = scan.todo /\ scan'.seen = scan.seen
      /\ scan'.ops = <<>> /\ scan'.plugin = scan.plugin /\ scan'.next = scan.next
  <2> DEFINE Q == Seq(ScanOps)
  <2>1. /\ scan \in [pc : ScanPcs, todo : SUBSET Plugins, seen : SUBSET Plugins,
                     plugin : Owners, ops : Q, next : Nexts]
        /\ at \in ScanPcs
    BY <1>2 DEF ScanRecord, ScanPcs
  <2> HIDE DEF Q, at
  <2>2. /\ scan' \in [pc : ScanPcs, todo : SUBSET Plugins, seen : SUBSET Plugins,
                      plugin : Owners, ops : Q, next : Nexts]
        /\ scan'.pc = at /\ scan'.todo = scan.todo /\ scan'.seen = scan.seen
        /\ scan'.ops = <<>> /\ scan'.plugin = scan.plugin /\ scan'.next = scan.next
    BY <1>1, <2>1
  <2> QED
    BY <2>2 DEF Q, ScanRecord
<1>5. ScanShape'
  BY <1>4 DEF ScanShape
<1>6. DiscoveryShape'
  <2>1. DOMAIN known' \subseteq Plugins /\ \A p \in DOMAIN known' : known'[p] \in Manifests
    BY <1>2, <1>3 DEF DiscoveryInv, DiscoveryShape, Nexts
  <2> QED
    BY <1>1, <2>1 DEF DiscoveryInv, DiscoveryShape
<1>7. RegistryShape' /\ ListenerShape' /\ Followed' /\ D!ServedHandlersLoaded'
  BY <1>1, ListenerStays, ServedStays DEF DiscoveryInv, RegistryShape
<1>8. ASSUME history.clean
      PROVE  Has(scan.plugin) = {New[n] : n \in DOMAIN New} /\ NoRepeat(New)
  <2>1. PICK j \in 1..(Len(Old) + 1), k \in 0..Len(New) : At(j, k)
    BY <1>1 DEF DiscoveryInv, Halfway
  <2>2. Len(Old) \in Nat /\ Len(New) \in Nat /\ DOMAIN New = 1..Len(New)
    BY ManifestsTyped, OpsElement DEF DiscoveryInv
  <2>3. Len(scan.ops) = 0
    BY <1>1
  <2>4. Len(scan.ops) = Len(Old) + 1 - j + Len(New) - k
    BY <2>1 DEF At
  <2>5. j = Len(Old) + 1 /\ k = Len(New)
    <3>1. PICK o \in Nat, w \in Nat : o = Len(Old) /\ w = Len(New)
      BY <2>2
    <3>2. j \in 1..(o + 1) /\ k \in 0..w
      BY <3>1
    <3>3. o + 1 - j + w - k = 0
      BY <2>3, <2>4, <3>1
    <3>4. j = o + 1 /\ k = w
      BY <3>2, <3>3
    <3> QED
      BY <3>1, <3>4
  <2>6. /\ Has(scan.plugin) = {Old[n] : n \in j..Len(Old)} \cup {New[n] : n \in 1..k}
        /\ \A n, l \in 1..k : New[n] = New[l] => n = l
    BY <1>8, <2>1 DEF At
  <2>7. {Old[n] : n \in j..Len(Old)} = {} /\ 1..k = DOMAIN New
    BY <2>2, <2>5
  <2> QED
    BY <2>6, <2>7 DEF NoRepeat
<1>9. Matched'
  <2>1. ASSUME history.clean, NEW p \in DOMAIN known' PROVE NoRepeat(known'[p])
    <3>1. CASE p = scan.plugin
      <4>1. New = scan.next /\ known'[p] = scan.next
        BY <1>3, <3>1 DEF New
      <4> QED
        BY <1>8, <2>1, <4>1
    <3>2. CASE p # scan.plugin
      <4>1. p \in DOMAIN known /\ known'[p] = known[p]
        BY <1>3, <3>2
      <4> QED
        BY <2>1, <4>1 DEF DiscoveryInv, Matched
    <3> QED
      BY <3>1, <3>2
  <2>2. ASSUME history.clean, NEW p \in Plugins
        PROVE  Has(p) = {x \in D!Items : p \in DOMAIN known' /\ \E n \in DOMAIN known'[p] : x = known'[p][n]}
    <3>1. CASE p = scan.plugin
      <4>1. Has(p) = {New[n] : n \in DOMAIN New} /\ \A n \in DOMAIN New : New[n] \in D!Items
        BY <1>8, <2>2, <3>1, ManifestsTyped, OpsElement DEF DiscoveryInv
      <4>2. CASE scan.next = D!Absent
        <5>1. DOMAIN New = {}
          BY <4>2 DEF New
        <5> QED
          BY <1>3, <3>1, <4>1, <4>2, <5>1
      <4>3. CASE scan.next # D!Absent
        <5>1. p \in DOMAIN known' /\ known'[p] = New
          BY <1>3, <3>1, <4>3 DEF New
        <5> QED
          BY <4>1, <5>1
      <4> QED
        BY <4>2, <4>3
    <3>2. CASE p # scan.plugin
      <4>1. Has(p) = {x \in D!Items : p \in DOMAIN known /\ \E n \in DOMAIN known[p] : x = known[p][n]}
        BY <2>2, <3>2 DEF DiscoveryInv, Matched
      <4> QED
        BY <1>3, <3>2, <4>1
    <3> QED
      BY <3>1, <3>2
  <2>3. \A p : Has(p)' = Has(p)
    BY <1>1 DEF Has
  <2>4. history'.clean => \A p \in DOMAIN known' : \A n, k \in DOMAIN known'[p] :
                             known'[p][n] = known'[p][k] => n = k
    BY <1>1, <2>1 DEF NoRepeat
  <2> QED
    BY <1>1, <2>2, <2>3, <2>4 DEF Matched, NoRepeat
<1>10. Halfway'
  BY <1>4 DEF Halfway
<1>11. Scanned'
  <2>1. /\ history.still => scan.seen = {p \in Plugins : disk[p] # D!Absent}
        /\ history.still /\ scan.next # D!Absent => scan.next = disk[scan.plugin]
    BY <1>1 DEF DiscoveryInv, Scanned, Listing
  <2>2. CASE scan.next # D!Absent
    <3>1. /\ scan.todo \subseteq scan.seen
          /\ history.still /\ history.clean =>
                \A p \in scan.seen \ scan.todo : Found(p) \/ p = scan.plugin
      BY <1>1, <2>2 DEF DiscoveryInv, Scanned, Listing
    <3>2. ASSUME history.still, history.clean, NEW p \in scan.seen \ scan.todo
          PROVE  disk[p] # D!Broken => p \in DOMAIN known' /\ known'[p] = disk[p]
      BY <1>3, <2>1, <2>2, <3>1, <3>2 DEF Found
    <3> QED
      BY <1>1, <1>4, <2>1, <2>2, <3>1, <3>2 DEF Scanned, Listing, Sweeping, Found
  <2>3. CASE scan.next = D!Absent
    <3>1. /\ scan.todo \subseteq DOMAIN known \ scan.seen
          /\ scan.plugin \notin scan.seen
          /\ DOMAIN known \subseteq scan.seen \cup scan.todo \cup {scan.plugin}
          /\ history.still /\ history.clean => \A p \in scan.seen : Found(p)
      BY <1>1, <2>3 DEF DiscoveryInv, Scanned, Sweeping
    <3>2. /\ scan.todo \subseteq DOMAIN known' \ scan.seen
          /\ DOMAIN known' \subseteq scan.seen \cup scan.todo
      BY <1>2, <1>3, <2>3, <3>1
    <3>3. ASSUME history.still, history.clean, NEW p \in scan.seen
          PROVE  disk[p] # D!Broken => p \in DOMAIN known' /\ known'[p] = disk[p]
      BY <1>3, <3>1, <3>3 DEF Found
    <3> QED
      BY <1>1, <1>4, <2>1, <2>3, <3>2, <3>3 DEF Scanned, Listing, Sweeping, Found
  <2> QED
    BY <2>2, <2>3
<1> QED
  BY <1>5, <1>6, <1>7, <1>9, <1>10, <1>11 DEF DiscoveryInv

LEMMA ManifestsDoneKeeps ==
    ASSUME DiscoveryOptions, DiscoveryInv, D!ManifestsDone
    PROVE  DiscoveryInv'
<1> DEFINE todo == DOMAIN known \ scan.seen
<1>1. /\ scan.pc = "manifests" /\ scan.todo = {}
      /\ UNCHANGED <<disk, watch, known, registry, loaded, listener, history>>
      /\ scan' = [scan EXCEPT !.pc = "sweep", !.todo = todo]
  BY DEF D!ManifestsDone
<1>2. scan \in ScanRecord /\ scan.ops = <<>>
  BY <1>1 DEF DiscoveryInv, ScanShape
<1>3. /\ scan' \in ScanRecord /\ scan'.pc = "sweep" /\ scan'.todo = todo /\ scan'.seen = scan.seen
      /\ scan'.ops = <<>>
  <2> DEFINE Q == Seq(ScanOps)
  <2>1. /\ scan \in [pc : ScanPcs, todo : SUBSET Plugins, seen : SUBSET Plugins,
                     plugin : Owners, ops : Q, next : Nexts]
        /\ "sweep" \in ScanPcs /\ todo \in SUBSET Plugins
    BY <1>2 DEF ScanRecord, ScanPcs, DiscoveryInv, DiscoveryShape
  <2> HIDE DEF Q, todo
  <2>2. /\ scan' \in [pc : ScanPcs, todo : SUBSET Plugins, seen : SUBSET Plugins,
                      plugin : Owners, ops : Q, next : Nexts]
        /\ scan'.pc = "sweep" /\ scan'.todo = todo /\ scan'.seen = scan.seen
        /\ scan'.ops = <<>>
    BY <1>1, <1>2, <2>1
  <2> QED
    BY <2>2 DEF Q, ScanRecord
<1>4. ScanShape'
  BY <1>3 DEF ScanShape
<1>5. DiscoveryShape' /\ RegistryShape' /\ ListenerShape' /\ Followed' /\ D!ServedHandlersLoaded'
  BY <1>1, <1>2, ListenerStays, ServedStays DEF DiscoveryInv, DiscoveryShape, RegistryShape
<1>6. Matched' /\ Halfway'
  BY <1>1, <1>3, NoPluginAtWork DEF DiscoveryInv
<1>7. Scanned'
  <2>1. /\ history.still => scan.seen = {p \in Plugins : disk[p] # D!Absent}
        /\ history.still /\ history.clean => \A p \in scan.seen : Found(p)
    BY <1>1 DEF DiscoveryInv, Scanned, Listing
  <2> QED
    BY <1>1, <1>3, <2>1 DEF Scanned, Listing, Sweeping, Found
<1> QED
  BY <1>4, <1>5, <1>6, <1>7 DEF DiscoveryInv

LEMMA UnregisterVanishedKeeps ==
    ASSUME DiscoveryOptions, DiscoveryInv, NEW p \in Plugins, D!UnregisterVanished(p)
    PROVE  DiscoveryInv'
<1>1. /\ scan.pc = "sweep" /\ p \in scan.todo
      /\ UNCHANGED <<disk, watch, known, registry, loaded, listener, history>>
      /\ scan' = [scan EXCEPT !.pc = "items", !.todo = scan.todo \ {p}, !.plugin = p,
                              !.ops = D!UnregisterOps(known[p]), !.next = D!Absent]
  BY DEF D!UnregisterVanished
<1>2. /\ scan.ops = <<>> /\ scan.todo \subseteq Plugins
      /\ scan.todo \subseteq DOMAIN known \ scan.seen
      /\ DOMAIN known \subseteq scan.seen \cup scan.todo
      /\ history.still => scan.seen = {q \in Plugins : disk[q] # D!Absent}
      /\ history.still /\ history.clean => \A q \in scan.seen : Found(q)
  BY <1>1, ScanTyped DEF DiscoveryInv, ScanShape, Scanned, Sweeping
<1>3. Replaces(D!UnregisterOps(known[p]), known[p], <<>>)
  BY <1>1, <1>2, ManifestsTyped, OpsOfOne DEF DiscoveryInv
<1>4. PICK ops \in Seq(ScanOps) : ops = D!UnregisterOps(known[p])
  BY <1>3 DEF Replaces
<1>5. ScanBecomes("items", scan.todo \ {p}, p, ops, D!Absent)
  BY <1>1, <1>2, <1>4, NextScan DEF DiscoveryInv, ScanPcs, Owners, Nexts
<1>6. ScanShape'
  BY <1>5, ScanShaped
<1>7. Matched' /\ Halfway'
  <2>1. Replaces(ops, IF p \in DOMAIN known THEN known[p] ELSE <<>>,
                 IF D!Absent = D!Absent THEN <<>> ELSE D!Absent)
    BY <1>1, <1>2, <1>3, <1>4
  <2>2. D!Absent \in Nexts /\ scan.pc # "items"
    BY <1>1 DEF Nexts
  <2> QED
    BY <1>1, <1>5, <2>1, <2>2, PluginBegins DEF DiscoveryInv
<1>8. DiscoveryShape' /\ RegistryShape' /\ ListenerShape' /\ Followed' /\ D!ServedHandlersLoaded'
  BY <1>1, <1>2, ListenerStays, ServedStays DEF DiscoveryInv, DiscoveryShape, RegistryShape
<1>9. /\ scan'.pc = "items" /\ scan'.todo = scan.todo \ {p} /\ scan'.seen = scan.seen
      /\ scan'.plugin = p /\ scan'.next = D!Absent
  BY <1>5 DEF ScanBecomes
<1>10. Scanned'
  BY <1>1, <1>2, <1>9 DEF Scanned, Listing, Sweeping, Found
<1> QED
  BY <1>6, <1>7, <1>8, <1>10 DEF DiscoveryInv

LEMMA EndScanKeeps ==
    ASSUME DiscoveryOptions, DiscoveryInv, D!EndScan
    PROVE  DiscoveryInv'
<1>1. /\ scan.pc = "sweep" /\ scan.todo = {} /\ scan' = D!NoScan
      /\ watch' = IF watch = "starting" THEN "running" ELSE watch
      /\ UNCHANGED <<disk, known, registry, loaded, listener, history>>
  BY DEF D!EndScan
<1>2. scan'.pc = "none" /\ scan'.ops = <<>> /\ scan.ops = <<>>
  BY <1>1 DEF D!NoScan, DiscoveryInv, ScanShape
<1>3. ScanShape'
  <2>1. <<>> \in Seq(ScanOps)
    OBVIOUS
  <2>2. scan' \in ScanRecord
    BY <1>1, <2>1 DEF ScanRecord, ScanPcs, Owners, Nexts, D!NoScan
  <2> QED
    BY <1>2, <2>2 DEF ScanShape
<1>4. DiscoveryShape' /\ RegistryShape' /\ ListenerShape' /\ Followed' /\ D!ServedHandlersLoaded'
  BY <1>1, <1>2, ListenerStays, ServedStays DEF DiscoveryInv, DiscoveryShape, RegistryShape
<1>5. Matched' /\ Halfway'
  BY <1>1, <1>2, NoPluginAtWork DEF DiscoveryInv
<1>6. Scanned'
  <2>1. /\ DOMAIN known \subseteq scan.seen
        /\ history.still => scan.seen = {p \in Plugins : disk[p] # D!Absent}
        /\ history.still /\ history.clean => \A p \in scan.seen : Found(p)
    BY <1>1 DEF DiscoveryInv, Scanned, Sweeping
  <2>2. ASSUME history.still, history.clean, NEW p \in Plugins
        PROVE  /\ disk[p] = D!Absent => p \notin DOMAIN known
               /\ disk[p] # D!Absent => Found(p)
    BY <2>1, <2>2
  <2> QED
    BY <1>1, <1>2, <2>2 DEF Scanned, Listing, Sweeping, Found
<1> QED
  BY <1>3, <1>4, <1>5, <1>6 DEF DiscoveryInv

\* Steps of the others that leave the scan and what it found as it is.
LEMMA ScannedStays ==
    ASSUME Scanned, UNCHANGED <<disk, scan, known>>,
           history'.still => history.still, history'.clean => history.clean
    PROVE  Scanned'
BY DEF Scanned, Listing, Sweeping, Found

LEMMA StopKeeps ==
    ASSUME DiscoveryOptions, DiscoveryInv, D!Stop \/ UNCHANGED D!vars
    PROVE  DiscoveryInv'
<1>1. /\ UNCHANGED <<disk, scan, known, registry, loaded, listener, history>>
      /\ watch' = watch \/ watch' = "stopping"
  BY DEF D!Stop, D!vars
<1>2. DiscoveryShape' /\ ScanShape' /\ RegistryShape'
  BY <1>1 DEF DiscoveryInv, DiscoveryShape, ScanShape, RegistryShape
<1>3. ListenerShape' /\ Followed' /\ D!ServedHandlersLoaded' /\ Scanned'
  BY <1>1, ListenerStays, ServedStays, ScannedStays DEF DiscoveryInv
<1>4. Matched' /\ Halfway'
  <2>1. \A p \in Plugins : Has(p)' = Has(p)
    BY <1>1 DEF Has
  <2> QED
    BY <1>1, <2>1, PluginsLeftAlone DEF DiscoveryInv
<1> QED
  BY <1>2, <1>3, <1>4 DEF DiscoveryInv

LEMMA StoppedKeeps ==
    ASSUME DiscoveryOptions, DiscoveryInv, D!Stopped
    PROVE  DiscoveryInv'
<1>1. /\ UNCHANGED <<disk, scan, known, registry, listener>>
      /\ watch' = "off" /\ loaded' \subseteq loaded
      /\ history' = [history EXCEPT !.stopped = TRUE]
  BY DEF D!Stopped
<1>2. /\ history' \in HistoryRecord /\ history'.clean = history.clean
      /\ history'.still = history.still /\ history'.stopped
  BY <1>1, HistoryTyped DEF DiscoveryInv
<1>3. DiscoveryShape' /\ ScanShape' /\ RegistryShape'
  BY <1>1, <1>2 DEF DiscoveryInv, DiscoveryShape, ScanShape, RegistryShape
<1>4. ListenerShape' /\ Followed' /\ Scanned'
  BY <1>1, <1>2, ListenerStays, ScannedStays DEF DiscoveryInv
<1>5. D!ServedHandlersLoaded'
  BY <1>2 DEF D!ServedHandlersLoaded
<1>6. Matched' /\ Halfway'
  <2>1. \A p \in Plugins : Has(p)' = Has(p)
    BY <1>1 DEF Has
  <2> QED
    BY <1>1, <1>2, <2>1, PluginsLeftAlone DEF DiscoveryInv
<1> QED
  BY <1>3, <1>4, <1>5, <1>6 DEF DiscoveryInv

LEMMA ChangeFileKeeps ==
    ASSUME DiscoveryOptions, DiscoveryInv, NEW p \in Plugins, D!ChangeFile(p)
    PROVE  DiscoveryInv'
<1>1. /\ history.changes < MaxChanges
      /\ UNCHANGED <<watch, scan, known, registry, loaded, listener>>
      /\ history' = [history EXCEPT !.changes = history.changes + 1, !.still = FALSE]
      /\ disk' \in [Plugins -> Manifests \cup {D!Absent, D!Broken}]
  BY DEF D!ChangeFile, DiscoveryInv, DiscoveryShape
<1>2. /\ history' \in HistoryRecord /\ history'.clean = history.clean
      /\ ~history'.still /\ history'.stopped = history.stopped
  <2>1. history.changes + 1 \in 0..MaxChanges
    BY <1>1, HistoryTyped DEF DiscoveryInv, DiscoveryOptions
  <2> QED
    BY <1>1, <2>1 DEF DiscoveryInv, DiscoveryShape, HistoryRecord
<1>3. DiscoveryShape' /\ ScanShape' /\ RegistryShape'
  BY <1>1, <1>2 DEF DiscoveryInv, DiscoveryShape, ScanShape, RegistryShape
<1>4. ListenerShape' /\ Followed' /\ D!ServedHandlersLoaded'
  BY <1>1, <1>2, ListenerStays, ServedStays DEF DiscoveryInv
<1>5. Matched' /\ Halfway'
  <2>1. \A q \in Plugins : Has(q)' = Has(q)
    BY <1>1 DEF Has
  <2> QED
    BY <1>1, <1>2, <2>1, PluginsLeftAlone DEF DiscoveryInv
<1>6. Scanned'
  BY <1>1, <1>2 DEF DiscoveryInv, Scanned, Listing, Sweeping
<1> QED
  BY <1>3, <1>4, <1>5, <1>6 DEF DiscoveryInv

LEMMA AppCallsKeeps ==
    ASSUME DiscoveryOptions, DiscoveryInv, NEW i \in D!Items, D!AppCalls(i)
    PROVE  DiscoveryInv'
<1>1. /\ history.calls < MaxCalls /\ UNCHANGED <<disk, watch, scan, known, loaded>>
      /\ \/ D!Register(i, D!App, D!IsTool(i))
         \/ D!Unregister(i)
         \/ \E available \in BOOLEAN : D!UpdateAvailability(i, available)
  BY DEF D!AppCalls
<1>2. /\ history' \in HistoryRecord /\ history'.still = history.still
      /\ history'.stopped = history.stopped
      /\ history'.clean => history.clean
      /\ history'.clean => \/ i \notin DOMAIN registry \/ registry[i].source = D!App
                           \/ DOMAIN registry' = DOMAIN registry
  <2>1. PICK clean \in BOOLEAN :
            clean = (history.clean /\ (~D!Has(i) \/ registry[i].source = D!App
                                       \/ DOMAIN registry' = DOMAIN registry))
    OBVIOUS
  <2>2. history' = [history EXCEPT !.calls = history.calls + 1, !.clean = clean]
    BY <2>1 DEF D!AppCalls
  <2>3. history.calls + 1 \in 0..MaxCalls
    BY <1>1, HistoryTyped DEF DiscoveryInv, DiscoveryOptions
  <2>4. /\ history' \in HistoryRecord /\ history'.clean = clean
        /\ history'.still = history.still /\ history'.stopped = history.stopped
    BY <2>2, <2>3 DEF DiscoveryInv, DiscoveryShape, HistoryRecord
  <2> QED
    BY <2>1, <2>4 DEF D!Has
<1>3. /\ DOMAIN registry' \subseteq D!Items
      /\ \A x \in DOMAIN registry' :
            /\ registry'[x] \in Entry
            /\ registry'[x].source # D!App =>
                  /\ x \in DOMAIN registry /\ registry'[x].source = registry[x].source
                  /\ registry'[x].handler = registry[x].handler
      /\ history'.clean => \A x \in DOMAIN registry :
            registry[x].source # D!App => x \in DOMAIN registry' /\ registry'[x].source = registry[x].source
      /\ ListenerShape' /\ Followed'
  <2>1. CASE D!Register(i, D!App, D!IsTool(i))
    <3>1. PICK handler \in BOOLEAN : handler = D!IsTool(i)
      BY DEF D!IsTool
    <3>2. /\ i \notin DOMAIN registry /\ DOMAIN registry' = DOMAIN registry \cup {i}
          /\ \A x \in DOMAIN registry : registry'[x] = registry[x]
          /\ registry'[i] = [source |-> D!App, handler |-> handler, available |-> TRUE]
          /\ D!NotifyListeners("register", i)
      BY <2>1, <3>1 DEF D!Register, D!Has
    <3>3. registry'[i] \in Entry /\ registry'[i].source = D!App
      BY <3>2 DEF Entry, Owners
    <3>4. ListenerShape' /\ Followed'
      <4>1. \A x \in D!Items \ {i} : x \in DOMAIN registry' <=> x \in DOMAIN registry
        BY <3>2
      <4> QED
        BY <3>2, <4>1, EventSent DEF DiscoveryInv
    <3> QED
      BY <3>2, <3>3, <3>4 DEF DiscoveryInv, RegistryShape
  <2>2. CASE D!Unregister(i)
    <3>1. /\ i \in DOMAIN registry /\ DOMAIN registry' = DOMAIN registry \ {i}
          /\ \A x \in DOMAIN registry' : registry'[x] = registry[x]
          /\ D!NotifyListeners("unregister", i)
      BY <2>2 DEF D!Unregister, D!Has
    <3>2. history'.clean => registry[i].source = D!App
      BY <1>2, <3>1
    <3>3. ListenerShape' /\ Followed'
      <4>1. /\ i \in DOMAIN registry' <=> "unregister" = "register"
            /\ \A x \in D!Items \ {i} : x \in DOMAIN registry' <=> x \in DOMAIN registry
        BY <3>1
      <4> QED
        BY <3>1, <4>1, EventSent DEF DiscoveryInv
    <3> QED
      BY <3>1, <3>2, <3>3 DEF DiscoveryInv, RegistryShape
  <2>3. ASSUME NEW available \in BOOLEAN, D!UpdateAvailability(i, available)
        PROVE  /\ UNCHANGED listener /\ DOMAIN registry' = DOMAIN registry
               /\ \A x \in DOMAIN registry : /\ registry'[x] \in Entry
                                             /\ registry'[x].source = registry[x].source
                                             /\ registry'[x].handler = registry[x].handler
    <3>1. /\ UNCHANGED listener /\ DOMAIN registry' = DOMAIN registry
          /\ \A x \in DOMAIN registry :
                registry'[x] = IF x = i THEN [registry[x] EXCEPT !.available = available]
                               ELSE registry[x]
      BY <2>3 DEF D!UpdateAvailability, D!Has
    <3>2. \A x \in DOMAIN registry : registry[x] \in Entry
      BY DEF DiscoveryInv, RegistryShape
    <3> QED
      BY <3>1, <3>2 DEF Entry
  <2>4. CASE \E available \in BOOLEAN : D!UpdateAvailability(i, available)
    <3>1. ListenerShape' /\ Followed'
      BY <2>3, <2>4 DEF DiscoveryInv, ListenerShape, Followed
    <3> QED
      BY <2>3, <2>4, <3>1 DEF DiscoveryInv, RegistryShape
  <2> QED
    BY <1>1, <2>1, <2>2, <2>4
<1>4. DiscoveryShape' /\ ScanShape' /\ RegistryShape' /\ Scanned'
  BY <1>1, <1>2, <1>3, ScannedStays DEF DiscoveryInv, DiscoveryShape, ScanShape, RegistryShape
<1>5. D!ServedHandlersLoaded'
  BY <1>1, <1>2, <1>3 DEF DiscoveryInv, D!ServedHandlersLoaded, D!GetToolHandler, D!Has
<1>6. Matched' /\ Halfway'
  <2>1. ASSUME history'.clean, NEW p \in Plugins PROVE Has(p)' = Has(p)
    <3>1. p # D!App
      BY DEF DiscoveryOptions
    <3> QED
      BY <1>3, <2>1, <3>1 DEF Has
  <2> QED
    BY <1>1, <1>2, <2>1, PluginsLeftAlone DEF DiscoveryInv
<1> QED
  BY <1>3, <1>4, <1>5, <1>6 DEF DiscoveryInv

LEMMA FollowersKeep ==
    ASSUME DiscoveryOptions, DiscoveryInv,
           D!Subscribe \/ D!Discovers \/ D!Receive \/ D!Unsubscribe
    PROVE  DiscoveryInv'
<1>1. UNCHANGED <<disk, watch, scan, known, registry, loaded, history>>
  BY DEF D!Subscribe, D!Discovers, D!Receive, D!Unsubscribe
<1>2. DiscoveryShape' /\ ScanShape' /\ RegistryShape'
  BY <1>1 DEF DiscoveryInv, DiscoveryShape, ScanShape, RegistryShape
<1>3. ListenerShape' /\ Followed'
  BY <1>1, Followers DEF DiscoveryInv
<1>4. Scanned' /\ D!ServedHandlersLoaded'
  BY <1>1, ScannedStays, ServedStays DEF DiscoveryInv
<1>5. Matched' /\ Halfway'
  <2>1. \A p \in Plugins : Has(p)' = Has(p)
    BY <1>1 DEF Has
  <2> QED
    BY <1>1, <2>1, PluginsLeftAlone DEF DiscoveryInv
<1> QED
  BY <1>2, <1>3, <1>4, <1>5 DEF DiscoveryInv

LEMMA DiscoveryStep ==
    ASSUME DiscoveryOptions, DiscoveryInv, [D!Next]_(D!vars)
    PROVE  DiscoveryInv'
<1>1. CASE D!Start \/ D!Tick
  BY <1>1, BeginScanKeeps
<1>2. CASE D!RegisterItem
  BY <1>2, RegisterItemKeeps
<1>3. CASE D!UnloadHandler
  BY <1>3, UnloadHandlerKeeps
<1>4. CASE D!UnregisterItem
  BY <1>4, UnregisterItemKeeps
<1>5. CASE D!PluginDone
  BY <1>5, PluginDoneKeeps
<1>6. CASE D!ManifestsDone
  BY <1>6, ManifestsDoneKeeps
<1>7. CASE D!EndScan
  BY <1>7, EndScanKeeps
<1>8. CASE D!Stop \/ UNCHANGED D!vars
  BY <1>8, StopKeeps
<1>9. CASE D!Stopped
  BY <1>9, StoppedKeeps
<1>10. ASSUME NEW p \in Plugins, D!NextManifest(p) \/ D!UnregisterVanished(p) \/ D!ChangeFile(p)
       PROVE  DiscoveryInv'
  BY <1>10, NextManifestKeeps, UnregisterVanishedKeeps, ChangeFileKeeps
<1>11. ASSUME NEW i \in D!Items, D!AppCalls(i)
       PROVE  DiscoveryInv'
  BY <1>11, AppCallsKeeps
<1>12. CASE D!Subscribe \/ D!Discovers \/ D!Receive \/ D!Unsubscribe
  BY <1>12, FollowersKeep
<1> QED
  BY <1>1, <1>2, <1>3, <1>4, <1>5, <1>6, <1>7, <1>8, <1>9, <1>10, <1>11, <1>12 DEF D!Next

\* Files, registry, handlers and listeners agree through every interleaving of
\* scans, calls and changed files (scan, registerPlugin, notifyListeners).
THEOREM DirectoriesAgree ==
    ASSUME DiscoveryOptions
    PROVE  D!Spec => []D!DiscoveryAgrees
<1>1. D!Init => DiscoveryInv
  BY DiscoveryBegins
<1>2. DiscoveryInv /\ [D!Next]_(D!vars) => DiscoveryInv'
  BY DiscoveryStep
<1>3. DiscoveryInv => D!DiscoveryAgrees
  BY DiscoveryMeans
<1> QED
  BY <1>1, <1>2, <1>3, PTL DEF D!Spec
=============================================================================
