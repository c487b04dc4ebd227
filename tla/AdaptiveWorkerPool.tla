------------------------- MODULE AdaptiveWorkerPool -------------------------
(***************************************************************************)
(* server.AdaptiveWorkerPool (server/concurrent.go): a ConcurrentHandler   *)
(* whose number of workers a monitor adapts on every tick.  Scaling down   *)
(* shortens the slice of workers and stops no goroutine.  The monitor may  *)
(* be in the middle of scaling while Shutdown cancels the handler's        *)
(* context and waits for its workers: the lock the monitor holds is not    *)
(* one Shutdown takes.  What requests do is ConcurrentHandler.tla's        *)
(* matter; here utilization is whatever they make it.                      *)
(***************************************************************************)
EXTENDS Integers

CONSTANTS MinWorkers, MaxWorkers, NumWorkers,
          HistoryNeeded,      \* samples before the first decision: 3
          MaxGoroutines       \* bound: workers started

VARIABLES current,            \* awp.currentWorkers
          slice,              \* len(awp.workers)
          live,               \* worker goroutines that have not ended
          started,            \* worker goroutines ever started
          samples,            \* utilizationHistory, its length up to HistoryNeeded
          monitor,            \* what the monitor is doing, and its target
          shutdown            \* "no", "stopping" the monitor, "waiting", or how it returned

vars == <<current, slice, live, started, samples, monitor, shutdown>>

AtMost(a, b) == IF a < b THEN a ELSE b
AtLeast(a, b) == IF a > b THEN a ELSE b

TypeOK ==
    /\ {current, slice, live, started} \subseteq Nat
    /\ samples \in 0..HistoryNeeded
    /\ monitor \in [pc: {"ticker", "adding", "done"}, target: 0..MaxWorkers]
    /\ shutdown \in {"no", "stopping", "waiting", "nil", "timeout"}

\* The constructor has brought the options into order.
Init ==
    /\ current = NumWorkers /\ slice = NumWorkers /\ live = NumWorkers /\ started = NumWorkers
    /\ samples = 0 /\ monitor = [pc |-> "ticker", target |-> 0] /\ shutdown = "no"

----------------------------------------------------------------------------
\* A quarter of the workers, at least one, within the limits.
ScaleUp == AtMost(MaxWorkers, current + AtLeast(1, current \div 4))

\* Mutant of ScaleDown: the limit is forgotten.
ScaleDownFreely == current - AtLeast(1, current \div 4)

ScaleDown == AtLeast(MinWorkers, current - AtLeast(1, current \div 4))

\* removeWorkers, for as many as the target asks.
SliceAfterRemoving(count) ==
    LET n == IF count >= slice THEN slice - MinWorkers ELSE count
    IN IF n > 0 THEN slice - n ELSE slice

\* One tick: a sample, and from the third on a decision, unless the last
\* scaling was less than an interval ago.
Evaluate ==
    /\ monitor.pc = "ticker"
    /\ samples' = AtMost(samples + 1, HistoryNeeded)
    /\ \/ UNCHANGED <<current, slice, monitor>>
       \/ /\ samples' = HistoryNeeded /\ current < MaxWorkers
          /\ monitor' = [pc |-> "adding", target |-> ScaleUp]
          /\ UNCHANGED <<current, slice>>
       \/ /\ samples' = HistoryNeeded /\ current > MinWorkers
          /\ slice' = SliceAfterRemoving(current - ScaleDown)
          /\ current' = ScaleDown /\ UNCHANGED monitor
    /\ UNCHANGED <<live, started, shutdown>>

\* addWorkers, one worker at a time; then the new number is stored.
AddWorker ==
    /\ monitor.pc = "adding" /\ slice < monitor.target /\ started < MaxGoroutines
    /\ slice' = slice + 1 /\ live' = live + 1 /\ started' = started + 1
    /\ UNCHANGED <<current, samples, monitor, shutdown>>

Added ==
    /\ monitor.pc = "adding" /\ slice = monitor.target
    /\ current' = monitor.target /\ monitor' = [pc |-> "ticker", target |-> 0]
    /\ UNCHANGED <<slice, live, started, samples, shutdown>>

\* The monitor's select may prefer a tick to the end of its context.
MonitorEnds ==
    /\ monitor.pc = "ticker" /\ shutdown # "no"
    /\ monitor' = [pc |-> "done", target |-> 0]
    /\ UNCHANGED <<current, slice, live, started, samples, shutdown>>

Shutdown ==
    /\ shutdown = "no" /\ shutdown' = "stopping"
    /\ UNCHANGED <<current, slice, live, started, samples, monitor>>

\* ConcurrentHandler.Shutdown: cancel, wait for the workers, or the timeout.
CancelWorkers ==
    /\ shutdown = "stopping" /\ shutdown' = "waiting"
    /\ UNCHANGED <<current, slice, live, started, samples, monitor>>

ShutdownReturns ==
    /\ shutdown = "waiting"
    /\ shutdown' \in (IF live = 0 THEN {"nil"} ELSE {}) \cup {"timeout"}
    /\ UNCHANGED <<current, slice, live, started, samples, monitor>>

WorkerEnds ==
    /\ live > 0 /\ shutdown \in {"waiting", "nil", "timeout"}
    /\ live' = live - 1
    /\ UNCHANGED <<current, slice, started, samples, monitor, shutdown>>

Next ==
    \/ Evaluate \/ AddWorker \/ Added \/ MonitorEnds
    \/ Shutdown \/ CancelWorkers \/ ShutdownReturns \/ WorkerEnds

Spec == Init /\ [][Next]_vars

----------------------------------------------------------------------------
\* The pool keeps within its limits, counts what it lists, and has at least
\* that many workers until it is shut down (scaleWorkers, addWorkers,
\* removeWorkers).
PoolStaffed ==
    /\ TypeOK
    /\ current \in MinWorkers..MaxWorkers
    /\ monitor.pc # "adding" => slice = current
    /\ shutdown \in {"no", "stopping"} => live = started /\ live >= slice /\ slice >= current
=============================================================================
