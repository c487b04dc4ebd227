--------------------------- MODULE ServerLifecycle ---------------------------
(***************************************************************************)
(* The lifecycle of server.Server (server/server.go): Start, Stop,         *)
(* AddShutdownHook and WaitForShutdown called from any number of           *)
(* goroutines.  Server holds no lock across a call; only the               *)
(* LifecycleManager's phase and hook list are guarded, one access at a     *)
(* time.  SetPhase stores the new phase whatever the old one was, and runs *)
(* the lifecycle hooks, outside the lock, if the phase changed.            *)
(*                                                                         *)
(* The transport is modelled by what Server sees of it: Start fails on a   *)
(* running transport, may fail otherwise, and (stdio only, "blocking")     *)
(* returns when the input ends; Stop leaves it stopped.                    *)
(***************************************************************************)
EXTENDS Naturals, Sequences, FiniteSets, SequencesExt

CONSTANTS Callers,            \* goroutines that call Start or Stop, once each
          Hooks,              \* shutdown hooks
          Nobody

ASSUME LifecycleAssumption == Nobody \notin Callers

VARIABLES phase,              \* LifecycleManager.phase
          shutdownHooks,      \* LifecycleManager.shutdownHooks
          transport,          \* the transport configured, by how Start returns
          owner,              \* whose Start made the transport run, or Nobody
          pc,                 \* where each caller is
          hooks,              \* the copy of shutdownHooks each Stop took
          executed,           \* the hooks each Stop has run
          alone,              \* Stops that no Start has overlapped
          orderly,            \* so far no Start overlapped another call or
                              \* found the server running
          waited              \* WaitForShutdown has returned nil

vars == <<phase, shutdownHooks, transport, owner, pc, hooks, executed, alone,
          orderly, waited>>

StartStates == {"starting", "transport", "serving", "running", "undo"}
StopStates == {"stopping", "hooks", "stopTransport", "stopped"}
EndStates == {"startFailed", "startOk", "stopOk"}
TransportKinds == {"none", "returning", "blocking"}

TypeOK ==
    /\ phase \in {"initializing", "starting", "running", "stopping", "stopped"}
    /\ shutdownHooks \in Seq(Hooks)
    /\ transport \in TransportKinds
    /\ owner \in Callers \cup {Nobody}
    /\ pc \in [Callers -> {"idle"} \cup StartStates \cup StopStates \cup EndStates]
    /\ hooks \in [Callers -> Seq(Hooks)]
    /\ executed \in [Callers -> Seq(Hooks)]
    /\ alone \in SUBSET Callers
    /\ orderly \in BOOLEAN
    /\ waited \in BOOLEAN

Init ==
    /\ phase = "initializing"
    /\ shutdownHooks = <<>>
    /\ transport \in TransportKinds
    /\ owner = Nobody
    /\ pc = [p \in Callers |-> "idle"]
    /\ hooks = [p \in Callers |-> <<>>]
    /\ executed = [p \in Callers |-> <<>>]
    /\ alone = {}
    /\ orderly = TRUE
    /\ waited = FALSE

Goto(p, label) == pc' = [pc EXCEPT ![p] = label]
InStart == {p \in Callers : pc[p] \in StartStates}
InStop == {p \in Callers : pc[p] \in StopStates}

-----------------------------------------------------------------------------
\* Start

Start(p) ==
    /\ pc[p] = "idle"
    /\ phase' = "starting"
    /\ Goto(p, IF phase = "starting" THEN "transport" ELSE "starting")
    /\ alone' = {}
    /\ orderly' = (orderly /\ InStart = {} /\ InStop = {} /\ phase # "running")
    /\ UNCHANGED <<shutdownHooks, transport, owner, hooks, executed, waited>>

\* The lifecycle hooks have run; the first that fails ends Start.
StartingHooks(p) ==
    /\ pc[p] = "starting"
    /\ \/ Goto(p, "transport")
       \/ Goto(p, "startFailed")
    /\ UNCHANGED <<phase, shutdownHooks, transport, owner, hooks, executed,
                   alone, orderly, waited>>

\* SetPhase(PhaseStopped) on the way out of a failed Start or at the end of a
\* Stop: whatever its hooks return is ignored.
SetStopped(p, label) ==
    /\ phase' = "stopped"
    /\ Goto(p, label)
    /\ UNCHANGED <<shutdownHooks, transport, hooks, executed, alone, orderly,
                   waited>>

\* No transport, a running one, an error of its own; a blocking transport may
\* also fail after it has served.
StartTransportFails(p) ==
    /\ \/ pc[p] = "transport" /\ UNCHANGED owner
       \/ /\ pc[p] = "serving" /\ transport = "blocking"
          /\ owner' = IF owner = p THEN Nobody ELSE owner
    /\ SetStopped(p, "startFailed")

StartTransport(p) ==
    /\ pc[p] = "transport"
    /\ transport # "none" /\ owner = Nobody
    /\ owner' = p
    /\ Goto(p, "serving")
    /\ UNCHANGED <<phase, shutdownHooks, transport, hooks, executed, alone,
                   orderly, waited>>

\* A blocking transport is no longer running when its Start returns.
SetRunning(p) ==
    /\ pc[p] = "serving"
    /\ owner' = IF transport = "blocking" /\ owner = p THEN Nobody ELSE owner
    /\ phase' = "running"
    /\ Goto(p, IF phase = "running" THEN "startOk" ELSE "running")
    /\ UNCHANGED <<shutdownHooks, transport, hooks, executed, alone, orderly,
                   waited>>

\* Mutant of RunningHooks: the transport is not stopped when a hook fails.
RunningHooksNoUndo(p) ==
    /\ pc[p] = "running"
    /\ Goto(p, "startOk") \/ Goto(p, "undo")
    /\ UNCHANGED <<phase, shutdownHooks, transport, owner, hooks, executed,
                   alone, orderly, waited>>

RunningHooks(p) ==
    /\ pc[p] = "running"
    /\ \/ Goto(p, "startOk") /\ UNCHANGED owner
       \/ Goto(p, "undo") /\ owner' = Nobody
    /\ UNCHANGED <<phase, shutdownHooks, transport, hooks, executed, alone,
                   orderly, waited>>

UndoStart(p) ==
    /\ pc[p] = "undo"
    /\ SetStopped(p, "startFailed")
    /\ UNCHANGED owner

-----------------------------------------------------------------------------
\* Stop

Stop(p) ==
    /\ pc[p] = "idle"
    /\ phase' = "stopping"
    /\ Goto(p, "stopping")
    /\ alone' = IF InStart = {} THEN alone \cup {p} ELSE alone
    /\ orderly' = (orderly /\ InStart = {})
    /\ UNCHANGED <<shutdownHooks, transport, owner, hooks, executed, waited>>

CopyHooks(p) ==
    /\ pc[p] = "stopping"
    /\ hooks' = [hooks EXCEPT ![p] = shutdownHooks]
    /\ Goto(p, "hooks")
    /\ UNCHANGED <<phase, shutdownHooks, transport, owner, executed, alone,
                   orderly, waited>>

\* The next hook from the end of the copy, whether or not the one before it
\* failed.
NextHook(p) == Len(hooks[p]) - Len(executed[p])

\* Mutant of ExecuteHook: first hook first.
ExecuteHookInOrder(p) ==
    /\ pc[p] = "hooks"
    /\ NextHook(p) > 0
    /\ executed' = [executed EXCEPT ![p] = Append(@, hooks[p][Len(@) + 1])]
    /\ UNCHANGED <<phase, shutdownHooks, transport, owner, pc, hooks, alone,
                   orderly, waited>>

ExecuteHook(p) ==
    /\ pc[p] = "hooks"
    /\ NextHook(p) > 0
    /\ executed' = [executed EXCEPT ![p] = Append(@, hooks[p][NextHook(p)])]
    /\ UNCHANGED <<phase, shutdownHooks, transport, owner, pc, hooks, alone,
                   orderly, waited>>

\* Mutant of HooksDone: Stop goes on only if there was no hook to run.
HooksDoneIfNone(p) ==
    /\ pc[p] = "hooks"
    /\ hooks[p] = <<>>
    /\ Goto(p, "stopTransport")
    /\ UNCHANGED <<phase, shutdownHooks, transport, owner, hooks, executed,
                   alone, orderly, waited>>

HooksDone(p) ==
    /\ pc[p] = "hooks"
    /\ NextHook(p) = 0
    /\ Goto(p, "stopTransport")
    /\ UNCHANGED <<phase, shutdownHooks, transport, owner, hooks, executed,
                   alone, orderly, waited>>

StopTransport(p) ==
    /\ pc[p] = "stopTransport"
    /\ owner' = Nobody
    /\ Goto(p, "stopped")
    /\ UNCHANGED <<phase, shutdownHooks, transport, hooks, executed, alone,
                   orderly, waited>>

StopReturns(p) ==
    /\ pc[p] = "stopped"
    /\ SetStopped(p, "stopOk")
    /\ UNCHANGED owner

-----------------------------------------------------------------------------
\* AddShutdownHook and WaitForShutdown

AddShutdownHook(h) ==
    /\ ~Contains(shutdownHooks, h)
    /\ shutdownHooks' = Append(shutdownHooks, h)
    /\ UNCHANGED <<phase, transport, owner, pc, hooks, executed, alone, orderly,
                   waited>>

\* A tick of WaitForShutdown's ticker that finds the server stopped.
WaitForShutdownReturns ==
    /\ ~waited
    /\ phase = "stopped"
    /\ waited' = TRUE
    /\ UNCHANGED <<phase, shutdownHooks, transport, owner, pc, hooks, executed,
                   alone, orderly>>

-----------------------------------------------------------------------------

StartStep(p) ==
    StartingHooks(p) \/ StartTransport(p) \/ StartTransportFails(p)
        \/ SetRunning(p) \/ RunningHooks(p) \/ UndoStart(p)
StopStep(p) ==
    CopyHooks(p) \/ ExecuteHook(p) \/ HooksDone(p) \/ StopTransport(p)
        \/ StopReturns(p)

Next ==
    \/ \E p \in Callers : Start(p) \/ Stop(p) \/ StartStep(p) \/ StopStep(p)
    \/ \E h \in Hooks : AddShutdownHook(h)
    \/ WaitForShutdownReturns

\* Hooks and the transport's Stop return.
Fairness == \A p \in Callers : WF_vars(StopStep(p))

Spec == Init /\ [][Next]_vars
FairSpec == Spec /\ Fairness

-----------------------------------------------------------------------------
\* Properties

(* A Start that returns an error has not left behind a transport that it    *)
(* started: neither a failing lifecycle hook nor any Start or Stop beside   *)
(* it makes it forget to stop it.                                           *)
FailedStartLeavesNoTransport ==
    \A p \in Callers : pc[p] = "startFailed" => owner # p

(* Each Stop runs all the hooks registered when it looked, last first, even *)
(* when hooks fail, others are added meanwhile or a second Stop runs too.   *)
StopRunsHooksInReverse ==
    \A p \in Callers : pc[p] \in {"stopTransport", "stopped", "stopOk"} =>
        executed[p] = Reverse(hooks[p])

(* When a Stop that no Start overlapped returns, the transport is stopped   *)
(* and the phase is Stopped, or Stopping if another Stop is under way.      *)
StopIsFinal ==
    \A p \in alone : pc[p] = "stopOk" =>
        /\ owner = Nobody
        /\ phase = "stopped" \/ (phase = "stopping" /\ InStop # {})

(* As long as nobody calls Start during another call or on a running        *)
(* server, nor Stop during a Start, the phase tells whether the transport   *)
(* runs whenever no call is under way (a blocking transport has stopped by  *)
(* the time Start sets the phase to Running).                               *)
PhaseMatchesTransport ==
    orderly /\ transport # "blocking" /\ InStart = {} /\ InStop = {} =>
        (phase = "running" <=> owner # Nobody)

(* A Start that fails leaves no transport behind, a Stop that ran alone is  *)
(* complete, and the phase tells whether the transport runs, as long as the *)
(* calls come in order (server/server.go, Start and Stop).                  *)
PhaseTellsOfTransport ==
    TypeOK /\ FailedStartLeavesNoTransport /\ StopIsFinal /\ PhaseMatchesTransport

(* Every Stop returns.                                                      *)
EveryStopReturns == \A p \in Callers : pc[p] = "stopping" ~> pc[p] = "stopOk"

(* "WaitForShutdown waits for the server to be stopped"                     *)
(* (server/server.go:746): it does not return while the transport serves.   *)
WaitedMeansStopped == [][WaitForShutdownReturns => owner = Nobody]_vars
=============================================================================
