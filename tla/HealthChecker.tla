--------------------------- MODULE HealthChecker ---------------------------
(***************************************************************************)
(* health.HealthChecker (health/health.go): CheckHealth runs a copy of the *)
(* registered checks, each in a goroutine of its own that stores its       *)
(* result in h.results under the lock and then in the results of the call  *)
(* without one; the overall status is taken from h.results, which requests *)
(* running at the same time share, and which UnregisterCheck trims while   *)
(* checks are still running.                                               *)
(*                                                                         *)
(* Two goroutines that write a call's results at once race: the Go runtime *)
(* may stop the program with "concurrent map writes", or it may go well.   *)
(***************************************************************************)
EXTENDS Integers, FiniteSets, Functions

CONSTANTS Checks,             \* names of checks
          Calls,              \* calls of CheckHealth, by readiness and health requests
          MaxChanges          \* bound: registrations and removals

VARIABLES checks,             \* registered names
          results,            \* h.results: from names to statuses
          call,               \* of each call: what it does and its own results
          task,               \* of each call and check: its goroutine
          crashed,
          changes,            \* registrations and removals so far
          alone,              \* calls that nothing has come between
          revivable           \* checks removed while a goroutine was running them

vars == <<checks, results, call, task, crashed, changes, alone, revivable>>
ghosts == <<alone, revivable>>

Statuses == {"healthy", "degraded", "unhealthy"}
NoCall == [pc |-> "new", running |-> {}, results |-> <<>>, verdict |-> "healthy"]

TypeOK ==
    /\ checks \subseteq Checks /\ changes \in 0..MaxChanges /\ crashed \in BOOLEAN
    /\ DOMAIN results \subseteq Checks /\ Range(results) \subseteq Statuses
    /\ \A c \in Calls : /\ call[c].pc \in {"new", "checking", "done"}
                        /\ call[c].running \subseteq Checks
                        /\ Range(call[c].results) \subseteq Statuses
    /\ task \in [Calls \X Checks -> [pc: {"off", "run", "store", "write"}, status: Statuses]]
    /\ alone \subseteq Calls /\ revivable \subseteq Checks

Init ==
    /\ checks = {} /\ results = <<>> /\ alone = {} /\ revivable = {}
    /\ call = [c \in Calls |-> NoCall]
    /\ task = [t \in Calls \X Checks |-> [pc |-> "off", status |-> "healthy"]]
    /\ crashed = FALSE /\ changes = 0

Running(n) == \E c \in Calls : task[<<c, n>>].pc \in {"run", "store"}
Put(f, n, v) == [m \in DOMAIN f \cup {n} |-> IF m = n THEN v ELSE f[m]]

----------------------------------------------------------------------------
RegisterCheck(n) ==
    /\ changes < MaxChanges /\ changes' = changes + 1
    /\ checks' = checks \cup {n} /\ alone' = {}
    /\ UNCHANGED <<results, call, task, crashed, revivable>>

\* Mutant of UnregisterCheck: the check's result stays.
UnregisterCheckOnly(n) ==
    /\ changes < MaxChanges /\ changes' = changes + 1
    /\ checks' = checks \ {n} /\ alone' = {}
    /\ revivable' = IF Running(n) THEN revivable \cup {n} ELSE revivable \ {n}
    /\ UNCHANGED <<results, call, task, crashed>>

UnregisterCheck(n) ==
    /\ changes < MaxChanges /\ changes' = changes + 1
    /\ checks' = checks \ {n} /\ results' = Restrict(results, DOMAIN results \ {n})
    /\ alone' = {}
    /\ revivable' = IF Running(n) THEN revivable \cup {n} ELSE revivable \ {n}
    /\ UNCHANGED <<call, task, crashed>>

CheckHealth(c) ==
    /\ call[c].pc = "new"
    /\ call' = [call EXCEPT ![c] = [NoCall EXCEPT !.pc = "checking", !.running = checks]]
    /\ task' = [t \in Calls \X Checks |-> IF t[1] = c /\ t[2] \in checks
                                          THEN [task[t] EXCEPT !.pc = "run"] ELSE task[t]]
    /\ alone' = {d \in {c} : \A e \in Calls : call[e].pc # "checking"}
    /\ UNCHANGED <<checks, results, crashed, changes, revivable>>

\* A check returns in time, as its context has a timeout.
Checked(c, n) ==
    /\ task[<<c, n>>].pc = "run"
    /\ \E s \in Statuses : task' = [task EXCEPT ![<<c, n>>] = [pc |-> "store", status |-> s]]
    /\ UNCHANGED <<checks, results, call, crashed, changes, ghosts>>

\* The name may have been removed by now.
StoreResult(c, n) ==
    /\ task[<<c, n>>].pc = "store"
    /\ results' = Put(results, n, task[<<c, n>>].status)
    /\ task' = [task EXCEPT ![<<c, n>>].pc = "write"]
    /\ UNCHANGED <<checks, call, crashed, changes, ghosts>>

WriteResult(c, n) ==
    /\ task[<<c, n>>].pc = "write"
    /\ call' = [call EXCEPT ![c].results = Put(@, n, task[<<c, n>>].status),
                            ![c].running = @ \ {n}]
    /\ task' = [task EXCEPT ![<<c, n>>].pc = "off"]
    /\ crashed' \in {FALSE} \cup {\E m \in Checks \ {n} : task[<<c, m>>].pc = "write"}
    /\ UNCHANGED <<checks, results, changes, ghosts>>

Worst(of) ==
    IF "unhealthy" \in of THEN "unhealthy" ELSE IF "degraded" \in of THEN "degraded" ELSE "healthy"

\* The worst of the results there are.
GetOverallStatus == Worst(Range(results))

\* wg.Wait; the request then reads the overall status and answers.
Answer(c) ==
    /\ call[c].pc = "checking" /\ call[c].running = {}
    /\ call' = [call EXCEPT ![c].pc = "done", ![c].verdict = GetOverallStatus]
    /\ UNCHANGED <<checks, results, task, crashed, changes, ghosts>>

Next ==
    /\ ~crashed
    /\ \/ \E n \in Checks : RegisterCheck(n) \/ UnregisterCheck(n)
       \/ \E c \in Calls : CheckHealth(c) \/ Answer(c)
       \/ \E c \in Calls, n \in Checks : Checked(c, n) \/ StoreResult(c, n) \/ WriteResult(c, n)

Spec == Init /\ [][Next]_vars

----------------------------------------------------------------------------
\* The results kept are of registered checks, but for those removed while they
\* were running, whose results come back; and a request answers by its own
\* results when nothing has come between (CheckHealth, UnregisterCheck).
StatusReflectsChecks ==
    /\ TypeOK
    /\ DOMAIN results \subseteq checks \cup revivable
    /\ \A c \in alone : call[c].pc = "done" /\ revivable = {} =>
          call[c].verdict = Worst(Range(call[c].results))
=============================================================================
