-------------------------- MODULE MiddlewareChain --------------------------
(***************************************************************************)
(* server.Pipeline and the middlewares of server/middleware.go with the    *)
(* error wrapper of middleware/error.go: a request goes down a chain to    *)
(* its handler and the outcome, which may be a panic, comes up again.      *)
(* TimeoutMiddleware runs the rest of the chain in a goroutine of its own  *)
(* and waits for its result or for the deadline; a panic that reaches the  *)
(* bottom of that goroutine ends the process.                              *)
(***************************************************************************)
EXTENDS Integers, Sequences, FiniteSets, SequencesExt

CONSTANTS Requests,
          Chains              \* sequences of the middlewares below

Middlewares == {"recovery", "timeout", "auth", "logging", "metrics", "jsonrpc"}

VARIABLES chain,              \* of each request
          at,                 \* per request and goroutine: place in the chain
          mode,               \* idle, down, wait, up, done
          out,                \* what comes up
          sent,               \* the result in TimeoutMiddleware's channel
          ran,                \* times the handler was called
          ended,              \* how the handler ended
          counted,            \* requests MetricsMiddleware has counted
          crashed             \* the process has ended

vars == <<chain, at, mode, out, sent, ran, ended, counted, crashed>>

Goroutines == {"caller", "worker"}
Failures == {"error", "unauthorized", "internal error", "timeout", "nil"}
Outcomes == {"none", "ok", "panic"} \cup Failures
TimeoutAt(r) == SelectInSeq(chain[r], LAMBDA m : m = "timeout")
Base(r, g) == IF g = "caller" THEN 0 ELSE TimeoutAt(r)
Deepest(r) == Len(chain[r]) + 1

TypeOK ==
    /\ chain \in [Requests -> Chains]
    /\ \A r \in Requests, g \in Goroutines :
          /\ at[r][g] \in 0..Deepest(r)
          /\ mode[r][g] \in {"idle", "down", "wait", "up", "done"}
          /\ out[r][g] \in Outcomes
    /\ sent \in [Requests -> Outcomes] /\ ended \in [Requests -> Outcomes]
    /\ counted \subseteq Requests /\ crashed \in BOOLEAN

PerGoroutine(x, y) == [r \in Requests |-> [g \in Goroutines |->
                          IF g = "caller" THEN x ELSE y]]
Init ==
    /\ chain \in [Requests -> Chains]
    /\ at = PerGoroutine(1, 0)
    /\ mode = PerGoroutine("down", "idle")
    /\ out = PerGoroutine("none", "none")
    /\ sent = [r \in Requests |-> "none"]
    /\ ran = [r \in Requests |-> 0]
    /\ ended = [r \in Requests |-> "none"]
    /\ counted = {} /\ crashed = FALSE

Going(r, g, m) == mode[r][g] = m /\ ~crashed
Below(r, g) == IF at[r][g] = Deepest(r) THEN "handler" ELSE chain[r][at[r][g]]
Down(r, g) == at' = [at EXCEPT ![r][g] = @ + 1] /\ UNCHANGED <<mode, out>>
TurnUp(r, g, o) ==
    /\ mode' = [mode EXCEPT ![r][g] = "up"]
    /\ out' = [out EXCEPT ![r][g] = o]
    /\ at' = [at EXCEPT ![r][g] = @ - 1]

-----------------------------------------------------------------------------
\* Down the chain

\* recovery, logging, metrics and the error wrapper just call the next.
PassDown(r, g) ==
    /\ Going(r, g, "down") /\ Below(r, g) \in {"recovery", "logging", "metrics", "jsonrpc"}
    /\ Down(r, g)
    /\ UNCHANGED <<chain, sent, ran, ended, counted, crashed>>

Authorize(r, g, ok) ==
    /\ Going(r, g, "down") /\ Below(r, g) = "auth"
    /\ IF ok THEN Down(r, g) ELSE TurnUp(r, g, "unauthorized")
    /\ UNCHANGED <<chain, sent, ran, ended, counted, crashed>>

SpawnWorker(r) ==
    /\ Going(r, "caller", "down") /\ Below(r, "caller") = "timeout"
    /\ mode' = [mode EXCEPT ![r] = [caller |-> "wait", worker |-> "down"]]
    /\ at' = [at EXCEPT ![r].worker = TimeoutAt(r) + 1]
    /\ UNCHANGED <<chain, out, sent, ran, ended, counted, crashed>>

\* The handler is called; it may also never come back.
CallHandler(r, g, o) ==
    /\ Going(r, g, "down") /\ Below(r, g) = "handler"
    /\ o \in {"ok", "error", "panic"}
    /\ ran' = [ran EXCEPT ![r] = @ + 1]
    /\ ended' = [ended EXCEPT ![r] = o]
    /\ TurnUp(r, g, o)
    /\ UNCHANGED <<chain, sent, counted, crashed>>

-----------------------------------------------------------------------------
\* Up the chain

Up(r, g, o) ==
    /\ out' = [out EXCEPT ![r][g] = o]
    /\ at' = [at EXCEPT ![r][g] = @ - 1]
    /\ UNCHANGED mode

\* Mutant of PassUp: the recovery passes a panic on.
PassUpUnrecovered(r, g) ==
    /\ Going(r, g, "up") /\ at[r][g] > Base(r, g)
    /\ counted' = IF Below(r, g) = "metrics" THEN counted \cup {r} ELSE counted
    /\ Up(r, g, out[r][g])
    /\ UNCHANGED <<chain, sent, ran, ended, crashed>>

\* What each middleware makes of an outcome.  The wrapper's result is not
\* named, so a panic it recovers from leaves the caller with nil, and so does
\* a nil it looks into.
Above(m, o) ==
    CASE m = "recovery" /\ o = "panic" -> "internal error"
      [] m = "jsonrpc" /\ o = "panic" -> "nil"
      [] OTHER -> o

PassUp(r, g) ==
    /\ Going(r, g, "up") /\ at[r][g] > Base(r, g)
    /\ counted' = IF Below(r, g) = "metrics" /\ out[r][g] # "panic"
                  THEN counted \cup {r} ELSE counted
    /\ Up(r, g, Above(Below(r, g), out[r][g]))
    /\ UNCHANGED <<chain, sent, ran, ended, crashed>>

\* The worker's goroutine: its result, or a panic that nobody recovers.
WorkerEnds(r) ==
    /\ Going(r, "worker", "up") /\ at[r].worker = Base(r, "worker")
    /\ mode' = [mode EXCEPT ![r].worker = "done"]
    /\ IF out[r].worker = "panic" THEN crashed' = TRUE /\ UNCHANGED sent
       ELSE sent' = [sent EXCEPT ![r] = out[r].worker] /\ UNCHANGED crashed
    /\ UNCHANGED <<chain, at, out, ran, ended, counted>>

ReceiveResult(r) ==
    /\ Going(r, "caller", "wait") /\ sent[r] # "none"
    /\ TurnUp(r, "caller", sent[r])
    /\ UNCHANGED <<chain, sent, ran, ended, counted, crashed>>

\* The deadline passes or the caller's context ends; the worker goes on.
Timeout(r) ==
    /\ Going(r, "caller", "wait")
    /\ TurnUp(r, "caller", "timeout")
    /\ UNCHANGED <<chain, sent, ran, ended, counted, crashed>>

\* Back in the transport, which recovers from panics of its own.
Answer(r) ==
    /\ Going(r, "caller", "up") /\ at[r].caller = 0
    /\ mode' = [mode EXCEPT ![r].caller = "done"]
    /\ UNCHANGED <<chain, at, out, sent, ran, ended, counted, crashed>>

Step(r, g) ==
    \/ PassDown(r, g) \/ PassUp(r, g)
    \/ \E ok \in BOOLEAN : Authorize(r, g, ok)

Next ==
    \E r \in Requests :
        \/ \E g \in Goroutines : Step(r, g) \/ \E o \in Outcomes : CallHandler(r, g, o)
        \/ SpawnWorker(r) \/ WorkerEnds(r) \/ ReceiveResult(r) \/ Timeout(r) \/ Answer(r)

Spec == Init /\ [][Next]_vars

\* Handlers may hang; timers fire and goroutines run.
Fairness ==
    \A r \in Requests :
        /\ \A g \in Goroutines : WF_vars(Step(r, g))
        /\ WF_vars(SpawnWorker(r)) /\ WF_vars(WorkerEnds(r))
        /\ WF_vars(ReceiveResult(r) \/ Timeout(r)) /\ WF_vars(Answer(r))

-----------------------------------------------------------------------------
\* Properties

Position(r, m) == SelectInSeq(chain[r], LAMBDA x : x = m)
Inside(r, m) == \* m stands between the worker's base and the handler
    \E i \in (TimeoutAt(r) + 1)..Len(chain[r]) : chain[r][i] = m

(* A panic of a handler ends the process only where a timeout stands in the *)
(* chain and neither the recovery nor the error wrapper comes after it; a   *)
(* handler runs at most once and, behind the authentication, only for       *)
(* requests that passed it; an answer that is not a timeout is the          *)
(* handler's own, even when an abandoned handler ends later.                *)
ChainKeepsItsPromises ==
    /\ crashed => \E r \in Requests : /\ ended[r] = "panic" /\ TimeoutAt(r) # 0
                                      /\ ~Inside(r, "recovery") /\ ~Inside(r, "jsonrpc")
    /\ \A r \in Requests :
          LET answer == out[r].caller
          IN  /\ ran[r] <= 1
              /\ mode[r].caller = "done" =>
                    /\ answer = "unauthorized" => ran[r] = 0
                    /\ answer \in {"ok", "error"} => ended[r] = answer
                    /\ answer \in {"internal error", "nil"} => ended[r] = "panic"
                    /\ answer = "panic" => Position(r, "recovery") = 0
                    /\ answer = "nil" => Position(r, "jsonrpc") # 0

(* With a timeout in its chain a request is answered even if its handler    *)
(* hangs, unless the process has ended.                                     *)
TimeoutAnswers ==
    \A r \in Requests :
        TimeoutAt(r) # 0 /\ mode[r].caller = "wait" ~> mode[r].caller = "done" \/ crashed
=============================================================================
