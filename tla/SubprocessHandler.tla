------------------------- MODULE SubprocessHandler -------------------------
(***************************************************************************)
(* SubprocessHandler.Handle (discovery/handler.go): a call writes its      *)
(* request to the subprocess and has a goroutine decode the next answer    *)
(* from its output; the handler's mutex lets one call in at a time.        *)
(*                                                                         *)
(* A call that times out leaves its decoder behind, still reading, and     *)
(* takes the mutex with it no longer: from then on two decoders read the   *)
(* same pipe.  A decoder reads in blocks: it may take more answers than    *)
(* the one it returns, and what it has left over is lost with it.  The     *)
(* subprocess answers its requests in order, some of them late or never.   *)
(***************************************************************************)
EXTENDS Integers, FiniteSets, Sequences, SequencesExt

CONSTANTS Calls               \* calls of Handle

VARIABLES pc,                 \* of each call
          holder,             \* the call that holds h.mutex, or none
          stdin, stdout,      \* requests to, and answers of, the subprocess
          alive,              \* the subprocess runs
          decoder,            \* of each call: what its goroutine is doing
          result,             \* of each call: whose answer it returned
          hasTimeout,         \* h.timeout > 0
          timedOut            \* some call has timed out

vars == <<pc, holder, stdin, stdout, alive, decoder, result, hasTimeout, timedOut>>

None == <<>>
Error == <<"error">>
Of(c) == <<"answer", c>>      \* the answer to call c

TypeOK ==
    /\ pc \in [Calls -> {"new", "locked", "select", "done"}]
    /\ holder \in {None} \cup {<<c>> : c \in Calls}
    /\ Range(stdin) \subseteq Calls /\ Range(stdout) \subseteq Calls
    /\ decoder \in [Calls -> {None, <<"reading">>, Error} \cup {Of(c) : c \in Calls}]
    /\ result \in [Calls -> {None, Error} \cup {Of(c) : c \in Calls}]
    /\ {alive, hasTimeout, timedOut} \subseteq BOOLEAN

Init ==
    /\ pc = [c \in Calls |-> "new"] /\ holder = None
    /\ stdin = <<>> /\ stdout = <<>> /\ alive = TRUE
    /\ decoder = [c \in Calls |-> None] /\ result = [c \in Calls |-> None]
    /\ hasTimeout \in BOOLEAN /\ timedOut = FALSE

----------------------------------------------------------------------------
\* Mutant of Lock: no mutex.
LockNothing(c) ==
    /\ pc[c] = "new" /\ holder' = <<c>>
    /\ pc' = [pc EXCEPT ![c] = "locked"]
    /\ UNCHANGED <<stdin, stdout, alive, decoder, result, hasTimeout, timedOut>>

Lock(c) ==
    /\ pc[c] = "new" /\ holder = None /\ holder' = <<c>>
    /\ pc' = [pc EXCEPT ![c] = "locked"]
    /\ UNCHANGED <<stdin, stdout, alive, decoder, result, hasTimeout, timedOut>>

\* The deferred unlock runs on every way out.
Return(c, r) ==
    /\ pc' = [pc EXCEPT ![c] = "done"] /\ result' = [result EXCEPT ![c] = r]
    /\ holder' = None

\* The pipe of a subprocess that is gone cannot be written to.
SendRequest(c) ==
    /\ pc[c] = "locked"
    /\ IF alive
         THEN /\ stdin' = Append(stdin, c)
              /\ decoder' = [decoder EXCEPT ![c] = <<"reading">>]
              /\ pc' = [pc EXCEPT ![c] = "select"] /\ UNCHANGED <<holder, result>>
         ELSE Return(c, Error) /\ UNCHANGED <<stdin, decoder>>
    /\ UNCHANGED <<stdout, alive, hasTimeout, timedOut>>

\* A decoder takes the first n answers there are and returns the first.
Decode(c) ==
    /\ decoder[c] = <<"reading">>
    /\ IF stdout # <<>>
         THEN \E n \in 1..Len(stdout) :
                 /\ decoder' = [decoder EXCEPT ![c] = Of(Head(stdout))]
                 /\ stdout' = SubSeq(stdout, n + 1, Len(stdout))
         ELSE /\ ~alive /\ decoder' = [decoder EXCEPT ![c] = Error]
              /\ UNCHANGED stdout
    /\ UNCHANGED <<pc, holder, stdin, alive, result, hasTimeout, timedOut>>

Respond(c) ==
    /\ pc[c] = "select" /\ decoder[c] \notin {None, <<"reading">>}
    /\ Return(c, decoder[c])
    /\ UNCHANGED <<stdin, stdout, alive, decoder, hasTimeout, timedOut>>

\* The configured timeout, or the end of the caller's own context.
TimeOut(c) ==
    /\ pc[c] = "select" /\ hasTimeout
    /\ Return(c, Error) /\ timedOut' = TRUE
    /\ UNCHANGED <<stdin, stdout, alive, decoder, hasTimeout>>

Answer ==
    /\ alive /\ stdin # <<>>
    /\ stdin' = Tail(stdin) /\ stdout' = Append(stdout, Head(stdin))
    /\ UNCHANGED <<pc, holder, alive, decoder, result, hasTimeout, timedOut>>

\* The subprocess exits, or UnloadHandler kills it and closes its pipes.
Exit ==
    /\ alive /\ alive' = FALSE /\ stdin' = <<>> /\ stdout' \in {stdout, <<>>}
    /\ UNCHANGED <<pc, holder, decoder, result, hasTimeout, timedOut>>

Next ==
    \/ Answer \/ Exit
    \/ \E c \in Calls : Lock(c) \/ SendRequest(c) \/ Decode(c) \/ Respond(c) \/ TimeOut(c)

Spec == Init /\ [][Next]_vars

----------------------------------------------------------------------------
\* A call returns no other call's answer as long as none has timed out.
OwnAnswers == ~timedOut => \A c \in Calls : result[c] \in {None, Error, Of(c)}

\* No answer is returned twice, however many decoders read the pipe.
AnswersReturnedOnce ==
    \A c, d \in Calls : c # d /\ result[c] = result[d] => result[c] \in {None, Error}

\* Calls and answers are matched (SubprocessHandler.Handle).
CallsMatchAnswers == TypeOK /\ OwnAnswers /\ AnswersReturnedOnce
=============================================================================
