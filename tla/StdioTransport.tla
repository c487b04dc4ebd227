--------------------------- MODULE StdioTransport ---------------------------
(***************************************************************************)
(* The stdio transport (transport/stdio.go): a Start whose loop takes lines *)
(* from a channel that a scanner goroutine of its own fills, answers them  *)
(* one at a time, and returns at the end of the input, on an error or when *)
(* its context is done.  Stop only clears the running flag.                *)
(*                                                                         *)
(* The scanner goroutine outlives a Start whose context was cancelled, as  *)
(* it waits in Scan; and a Start is possible again as soon as the flag is  *)
(* clear.  The scanners then share t.scanner unguarded: here each line     *)
(* goes to one of them, the least that can happen.  The handler returns.   *)
(***************************************************************************)
EXTENDS Integers, FiniteSets, Sequences, SequencesExt

CONSTANTS Lines,              \* lines of input
          ScanBuffer,         \* capacity of the channel from the scanner
          MaxStarts           \* bound: calls of Start

VARIABLES kind,               \* what each line holds, and how the input ends
          read,               \* lines scanned so far
          running,            \* t.running
          loop,               \* of each Start
          scanner,            \* the scanner goroutine of each
          scanChan, cancelled,
          output,             \* the answers written: line numbers
          overlapped          \* two loops have run at once

vars == <<kind, read, running, loop, scanner, scanChan, cancelled, output, overlapped>>

Starts == 1..MaxStarts
Kinds == {"request", "notification", "blank", "garbage", "response"}
Answered == {"request", "garbage"}
Failed == 0                   \* in a channel, the scanner's error

Inputs == [line: [1..Lines -> Kinds], end: {"eof", "error"}]

TypeOK ==
    /\ kind \in Inputs
    /\ read \in 0..Lines /\ running \in BOOLEAN /\ overlapped \in BOOLEAN
    /\ \A s \in Starts :
          /\ loop[s] \in {"new", "select", "eof", "error", "cancelled"}
          /\ scanner[s].pc \in {"new", "scan", "send", "fail", "closed", "gone"}
          /\ scanner[s].line \in 0..Lines
          /\ Len(scanChan[s]) <= ScanBuffer
    /\ cancelled \subseteq Starts
    /\ Range(output) \subseteq 1..Lines

Init ==
    /\ kind \in Inputs
    /\ read = 0 /\ running = FALSE
    /\ loop = [s \in Starts |-> "new"]
    /\ scanner = [s \in Starts |-> [pc |-> "new", line |-> 0]]
    /\ scanChan = [s \in Starts |-> <<>>] /\ cancelled = {}
    /\ output = <<>> /\ overlapped = FALSE

----------------------------------------------------------------------------
Start(s) ==
    /\ loop[s] = "new" /\ \A t \in 1..(s - 1) : loop[t] # "new"
    /\ ~running                                   \* already running
    /\ running' = TRUE
    /\ loop' = [loop EXCEPT ![s] = "select"]
    /\ scanner' = [scanner EXCEPT ![s].pc = "scan"]
    /\ overlapped' = (overlapped \/ \E t \in Starts : loop[t] = "select")
    /\ UNCHANGED <<kind, read, scanChan, cancelled, output>>

Stop ==
    /\ running' = FALSE
    /\ UNCHANGED <<kind, read, loop, scanner, scanChan, cancelled, output, overlapped>>

Cancel(s) ==
    /\ loop[s] # "new" /\ s \notin cancelled
    /\ cancelled' = cancelled \cup {s}
    /\ UNCHANGED <<kind, read, running, loop, scanner, scanChan, output, overlapped>>

----------------------------------------------------------------------------
(* The scanner goroutine of a Start.                                       *)

Scan(s) ==
    /\ scanner[s].pc = "scan"
    /\ IF read < Lines
         THEN /\ read' = read + 1
              /\ scanner' = [scanner EXCEPT ![s] = [pc |-> "send", line |-> read + 1]]
         ELSE /\ scanner' = [scanner EXCEPT ![s].pc = IF kind.end = "error" THEN "fail" ELSE "closed"]
              /\ UNCHANGED read
    /\ UNCHANGED <<kind, running, loop, scanChan, cancelled, output, overlapped>>

\* A line is sent, or dropped with the goroutine when the context is done.
SendLine(s) ==
    /\ scanner[s].pc = "send"
    /\ \/ /\ Len(scanChan[s]) < ScanBuffer
          /\ scanChan' = [scanChan EXCEPT ![s] = Append(@, scanner[s].line)]
          /\ scanner' = [scanner EXCEPT ![s] = [pc |-> "scan", line |-> 0]]
       \/ /\ s \in cancelled
          /\ scanner' = [scanner EXCEPT ![s] = [pc |-> "gone", line |-> 0]]
          /\ UNCHANGED scanChan
    /\ UNCHANGED <<kind, read, running, loop, cancelled, output, overlapped>>

\* An error is sent whether or not anyone is left to take it.
SendError(s) ==
    /\ scanner[s].pc = "fail" /\ Len(scanChan[s]) < ScanBuffer
    /\ scanChan' = [scanChan EXCEPT ![s] = Append(@, Failed)]
    /\ scanner' = [scanner EXCEPT ![s].pc = "gone"]
    /\ UNCHANGED <<kind, read, running, loop, cancelled, output, overlapped>>

----------------------------------------------------------------------------
(* The loop of a Start.                                                    *)

\* Returning clears the flag, another Start's or not.
Return(s, why) == loop' = [loop EXCEPT ![s] = why] /\ running' = FALSE

\* One line: a request is handled and answered, unless the handler has no
\* answer; a line that does not parse is answered too; the rest is skipped.
HandleLine(s) ==
    /\ loop[s] = "select" /\ scanChan[s] # <<>> /\ Head(scanChan[s]) # Failed
    /\ LET n == Head(scanChan[s])
       IN \/ /\ kind.line[n] \in Answered /\ output' = Append(output, n)
             /\ UNCHANGED <<loop, running>>
          \/ /\ kind.line[n] \in Answered /\ Return(s, "error")    \* writing fails
             /\ UNCHANGED output
          \/ kind.line[n] \notin Answered /\ UNCHANGED <<output, loop, running>>
    /\ scanChan' = [scanChan EXCEPT ![s] = Tail(@)]
    /\ UNCHANGED <<kind, read, scanner, cancelled, overlapped>>

InputFails(s) ==
    /\ loop[s] = "select" /\ scanChan[s] # <<>> /\ Head(scanChan[s]) = Failed
    /\ Return(s, "error") /\ scanChan' = [scanChan EXCEPT ![s] = Tail(@)]
    /\ UNCHANGED <<kind, read, scanner, cancelled, output, overlapped>>

\* Mutant of InputEnds: the end is seen before the lines still in the channel.
InputEndsAtOnce(s) ==
    /\ loop[s] = "select" /\ scanner[s].pc = "closed"
    /\ Return(s, "eof")
    /\ UNCHANGED <<kind, read, scanner, scanChan, cancelled, output, overlapped>>

\* A closed channel gives up what it holds before it shows the end.
InputEnds(s) ==
    /\ loop[s] = "select" /\ scanner[s].pc = "closed" /\ scanChan[s] = <<>>
    /\ Return(s, "eof")
    /\ UNCHANGED <<kind, read, scanner, scanChan, cancelled, output, overlapped>>

ContextDone(s) ==
    /\ loop[s] = "select" /\ s \in cancelled
    /\ Return(s, "cancelled")
    /\ UNCHANGED <<kind, read, scanner, scanChan, cancelled, output, overlapped>>

Loop(s) == HandleLine(s) \/ InputFails(s) \/ InputEnds(s) \/ ContextDone(s)

Next ==
    \/ Stop
    \/ \E s \in Starts : \/ Start(s) \/ Cancel(s)
                         \/ Scan(s) \/ SendLine(s) \/ SendError(s)
                         \/ HandleLine(s) \/ InputFails(s) \/ InputEnds(s) \/ ContextDone(s)

\* The loop is scheduled; whether there is a next line is the input's affair.
Fairness == \A s \in Starts : WF_vars(Loop(s))

Spec == Init /\ [][Next]_vars /\ Fairness

----------------------------------------------------------------------------
\* No line is answered twice and, while one loop runs at a time, none before
\* an earlier one.
AnswersInOrder ==
    /\ \A m, n \in DOMAIN output : m # n => output[m] # output[n]
    /\ ~overlapped => \A m, n \in DOMAIN output : m < n => output[m] < output[n]
    /\ \A n \in DOMAIN output : kind.line[output[n]] \in Answered

\* A Start that was the only one and saw the end of the input has answered
\* every request and every line it could not parse.
EverythingAnswered ==
    loop[1] = "eof" /\ (\A s \in Starts \ {1} : loop[s] = "new") =>
       {n \in 1..Lines : kind.line[n] \in Answered} = Range(output)

\* Lines are answered once, in order and, over a whole input, all of them
\* (Start, its scanner goroutine and sendResponse).
LinesAnswered == TypeOK /\ AnswersInOrder /\ EverythingAnswered

\* A Start whose context is cancelled returns, whatever the input does.
CancelEndsStart ==
    \A s \in Starts : (loop[s] = "select" /\ s \in cancelled) ~> loop[s] # "select"
=============================================================================
