----------------------------- MODULE JSONCodec -----------------------------
(***************************************************************************)
(* protocol.OptimizedJSONCodec's own writing of messages                   *)
(* (protocol/json_optimized.go): marshalRequest, marshalResponse,          *)
(* marshalError, itoa and escapeString.  Text is a sequence of classes of  *)
(* characters; integers wrap around beyond MaxInt.  Values that are left   *)
(* to encoding/json come back as they went in.                             *)
(***************************************************************************)
EXTENDS Integers, Sequences

CONSTANT MaxInt                         \* the greatest int: 2^63 - 1 of 64 bits

MinInt == -MaxInt - 1
Absent == "absent"

Minus == -1

\* i = -i, in two's complement.
Negate(i) == IF i = MinInt THEN MinInt ELSE -i

Digits[n \in Nat] == IF n = 0 THEN <<>> ELSE Append(Digits[n \div 10], n % 10)

\* The loop runs while the number is positive.
Itoa(i) ==
    LET n == IF i < 0 THEN Negate(i) ELSE i
        digits == IF n > 0 THEN Digits[n] ELSE <<>>
    IN  IF i = 0 THEN <<0>> ELSE (IF i < 0 THEN <<Minus>> ELSE <<>>) \o digits

Named == {"quote", "backslash", "newline", "return", "tab"}
Characters == Named \cup {"control", "plain"}

EscapeCharacter(c) ==
    CASE c \in Named -> <<"\\", c>>
      [] c = "control" -> <<"\\", "u", c>>
      [] OTHER -> <<c>>

\* escaped[n] is the text of the first n characters.
EscapeString(s) ==
    LET escaped[n \in 0..Len(s)] ==
            IF n = 0 THEN <<>> ELSE escaped[n - 1] \o EscapeCharacter(s[n])
    IN  escaped[Len(s)]

Field(name, value) == IF value = Absent THEN <<>> ELSE <<<<name, value>>>>

\* Each writes its fields in a fixed order; the method is not escaped.
MarshalError(e) ==
    <<<<"code", Itoa(e.code)>>, <<"message", EscapeString(e.message)>>>> \o Field("data", e.data)

MarshalRequest(r) ==
    Field("id", r.id) \o <<<<"method", r.method>>>> \o Field("params", r.params)

\* An error hides a result; a response with neither has no third field.
MarshalResponse(r) ==
    Field("id", r.id) \o (IF r.error # Absent THEN Field("error", r.error)
                                              ELSE Field("result", r.result))

-----------------------------------------------------------------------------
\* What a JSON reader makes of a string and of a number.

ReadCharacter(state, c) ==
    CASE state.mode = "plain" /\ c = "\\" -> [state EXCEPT !.mode = "escape"]
      [] state.mode = "plain" /\ c = "plain" -> [state EXCEPT !.got = Append(@, c)]
      [] state.mode = "escape" /\ c = "u" -> [state EXCEPT !.mode = "code"]
      [] \/ state.mode = "escape" /\ c \in Named
         \/ state.mode = "code" /\ c = "control" ->
            [mode |-> "plain", got |-> Append(state.got, c)]
      [] OTHER -> [state EXCEPT !.mode = "bad"]

\* read[n] is what the reader has made of the first n characters.
ReadString(text) ==
    LET read[n \in 0..Len(text)] ==
            IF n = 0 THEN [mode |-> "plain", got |-> <<>>]
            ELSE ReadCharacter(read[n - 1], text[n])
    IN  read[Len(text)]

NumberOf(digits) ==
    LET value[n \in 0..Len(digits)] ==
            IF n = 0 THEN 0 ELSE 10 * value[n - 1] + digits[n]
    IN  value[Len(digits)]

ReadNumber(text) == IF text[1] = Minus THEN -NumberOf(Tail(text)) ELSE NumberOf(text)

(* An error that is marshalled and read again has its code, unless that is  *)
(* the least integer, whose sign alone is written, and its message.         *)
MarshalledErrorsRead(e) ==
    LET fields == MarshalError(e)
        message == ReadString(fields[2][2])
    IN  /\ IF e.code = MinInt THEN fields[1][2] = <<Minus>>
                              ELSE ReadNumber(fields[1][2]) = e.code
        /\ message.mode = "plain" /\ message.got = e.message
=============================================================================
