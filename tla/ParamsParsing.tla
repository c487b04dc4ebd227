--------------------------- MODULE ParamsParsing ---------------------------
(***************************************************************************)
(* The parameters of a request are bound to the fields of a Go struct:     *)
(* FlexibleParseParams, FlexibleUnmarshal and mapToStruct of               *)
(* protocol/types.go with the conversions and limits of                    *)
(* protocol/flexible_parsing.go.                                           *)
(*                                                                         *)
(* A key is a name with its spelling, <<name, spelling>>: two keys fold to *)
(* one another if they have the same name.  A value is [kind, size,        *)
(* negative], where the size is a length, or whether a number exceeds the  *)
(* range of int64.  A source maps keys to values; a field has a key and a  *)
(* kind.  Go ranges over a map in any order: an operator that does returns *)
(* the set of its possible results.                                        *)
(***************************************************************************)
EXTENDS Integers, FiniteSets, Functions

CONSTANTS MaxStringLength, MaxSliceLength, MaxMapSize

Nil == [kind |-> "nil", size |-> 0, negative |-> FALSE]
Unset == [Nil EXCEPT !.kind = "unset"]
Failed == [Nil EXCEPT !.kind = "error"]
Error == [x \in {} |-> Failed]          \* the call fails

EqualFold(k, l) == k[1] = l[1]

Numbers == {"int", "uint", "float"}

ValidateSize(kind, v) ==
    CASE kind = "string" -> v.size <= MaxStringLength
      [] kind = "map" -> v.kind = "map" => v.size <= MaxMapSize
      [] kind = "slice" -> v.kind = "slice" => v.size <= MaxSliceLength
      [] OTHER -> TRUE

\* A uint above the range of int64 is refused; a float is cut down to an
\* integer, whatever it is.  No negative number becomes unsigned.
ConvertNumber(kind, v) ==
    CASE kind = "int" -> v.kind \in Numbers /\ (v.kind = "uint" => v.size = 0)
      [] kind = "uint" -> v.kind \in Numbers /\ ~v.negative
      [] kind = "float" -> v.kind \in Numbers
      [] OTHER -> FALSE

\* What a field holds after its value has been set.  A value of the field's
\* own type is assigned as it is, before any limit is looked at; a map or a
\* slice here has elements of another type than the field's.
SetFieldValue(field, v) ==
    CASE v.kind = "nil" -> Unset
      [] v.kind = field.kind /\ v.kind \notin {"map", "slice", "nil"} -> v
      [] OTHER ->
            IF ~ValidateSize(field.kind, v) THEN Failed
            ELSE CASE field.kind = "string" -> [v EXCEPT !.kind = "string"]
                   [] field.kind \in Numbers /\ ConvertNumber(field.kind, v) ->
                         [v EXCEPT !.kind = field.kind]
                   [] field.kind \in {"map", "slice"} /\ v.kind = field.kind -> v
                   [] OTHER -> Failed

\* Mutant of Candidates: only the exact key counts.
CandidatesExact(source, key) == IF key \in DOMAIN source THEN {source[key]} ELSE {}

\* The values a field may be given: that of its own key, or that of any key
\* that folds to it.
Candidates(source, key) ==
    IF key \in DOMAIN source THEN {source[key]}
    ELSE {source[k] : k \in {l \in DOMAIN source : EqualFold(l, key)}}

SetField(source, field) ==
    LET found == Candidates(source, field.key)
    IN  IF found = {} THEN {Unset} ELSE {SetFieldValue(field, v) : v \in found}

\* Each field on its own; one that fails makes the whole call fail.
MapToStruct(source, fields) ==
    LET choices == {f \in [fields -> UNION {SetField(source, x) : x \in fields}] :
                       \A x \in fields : f[x] \in SetField(source, x)}
    IN  {IF \E x \in fields : f[x] = Failed THEN Error ELSE f : f \in choices}

\* The library's Unmarshal wants values of the fields' kinds; of all keys that
\* fold to a field's the last in the text counts.  When it fails the keys are
\* matched again.
FlexibleUnmarshal(source, fields) ==
    LET rivals(x) == {source[l] : l \in {k \in DOMAIN source : EqualFold(k, x.key)}}
        value(x, v) == IF v = Nil THEN Unset ELSE v
        choices(x) == IF rivals(x) = {} THEN {Unset} ELSE {value(x, v) : v \in rivals(x)}
    IN  IF \A x \in fields : \A v \in rivals(x) : v.kind \in {x.kind, "nil"}
        THEN {f \in [fields -> UNION {choices(x) : x \in fields}] :
                 \A x \in fields : f[x] \in choices(x)}
        ELSE MapToStruct(source, fields)

\* Bytes and strings are unmarshalled, maps bound directly; no parameters at
\* all leave the struct as it was.
FlexibleParseParams(form, source, fields) ==
    CASE form = "nil" -> {[x \in fields |-> Unset]}
      [] form = "map" -> MapToStruct(source, fields)
      [] OTHER -> FlexibleUnmarshal(source, fields)

ValidateAndParseParams(form, source, fields, required) ==
    LET missing == IF form = "nil" THEN required
                   ELSE {k \in required : ~\E l \in DOMAIN source : EqualFold(l, k)}
    IN  IF missing # {} THEN {Error} ELSE FlexibleParseParams(form, source, fields)

-----------------------------------------------------------------------------

(* Required parameters that pass the check are bound: the check folds case, *)
(* and so does the binding.  Only a null satisfies the check and leaves its *)
(* field alone.  The result is one, whatever the map's order, unless        *)
(* spellings of a key compete; of a map the exact one always wins.          *)
RequiredParametersBound(form, source, fields, required) ==
    LET results == ValidateAndParseParams(form, source, fields, required)
        rivals(x) == {l \in DOMAIN source : EqualFold(l, x.key)}
    IN  /\ results # {}
        /\ \A f \in results \ {Error} : \A x \in fields :
              x.key \in required /\ f[x] = Unset =>
                  \E l \in rivals(x) : source[l] = Nil
        /\ (\A x \in fields : \/ x.key \in DOMAIN source /\ form = "map"
                             \/ Cardinality(rivals(x)) <= 1)
              => Cardinality(results) = 1
=============================================================================
