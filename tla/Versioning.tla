----------------------------- MODULE Versioning -----------------------------
(***************************************************************************)
(* versioning.VersionManager, VersionRouter and JSONRPCVersioning          *)
(* (versioning/versioning.go): which version a request asks for, whether   *)
(* it is accepted, and which handler serves it.  A version in a request is *)
(* a sequence of parts: numbers, or BadPart for what is no number; the     *)
(* empty sequence is a version that is not given.                          *)
(***************************************************************************)
EXTENDS Integers, Sequences

Version == [major : Nat, minor : Nat, patch : Nat]
BadPart == -1
Invalid == [major |-> -1, minor |-> -1, patch |-> -1]
NoHandler == "none"

IsCompatibleWith(v, other) == v.major = other.major /\ v.minor >= other.minor

Compare(v, w) ==
    LET sign(a, b) == IF a < b THEN -1 ELSE 1
    IN  CASE v.major # w.major -> sign(v.major, w.major)
          [] v.major = w.major /\ v.minor # w.minor -> sign(v.minor, w.minor)
          [] v.major = w.major /\ v.minor = w.minor /\ v.patch # w.patch ->
                sign(v.patch, w.patch)
          [] OTHER -> 0

\* Parts after the third are not looked at.
ParseVersion(parts) ==
    LET part(i) == IF Len(parts) >= i THEN parts[i] ELSE 0
    IN  IF \E i \in 1..3 : part(i) = BadPart THEN Invalid
        ELSE [major |-> part(1), minor |-> part(2), patch |-> part(3)]

\* In a path or a content type the pattern does not match what is no number,
\* or has more than three parts: such a request gets the default version.
MatchVersion(config, parts) ==
    IF parts = <<>> \/ Len(parts) > 3 \/ \E i \in DOMAIN parts : parts[i] = BadPart
    THEN config.default ELSE ParseVersion(parts)

ExtractVersion(config, parts) ==
    CASE config.strategy \in {"header", "query"} ->
            IF parts = <<>> THEN config.default ELSE ParseVersion(parts)
      [] config.strategy \in {"path", "content-type"} -> MatchVersion(config, parts)
      [] OTHER -> config.default

ValidateVersion(config, v) ==
    \/ \E s \in config.supported : IsCompatibleWith(v, s)
    \/ ~config.strict

IsDeprecated(config, v) == \E d \in config.deprecated : Compare(v, d) = 0

SetVersionHeaders(config, v) ==
    IF ~config.headers THEN [version |-> Invalid, supported |-> {}, warning |-> FALSE]
    ELSE [version |-> v, supported |-> config.supported,
          warning |-> IsDeprecated(config, v)]

\* What the middleware makes of a request: a status, or the call of the next
\* handler with the version in its context and the headers set.
Middleware(config, parts) ==
    LET v == ExtractVersion(config, parts)
    IN  CASE v = Invalid -> [status |-> 400]
          [] v # Invalid /\ ~ValidateVersion(config, v) -> [status |-> 406]
          [] OTHER -> [status |-> 200, context |-> v, headers |-> SetVersionHeaders(config, v)]

\* A router's handlers are stored by version: the last one added for it.
AddHandler(handlers, v, h) ==
    [w \in DOMAIN handlers \cup {v} |-> IF w = v THEN h ELSE handlers[w]]

\* Mutant of FindCompatibleHandler: the first compatible one will do.
FindAnyCompatibleHandler(handlers, v) ==
    LET compatible == {w \in DOMAIN handlers : IsCompatibleWith(v, w)}
    IN  IF compatible = {} THEN NoHandler
        ELSE handlers[CHOOSE w \in compatible : \A u \in compatible : Compare(w, u) <= 0]

\* The requested version itself, else the highest it is compatible with.
FindCompatibleHandler(handlers, v) ==
    LET compatible == {w \in DOMAIN handlers : IsCompatibleWith(v, w)}
        best == CHOOSE w \in compatible : \A u \in compatible : Compare(w, u) >= 0
    IN  CASE v \in DOMAIN handlers -> handlers[v]
          [] v \notin DOMAIN handlers /\ compatible # {} -> handlers[best]
          [] OTHER -> NoHandler

ServeHTTP(config, handlers, default, parts) ==
    LET v == ExtractVersion(config, parts)
        found == FindCompatibleHandler(handlers, v)
        h == IF found = NoHandler THEN default ELSE found
    IN  CASE v = Invalid -> [status |-> 400]
          [] v # Invalid /\ h = NoHandler -> [status |-> 501]
          [] OTHER -> [status |-> 200, handler |-> h, context |-> v,
                       headers |-> SetVersionHeaders(config, v)]

\* A request without an apiVersion is passed on as it is.
WrapHandler(config, parts) ==
    LET v == ParseVersion(parts)
    IN  CASE parts = <<>> -> [called |-> TRUE, context |-> Invalid]
          [] parts # <<>> /\ v = Invalid -> [called |-> FALSE]
          [] parts # <<>> /\ v # Invalid /\ ~ValidateVersion(config, v) -> [called |-> FALSE]
          [] OTHER -> [called |-> TRUE, context |-> v]

-----------------------------------------------------------------------------

(* The handler that serves a request was registered for the version asked   *)
(* for or, if there is none, for the closest earlier minor version of the   *)
(* same major version; one without such a handler goes to the default.      *)
(* Behind the strict middleware a router whose handlers are the supported   *)
(* versions always finds one.                                               *)
ClosestHandlerServes(config, handlers, default, parts) ==
    LET v == ExtractVersion(config, parts)
        served == ServeHTTP(config, handlers, default, parts)
        earlier(w) == w.major = v.major /\ w.minor <= v.minor
        later(w, u) == w.minor > u.minor \/ (w.minor = u.minor /\ w.patch > u.patch)
    IN  /\ served.status = 200 =>
              \/ \E w \in DOMAIN handlers :
                    /\ handlers[w] = served.handler
                    /\ \/ w = v
                       \/ /\ earlier(w) /\ v \notin DOMAIN handlers
                          /\ \A u \in DOMAIN handlers : earlier(u) => ~later(u, w)
              \/ /\ served.handler = default
                 /\ ~\E w \in DOMAIN handlers : earlier(w)
        /\ served.status = 501 => default = NoHandler
        /\ (config.strict /\ config.supported = DOMAIN handlers
              /\ Middleware(config, parts).status = 200) => served.status = 200
=============================================================================
