--------------------------- MODULE RESTTransport ---------------------------
(***************************************************************************)
(* The REST compatibility layer (transport/rest.go): its middleware in the *)
(* order a request meets it, the sliding window of its rate limiter, the   *)
(* routes and what they make of a JSON-RPC answer.                         *)
(*                                                                         *)
(* Requests run concurrently.  They read t.handler when they call it and   *)
(* no lock guards it: Start writes it, and ServeHTTP, the way to use the   *)
(* transport without starting it, on every request.  A handler is known    *)
(* by the number of the write.  Stop is HTTPTransport's (HTTPTransport     *)
(* .tla); only that the server takes no more requests matters here.        *)
(* What a request asks for is chosen where the code first looks at it.     *)
(***************************************************************************)
EXTENDS Integers, FiniteSets

CONSTANTS Requests, Clients,
          RateLimit,          \* requests a Window per client, 0 for none
          Window,             \* a minute, in ticks
          MaxClock, MaxHandlers \* bounds: ticks, writes of t.handler

VARIABLES hasKey,             \* an API key is configured
          running,
          handler,            \* t.handler
          admissions,         \* rl.requests: for each client, the requests whose times it holds
          now,
          requests

vars == <<hasKey, running, handler, admissions, now, requests>>

Codes == {"ParseError", "InvalidRequest", "MethodNotFound", "InvalidParams", "InternalError"}
NotArrived == [pc |-> "new", client |-> CHOOSE c \in Clients : TRUE, key |-> FALSE, at |-> 0,
               since |-> 0, by |-> 0, status |-> 0]

TypeOK ==
    /\ hasKey \in BOOLEAN /\ running \in BOOLEAN
    /\ handler \in 0..MaxHandlers /\ now \in 0..MaxClock
    /\ \A c \in Clients : admissions[c] \subseteq {r \in Requests : requests[r].at <= now}
    /\ \A r \in Requests :
          /\ requests[r].pc \in {"new", "limit", "auth", "mux", "handler", "done"}
          /\ requests[r].status \in {0, 200, 400, 401, 404, 405, 429, 500}

Init ==
    /\ hasKey \in BOOLEAN /\ running = FALSE /\ handler = 0 /\ now = 0
    /\ admissions = [c \in Clients |-> {}]
    /\ requests = [r \in Requests |-> NotArrived]

----------------------------------------------------------------------------
\* The handler is replaced before the listener is made, which may fail.
Start ==
    /\ ~running /\ handler < MaxHandlers /\ handler' = handler + 1
    /\ running' \in BOOLEAN
    /\ UNCHANGED <<hasKey, admissions, now, requests>>

Stop ==
    /\ running /\ running' = FALSE
    /\ UNCHANGED <<hasKey, handler, admissions, now, requests>>

Tick ==
    /\ now < MaxClock /\ now' = now + 1
    /\ UNCHANGED <<hasKey, running, handler, admissions, requests>>

\* Logging, first when enabled, passes on; then the limit, then the key.
Arrived(c, key, generation) ==
    [NotArrived EXCEPT !.pc = IF RateLimit > 0 THEN "limit" ELSE "auth",
                       !.client = c, !.key = key, !.since = generation]

Arrive(r, c, key) ==
    /\ running /\ requests[r].pc = "new"
    /\ requests' = [requests EXCEPT ![r] = Arrived(c, key, handler)]
    /\ UNCHANGED <<hasKey, running, handler, admissions, now>>

ServeHTTP(r, c, key) ==
    /\ requests[r].pc = "new" /\ handler < MaxHandlers
    /\ handler' = handler + 1
    /\ requests' = [requests EXCEPT ![r] = Arrived(c, key, handler + 1)]
    /\ UNCHANGED <<hasKey, running, admissions, now>>

Answer(r, status) == requests' = [requests EXCEPT ![r].pc = "done", ![r].status = status]

\* rateLimiter.allow: what is a window old or older is forgotten.
Recent(c) == {r \in admissions[c] : requests[r].at > now - Window}

\* Mutant of Allow: one request too many.
AllowOneMore(c) == Cardinality(Recent(c)) <= RateLimit

Allow(c) == Cardinality(Recent(c)) < RateLimit

RateLimitStep(r) ==
    LET c == requests[r].client
    IN /\ requests[r].pc = "limit"
       /\ IF Allow(c)
            THEN /\ admissions' = [admissions EXCEPT ![c] = Recent(c) \cup {r}]
                 /\ requests' = [requests EXCEPT ![r].pc = "auth", ![r].at = now]
            ELSE /\ admissions' = [admissions EXCEPT ![c] = Recent(c)]
                 /\ requests' = [requests EXCEPT ![r].pc = "done", ![r].at = now,
                                                 ![r].status = 429]
       /\ UNCHANGED <<hasKey, running, handler, now>>

Authenticate(r) ==
    /\ requests[r].pc = "auth"
    /\ IF hasKey /\ ~requests[r].key THEN Answer(r, 401)
       ELSE requests' = [requests EXCEPT ![r].pc = "mux"]
    /\ UNCHANGED <<hasKey, running, handler, admissions, now>>

----------------------------------------------------------------------------
(* The routes that call the handler, and their verbs; the JSON-RPC methods *)
(* are tools/list, tools/call and so on, and initialize for info.          *)

Verb == [tools |-> "GET", tool |-> "POST", resources |-> "GET", resource |-> "GET",
         prompts |-> "GET", prompt |-> "POST", info |-> "GET"]
Named == {"tool", "resource", "prompt"}
Bodies == {"empty", "arguments", "garbage", "unreadable"}

\* The status of a request that does not reach the handler, or 0.  The name is
\* looked at before the body, and the body only where arguments are expected.
Refused(path, verb, named, body) ==
    IF verb # Verb[path] THEN 405
    ELSE IF path \in Named /\ ~named THEN 400
    ELSE IF verb = "POST" /\ body \in {"garbage", "unreadable"} THEN 400
    ELSE 0
Refusals == {Refused(path, verb, named, body) : path \in DOMAIN Verb, verb \in {"GET", "POST"},
                                                named \in BOOLEAN, body \in Bodies}

Dispatch(r) ==
    /\ requests[r].pc = "mux"
    /\ \/ \E status \in Refusals :
             IF status # 0 THEN Answer(r, status)
             ELSE requests' = [requests EXCEPT ![r].pc = "handler"]
       \/ \E status \in {200, 405} : Answer(r, status)    \* health, and the documentation
       \/ Answer(r, 404)                                   \* no such path
    /\ UNCHANGED <<hasKey, running, handler, admissions, now>>

\* writeRESTResponse
StatusOf(code) ==
    CASE code \in {"ParseError", "InvalidRequest", "InvalidParams"} -> 400
      [] code = "MethodNotFound" -> 404
      [] OTHER -> 500

\* The handler panics, or there is none yet to call: recovered in the base
\* middleware, which writes a JSON-RPC error as an ordinary answer.
Recovered == 200

CallHandler(r) ==
    /\ requests[r].pc = "handler"
    /\ \E status \in {200, Recovered} \cup {StatusOf(code) : code \in Codes} :
          requests' = [requests EXCEPT ![r].pc = "done", ![r].by = handler, ![r].status = status]
    /\ UNCHANGED <<hasKey, running, handler, admissions, now>>

Next ==
    \/ Start \/ Stop \/ Tick
    \/ \E r \in Requests : \/ \E c \in Clients, key \in BOOLEAN : Arrive(r, c, key) \/ ServeHTTP(r, c, key)
                           \/ RateLimitStep(r) \/ Authenticate(r) \/ Dispatch(r) \/ CallHandler(r)

Spec == Init /\ [][Next]_vars

----------------------------------------------------------------------------
Of(c) == {r \in Requests : requests[r].client = c /\ requests[r].pc # "new"}
Passed(c) == {r \in Of(c) : requests[r].pc # "limit" /\ requests[r].status # 429}
WithinWindow(c, t) == {r \in Passed(c) : requests[r].at > t - Window /\ requests[r].at <= t}

\* No client has more than RateLimit requests admitted in any window, and none
\* is refused that had not that many in the last one.
WindowHolds ==
    RateLimit > 0 =>
       \A c \in Clients :
          /\ \A t \in 0..now : Cardinality(WithinWindow(c, t)) <= RateLimit
          /\ \A r \in Of(c) : requests[r].status = 429 =>
                Cardinality(WithinWindow(c, requests[r].at)) >= RateLimit

\* A request reaches a handler only past the key, and the handler it reaches is
\* none older than the one that was there, or was given, when it came.
CalledHandlerIsCurrent ==
    \A r \in Requests : requests[r].by # 0 =>
       /\ hasKey => requests[r].key
       /\ requests[r].since <= requests[r].by

\* The limit is kept and requests reach no stale handler (wrapWithRESTMiddleware,
\* rateLimiter.allow, ServeHTTP).
RESTRequestsHandled == TypeOK /\ WindowHolds /\ CalledHandlerIsCurrent
=============================================================================
