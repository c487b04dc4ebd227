----------------------------- MODULE Components -----------------------------
(***************************************************************************)
(* The components of the server, each on its own: the initial state        *)
(* chooses the part, and from there on only that part takes steps.  The    *)
(* parts share the variables s1 to s41, each an instance of its module     *)
(* over as many of them as it has variables; the others hold "unused".  A  *)
(* component without steps of its own, whose module defines functions, has *)
(* one initial state per sample input, in s1.                              *)
(*                                                                         *)
(* A component is taken from the module that proves about it where there   *)
(* is one: what TLC checks here is the formula that is proved there.       *)
(***************************************************************************)
EXTENDS Integers, Sequences, FiniteSets

CONSTANTS Ids, Clients, Uris, EventMethods, MaxPerClient, QueueCap, MaxClock, NoId,
                              \* of the subscription manager
          ServedIds, ServedClients, ServedKinds, MaxEvents,
                              \* of the full-featured server
          ClientKinds, Asked, \* of one whose clients ask for what they may lack
          Requests, Entries, MaxAdds, MaxRoots,   \* of the dispatch
          Chains,             \* of middlewares
          LimitedRequests, Users, Nobody, Rate, Burst, TTL, LimiterClock,
                              \* of the rate limiter
          Conns, Broadcasters, Stoppers, MaxStarts, MaxClients, EventBufferSize,
          BroadcastCap, MaxSends,                 \* of the SSE transport
          OneConn, MaxRestarts, \* of transports that are started again
          Checks, HealthCalls, MaxChanges,        \* of the health checker
          Names, Copies, Loaders,                 \* of the plugin registry
          ToolCalls,          \* of the subprocess
          MinWorkers, MaxWorkers, NumWorkers, HistoryNeeded, MaxGoroutines,
                              \* of the adaptive pool
          Plugins, Manifests, ListenerCap, MaxCalls, \* of the discovery
          RateLimit, Window, RESTClock, MaxHandlers, \* of the REST transport
          Lines, ScanBuffer,  \* of the stdio transport
          NoNumber,           \* the id of a message that has none
          MaxStringLength, MaxSliceLength, MaxMapSize, \* of the parameters
          MaxInt              \* the greatest int

\* Inputs of the functions, records with a field per argument.
CONSTANTS VersionSamples, AnswerSamples, ParamsSamples, CodecSamples, AuthSamples

VARIABLES part,
          s1, s2, s3, s4, s5, s6, s7, s8, s9, s10, s11, s12, s13, s14, s15,
          s16, s17, s18, s19, s20, s21, s22, s23, s24, s25, s26, s27, s28,
          s29, s30, s31, s32, s33, s34, s35, s36, s37, s38, s39, s40, s41

slots == <<s1, s2, s3, s4, s5, s6, s7, s8, s9, s10, s11, s12, s13, s14, s15,
            s16, s17, s18, s19, s20, s21, s22, s23, s24, s25, s26, s27, s28,
            s29, s30, s31, s32, s33, s34, s35, s36, s37, s38, s39, s40, s41>>

-----------------------------------------------------------------------------
\* The subscription manager; the notifier N beside it does nothing here, nor
\* are there events.
Subscriptions == INSTANCE NotificationProofs WITH
    EventTypes <- {}, MaxEvents <- 0, Methods <- EventMethods,
    live <- s1, info <- s2, used <- s3, byClient <- s4, byMethod <- s5,
    handlers <- s6, clock <- s7, mutex <- s8, todo <- s9, target <- s10,
    manager <- s11, loop <- s12, published <- s13, eventChan <- s14,
    current <- s15, route <- s16, seenId <- s17, spawned <- s18,
    delivered <- s19,
    NotifiedClients <- {}, Names <- {1}, Senders <- {}, Transports <- {},
    Features <- {}, QueueSize <- 0, MaxAccepted <- 0, MaxHandlers <- 0,
    clientInfo <- s41, stale <- s41, handlerCount <- s41, phase <- s41,
    closed <- s41, queue <- s41, accepted <- s41, nLoop <- s41,
    message <- s41, held <- s41, untried <- s41, sends <- s41,
    nDelivered <- s41, fatal <- s41

\* The dispatch of requests, the chain C of middlewares, the full-featured
\* server F, and the functions Auth, Versions, Params and Codec.
Serving == INSTANCE ServerProofs WITH
    NoUser <- Nobody, Ids <- ServedIds, Clients <- ServedClients,
    ClientKinds <- ServedKinds, Asked <- {},
    registry <- s1, adds <- s2, roots <- s3, initialized <- s4,
    requests <- s5, reply <- s6, before <- s7,
    hasGlobal <- s1, bucketOf <- s2, lastAccess <- s3, tokens <- s4,
    lastUpdate <- s5, pc <- s6, mode <- s7, user <- s8, bucket <- s9,
    due <- s10, now <- s11, log <- s12,
    chain <- s1, at <- s2, ended <- s3, out <- s4, sent <- s5, ran <- s6,
    counted <- s8, crashed <- s9,
    live <- s1, info <- s2, used <- s3, byClient <- s4, byMethod <- s5,
    handlers <- s6, clock <- s7, mutex <- s8, todo <- s9, target <- s10,
    manager <- s11, loop <- s12, published <- s13, eventChan <- s14,
    current <- s15, route <- s16, seenId <- s17, spawned <- s18,
    delivered <- s19, clientInfo <- s20, stale <- s21, handlerCount <- s22,
    phase <- s23, closed <- s24, queue <- s25, accepted <- s26, nLoop <- s27,
    message <- s28, held <- s29, untried <- s30, sends <- s31,
    nDelivered <- s32, fatal <- s33, profiles <- s34, fallbacks <- s35,
    writing <- s36, pending <- s37, asking <- s38, answer <- s39,
    advertised <- s40, stage <- s41

\* The rate limiter L, and a full-featured server whose clients ask for what
\* they may lack, without subscriptions.
Limiting == INSTANCE ServerProofs WITH
    Requests <- LimitedRequests, NoUser <- Nobody, MaxClock <- LimiterClock,
    Ids <- {}, Clients <- ServedClients, MaxEvents <- 0,
    registry <- s1, adds <- s2, roots <- s3, initialized <- s4,
    requests <- s5, reply <- s6, before <- s7,
    hasGlobal <- s1, bucketOf <- s2, lastAccess <- s3, tokens <- s4,
    lastUpdate <- s5, pc <- s6, mode <- s7, user <- s8, bucket <- s9,
    due <- s10, now <- s11, log <- s12,
    chain <- s1, at <- s2, ended <- s3, out <- s4, sent <- s5, ran <- s6,
    counted <- s8, crashed <- s9,
    live <- s1, info <- s2, used <- s3, byClient <- s4, byMethod <- s5,
    handlers <- s6, clock <- s7, mutex <- s8, todo <- s9, target <- s10,
    manager <- s11, loop <- s12, published <- s13, eventChan <- s14,
    current <- s15, route <- s16, seenId <- s17, spawned <- s18,
    delivered <- s19, clientInfo <- s20, stale <- s21, handlerCount <- s22,
    phase <- s23, closed <- s24, queue <- s25, accepted <- s26, nLoop <- s27,
    message <- s28, held <- s29, untried <- s30, sends <- s31,
    nDelivered <- s32, fatal <- s33, profiles <- s34, fallbacks <- s35,
    writing <- s36, pending <- s37, asking <- s38, answer <- s39,
    advertised <- s40, stage <- s41

\* The SSE transport, started MaxStarts times; HTTP does nothing here.
Streaming == INSTANCE TransportProofs WITH
    Senders <- Broadcasters, MaxRuns <- 0, Monitoring <- FALSE, NoId <- NoNumber,
    running <- s1, run <- s2, started <- s3, listening <- s4, serving <- s5,
    up <- s6, conn <- s7, connRun <- s8, clients <- s9, doneClosed <- s10,
    queued <- s11, activeRequests <- s12, broadcast <- s13, handler <- s14,
    sender <- s15, fault <- s16, stop <- s17, farewell <- s18,
    link <- s3, linkRun <- s7, main <- s8, reader <- s9, connections <- s10,
    tracked <- s11, counter <- s13, writers <- s14, cast <- s15,
    listener <- s41, server <- s41, ctxDone <- s41, stopRun <- s41,
    monRunning <- s41, stopChClosed <- s41, crashed <- s41,
    Clients <- ServedClients, MaxClock <- RESTClock,
    kind <- s2, read <- s3, loop <- s4, scanner <- s5, scanChan <- s6,
    cancelled <- s7, output <- s8, overlapped <- s9,
    hasKey <- s2, generation <- s3, admissions <- s4, now <- s5,
    requests <- s6

\* The SSE transport and the WebSocket transport, started again, Stdio, REST
\* and the answers over HTTP.
Restarting == INSTANCE TransportProofs WITH
    Conns <- OneConn, Senders <- {}, MaxSends <- 0, MaxStarts <- MaxRestarts,
    MaxRuns <- MaxRestarts, Monitoring <- FALSE, NoId <- NoNumber,
    running <- s1, run <- s2, started <- s3, listening <- s4, serving <- s5,
    up <- s6, conn <- s7, connRun <- s8, clients <- s9, doneClosed <- s10,
    queued <- s11, activeRequests <- s12, broadcast <- s13, handler <- s14,
    sender <- s15, fault <- s16, stop <- s17, farewell <- s18,
    link <- s3, linkRun <- s7, main <- s8, reader <- s9, connections <- s10,
    tracked <- s11, counter <- s13, writers <- s14, cast <- s15,
    listener <- s41, server <- s41, ctxDone <- s41, stopRun <- s41,
    monRunning <- s41, stopChClosed <- s41, crashed <- s41,
    Clients <- ServedClients, MaxClock <- RESTClock,
    kind <- s2, read <- s3, loop <- s4, scanner <- s5, scanChan <- s6,
    cancelled <- s7, output <- s8, overlapped <- s9,
    hasKey <- s2, generation <- s3, admissions <- s4, now <- s5,
    requests <- s6

\* The health checker H, the plugin registry P, the subprocess S and the
\* discovery D; the server's lifecycle and the shutdown manager do nothing here.
Watching == INSTANCE LifecycleProofs WITH
    Calls <- HealthCalls, QueueSize <- ListenerCap,
    disk <- s1, watch <- s2, scan <- s3, known <- s4, registry <- s5,
    loaded <- s6, listener <- s7, history <- s8,
    Callers <- {}, Hooks <- {}, Services <- {}, Closers <- {}, MaxConns <- 0,
    checks <- s1, results <- s2, call <- s3, task <- s4, undisturbed <- s5,
    changes <- s6, crashed <- s7, revivable <- s8,
    plugins <- s1, running <- s2, orphans <- s3, loader <- s4,
    pc <- s1, holder <- s2, stdin <- s3, stdout <- s4, alive <- s5,
    decoder <- s6, result <- s7, hasTimeout <- s8, timedOut <- s9,
    phase <- s41, shutdownHooks <- s41, transport <- s41, owner <- s41,
    hooks <- s41, executed <- s41, alone <- s41, orderly <- s41,
    waited <- s41, services <- s41, isRunning <- s41, gpc <- s41,
    goroutine <- s41, failed <- s41, conns <- s41, up <- s41,
    stopped <- s41, forced <- s41

\* The pool that adapts; the handler that has one does nothing here.
Working == INSTANCE ConcurrentHandlerProofs WITH
    current <- s1, slice <- s2, live <- s3, started <- s4, samples <- s5,
    monitor <- s6, poolShutdown <- s7,
    Requests <- {}, Workers <- {}, MaxQueueSize <- 0, NoWork <- Nobody,
    caller <- s41, requestChan <- s41, respChan <- s41, worker <- s41,
    work <- s41, runs <- s41, activeRequests <- s41, totalRequests <- s41,
    rejectedRequests <- s41, ctxDone <- s41, closed <- s41, shutdown <- s41,
    late <- s41, crashed <- s41

-----------------------------------------------------------------------------
\* What the proofs ask of the constants, and of the inputs.
ASSUME ComponentsAssumption ==
    /\ {MaxPerClient, QueueCap, MaxClock, MaxEvents, MaxAdds, MaxChanges} \subseteq Nat
    /\ {MaxStarts, MaxRestarts, MaxSends, EventBufferSize, BroadcastCap, MaxInt} \subseteq Nat
    /\ NoId \notin Ids /\ NoId \notin ServedIds
    /\ Clients # {} /\ ServedClients # {} /\ Uris # {} /\ EventMethods # {}
    /\ Entries # {} /\ Names # {} /\ Copies # {}
    /\ IsFiniteSet(Conns) /\ IsFiniteSet(OneConn) /\ IsFiniteSet(Broadcasters)
    /\ Serving!ChainOptions /\ Limiting!ServerOptions /\ Limiting!LimiterOptions
    /\ Working!PoolOptions /\ Restarting!StdioOptions /\ Restarting!RESTOptions
    /\ Watching!DiscoveryOptions

ASSUME SamplesAssumption ==
    /\ \A s \in VersionSamples :
          /\ s.config \in Serving!RouterOptions /\ s.parts \in Serving!RequestedParts
          /\ DOMAIN s.handlers \subseteq Serving!Versions!Version /\ IsFiniteSet(DOMAIN s.handlers)
          /\ s.handlers \in [DOMAIN s.handlers -> STRING \ {Serving!Versions!NoHandler}]
          /\ s.default \in STRING
    /\ \A s \in AnswerSamples :
          /\ s.config \in Restarting!HTTPOptions /\ s.q \in Restarting!Messages
          /\ s.outcome \in Int
    /\ \A s \in ParamsSamples : Serving!DecodedParams(s.source)
    /\ \A s \in CodecSamples :
          /\ s.code \in Serving!Codec!MinInt..MaxInt
          /\ s.message \in Seq(Serving!Codec!Characters)
    /\ \A s \in AuthSamples :
          /\ s.user \in Serving!Accounts /\ s.keyHeader \in STRING
          /\ \A config \in {s.issuer, s.checker} :
                /\ config \in [secret : STRING, issuer : STRING, audience : SUBSET STRING,
                               methods : SUBSET Serving!Auth!AuthMethods, require : BOOLEAN,
                               keys : {config.keys}]
                /\ DOMAIN config.keys \subseteq STRING
                /\ config.keys \in [DOMAIN config.keys -> Serving!Accounts]

-----------------------------------------------------------------------------
\* The parts

\* The variables after the n-th are not of this part.
Unused(n) ==
    /\ IF n < 2 THEN s2 = "unused" ELSE TRUE
    /\ IF n < 3 THEN s3 = "unused" ELSE TRUE
    /\ IF n < 4 THEN s4 = "unused" ELSE TRUE
    /\ IF n < 5 THEN s5 = "unused" ELSE TRUE
    /\ IF n < 6 THEN s6 = "unused" ELSE TRUE
    /\ IF n < 7 THEN s7 = "unused" ELSE TRUE
    /\ IF n < 8 THEN s8 = "unused" ELSE TRUE
    /\ IF n < 9 THEN s9 = "unused" ELSE TRUE
    /\ IF n < 10 THEN s10 = "unused" ELSE TRUE
    /\ IF n < 11 THEN s11 = "unused" ELSE TRUE
    /\ IF n < 12 THEN s12 = "unused" ELSE TRUE
    /\ IF n < 13 THEN s13 = "unused" ELSE TRUE
    /\ IF n < 14 THEN s14 = "unused" ELSE TRUE
    /\ IF n < 15 THEN s15 = "unused" ELSE TRUE
    /\ IF n < 16 THEN s16 = "unused" ELSE TRUE
    /\ IF n < 17 THEN s17 = "unused" ELSE TRUE
    /\ IF n < 18 THEN s18 = "unused" ELSE TRUE
    /\ IF n < 19 THEN s19 = "unused" ELSE TRUE
    /\ IF n < 20 THEN s20 = "unused" ELSE TRUE
    /\ IF n < 21 THEN s21 = "unused" ELSE TRUE
    /\ IF n < 22 THEN s22 = "unused" ELSE TRUE
    /\ IF n < 23 THEN s23 = "unused" ELSE TRUE
    /\ IF n < 24 THEN s24 = "unused" ELSE TRUE
    /\ IF n < 25 THEN s25 = "unused" ELSE TRUE
    /\ IF n < 26 THEN s26 = "unused" ELSE TRUE
    /\ IF n < 27 THEN s27 = "unused" ELSE TRUE
    /\ IF n < 28 THEN s28 = "unused" ELSE TRUE
    /\ IF n < 29 THEN s29 = "unused" ELSE TRUE
    /\ IF n < 30 THEN s30 = "unused" ELSE TRUE
    /\ IF n < 31 THEN s31 = "unused" ELSE TRUE
    /\ IF n < 32 THEN s32 = "unused" ELSE TRUE
    /\ IF n < 33 THEN s33 = "unused" ELSE TRUE
    /\ IF n < 34 THEN s34 = "unused" ELSE TRUE
    /\ IF n < 35 THEN s35 = "unused" ELSE TRUE
    /\ IF n < 36 THEN s36 = "unused" ELSE TRUE
    /\ IF n < 37 THEN s37 = "unused" ELSE TRUE
    /\ IF n < 38 THEN s38 = "unused" ELSE TRUE
    /\ IF n < 39 THEN s39 = "unused" ELSE TRUE
    /\ IF n < 40 THEN s40 = "unused" ELSE TRUE
    /\ IF n < 41 THEN s41 = "unused" ELSE TRUE
Keep(n) ==
    /\ UNCHANGED part
    /\ IF n < 2 THEN UNCHANGED s2 ELSE TRUE
    /\ IF n < 3 THEN UNCHANGED s3 ELSE TRUE
    /\ IF n < 4 THEN UNCHANGED s4 ELSE TRUE
    /\ IF n < 5 THEN UNCHANGED s5 ELSE TRUE
    /\ IF n < 6 THEN UNCHANGED s6 ELSE TRUE
    /\ IF n < 7 THEN UNCHANGED s7 ELSE TRUE
    /\ IF n < 8 THEN UNCHANGED s8 ELSE TRUE
    /\ IF n < 9 THEN UNCHANGED s9 ELSE TRUE
    /\ IF n < 10 THEN UNCHANGED s10 ELSE TRUE
    /\ IF n < 11 THEN UNCHANGED s11 ELSE TRUE
    /\ IF n < 12 THEN UNCHANGED s12 ELSE TRUE
    /\ IF n < 13 THEN UNCHANGED s13 ELSE TRUE
    /\ IF n < 14 THEN UNCHANGED s14 ELSE TRUE
    /\ IF n < 15 THEN UNCHANGED s15 ELSE TRUE
    /\ IF n < 16 THEN UNCHANGED s16 ELSE TRUE
    /\ IF n < 17 THEN UNCHANGED s17 ELSE TRUE
    /\ IF n < 18 THEN UNCHANGED s18 ELSE TRUE
    /\ IF n < 19 THEN UNCHANGED s19 ELSE TRUE
    /\ IF n < 20 THEN UNCHANGED s20 ELSE TRUE
    /\ IF n < 21 THEN UNCHANGED s21 ELSE TRUE
    /\ IF n < 22 THEN UNCHANGED s22 ELSE TRUE
    /\ IF n < 23 THEN UNCHANGED s23 ELSE TRUE
    /\ IF n < 24 THEN UNCHANGED s24 ELSE TRUE
    /\ IF n < 25 THEN UNCHANGED s25 ELSE TRUE
    /\ IF n < 26 THEN UNCHANGED s26 ELSE TRUE
    /\ IF n < 27 THEN UNCHANGED s27 ELSE TRUE
    /\ IF n < 28 THEN UNCHANGED s28 ELSE TRUE
    /\ IF n < 29 THEN UNCHANGED s29 ELSE TRUE
    /\ IF n < 30 THEN UNCHANGED s30 ELSE TRUE
    /\ IF n < 31 THEN UNCHANGED s31 ELSE TRUE
    /\ IF n < 32 THEN UNCHANGED s32 ELSE TRUE
    /\ IF n < 33 THEN UNCHANGED s33 ELSE TRUE
    /\ IF n < 34 THEN UNCHANGED s34 ELSE TRUE
    /\ IF n < 35 THEN UNCHANGED s35 ELSE TRUE
    /\ IF n < 36 THEN UNCHANGED s36 ELSE TRUE
    /\ IF n < 37 THEN UNCHANGED s37 ELSE TRUE
    /\ IF n < 38 THEN UNCHANGED s38 ELSE TRUE
    /\ IF n < 39 THEN UNCHANGED s39 ELSE TRUE
    /\ IF n < 40 THEN UNCHANGED s40 ELSE TRUE
    /\ IF n < 41 THEN UNCHANGED s41 ELSE TRUE

Init ==
    \/ part = "subscriptions" /\ Subscriptions!Init /\ Unused(19)
    \/ part = "server" /\ Serving!F!Init /\ Unused(41)
    \/ part = "profiles" /\ Limiting!F!Init /\ Unused(41)
    \/ part = "dispatch" /\ Serving!Init /\ Unused(7)
    \/ part = "limiter" /\ Limiting!L!Init /\ Unused(12)
    \/ part = "chain" /\ Serving!C!Init /\ Unused(9)
    \/ part = "sse" /\ Streaming!SSE!Init /\ Unused(18)
    \/ part = "sse again" /\ Restarting!SSE!Init /\ Unused(18)
    \/ part = "websocket" /\ Restarting!WS!Init /\ Unused(17)
    \/ part = "plugins" /\ Watching!P!Init /\ Unused(5)
    \/ part = "discovery" /\ Watching!D!Init /\ Unused(8)
    \/ part = "subprocess" /\ Watching!S!Init /\ Unused(9)
    \/ part = "pool" /\ Working!Pool!Init /\ Unused(7)
    \/ part = "health" /\ Watching!H!Init /\ Unused(8)
    \/ part = "rest" /\ Restarting!REST!Init /\ Unused(6)
    \/ part = "stdio" /\ Restarting!Stdio!Init /\ Unused(9)
    \/ part = "versioning" /\ s1 \in VersionSamples /\ Unused(1)
    \/ part = "answers" /\ s1 \in AnswerSamples /\ Unused(1)
    \/ part = "params" /\ s1 \in ParamsSamples /\ Unused(1)
    \/ part = "codec" /\ s1 \in CodecSamples /\ Unused(1)
    \/ part = "auth" /\ s1 \in AuthSamples /\ Unused(1)

Next ==
    \/ part = "subscriptions" /\ Subscriptions!Next /\ Keep(19)
    \/ part = "server" /\ Serving!F!Next /\ Keep(41)
    \/ part = "profiles" /\ Limiting!F!Next /\ Keep(41)
    \/ part = "dispatch" /\ Serving!Next /\ Keep(7)
    \/ part = "limiter" /\ Limiting!L!Next /\ Keep(12)
    \/ part = "chain" /\ Serving!C!Next /\ Keep(9)
    \/ part = "sse" /\ Streaming!SSE!Next /\ Keep(18)
    \/ part = "sse again" /\ Restarting!SSE!Next /\ Keep(18)
    \/ part = "websocket" /\ Restarting!WS!Next /\ Keep(17)
    \/ part = "plugins" /\ Watching!P!Next /\ Keep(5)
    \/ part = "discovery" /\ Watching!D!Next /\ Keep(8)
    \/ part = "subprocess" /\ Watching!S!Next /\ Keep(9)
    \/ part = "pool" /\ Working!Pool!Next /\ Keep(7)
    \/ part = "health" /\ Watching!H!Next /\ Keep(8)
    \/ part = "rest" /\ Restarting!REST!Next /\ Keep(6)
    \/ part = "stdio" /\ Restarting!Stdio!Next /\ Keep(9)

Spec == Init /\ [][Next]_<<part, slots>>

-----------------------------------------------------------------------------
\* Properties: each is stated in full in its module.

(* The table of subscriptions and its two indices say the same whenever no  *)
(* writer holds the mutex: Subscribe, Unsubscribe, UnsubscribeClient and    *)
(* CleanupInactive (subscriptions/manager.go) each edit all three.          *)
IndexConsistent ==
    part = "subscriptions" =>
        Subscriptions!IndexTypeOK /\ Subscriptions!IndexConsistent

(* A request sees every registration and the initialization that were       *)
(* complete when it came in (server/server.go).                             *)
RequestsSeeThePast ==
    part = "dispatch" =>
        Serving!TypeOK /\ Serving!RequestsSeeThePast

(* In any stretch of time a user gets no more through the middleware than   *)
(* the burst and the rate allow, over all the buckets the user ever had,    *)
(* unless it cancels a reservation (middleware/ratelimit.go).               *)
LimitHolds == part = "limiter" => Limiting!L!TypeOK /\ Limiting!L!LimitHolds

(* A client is refused only what its profile lacks, or what an initialize   *)
(* in between changed; notifications keep their order, reach initialized    *)
(* clients only, and meet a closed queue only once Stop has begun           *)
(* (server/full_featured.go).                                               *)
ServerKeepsItsPromises ==
    /\ part = "server" => Serving!F!ServerKeepsItsPromises
    /\ part = "profiles" => Limiting!F!RefusalsJustified

(* In several orders of the middlewares: handlers run once and behind the   *)
(* authentication, answers are their own, and a panic is stopped unless a   *)
(* timeout stands outside all that recover (server/middleware.go).          *)
ChainKeepsItsPromises ==
    part = "chain" =>
        Serving!C!TypeOK /\ Serving!C!ChainKeepsItsPromises

(* A client that is served and was not told to leave is in the map, none is *)
(* told twice, and handlers stay counted, through shutdown and restart      *)
(* (transport/sse.go).                                                      *)
ClientsReleasedOnce ==
    /\ part = "sse" => Streaming!SSE!TypeOK /\ Streaming!SSE!ClientsReleasedOnce
    /\ part = "sse again" => Restarting!SSE!TypeOK /\ Restarting!SSE!ClientsReleasedOnce

(* A connection that is served is in the map, the tracker holds exactly     *)
(* those that were upgraded, and connections stay counted, through shutdown *)
(* and restart (transport/websocket.go).                                    *)
ConnectionsKnown ==
    part = "websocket" =>
        Restarting!WS!TypeOK /\ Restarting!WS!ConnectionsKnown

(* No more requests get through in a window than the limit, none is refused *)
(* below it, and a request is handled past the key and by no handler older  *)
(* than the one it found or was given (transport/rest.go).                  *)
RESTRequestsHandled == part = "rest" => Restarting!REST!RESTRequestsHandled

(* Lines are answered once, in order while one loop runs and, over a whole  *)
(* input, all of them (transport/stdio.go).                                 *)
LinesAnswered == part = "stdio" => Restarting!Stdio!LinesAnswered

(* The router serves a request with the handler of its version, or with the *)
(* closest earlier one (versioning/versioning.go).                          *)
ClosestHandlerServes ==
    part = "versioning" =>
        Serving!Versions!ClosestHandlerServes(s1.config, s1.handlers, s1.default, s1.parts)

(* A message gets one document that carries its id, whatever is wrong with  *)
(* it (transport/http.go, middleware/error.go).                             *)
AnswersNameTheMessage ==
    part = "answers" =>
        Restarting!Answering!AnswersNameTheMessage(s1.config, s1.q, s1.outcome)

(* Required parameters that pass the check are bound, in whatever order a   *)
(* map is ranged over (protocol/types.go), and an error that is marshalled  *)
(* and read has its code and its message again                              *)
(* (protocol/json_optimized.go).                                            *)
MessagesKeepTheirContent ==
    /\ part = "params" =>
          Serving!Params!RequiredParametersBound(s1.form, s1.source, s1.fields, s1.required)
    /\ part = "codec" => Serving!Codec!MarshalledErrorsRead(s1)

(* A token that was issued authenticates its user wherever its              *)
(* configuration agrees (middleware/auth.go).                               *)
IssuedTokensWork ==
    part = "auth" =>
        Serving!Auth!IssuedTokensWork(s1.user, s1.issuer, s1.checker, s1.keyHeader)

(* What the registry hands out runs; what runs is served, unless its Stop   *)
(* or a second load failed; LoadFromPath is all or nothing                  *)
(* (plugin/plugin.go).                                                      *)
PluginsAccountedFor == part = "plugins" => Watching!P!PluginsAccountedFor

(* Manifest files, registry, loaded handlers and listeners agree through    *)
(* scans, calls and changed files (discovery).                              *)
DiscoveryAgrees == part = "discovery" => Watching!D!DiscoveryAgrees

(* No answer of a subprocess is returned twice, and until a call has timed  *)
(* out none gets the answer to another one (discovery/handler.go).          *)
CallsMatchAnswers == part = "subprocess" => Watching!S!CallsMatchAnswers

(* Scaling keeps the count between its limits and equal to the list of      *)
(* workers, and at least that many run until the pool is shut down          *)
(* (server/concurrent.go).                                                  *)
PoolStaffed == part = "pool" => Working!Pool!PoolStaffed

(* Results kept are of registered checks or of removed ones whose run was   *)
(* under way, and an undisturbed request answers by its own results         *)
(* (health/health.go).                                                      *)
StatusReflectsChecks == part = "health" => Watching!H!StatusReflectsChecks
=============================================================================
