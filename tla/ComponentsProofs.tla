--------------------------- MODULE ComponentsProofs ---------------------------
(***************************************************************************)
(* The components as they stand beside each other in Components: what each *)
(* of them promises, by the theorem about its module, holds of its part.   *)
(*                                                                         *)
(* The part never changes, and as long as it is a component's, an initial  *)
(* state is one of the component (PartsStart) and a step is one of the     *)
(* component's or leaves its variables alone (PartsStep).  The rest is the *)
(* component's theorem, with the assumptions it needs.                     *)
(***************************************************************************)
EXTENDS Components, FiniteSetTheorems, TLAPS

LEMMA PartsStart ==
    Init =>
      /\ part = "subscriptions" => Subscriptions!Init
      /\ part = "dispatch" => Serving!Init
      /\ part = "limiter" => Limiting!L!Init
      /\ part = "server" => Serving!F!Init
      /\ part = "profiles" => Limiting!F!Init
      /\ part = "chain" => Serving!C!Init
      /\ part = "sse" => Streaming!SSE!Init
      /\ part = "sse again" => Restarting!SSE!Init
      /\ part = "websocket" => Restarting!WS!Init
      /\ part = "stdio" => Restarting!Stdio!Init
      /\ part = "rest" => Restarting!REST!Init
      /\ part = "plugins" => Watching!P!Init
      /\ part = "discovery" => Watching!D!Init
      /\ part = "subprocess" => Watching!S!Init
      /\ part = "health" => Watching!H!Init
      /\ part = "pool" => Working!Pool!Init
      /\ part = "versioning" => s1 \in VersionSamples
      /\ part = "answers" => s1 \in AnswerSamples
      /\ part = "params" => s1 \in ParamsSamples
      /\ part = "codec" => s1 \in CodecSamples
      /\ part = "auth" => s1 \in AuthSamples
  BY DEF Init

LEMMA PartsStep ==
    [Next]_<<part, slots>> =>
      /\ (part = "subscriptions")' <=> part = "subscriptions"
      /\ part = "subscriptions" => [Subscriptions!Next]_(Subscriptions!vars)
      /\ (part = "dispatch")' <=> part = "dispatch"
      /\ part = "dispatch" => [Serving!Next]_(Serving!vars)
      /\ (part = "limiter")' <=> part = "limiter"
      /\ part = "limiter" => [Limiting!L!Next]_(Limiting!L!vars)
      /\ (part = "server")' <=> part = "server"
      /\ part = "server" => [Serving!F!Next]_(Serving!F!vars)
      /\ (part = "profiles")' <=> part = "profiles"
      /\ part = "profiles" => [Limiting!F!Next]_(Limiting!F!vars)
      /\ (part = "chain")' <=> part = "chain"
      /\ part = "chain" => [Serving!C!Next]_(Serving!C!vars)
      /\ (part = "sse")' <=> part = "sse"
      /\ part = "sse" => [Streaming!SSE!Next]_(Streaming!SSE!vars)
      /\ (part = "sse again")' <=> part = "sse again"
      /\ part = "sse again" => [Restarting!SSE!Next]_(Restarting!SSE!vars)
      /\ (part = "websocket")' <=> part = "websocket"
      /\ part = "websocket" => [Restarting!WS!Next]_(Restarting!WS!vars)
      /\ (part = "stdio")' <=> part = "stdio"
      /\ part = "stdio" => [Restarting!Stdio!Next]_(Restarting!Stdio!vars)
      /\ (part = "rest")' <=> part = "rest"
      /\ part = "rest" => [Restarting!REST!Next]_(Restarting!REST!vars)
      /\ (part = "plugins")' <=> part = "plugins"
      /\ part = "plugins" => [Watching!P!Next]_(Watching!P!vars)
      /\ (part = "discovery")' <=> part = "discovery"
      /\ part = "discovery" => [Watching!D!Next]_(Watching!D!vars)
      /\ (part = "subprocess")' <=> part = "subprocess"
      /\ part = "subprocess" => [Watching!S!Next]_(Watching!S!vars)
      /\ (part = "health")' <=> part = "health"
      /\ part = "health" => [Watching!H!Next]_(Watching!H!vars)
      /\ (part = "pool")' <=> part = "pool"
      /\ part = "pool" => [Working!Pool!Next]_(Working!Pool!vars)
      /\ (part = "versioning")' <=> part = "versioning"
      /\ part = "versioning" /\ s1 \in VersionSamples => (s1 \in VersionSamples)'
      /\ (part = "answers")' <=> part = "answers"
      /\ part = "answers" /\ s1 \in AnswerSamples => (s1 \in AnswerSamples)'
      /\ (part = "params")' <=> part = "params"
      /\ part = "params" /\ s1 \in ParamsSamples => (s1 \in ParamsSamples)'
      /\ (part = "codec")' <=> part = "codec"
      /\ part = "codec" /\ s1 \in CodecSamples => (s1 \in CodecSamples)'
      /\ (part = "auth")' <=> part = "auth"
      /\ part = "auth" /\ s1 \in AuthSamples => (s1 \in AuthSamples)'
  BY DEF Next, Keep, slots, Subscriptions!vars, Subscriptions!indexVars,
         Subscriptions!writerVars, Subscriptions!envVars,
         Subscriptions!eventVars, Subscriptions!loopVars,
         Subscriptions!queueVars, Subscriptions!fanVars,
         Subscriptions!callVars, Serving!vars, Limiting!L!vars,
         Limiting!L!mapVars, Limiting!L!bucketVars, Serving!F!vars,
         Serving!F!serverVars, Serving!F!subscriptionVars,
         Serving!F!notifierVars, Limiting!F!vars, Limiting!F!serverVars,
         Limiting!F!subscriptionVars, Limiting!F!notifierVars, Serving!C!vars,
         Streaming!SSE!vars, Streaming!SSE!serverVars,
         Streaming!SSE!clientVars, Streaming!SSE!castVars,
         Restarting!SSE!vars, Restarting!SSE!serverVars,
         Restarting!SSE!clientVars, Restarting!SSE!castVars,
         Restarting!WS!vars, Restarting!WS!serverVars, Restarting!WS!connVars,
         Restarting!WS!mapVars, Restarting!Stdio!vars, Restarting!REST!vars,
         Watching!P!vars, Watching!D!vars, Watching!S!vars,
         Watching!H!vars, Working!Pool!vars

LEMMA SamplesStay ==
    Spec => [](/\ part = "versioning" => s1 \in VersionSamples
               /\ part = "answers" => s1 \in AnswerSamples
               /\ part = "params" => s1 \in ParamsSamples
               /\ part = "codec" => s1 \in CodecSamples
               /\ part = "auth" => s1 \in AuthSamples)
<1>1. Spec => [](part = "versioning" => s1 \in VersionSamples)
  BY PartsStart, PartsStep, PTL DEF Spec
<1>2. Spec => [](part = "answers" => s1 \in AnswerSamples)
  BY PartsStart, PartsStep, PTL DEF Spec
<1>3. Spec => [](part = "params" => s1 \in ParamsSamples)
  BY PartsStart, PartsStep, PTL DEF Spec
<1>4. Spec => [](part = "codec" => s1 \in CodecSamples)
  BY PartsStart, PartsStep, PTL DEF Spec
<1>5. Spec => [](part = "auth" => s1 \in AuthSamples)
  BY PartsStart, PartsStep, PTL DEF Spec
<1> QED
  BY <1>1, <1>2, <1>3, <1>4, <1>5, PTL

(* Whenever no writer holds the mutex, the table of subscriptions and its    *)
(* two indices say the same, for every set of ids, clients, methods and      *)
(* every limit (subscriptions/manager.go).                                   *)
THEOREM IndicesAgree == Spec => []IndexConsistent
<1>1. Subscriptions!Spec => [](Subscriptions!IndexTypeOK /\ Subscriptions!IndexConsistent)
  <2>1. Subscriptions!SubscriptionAssumption /\ Subscriptions!NotifierAssumption
    BY ComponentsAssumption
       DEF Subscriptions!SubscriptionAssumption, Subscriptions!NotifierAssumption
  <2>2. Subscriptions!Spec => []Subscriptions!TypeOK
    BY <2>1, Subscriptions!TypeCorrect
  <2>3. Subscriptions!Spec => []Subscriptions!IndexConsistent
    BY <2>1, Subscriptions!IndicesAgree
  <2>4. Subscriptions!TypeOK => Subscriptions!IndexTypeOK
    BY DEF Subscriptions!TypeOK
  <2> QED
    BY <2>2, <2>3, <2>4, PTL
<1> QED
  BY PartsStart, PartsStep, <1>1, PTL
     DEF Spec, Subscriptions!Spec, IndexConsistent

(* A request sees every registration and the initialization that were        *)
(* complete when it came in (server/server.go).                              *)
THEOREM RequestsSee == Spec => []RequestsSeeThePast
<1>1. Serving!Spec => [](Serving!TypeOK /\ Serving!RequestsSeeThePast)
  BY ComponentsAssumption, Serving!RequestsSee
<1> QED
  BY PartsStart, PartsStep, <1>1, PTL
     DEF Spec, Serving!Spec, RequestsSeeThePast

(* In any stretch of time a user who cancels no reservation gets no more     *)
(* through the middleware than the burst and the rate allow, over all the    *)
(* buckets the user ever had (middleware/ratelimit.go).                      *)
THEOREM LimitIsKept == Spec => []LimitHolds
<1>1. Limiting!L!Spec => [](Limiting!L!TypeOK /\ Limiting!L!LimitHolds)
  BY ComponentsAssumption, Limiting!LimitIsKept
<1> QED
  BY PartsStart, PartsStep, <1>1, PTL
     DEF Spec, Limiting!L!Spec, LimitHolds

(* A client is refused only what its profile lacks, or what an initialize    *)
(* in between changed; notifications keep their order, reach initialized     *)
(* clients only, and meet a closed queue only once Stop has begun            *)
(* (server/full_featured.go).                                                *)
THEOREM ServersKeepPromises == Spec => []ServerKeepsItsPromises
<1>1. Serving!F!Spec => []Serving!F!ServerKeepsItsPromises
  <2>1. Serving!ServerOptions
    BY ComponentsAssumption DEF Serving!ServerOptions, Limiting!ServerOptions
  <2> QED
    BY <2>1, Serving!ServerKeepsPromises
<1>2. Limiting!F!Spec => []Limiting!F!RefusalsJustified
  <2>1. Limiting!F!Spec => []Limiting!F!ServerKeepsItsPromises
    BY ComponentsAssumption, Limiting!ServerKeepsPromises
  <2> QED
    BY <2>1, PTL DEF Limiting!F!ServerKeepsItsPromises
<1> QED
  BY PartsStart, PartsStep, <1>1, <1>2, PTL
     DEF Spec, Serving!F!Spec, Limiting!F!Spec, ServerKeepsItsPromises

(* For every set of chains of middlewares, handlers run once and behind the  *)
(* authentication, answers are their own, and a panic is stopped unless a    *)
(* timeout stands outside all that recover (server/middleware.go).           *)
THEOREM ChainsKeepPromises == Spec => []ChainKeepsItsPromises
<1>1. Serving!C!Spec => [](Serving!C!TypeOK /\ Serving!C!ChainKeepsItsPromises)
  BY ComponentsAssumption, Serving!ChainsKeepPromises
<1> QED
  BY PartsStart, PartsStep, <1>1, PTL
     DEF Spec, Serving!C!Spec, ChainKeepsItsPromises

(* An SSE client that is served and was not told to leave is in the map,     *)
(* none is told twice, and handlers stay counted, through shutdown and       *)
(* restart (transport/sse.go).                                               *)
THEOREM SSEClientsReleased == Spec => []ClientsReleasedOnce
<1>1. Streaming!SSE!Spec => [](Streaming!SSE!TypeOK /\ Streaming!SSE!ClientsReleasedOnce)
  <2>1. Streaming!HTTPAssumption /\ Streaming!SSEOptions
    BY ComponentsAssumption, FS_EmptySet
       DEF Streaming!HTTPAssumption, Streaming!SSEOptions, IsFiniteSet, Streaming!IsFiniteSet
  <2> QED
    BY <2>1, Streaming!SSEClientsReleased
<1>2. Restarting!SSE!Spec => [](Restarting!SSE!TypeOK /\ Restarting!SSE!ClientsReleasedOnce)
  <2>1. Restarting!HTTPAssumption /\ Restarting!SSEOptions
    BY ComponentsAssumption, FS_EmptySet
       DEF Restarting!HTTPAssumption, Restarting!SSEOptions, IsFiniteSet, Restarting!IsFiniteSet
  <2> QED
    BY <2>1, Restarting!SSEClientsReleased
<1> QED
  BY PartsStart, PartsStep, <1>1, <1>2, PTL
     DEF Spec, Streaming!SSE!Spec, Restarting!SSE!Spec, ClientsReleasedOnce

(* A WebSocket connection that is served is in the map, the tracker holds    *)
(* exactly those that were upgraded, and connections stay counted, through   *)
(* shutdown and restart (transport/websocket.go).                            *)
THEOREM WSConnectionsKnown == Spec => []ConnectionsKnown
<1>1. Restarting!WS!Spec => [](Restarting!WS!TypeOK /\ Restarting!WS!ConnectionsKnown)
  <2>1. Restarting!HTTPAssumption
    BY ComponentsAssumption DEF Restarting!HTTPAssumption, IsFiniteSet, Restarting!IsFiniteSet
  <2> QED
    BY <2>1, Restarting!WSConnectionsKnown
<1> QED
  BY PartsStart, PartsStep, <1>1, PTL
     DEF Spec, Restarting!WS!Spec, ConnectionsKnown

(* Lines are answered once, in order while one loop runs and, over a whole   *)
(* input, all of them, for every input (transport/stdio.go).                 *)
THEOREM LinesAnsweredOnce == Spec => []LinesAnswered
<1>1. Restarting!Stdio!Init /\ [][Restarting!Stdio!Next]_(Restarting!Stdio!vars)
         => []Restarting!Stdio!LinesAnswered
  <2>1. Restarting!HTTPAssumption
    BY ComponentsAssumption DEF Restarting!HTTPAssumption, IsFiniteSet, Restarting!IsFiniteSet
  <2> QED
    BY <2>1, ComponentsAssumption, Restarting!LinesAnsweredWithoutFairness
<1> QED
  BY PartsStart, PartsStep, <1>1, PTL DEF Spec, LinesAnswered

(* No more requests get through in a window than the limit, none is refused  *)
(* below it, and a request is handled past the key and by no handler older   *)
(* than the one it found or was given (transport/rest.go).                   *)
THEOREM RESTHandled == Spec => []RESTRequestsHandled
<1>1. Restarting!REST!Spec => []Restarting!REST!RESTRequestsHandled
  <2>1. Restarting!HTTPAssumption
    BY ComponentsAssumption DEF Restarting!HTTPAssumption, IsFiniteSet, Restarting!IsFiniteSet
  <2> QED
    BY <2>1, ComponentsAssumption, Restarting!RESTHandled
<1> QED
  BY PartsStart, PartsStep, <1>1, PTL
     DEF Spec, Restarting!REST!Spec, RESTRequestsHandled

(* What the registry hands out runs; what runs is served, unless its Stop    *)
(* or a second load failed; LoadFromPath is all or nothing                   *)
(* (plugin/plugin.go).                                                       *)
THEOREM PluginsAgree == Spec => []PluginsAccountedFor
<1>1. Watching!P!Spec => []Watching!P!PluginsAccountedFor
  <2>1. Watching!P!AllPlugins # {}
    <3>1. PICK n \in Names, c \in Copies : TRUE
      BY ComponentsAssumption
    <3>2. <<n, c>> \in Names \X Copies
      OBVIOUS
    <3> QED
      BY <3>2 DEF Watching!P!AllPlugins
  <2> QED
    BY <2>1, Watching!PluginsAgree
<1> QED
  BY PartsStart, PartsStep, <1>1, PTL
     DEF Spec, Watching!P!Spec, PluginsAccountedFor

(* Manifest files, registry, loaded handlers and listeners agree through     *)
(* scans, calls and changed files (discovery).                               *)
THEOREM DirectoriesAgree == Spec => []DiscoveryAgrees
<1>1. Watching!D!Spec => []Watching!D!DiscoveryAgrees
  BY ComponentsAssumption, Watching!DirectoriesAgree
<1> QED
  BY PartsStart, PartsStep, <1>1, PTL
     DEF Spec, Watching!D!Spec, DiscoveryAgrees

(* No answer of a subprocess is returned twice, and until a call has timed   *)
(* out none gets the answer to another one (discovery/handler.go).           *)
THEOREM AnswersMatched == Spec => []CallsMatchAnswers
<1>1. Watching!S!Spec => []Watching!S!CallsMatchAnswers
  BY Watching!AnswersMatched
<1> QED
  BY PartsStart, PartsStep, <1>1, PTL
     DEF Spec, Watching!S!Spec, CallsMatchAnswers

(* Results kept are of registered checks or of removed ones whose run was    *)
(* under way, and an undisturbed request answers by its own results          *)
(* (health/health.go).                                                       *)
THEOREM HealthReflectsChecks == Spec => []StatusReflectsChecks
<1>1. Watching!H!Spec => []Watching!H!StatusReflectsChecks
  BY ComponentsAssumption, Watching!HealthReflectsChecks
<1> QED
  BY PartsStart, PartsStep, <1>1, PTL
     DEF Spec, Watching!H!Spec, StatusReflectsChecks

(* Scaling keeps the count between its limits and equal to the list of       *)
(* workers, and at least that many run until the pool is shut down           *)
(* (server/concurrent.go).                                                   *)
THEOREM StaffedWhileScaling == Spec => []PoolStaffed
<1>1. Working!Pool!Spec => []Working!Pool!PoolStaffed
  <2>1. Working!ConcurrentAssumption
    BY FS_EmptySet DEF Working!ConcurrentAssumption, IsFiniteSet, Working!IsFiniteSet
  <2> QED
    BY <2>1, ComponentsAssumption, Working!StaffedWhileScaling
<1> QED
  BY PartsStart, PartsStep, <1>1, PTL
     DEF Spec, Working!Pool!Spec, PoolStaffed

(* The router serves a request with the handler of its version, or with the  *)
(* closest earlier one, for every finite set of handlers among the samples   *)
(* (versioning/versioning.go).                                               *)
THEOREM ClosestServes == Spec => []ClosestHandlerServes
<1>1. ASSUME NEW s \in VersionSamples
      PROVE  Serving!Versions!ClosestHandlerServes(s.config, s.handlers, s.default, s.parts)
  <2> DEFINE Others == STRING \ {Serving!Versions!NoHandler}
  <2>1. /\ s.config \in Serving!RouterOptions /\ s.parts \in Serving!RequestedParts
        /\ DOMAIN s.handlers \in SUBSET Serving!Versions!Version
        /\ Serving!IsFiniteSet(DOMAIN s.handlers)
        /\ s.handlers \in [DOMAIN s.handlers -> Others]
        /\ s.default \in Others \cup {Serving!Versions!NoHandler}
    BY SamplesAssumption DEF IsFiniteSet, Serving!IsFiniteSet
  <2> HIDE DEF Others
  <2>2. Serving!Versions!NoHandler \notin Others
    BY DEF Others
  <2> QED
    BY <2>1, <2>2, Serving!ClosestServes
<1>2. part = "versioning" /\ s1 \in VersionSamples =>
        Serving!Versions!ClosestHandlerServes(s1.config, s1.handlers, s1.default, s1.parts)
  BY <1>1
<1> QED
  BY SamplesStay, <1>2, PTL DEF ClosestHandlerServes

(* A message gets one document that carries its id, whatever is wrong with   *)
(* it (transport/http.go, middleware/error.go).                              *)
THEOREM MessagesAreNamed == Spec => []AnswersNameTheMessage
<1>1. ASSUME NEW s \in AnswerSamples
      PROVE  Restarting!Answering!AnswersNameTheMessage(s.config, s.q, s.outcome)
  <2>1. s.config \in Restarting!HTTPOptions /\ s.q \in Restarting!Messages /\ s.outcome \in Int
    BY SamplesAssumption
  <2>2. Restarting!HTTPAssumption
    BY ComponentsAssumption DEF Restarting!HTTPAssumption, IsFiniteSet, Restarting!IsFiniteSet
  <2> QED
    BY <2>1, <2>2, Restarting!MessagesAreNamed
<1>2. part = "answers" /\ s1 \in AnswerSamples =>
        Restarting!Answering!AnswersNameTheMessage(s1.config, s1.q, s1.outcome)
  BY <1>1
<1> QED
  BY SamplesStay, <1>2, PTL DEF AnswersNameTheMessage

(* A token that was issued authenticates its user wherever its configuration *)
(* agrees, for every user and pair of configurations (middleware/auth.go).   *)
THEOREM TokensWork == Spec => []IssuedTokensWork
<1>1. ASSUME NEW s \in AuthSamples
      PROVE  Serving!Auth!IssuedTokensWork(s.user, s.issuer, s.checker, s.keyHeader)
  <2>1. ASSUME NEW config \in {s.issuer, s.checker}
        PROVE  config \in Serving!AuthOptions
    <3>1. config.keys \in Serving!KeyRings
      BY SamplesAssumption DEF Serving!KeyRings
    <3> QED
      BY <3>1, SamplesAssumption DEF Serving!AuthOptions
  <2> QED
    BY <2>1, SamplesAssumption, Serving!TokensWork
<1>2. part = "auth" /\ s1 \in AuthSamples =>
        Serving!Auth!IssuedTokensWork(s1.user, s1.issuer, s1.checker, s1.keyHeader)
  BY <1>1
<1> QED
  BY SamplesStay, <1>2, PTL DEF IssuedTokensWork

(* Required parameters that pass the check are bound, in whatever order a    *)
(* map is ranged over (protocol/types.go), and an error that is marshalled   *)
(* and read has its code, unless that is the least integer, and its message  *)
(* again (protocol/json_optimized.go).                                       *)
THEOREM ContentKept == Spec => []MessagesKeepTheirContent
<1>1. part = "params" /\ s1 \in ParamsSamples =>
        Serving!Params!RequiredParametersBound(s1.form, s1.source, s1.fields, s1.required)
  <2>1. ASSUME NEW s \in ParamsSamples
        PROVE  Serving!Params!RequiredParametersBound(s.form, s.source, s.fields, s.required)
    BY SamplesAssumption, Serving!ParametersBound
  <2> QED
    BY <2>1
<1>2. part = "codec" /\ s1 \in CodecSamples => Serving!Codec!MarshalledErrorsRead(s1)
  <2>1. ASSUME NEW s \in CodecSamples
        PROVE  Serving!Codec!MarshalledErrorsRead(s)
    BY SamplesAssumption, ComponentsAssumption, Serving!ErrorsRead
  <2> QED
    BY <2>1
<1> QED
  BY SamplesStay, <1>1, <1>2, PTL DEF MessagesKeepTheirContent
=============================================================================
