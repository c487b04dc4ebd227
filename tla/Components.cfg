\* Every component on its own; see the module for what each is made of.
SPECIFICATION Spec
CONSTANTS
    Ids = {i1, i2, i3}
    Clients = {"c1", "c2"}
    Uris = {"u1"}
    EventMethods = {"resources/subscribe", "tools/subscribe"}
    MaxPerClient = 2
    QueueCap = 1
    MaxClock = 1
    NoId = "none"
    ServedIds = {i1}
    ServedClients = {"c1"}
    ServedKinds <- OneKind
    MaxEvents = 2
    ClientKinds <- Profiles
    Asked = {"prompts", "discovery"}
    Requests = {"q1", "q2"}
    Entries = {"e1"}
    MaxAdds = 2
    MaxRoots = 1
    Chains <- Chained
    LimitedRequests = {"q1", "q2", "q3"}
    Users = {"u"}
    Nobody = "nobody"
    Rate = 1
    Burst = 1
    TTL = 1
    LimiterClock = 2
    Conns = {v1, v2}
    Broadcasters = {"x1"}
    Stoppers = {}
    MaxStarts = 1
    MaxClients = 1
    EventBufferSize = 1
    BroadcastCap = 1
    MaxSends = 1
    OneConn = {v1}
    MaxRestarts = 2
    Checks = {"n1", "n2"}
    HealthCalls = {"q1", "q2"}
    MaxChanges = 2
    Names = {"n1"}
    Copies = {1, 2}
    Loaders = {"l1", "l2"}
    ToolCalls = {"q1", "q2", "q3"}
    MinWorkers = 7
    MaxWorkers = 10
    NumWorkers = 8
    HistoryNeeded = 3
    MaxGoroutines = 16
    Plugins = {v1, v2}
    Manifests <- Listed
    ListenerCap = 1
    MaxCalls = 1
    RateLimit = 1
    Window = 2
    RESTClock = 3
    MaxHandlers = 2
    Lines = 2
    ScanBuffer = 1
    NoNumber = 0
    MaxStringLength = 2
    MaxSliceLength = 1
    MaxMapSize = 1
    MaxInt = 15
    VersionSamples <- SomeVersionSamples
    AnswerSamples <- SomeAnswerSamples
    ParamsSamples <- SomeParamsSamples
    CodecSamples <- SomeCodecSamples
    AuthSamples <- SomeAuthSamples
SYMMETRY Interchangeable
INVARIANTS
    IndexConsistent
    RequestsSeeThePast
    LimitHolds
    
    
    ClientsReleasedOnce
    ConnectionsKnown
    RESTRequestsHandled
    
    ClosestHandlerServes
    AnswersNameTheMessage
    
    
    PluginsAccountedFor
    DiscoveryAgrees
    CallsMatchAnswers
    PoolStaffed
    StatusReflectsChecks
CHECK_DEADLOCK FALSE
