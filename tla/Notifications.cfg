\* Two events against two subscriptions of one client, two resources; two
\* messages to two clients through two transports.
SPECIFICATION MCSpec
CONSTANTS
    Ids = {i1, i2}
    Clients = {c1}
    Uris = {u1, u2}
    Methods = {"resources/subscribe"}
    EventTypes = {"resource/changed", "unknown"}
    MaxPerClient = 2
    QueueCap = 1
    MaxEvents = 2
    MaxClock = 0
    NoId = NoId
    NotifiedClients = {n1, n2}
    Names = {n1, n2}
    Senders = {s1}
    Transports = {sse, ws}
    Features <- TwoFeatures
    QueueSize = 1
    MaxAccepted = 2
    MaxHandlers = 1
INVARIANTS
    DeliveredOnceInOrder
PROPERTIES
    EventsReachSubscribers
    
CHECK_DEADLOCK FALSE
