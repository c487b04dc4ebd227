\* One event, two subscriptions to the same list.
SPECIFICATION Spec
CONSTANTS
    Ids = {i1, i2}
    Clients = {c1}
    Uris = {u1}
    Methods = {"tools/subscribe"}
    EventTypes = {"tools/list_changed"}
    MaxPerClient = 2
    QueueCap = 1
    MaxEvents = 1
    MaxClock = 0
    NoId = NoId
INVARIANT EachCallSeesItsSubscription
CHECK_DEADLOCK FALSE
