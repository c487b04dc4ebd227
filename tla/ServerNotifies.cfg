\* One client that subscribes, one resource that changes.
SPECIFICATION Spec
CONSTANTS
    Ids = {i1}
    Clients = {c1}
    Uris = {u1}
    MaxPerClient = 1
    QueueCap = 1
    MaxEvents = 1
    NoId = NoId
    ClientKinds = {{"Zed"}}
    Asked = {"prompts"}
    Nobody = Nobody
INVARIANT NotifiesTheClient
CHECK_DEADLOCK FALSE
