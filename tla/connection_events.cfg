CONSTANTS
    client = client
    server = server
    Hosts = {client, server}
    Connectors = {client}
    PeerCount <- OneEach
    DuplicatePeers = 1
    EventChoices = {TRUE, FALSE}
    Calls = {"disconnect", "later", "send", "receive"}
    MaxConnects = 1
    MaxAccepts = 1
    MaxPings = 0
    MaxQueued = 1
SPECIFICATION Spec
CHECK_DEADLOCK FALSE
INVARIANTS
    TypeOK
    EventsMatchStates
    ConnectedPeersCounted
    DispatchQueueExact
