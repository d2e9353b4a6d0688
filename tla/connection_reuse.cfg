CONSTANTS
    client = client
    server = server
    Hosts = {client, server}
    Connectors = {client}
    PeerCount <- OneAndTwo
    DuplicatePeers = 2
    EventChoices = {TRUE}
    Calls = {"disconnect", "now", "reset"}
    MaxConnects = 2
    MaxAccepts = 3
    MaxPings = 0
    MaxQueued = 1
SPECIFICATION Spec
CHECK_DEADLOCK FALSE
INVARIANTS
    NoTwinPeers
    AcceptedWereConfirmed
    SessionsTellConnectionsApart
