CONSTANTS
    client = client
    server = server
    Hosts = {client, server}
    Connectors = {client}
    PeerCount <- OneEach
    DuplicatePeers = 1
    EventChoices = {TRUE, FALSE}
    Calls = {"disconnect", "later"}
    MaxConnects = 1
    MaxAccepts = 1
    MaxPings = 1
    MaxQueued = 1
SPECIFICATION FairSpec
CHECK_DEADLOCK FALSE
PROPERTIES
    RequestsEnd
