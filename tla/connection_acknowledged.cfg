CONSTANTS
    client = client
    server = server
    Hosts = {client, server}
    Connectors = {client, server}
    PeerCount <- OneEach
    DuplicatePeers = 1
    EventChoices = {TRUE}
    Calls = {"disconnect"}
    MaxConnects = 1
    MaxAccepts = 1
    MaxPings = 0
    MaxQueued = 1
SPECIFICATION FairSpec
CHECK_DEADLOCK FALSE
PROPERTIES
    RequestsEnd
