\* Servers start, die and confirm maps; layers change; members of a group look for a server.
CONSTANTS
    Servers = {1, 2}
    Maps = {0, 1}
    MapsWeight <- Weights
    AvailableMaps <- AllMaps
    Handlers = {h1}
    Checker = checker
    NoServer = noServer
    NoThread = noThread
    GroupMap = 0
    InitialServers = {1}
    Openings <- Undisturbed
    Configs <- TwoLayers
    MaxStarts = 1
    MaxCalls = 1
    MaxFaults = 1
SPECIFICATION Spec
INVARIANTS MapsAreHosted ListedAreChecked WorldFollows
CHECK_DEADLOCK FALSE
