\* Members of a group look for a server at the same time, while servers die and layers change.
CONSTANTS
    Servers = {1, 2}
    Maps = {0}
    MapsWeight <- Weights
    AvailableMaps <- OnlyMap0
    Handlers = {h1, h2}
    Checker = checker
    NoServer = noServer
    NoThread = noThread
    GroupMap = 0
    InitialServers = {1, 2}
    Openings <- FreeStaleOrDead
    Configs <- TwoLayers
    MaxStarts = 0
    MaxCalls = 2
    MaxFaults = 1
SPECIFICATION FairSpec
INVARIANTS GroupTogether
PROPERTIES DeadServersLeave CallsReturn
CHECK_DEADLOCK FALSE
