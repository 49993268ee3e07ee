\* Members of one group leave and configure it; MySQL fails, players log out, the process panics.
CONSTANTS
    Players = {a, b, c}
    Threads = {t1, t2}
    NoPlayer = nobody
    NoThread = noThread
    Ops = {"Leave", "SetDifficulty"}
    InitialGroups <- OneGroup
    InitialInvites <- NoInvites
    MaxGroups = 1
    MaxGroupSize = 3
    MaxRaidSize = 4
    MaxCalls = 2
    MaxRefusals = 0
    MaxEvents = 1
    MaxDBErrors = 1
    MaxCrashes = 0
    a = a
    b = b
    c = c
    d = d
SPECIFICATION FairSpec
PROPERTIES CallsReturn
CHECK_DEADLOCK FALSE
