\* Two instances share a Redis key, absent or seeded; all game servers ask for one size.
CONSTANTS
    Servers = {s1, s2}
    Handlers = {h1, h2}
    Processors = {p1}
    Sizes = {1}
    RequestGuidsBufferMultiplayer = 5
    DBMax = 1
    Retries = 2
    NoCallback = none
    MaxCalls = 6
    MaxRedisErrors = 1
    MaxCrashes = 1
SPECIFICATION Spec
SYMMETRY Symmetry
INVARIANTS TypeOK UniqueWhileHealthy InstancesDisjoint WaitersAreKnown
CHECK_DEADLOCK FALSE
