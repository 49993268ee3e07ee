CONSTANTS
    first = first
    second = second
    warrior = warrior
    mage = mage
    north = north
    south = south
    Sessions = {first, second}
    Characters = {warrior, mage}
    Worlds = {north, south}
    NoOne = NoOne
    ShowGameserverConnChange = TRUE
    Visits <- MCVisits
    MaxConns = 3
    MaxWorkers = 1
    MaxFaults = 1
SPECIFICATION Spec
INVARIANTS SocketMatchesCharacter EventsReachOwner
PROPERTIES LostWorldEnds
CHECK_DEADLOCK FALSE
