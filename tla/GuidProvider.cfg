\* A fresh realm: the percentage of an answer can lie above its first GUID.
CONSTANTS
    Shapes <- OneOrTwoDiapasons
    FirstGuid = 1
    Pct = 65
    RetriesCount = 2
    MaxPools = 4
    MaxErrors = 3
SPECIFICATION FairSpec
INVARIANT DrawnOnce
PROPERTY NextReturns
CHECK_DEADLOCK FALSE
