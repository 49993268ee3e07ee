\* Three players enqueue, leave and enter while invitations expire and servers come and go.
CONSTANTS
    Players = {ann, bob, hal}
    TeamOf <- Factions
    Party <- Parties
    Sessions = {ann, hal}
    Watched = {ann}
    Nodes = {n1}
    InitialNodes = {n1}
    InitialQueued = {hal}
    RealmServer = realmServer
    MinPlayersPerTeam = 1
    MaxPlayersPerTeam = 2
    Goroutines = {"listener", "gsAdded", "gsRemoved", "expirer", "sidecar"}
    None = none
    MaxInstances = 2
    MaxBusy = 3
    MaxInputs = 2
    ann = ann
    bob = bob
    hal = hal
SPECIFICATION FairSpec
INVARIANTS LinksAgree TeamsWithinMax
PROPERTIES InvitesEnd InviteNotOverwritten
CHECK_DEADLOCK FALSE
