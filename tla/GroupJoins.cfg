\* Groups are founded, joined, kicked from, configured and disbanded; a binding is refused, the process restarts.
CONSTANTS
    Players = {a, b, c}
    Threads = {t1, t2}
    NoPlayer = nobody
    NoThread = noThread
    Ops = {"Invite", "AcceptInvite", "Leave", "Uninvite", "ChangeLeader", "ConvertToRaid", "SetLootMethod", "SetTargetIcon"}
    InitialGroups <- NoGroups
    InitialInvites <- FirstInvite
    MaxGroups = 4
    MaxGroupSize = 3
    MaxRaidSize = 4
    MaxCalls = 4
    MaxRefusals = 1
    MaxEvents = 0
    MaxDBErrors = 0
    MaxCrashes = 1
    a = a
    b = b
    c = c
    d = d
SPECIFICATION Spec
SYMMETRY Symmetry
INVARIANTS MappedPlayersAreMembers MembersAreMapped DisbandedStaysGone CacheMirrorsDB LeaderIsMember
CHECK_DEADLOCK FALSE
