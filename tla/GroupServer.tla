----------------------------- MODULE GroupServer -----------------------------
(***************************************************************************)
(* The group service (apps/groupserver): parties and raids of one realm.   *)
(* Groups live in MySQL and, completely, in an in-memory cache; gRPC       *)
(* handlers run concurrently and serialise on one mutex per group.         *)
(*                                                                         *)
(* A handler is a thread that resolves the group of a player, locks it,    *)
(* reads the cached group, writes MySQL and then the cache, in separate    *)
(* steps.  The gateway's login and logout events are handled by NATS       *)
(* callbacks that take no group lock.  Names, messages and published       *)
(* events are left out; "settings" stands for loot method, difficulties    *)
(* and target icons.                                                       *)
(***************************************************************************)
EXTENDS Integers, Sequences, FiniteSets

CONSTANTS
    Players, Threads,
    NoPlayer, NoThread,
    Ops,            \* the RPCs that are called
    InitialGroups,  \* the stored groups, a sequence of sequences of players, leader first
    InitialInvites, \* the stored invites, [invited, inviter, gid]
    MaxGroups,      \* bound: group ids
    MaxGroupSize, MaxRaidSize,
    MaxCalls,       \* bound: RPCs
    MaxRefusals,    \* bound: bindings the servers registry refuses
    MaxEvents,      \* bound: logins and logouts
    MaxDBErrors,    \* bound: failing MySQL statements
    MaxCrashes      \* bound: restarts that no panic caused

AllOps == {"Invite", "AcceptInvite", "Leave", "Uninvite", "ChangeLeader", "ConvertToRaid",
           "SetLootMethod", "SetDifficulty", "SetTargetIcon"}
GroupIds == 1..MaxGroups

ASSUME OpsAssumption == Ops \subseteq AllOps
ASSUME NobodyAssumption == NoPlayer \notin Players /\ NoThread \notin Threads
ASSUME PlayersAssumption == IsFiniteSet(Players)
ASSUME MaxGroupsAssumption == MaxGroups \in Nat
ASSUME SizesAssumption == MaxGroupSize \in Nat /\ MaxRaidSize \in Nat
ASSUME InitialGroupsAssumption ==
    /\ InitialGroups \in Seq(Seq(Players))
    /\ Len(InitialGroups) <= MaxGroups
    /\ \A g \in DOMAIN InitialGroups : InitialGroups[g] # <<>>
    /\ \A g, h \in DOMAIN InitialGroups : \A i \in DOMAIN InitialGroups[g], j \in DOMAIN InitialGroups[h] :
          InitialGroups[g][i] = InitialGroups[h][j] => g = h
ASSUME InitialInvitesAssumption ==
    /\ InitialInvites \subseteq [invited : Players, inviter : Players, gid : 0..Len(InitialGroups)]
    /\ \A v \in InitialInvites : v.invited # v.inviter

VARIABLES
    groups,      \* groups[g]: the Group object of the process
    inCache,     \* the ids of groupsCache
    memberOf,    \* groupMembersCache: the GroupID of the player's member, 0 without entry
    dbGroups,    \* rows of `groups`: the ids present ...
    dbColumns,   \* ... and their columns
    dbMember,    \* rows of group_member, by their key memberGuid; gid 0 is no row
    dbInvites,   \* rows of group_invites, by their key invited
    nextId,      \* AUTO_INCREMENT of `groups`
    lock,        \* lock[g]: the thread that holds the group's mutex
    thread,      \* thread[t]: the RPC a handler is executing
    connected,   \* characters.online, kept by the character service
    listener,    \* listener[v]: the cache's callback for logins (TRUE) and logouts (FALSE)
    announcer,   \* the service's callback for the same events
    disbanded,   \* history: ids whose cache entry was deleted
    mishaps,     \* history: what the handlers do not prevent, and has happened
    calls, refusals, loginEvents, dbErrors, crashes

cacheVars == <<groups, inCache, memberOf>>
dbVars == <<dbGroups, dbColumns, dbMember, dbInvites, nextId>>
eventVars == <<connected, listener, announcer>>
boundVars == <<calls, refusals, loginEvents, dbErrors, crashes>>
historyVars == <<disbanded, mishaps>>
vars == <<cacheVars, dbVars, lock, thread, eventVars, historyVars, boundVars>>

NoColumns == [leader |-> NoPlayer, raid |-> FALSE, settings |-> 0]
NoGroup == [columns |-> NoColumns, members |-> <<>>]
NoRow == [gid |-> 0, assistant |-> FALSE]
NoInvite == [inviter |-> NoPlayer, gid |-> 0]
Idle == [op |-> "none", pc |-> "idle", player |-> NoPlayer, target |-> NoPlayer, gid |-> 0, obj |-> 0]
NoEvent == [pc |-> "idle", player |-> NoPlayer, gid |-> 0, slot |-> 0, stale |-> FALSE]

Indices(g, p) == {i \in DOMAIN groups[g].members : groups[g].members[i].guid = p}
IsMember(g, p) == Indices(g, p) # {}
MemberSet(g) == {groups[g].members[i].guid : i \in DOMAIN groups[g].members}
IsLeader(g, p) == groups[g].columns.leader = p
IsAssistant(g, p) == \E i \in Indices(g, p) : groups[g].members[i].assistant
IsFull(g) == Len(groups[g].members) >= IF groups[g].columns.raid THEN MaxRaidSize ELSE MaxGroupSize

Mishaps == {"joinedTwice",    \* a player is added who is listed in a group already
            "deletedInUse",   \* a group is deleted while another handler holds its lock
            "emptyJoined",    \* a player joins a group that a restart left without members
            "leaderRemoved",  \* a leader removes himself with Uninvite
           "rowLost",        \* a departure deletes the player's row of another group
            "leftUnfinished"} \* a group's rows are left without a cached group
NoteIf(happens, mishap) == mishaps' = IF happens THEN mishaps \cup {mishap} ELSE mishaps
Undisturbed == {"joinedTwice", "deletedInUse"} \cap mishaps = {}

NewMember(p) == [guid |-> p, online |-> TRUE, assistant |-> FALSE]

-----------------------------------------------------------------------------
\* The orders in which MySQL may return the rows of group_member, group by group.
Rows(rows, g) == {p \in Players : rows[p].gid = g}
Listings(S) == {s \in [1..Cardinality(S) -> S] : \A p \in S : \E i \in DOMAIN s : \A j \in DOMAIN s : s[j] = p <=> j = i}
RowOrders == {lists \in [dbGroups -> UNION {Listings(Rows(dbMember, g)) : g \in dbGroups}] :
                \A g \in dbGroups : lists[g] \in Listings(Rows(dbMember, g))}

\* LoadAllForRealm: a group is loaded with the member rows that name it; a
\* member row without its group is skipped.
Loaded(g, order, columns, rows, online) ==
    LET guids == order[g]
    IN  [columns |-> columns[g],
         members |-> [i \in DOMAIN guids |-> [guid |-> guids[i], online |-> online[guids[i]],
                                              assistant |-> rows[guids[i]].assistant]]]

\* Warmup: the process starts with every stored group in its cache.
Warmup(order) ==
    /\ groups' = [g \in GroupIds |-> IF g \in dbGroups THEN Loaded(g, order, dbColumns, dbMember, connected)
                                     ELSE NoGroup]
    /\ inCache' = dbGroups
    /\ memberOf' = [p \in Players |-> IF dbMember[p].gid \in dbGroups THEN dbMember[p].gid ELSE 0]
    /\ lock' = [g \in GroupIds |-> NoThread]
    /\ thread' = [t \in Threads |-> Idle]
    /\ listener' = [v \in BOOLEAN |-> NoEvent]
    /\ announcer' = NoEvent
    /\ UNCHANGED <<dbVars, connected>>

InitiallyIn(p, g) == \E i \in DOMAIN InitialGroups[g] : InitialGroups[g][i] = p

Init ==
    /\ dbGroups = DOMAIN InitialGroups
    /\ dbColumns = [g \in GroupIds |-> IF g \in dbGroups THEN [NoColumns EXCEPT !.leader = InitialGroups[g][1]]
                                       ELSE NoColumns]
    /\ dbMember = [p \in Players |->
                     IF \E g \in dbGroups : InitiallyIn(p, g)
                     THEN [gid |-> CHOOSE g \in dbGroups : InitiallyIn(p, g), assistant |-> FALSE] ELSE NoRow]
    /\ dbInvites = [p \in Players |->
                     IF \E v \in InitialInvites : v.invited = p
                     THEN LET v == CHOOSE v \in InitialInvites : v.invited = p
                          IN  [inviter |-> v.inviter, gid |-> v.gid]
                     ELSE NoInvite]
    /\ nextId = Len(InitialGroups) + 1
    /\ connected = [p \in Players |-> TRUE]
    /\ \E order \in RowOrders :
         groups = [g \in GroupIds |-> IF g \in dbGroups THEN Loaded(g, order, dbColumns, dbMember, connected)
                                      ELSE NoGroup]
    /\ inCache = dbGroups
    /\ memberOf = [p \in Players |-> dbMember[p].gid]
    /\ lock = [g \in GroupIds |-> NoThread]
    /\ thread = [t \in Threads |-> Idle]
    /\ listener = [v \in BOOLEAN |-> NoEvent]
    /\ announcer = NoEvent
    /\ disbanded = {} /\ mishaps = {}
    /\ calls = 0 /\ refusals = 0 /\ loginEvents = 0 /\ dbErrors = 0 /\ crashes = 0

-----------------------------------------------------------------------------
At(t, pc) == thread[t].pc = pc
Goto(t, pc) == thread' = [thread EXCEPT ![t].pc = pc] /\ UNCHANGED lock

\* Mutant: an early return without unlock.
Return_KeepsLock(t) == thread' = [thread EXCEPT ![t] = Idle] /\ UNCHANGED lock

\* The handler returns, with or without an error; its deferred unlock runs.
Return(t) ==
    /\ thread' = [thread EXCEPT ![t] = Idle]
    /\ lock' = [g \in GroupIds |-> IF lock[g] = t THEN NoThread ELSE lock[g]]

\* The gRPC server and the NATS callbacks recover from no panic: a nil group
\* ends the process, which is started again.
Panic(order) == Warmup(order) /\ UNCHANGED <<historyVars, boundVars>>

Begin(t, r) == At(t, "idle") /\ calls < MaxCalls /\ calls' = calls + 1 /\ thread' = [thread EXCEPT ![t] = r]
Called == UNCHANGED <<cacheVars, dbVars, lock, eventVars, historyVars, refusals, loginEvents, dbErrors, crashes>>

\* An RPC on the caller's own group: lockGroupOfPlayer looks the group up
\* first (a caller without group gets an error and changes nothing).
CallOnGroup(t, op, p, q) ==
    /\ op \in Ops \ {"Invite", "AcceptInvite"}
    /\ op \notin {"Uninvite", "ChangeLeader"} => q = p
    /\ memberOf[p] # 0
    /\ Begin(t, [op |-> op, pc |-> "lock", player |-> p, target |-> q, gid |-> memberOf[p], obj |-> memberOf[p]])
    /\ Called

\* Invite: the invited player must have no group at this point.
CallInvite(t, p, q) ==
    /\ "Invite" \in Ops /\ p # q
    /\ memberOf[q] = 0
    /\ Begin(t, [op |-> "Invite", pc |-> "resolve", player |-> p, target |-> q, gid |-> 0, obj |-> 0])
    /\ Called

\* AcceptInvite: the invite is read once; player is the invited, target the inviter.
CallAcceptInvite(t, p) ==
    /\ "AcceptInvite" \in Ops
    /\ dbInvites[p] # NoInvite
    /\ LET v == dbInvites[p]
       IN  Begin(t, [op |-> "AcceptInvite", pc |-> IF v.gid = 0 THEN "createRow" ELSE "lockInvite",
                     player |-> p, target |-> v.inviter, gid |-> v.gid, obj |-> v.gid])
    /\ Called

\* lockGroupOfPlayer: resolve, lock, check again, retry when the player moved.
Resolve(t) ==
    /\ At(t, "resolve")
    /\ LET g == memberOf[thread[t].player]
       IN  \/ /\ g = 0 /\ thread[t].op = "Invite"
              /\ thread' = [thread EXCEPT ![t].pc = "addInvite", ![t].gid = 0]
              /\ UNCHANGED lock
           \/ g = 0 /\ thread[t].op # "Invite" /\ Return(t)
           \/ g # 0 /\ thread' = [thread EXCEPT ![t].pc = "lock", ![t].gid = g, ![t].obj = g] /\ UNCHANGED lock
    /\ UNCHANGED <<cacheVars, dbVars, eventVars, historyVars, boundVars>>

\* Mutant: the handlers of a group do not exclude each other.
LockGroup_NoMutex(t) ==
    /\ At(t, "lock")
    /\ IF memberOf[thread[t].player] = thread[t].gid THEN Goto(t, "body") ELSE Goto(t, "resolve")
    /\ UNCHANGED <<cacheVars, dbVars, eventVars, historyVars, boundVars>>

LockGroup(t) ==
    /\ At(t, "lock") /\ lock[thread[t].gid] = NoThread
    /\ IF memberOf[thread[t].player] = thread[t].gid
       THEN lock' = [lock EXCEPT ![thread[t].gid] = t] /\ thread' = [thread EXCEPT ![t].pc = "body"]
       ELSE Goto(t, "resolve")
    /\ UNCHANGED <<cacheVars, dbVars, eventVars, historyVars, boundVars>>

-----------------------------------------------------------------------------
\* Under the lock: the cached group is read, the request checked, and the
\* cached object changed in place, before MySQL is written.
InBody(t, op) == At(t, "body") /\ thread[t].op = op
Unsaved == UNCHANGED <<inCache, memberOf, dbVars, eventVars, historyVars, boundVars>>

MayInvite(g, p) == IsMember(g, p) /\ (IsLeader(g, p) \/ IsAssistant(g, p)) /\ ~IsFull(g)

InviteBody(t) ==
    /\ InBody(t, "Invite")
    /\ thread[t].obj \in inCache
    /\ IF MayInvite(thread[t].obj, thread[t].player) THEN Goto(t, "addInvite") ELSE Return(t)
    /\ Unsaved /\ UNCHANGED groups

UninviteBody(t) ==
    /\ InBody(t, "Uninvite")
    /\ LET g == thread[t].obj
       IN  IF g \in inCache /\ IsMember(g, thread[t].target) /\ IsLeader(g, thread[t].player)
           THEN Goto(t, IF Len(groups[g].members) <= 2 THEN "deleteMembers" ELSE "removeRow")
           ELSE Return(t)
    /\ NoteIf(thread'[t].pc = "removeRow" /\ thread[t].target = thread[t].player, "leaderRemoved")
    /\ UNCHANGED <<cacheVars, dbVars, eventVars, disbanded, boundVars>>

\* The first online member after the leaving leader; nobody when all are offline.
NewLeader(g, p) ==
    LET others == {i \in DOMAIN groups[g].members : groups[g].members[i].online /\ groups[g].members[i].guid # p}
    IN  IF others = {} THEN NoPlayer
        ELSE groups[g].members[CHOOSE i \in others : \A j \in others : i <= j].guid

\* Mutant: the new leader is set in the cached group only.
LeaveBody_NoUpdate(t) ==
    /\ InBody(t, "Leave")
    /\ thread[t].obj \in inCache
    /\ LET g == thread[t].obj
           p == thread[t].player
       IN  IF Len(groups[g].members) <= 2
           THEN Goto(t, "deleteMembers") /\ UNCHANGED groups
           ELSE /\ Goto(t, "removeRow")
                /\ groups' = IF IsLeader(g, p) THEN [groups EXCEPT ![g].columns.leader = NewLeader(g, p)] ELSE groups
    /\ Unsaved

LeaveBody(t) ==
    /\ InBody(t, "Leave")
    /\ thread[t].obj \in inCache
    /\ LET g == thread[t].obj
           p == thread[t].player
       IN  \/ ~IsMember(g, p) /\ Return(t) /\ UNCHANGED groups
           \/ /\ IsMember(g, p) /\ Len(groups[g].members) <= 2
              /\ Goto(t, "deleteMembers") /\ UNCHANGED groups
           \/ /\ IsMember(g, p) /\ Len(groups[g].members) > 2
              /\ IF IsLeader(g, p)
                 THEN Goto(t, "update") /\ groups' = [groups EXCEPT ![g].columns.leader = NewLeader(g, p)]
                 ELSE Goto(t, "removeRow") /\ UNCHANGED groups
    /\ Unsaved

\* getGroupWithLeader resolves the player's group a second time.
GroupWithLeader(t, g) == g = memberOf[thread[t].player] /\ g \in inCache /\ IsLeader(g, thread[t].player)

Refuse(t) == Return(t) /\ UNCHANGED groups
Update(t, g, columns) ==
    /\ groups' = [groups EXCEPT ![g].columns = columns]
    /\ thread' = [thread EXCEPT ![t].pc = "update", ![t].obj = g]
    /\ UNCHANGED lock

\* Mutant: the new leader need not be a member.
ChangeLeaderBody_Anyone(t) ==
    /\ InBody(t, "ChangeLeader")
    /\ LET g == memberOf[thread[t].player]
       IN  IF GroupWithLeader(t, g)
           THEN Update(t, g, [groups[g].columns EXCEPT !.leader = thread[t].target])
           ELSE Refuse(t)
    /\ Unsaved

ChangeLeaderBody(t) ==
    /\ InBody(t, "ChangeLeader")
    /\ LET g == memberOf[thread[t].player]
       IN  IF GroupWithLeader(t, g) /\ IsMember(g, thread[t].target)
           THEN Update(t, g, [groups[g].columns EXCEPT !.leader = thread[t].target])
           ELSE Refuse(t)
    /\ Unsaved

ConvertToRaidBody(t) ==
    /\ InBody(t, "ConvertToRaid")
    /\ LET g == memberOf[thread[t].player]
       IN  IF GroupWithLeader(t, g) THEN Update(t, g, [groups[g].columns EXCEPT !.raid = TRUE]) ELSE Refuse(t)
    /\ Unsaved

\* An unknown method or a master looter who is no member is refused.
SetLootMethodBody(t) ==
    /\ InBody(t, "SetLootMethod")
    /\ LET g == memberOf[thread[t].player]
       IN  \/ Refuse(t)
           \/ \E s \in 0..1 : GroupWithLeader(t, g) /\ Update(t, g, [groups[g].columns EXCEPT !.settings = s])
    /\ Unsaved

\* SetDungeonDifficulty and SetRaidDifficulty ask the character service where
\* the online members are, and refuse while one is in an instance.
SetDifficultyBody(t) ==
    /\ InBody(t, "SetDifficulty")
    /\ LET g == memberOf[thread[t].player]
       IN  \/ Refuse(t)
           \/ \E s \in 0..1 : GroupWithLeader(t, g) /\ Update(t, g, [groups[g].columns EXCEPT !.settings = s])
    /\ Unsaved

TargetIconBody(t) ==
    /\ InBody(t, "SetTargetIcon")
    /\ LET g == thread[t].obj
           p == thread[t].player
           guarded == groups[g].columns.raid /\ ~IsLeader(g, p)
       IN  \/ /\ g \notin inCache \/ (guarded /\ IsMember(g, p) /\ ~IsAssistant(g, p))
              /\ Return(t) /\ UNCHANGED groups
           \/ /\ g \in inCache /\ (guarded => IsAssistant(g, p))
              /\ \E s \in 0..1 : groups' = [groups EXCEPT ![g].columns.settings = s]
              /\ Goto(t, "update")
    /\ Unsaved

-----------------------------------------------------------------------------
\* MySQL statements and the cache update that follows each.
Saved == UNCHANGED <<cacheVars, eventVars, disbanded, boundVars>>
Cached == UNCHANGED <<dbVars, boundVars>>

\* AddInvite replaces the player's earlier invite.
AddInvite(t) ==
    /\ At(t, "addInvite")
    /\ dbInvites' = [dbInvites EXCEPT ![thread[t].target] = [inviter |-> thread[t].player, gid |-> thread[t].gid]]
    /\ Return(t)
    /\ Saved /\ UNCHANGED <<dbGroups, dbColumns, dbMember, nextId, mishaps>>

\* Update: the row's columns; no error when the row is gone.
UpdateRow(t) ==
    /\ At(t, "update")
    /\ dbColumns' = IF thread[t].obj \in dbGroups
                    THEN [dbColumns EXCEPT ![thread[t].obj] = groups[thread[t].obj].columns] ELSE dbColumns
    /\ Goto(t, "updateCache")
    /\ Saved /\ UNCHANGED <<dbGroups, dbMember, dbInvites, nextId, mishaps>>

\* Update then puts the object (back) into the cache; a leaving leader is removed next.
UpdateCache(t) ==
    /\ At(t, "updateCache")
    /\ inCache' = inCache \cup {thread[t].obj}
    /\ IF thread[t].op = "Leave" THEN Goto(t, "removeRow") ELSE Return(t)
    /\ Cached /\ UNCHANGED <<groups, memberOf, eventVars, historyVars>>

RemoveRow(t) ==
    /\ At(t, "removeRow")
    /\ NoteIf(dbMember[thread[t].target].gid \notin {0, thread[t].gid}, "rowLost")
    /\ dbMember' = [dbMember EXCEPT ![thread[t].target] = NoRow]
    /\ Goto(t, "removeLookup")
    /\ Saved /\ UNCHANGED <<dbGroups, dbColumns, dbInvites, nextId>>

\* RemoveMember looks the member's group up again.
RemoveLookup(t) ==
    /\ At(t, "removeLookup") /\ memberOf[thread[t].target] \in inCache
    /\ thread' = [thread EXCEPT ![t].pc = "removeCache", ![t].obj = memberOf[thread[t].target]]
    /\ Cached /\ UNCHANGED <<cacheVars, lock, eventVars, historyVars>>

\* refreshGroupMembersPointers: every listed member is mapped to the group.
Refreshed(g, members, map) ==
    [p \in Players |-> IF \E i \in DOMAIN members : members[i].guid = p THEN g ELSE map[p]]

\* The loop over the members stops at the first one with the guid.
WithoutFirst(members, p) ==
    LET found == {i \in DOMAIN members : members[i].guid = p}
        first == CHOOSE i \in found : \A j \in found : i <= j
    IN  SubSeq(members, 1, first - 1) \o SubSeq(members, first + 1, Len(members))

\* Mutant: the removed member stays in the group's list.
RemoveCache_KeepsMember(t) ==
    /\ At(t, "removeCache")
    /\ memberOf' = [memberOf EXCEPT ![thread[t].target] = 0]
    /\ Return(t)
    /\ Cached /\ UNCHANGED <<groups, inCache, eventVars, historyVars>>

RemoveCache(t) ==
    /\ At(t, "removeCache")
    /\ LET g == thread[t].obj
           p == thread[t].target
           rest == WithoutFirst(groups[g].members, p)
       IN  IF IsMember(g, p)
           THEN /\ groups' = [groups EXCEPT ![g].members = rest]
                /\ memberOf' = Refreshed(g, rest, [memberOf EXCEPT ![p] = 0])
           ELSE UNCHANGED <<groups, memberOf>>
    /\ Return(t)
    /\ Cached /\ UNCHANGED <<inCache, eventVars, historyVars>>

DeleteMemberRows(t) ==
    /\ At(t, "deleteMembers")
    /\ dbMember' = [p \in Players |-> IF dbMember[p].gid = thread[t].obj THEN NoRow ELSE dbMember[p]]
    /\ Goto(t, "deleteGroup")
    /\ Saved /\ UNCHANGED <<dbGroups, dbColumns, dbInvites, nextId, mishaps>>

DeleteGroupRow(t) ==
    /\ At(t, "deleteGroup")
    /\ dbGroups' = dbGroups \ {thread[t].obj}
    /\ Goto(t, "deleteCache")
    /\ Saved /\ UNCHANGED <<dbColumns, dbMember, dbInvites, nextId, mishaps>>

\* Mutant: the entries of the members survive their group.
DeleteCache_KeepsMembers(t) ==
    /\ At(t, "deleteCache")
    /\ inCache' = inCache \ {thread[t].obj}
    /\ disbanded' = disbanded \cup {thread[t].obj}
    /\ Return(t)
    /\ Cached /\ UNCHANGED <<groups, memberOf, eventVars, mishaps>>

\* Deleting is idempotent; the listed members lose their mapping.
DeleteCache(t) ==
    /\ At(t, "deleteCache")
    /\ LET g == thread[t].obj
       IN  /\ NoteIf(lock[g] \notin {t, NoThread}, "deletedInUse")
           /\ IF g \in inCache
              THEN /\ memberOf' = [p \in Players |-> IF IsMember(g, p) THEN 0 ELSE memberOf[p]]
                   /\ inCache' = inCache \ {g}
                   /\ disbanded' = disbanded \cup {g}
              ELSE UNCHANGED <<memberOf, inCache, disbanded>>
    /\ Return(t)
    /\ Cached /\ UNCHANGED <<groups, eventVars>>

-----------------------------------------------------------------------------
\* AcceptInvite of an existing group: the invite's group is locked, then read.
LockInvite(t) ==
    /\ At(t, "lockInvite") /\ lock[thread[t].gid] = NoThread
    /\ IF thread[t].gid \in inCache
       THEN /\ lock' = [lock EXCEPT ![thread[t].gid] = t]
            /\ thread' = [thread EXCEPT ![t].pc = "addRow"]
       ELSE Return(t)
    /\ NoteIf(thread[t].gid \in inCache /\ groups[thread[t].gid].members = <<>>, "emptyJoined")
    /\ UNCHANGED <<cacheVars, dbVars, eventVars, disbanded, boundVars>>

\* INSERT INTO group_member fails for a player who has a row; a foundation is
\* left unfinished then.
InsertMember(t, g, p, next) ==
    /\ IF dbMember[p] = NoRow
       THEN dbMember' = [dbMember EXCEPT ![p].gid = g] /\ Goto(t, next)
       ELSE UNCHANGED dbMember /\ Return(t)
    /\ NoteIf(dbMember[p] # NoRow /\ ~At(t, "addRow"), "leftUnfinished")
    /\ Saved /\ UNCHANGED <<dbGroups, dbColumns, dbInvites, nextId>>

AddRow(t) == At(t, "addRow") /\ InsertMember(t, thread[t].gid, thread[t].player, "addCache")

\* Append may move the members to a new array: a member pointer that a
\* callback took before no longer points into the group.
AddCache(t) ==
    /\ At(t, "addCache") /\ thread[t].gid \in inCache
    /\ LET g == thread[t].gid
           members == Append(groups[g].members, NewMember(thread[t].player))
       IN  /\ NoteIf(memberOf[thread[t].player] # 0, "joinedTwice")
           /\ groups' = [groups EXCEPT ![g].members = members]
           /\ memberOf' = Refreshed(g, members, memberOf)
           /\ \/ UNCHANGED listener
              \/ /\ \E v \in BOOLEAN : listener[v].gid = g
                 /\ listener' = [v \in BOOLEAN |-> IF listener[v].gid = g THEN [listener[v] EXCEPT !.stale = TRUE]
                                                   ELSE listener[v]]
    /\ Return(t)
    /\ Cached /\ UNCHANGED <<inCache, connected, announcer, disbanded>>

\* AcceptInvite of a groupless inviter: createGroup, without a lock.
CreateRow(t) ==
    /\ At(t, "createRow") /\ nextId <= MaxGroups
    /\ dbGroups' = dbGroups \cup {nextId}
    /\ dbColumns' = [dbColumns EXCEPT ![nextId] = [NoColumns EXCEPT !.leader = thread[t].target]]
    /\ nextId' = nextId + 1
    /\ thread' = [thread EXCEPT ![t].pc = "createInviter", ![t].obj = nextId]
    /\ Saved /\ UNCHANGED <<dbMember, dbInvites, lock, mishaps>>

CreateInviter(t) == At(t, "createInviter") /\ InsertMember(t, thread[t].obj, thread[t].target, "createInvited")
CreateInvited(t) == At(t, "createInvited") /\ InsertMember(t, thread[t].obj, thread[t].player, "createCache")

CreateCache(t) ==
    /\ At(t, "createCache")
    /\ LET g == thread[t].obj
           members == <<NewMember(thread[t].target), NewMember(thread[t].player)>>
       IN  /\ NoteIf(memberOf[thread[t].target] # 0 \/ memberOf[thread[t].player] # 0, "joinedTwice")
           /\ groups' = [groups EXCEPT ![g] = [columns |-> [NoColumns EXCEPT !.leader = thread[t].target],
                                              members |-> members]]
           /\ inCache' = inCache \cup {g}
           /\ memberOf' = Refreshed(g, members, memberOf)
    /\ Goto(t, "bind")
    /\ Cached /\ UNCHANGED <<eventVars, disbanded>>

\* BindGroupToGameServer; without the inviter's game server, or when the
\* registry refuses, the group is deleted again, without its lock.
BindGroup(t) ==
    /\ At(t, "bind")
    /\ \/ Return(t) /\ UNCHANGED refusals
       \/ Goto(t, "deleteMembers") /\ refusals < MaxRefusals /\ refusals' = refusals + 1
    /\ UNCHANGED <<cacheVars, dbVars, eventVars, historyVars, calls, loginEvents, dbErrors, crashes>>

-----------------------------------------------------------------------------
\* A MySQL statement fails and changes nothing: the handler returns the error.
Statements == {"addInvite", "update", "removeRow", "deleteMembers", "deleteGroup", "addRow",
               "createRow", "createInviter", "createInvited"}
DBError(t) ==
    /\ thread[t].pc \in Statements
    /\ dbErrors < MaxDBErrors /\ dbErrors' = dbErrors + 1
    /\ Return(t)
    /\ UNCHANGED <<cacheVars, dbVars, eventVars, historyVars, calls, refusals, loginEvents, crashes>>

\* The places where a handler dereferences a group that is not cached.
NilGroup(t) ==
    \/ At(t, "body") /\ thread[t].op \in {"Invite", "Leave"} /\ thread[t].obj \notin inCache
    \/ /\ InBody(t, "SetTargetIcon") /\ thread[t].obj \in inCache
       /\ groups[thread[t].obj].columns.raid /\ ~IsLeader(thread[t].obj, thread[t].player)
       /\ ~IsMember(thread[t].obj, thread[t].player)
    \/ At(t, "removeLookup") /\ memberOf[thread[t].target] \notin inCache
    \/ At(t, "addCache") /\ thread[t].gid \notin inCache

HandlerPanic == (\E t \in Threads : NilGroup(t)) /\ \E order \in RowOrders : Panic(order)

Crash ==
    /\ crashes < MaxCrashes /\ crashes' = crashes + 1
    /\ \E order \in RowOrders : Warmup(order)
    /\ UNCHANGED <<historyVars, calls, refusals, loginEvents, dbErrors>>

-----------------------------------------------------------------------------
\* The gateway publishes a login or a logout; each of the service's
\* subscriptions handles one event at a time.
PublishLogin(p, v) ==
    /\ connected[p] # v /\ listener[v].pc = "idle" /\ announcer.pc = "idle"
    /\ loginEvents < MaxEvents /\ loginEvents' = loginEvents + 1
    /\ connected' = [connected EXCEPT ![p] = v]
    /\ listener' = [listener EXCEPT ![v] = [NoEvent EXCEPT !.pc = "lookup", !.player = p]]
    /\ announcer' = [NoEvent EXCEPT !.pc = "lookup", !.player = p]
    /\ UNCHANGED <<cacheVars, dbVars, lock, thread, historyVars, calls, refusals, dbErrors, crashes>>

\* The slot refreshGroupMembersPointers leaves the player mapped to.
LastSlot(g, p) == CHOOSE i \in Indices(g, p) : \A j \in Indices(g, p) : j <= i

\* HandleCharacterLoggedIn/Out of the cache: the member's address is read
\* under cacheLock ...
ListenerLookup(v) ==
    /\ listener[v].pc = "lookup"
    /\ LET p == listener[v].player
           g == memberOf[p]
       IN  listener' = IF g = 0 \/ ~IsMember(g, p) THEN [listener EXCEPT ![v] = NoEvent]
                       ELSE [listener EXCEPT ![v].pc = "write", ![v].gid = g,
                                             ![v].slot = LastSlot(g, p)]
    /\ UNCHANGED <<cacheVars, dbVars, lock, thread, connected, announcer, historyVars, boundVars>>

\* ... and its IsOnline is written after the unlock, to whatever is there now.
ListenerWrite(v) ==
    /\ listener[v].pc = "write"
    /\ LET e == listener[v]
       IN  groups' = IF ~e.stale /\ e.slot \in DOMAIN groups[e.gid].members
                     THEN [groups EXCEPT ![e.gid].members[e.slot].online = v] ELSE groups
    /\ listener' = [listener EXCEPT ![v] = NoEvent]
    /\ UNCHANGED <<inCache, memberOf, dbVars, lock, thread, connected, announcer, historyVars, boundVars>>

\* buildGroupMemberOnlineStatusChangedPayload: the player's group id ...
AnnouncerLookup ==
    /\ announcer.pc = "lookup"
    /\ announcer' = IF memberOf[announcer.player] = 0 THEN NoEvent
                    ELSE [announcer EXCEPT !.pc = "read", !.gid = memberOf[announcer.player]]
    /\ UNCHANGED <<cacheVars, dbVars, lock, thread, connected, listener, historyVars, boundVars>>

\* ... and then the group, whose online members the event names.
AnnouncerRead ==
    /\ announcer.pc = "read" /\ announcer.gid \in inCache
    /\ announcer' = NoEvent
    /\ UNCHANGED <<cacheVars, dbVars, lock, thread, connected, listener, historyVars, boundVars>>

AnnouncerPanic ==
    /\ announcer.pc = "read" /\ announcer.gid \notin inCache
    /\ \E order \in RowOrders : Panic(order)

-----------------------------------------------------------------------------
HandlerStep(t) ==
    \/ Resolve(t) \/ LockGroup(t)
    \/ InviteBody(t) \/ UninviteBody(t) \/ LeaveBody(t)
    \/ ChangeLeaderBody(t) \/ ConvertToRaidBody(t) \/ SetLootMethodBody(t) \/ SetDifficultyBody(t) \/ TargetIconBody(t)
    \/ AddInvite(t) \/ UpdateRow(t) \/ UpdateCache(t)
    \/ RemoveRow(t) \/ RemoveLookup(t) \/ RemoveCache(t)
    \/ DeleteMemberRows(t) \/ DeleteGroupRow(t) \/ DeleteCache(t)
    \/ LockInvite(t) \/ AddRow(t) \/ AddCache(t)
    \/ CreateRow(t) \/ CreateInviter(t) \/ CreateInvited(t) \/ CreateCache(t) \/ BindGroup(t)

Next ==
    \/ \E t \in Threads :
         \/ \E op \in Ops, p, q \in Players : CallOnGroup(t, op, p, q)
         \/ \E p, q \in Players : CallInvite(t, p, q)
         \/ \E p \in Players : CallAcceptInvite(t, p)
         \/ HandlerStep(t)
         \/ DBError(t)
    \/ HandlerPanic
    \/ Crash
    \/ \E p \in Players, v \in BOOLEAN : PublishLogin(p, v)
    \/ \E v \in BOOLEAN : ListenerLookup(v) \/ ListenerWrite(v)
    \/ AnnouncerLookup \/ AnnouncerRead \/ AnnouncerPanic

Spec == Init /\ [][Next]_vars

\* A running handler keeps taking steps; a mutex is given to every waiter in
\* the end (Go's mutexes do not starve a waiter).
FairSpec == Spec /\ \A t \in Threads : SF_vars(HandlerStep(t)) /\ WF_vars(HandlerPanic)
-----------------------------------------------------------------------------
\* A player the service finds in a group is a member of that group, and the
\* group is cached: otherwise the player can neither be invited nor leave (the
\* state the comment on groupLocks describes).  What can break it: a player
\* who accepts an invite while the previous group still lists him, and a
\* rolled-back creation, which deletes the group without taking its lock.
MappedPlayersAreMembers ==
    Undisturbed => \A p \in Players : memberOf[p] # 0 => memberOf[p] \in inCache /\ IsMember(memberOf[p], p)

\* A member of a cached group is found in that group, and listed once.
MembersAreMapped ==
    Undisturbed =>
       \A g \in inCache : \A i \in DOMAIN groups[g].members :
          LET p == groups[g].members[i].guid IN memberOf[p] = g /\ Cardinality(Indices(g, p)) = 1

\* A group that was deleted from the cache never returns (comment on groupLocks).
DisbandedStaysGone == Undisturbed => disbanded \cap inCache = {}

\* With no RPC running, and as long as no MySQL statement failed, the cache is
\* what a restart would load.
CacheMirrorsDB ==
    dbErrors = 0 /\ mishaps = {} /\ (\A t \in Threads : At(t, "idle")) =>
       /\ inCache = dbGroups
       /\ \A g \in inCache : /\ groups[g].columns = dbColumns[g]
                              /\ MemberSet(g) = {p \in Players : dbMember[p].gid = g}

\* As long as no MySQL statement failed, no binding was refused and no leader
\* removed himself with Uninvite, the leader of a cached group is one of its
\* members, also after a restart in the middle of an RPC; or it is nobody, when
\* the leader left and no other member was online.  (A restart between the two
\* DELETEs of a disband, or between the INSERTs of a foundation, leaves a group
\* without members.)
LeaderIsMember ==
    dbErrors = 0 /\ refusals = 0 /\ mishaps \subseteq {"leftUnfinished"} =>
       \A g \in inCache : MemberSet(g) # {} => groups[g].columns.leader \in MemberSet(g) \cup {NoPlayer}

\* Every RPC returns.
CallsReturn == \A t \in Threads : thread[t].pc # "idle" ~> thread[t].pc = "idle"
=============================================================================
