---------------------------- MODULE Matchmaking ----------------------------
(***************************************************************************)
(* Battleground matchmaking: the gateway sessions that enqueue, leave and  *)
(* enter, the matchmaking server with its queues, battlegrounds and links  *)
(* per player, the worldservers that report what happens inside, and the   *)
(* events that bring queue and invitation back to the clients.             *)
(*                                                                         *)
(* One realm in one battlegroup, one battleground type, one bracket: a     *)
(* queue of the realm and a queue of the battlegroup.  A thread is a       *)
(* gateway session (its handler waits for the server's answer, so the      *)
(* server's handler runs on the session's behalf) or a goroutine of the    *)
(* server.  todo[t] is what the call of t has still to do, one critical    *)
(* section or remote call after the other.                                 *)
(***************************************************************************)
EXTENDS TeamBalancing, FiniteSets

CONSTANTS
  Players,            \* characters of the realm
  TeamOf,             \* their faction
  Party,              \* sets of players one may take along: none, or the group (external: group server)
  Sessions,           \* players who act; the others only come along
  Watched,            \* players whose client is followed; the others' may send anything
  Nodes,              \* cross-realm worldservers
  InitialNodes,
  InitialQueued,      \* players who have enqueued before, each alone
  RealmServer,        \* the worldserver of the realm
  MinPlayersPerTeam, MaxPlayersPerTeam,
  Goroutines,         \* listener, registry, expirer, sidecar
  None,
  MaxInstances,       \* bound: battlegrounds created
  MaxBusy,            \* bound: calls at the same time
  MaxInputs           \* bound: packets, logouts, nodes that come and go, refused battlegrounds

ASSUME TeamsAssumption == TeamOf \in [Players -> Teams] /\ Party \in [Players -> SUBSET SUBSET Players]
ASSUME SizesAssumption == 0 < MinPlayersPerTeam /\ MinPlayersPerTeam <= MaxPlayersPerTeam

VARIABLES
  queues,     \* per queue: queuedGroups and playersGroupLeaderByPlayer
  links,      \* playersQueueOrBattleground
  bgs,        \* the battleground repository
  ptr,        \* the thread whose copy of a battleground is the stored object
  nodes,      \* activeCrossRealmNodes
  started,    \* battlegrounds created so far
  todo, copy, \* per thread: its remaining steps and its copies of battlegrounds
  client,     \* the battlefield status a client shows
  waiting, pendingInvite, \* bgInviteOrderingFix of a session
  events,     \* events on their way to a session
  inGame,     \* the battleground a player has been added to (external: worldserver)
  inputs,
  enqueued,   \* per player: never, "once" as leader of a group, or more often (history)
  overlap,    \* two calls have overlapped (history)
  broken      \* what calls that ran alone left behind (history)

server == <<queues, links, bgs, ptr, nodes, started>>
gateway == <<client, waiting, pendingInvite, events, inGame>>
history == <<enqueued, overlap, broken>>
vars == <<server, todo, copy, gateway, inputs, history>>

Threads == Sessions \cup Goroutines
QueueKeys == {"realm", "battlegroup"}
Instances == 1..MaxInstances
Groups == [leader : Players, members : SUBSET Players, team : Teams]
MembersOf(g) == g.members \cup {g.leader}
InQueue(k) == <<"queue", k>>
InBattleground(i) == <<"battleground", i>>
Links == {InQueue(k) : k \in QueueKeys} \cup {InBattleground(i) : i \in Instances}
EmptyQueue == [groups |-> {}, leaderOf |-> [p \in Players |-> None]]
Battlegrounds == [server : Nodes \cup {RealmServer}, key : QueueKeys,
                  active : [Teams -> Seq(Players)], invited : [Teams -> Seq(Players)], ended : BOOLEAN]
EventKinds == {"joined", "invited", "expired"}

\* CrossRealmQueue: with a cross-realm node up, players of the battlegroup queue together.
CurrentKey == IF nodes # {} THEN "battlegroup" ELSE "realm"

NewBattleground(s, k) ==
  LET empty == [team \in Teams |-> <<>>]
  IN [server |-> s, key |-> k, active |-> empty, invited |-> empty, ended |-> FALSE]

WithInvited(b, team, S) ==
  LET invites(g) == Append(SetToSeq(g.members), g.leader)
      order == SetToSeq(S)
  IN [b EXCEPT !.invited[team] = @ \o FlattenSeq([j \in DOMAIN order |-> invites(order[j])])]

Alone(p) == [leader |-> p, members |-> {}, team |-> TeamOf[p]]

\* Either the players of InitialQueued wait in the queue, or they and everyone else
\* have been invited to the first battleground (on a cross-realm node).
Init ==
  /\ nodes = InitialNodes
  /\ \/ /\ queues = [k \in QueueKeys |->
               IF k = CurrentKey
               THEN [groups |-> {Alone(p) : p \in InitialQueued},
                     leaderOf |-> [p \in Players |-> IF p \in InitialQueued THEN p ELSE None]]
               ELSE EmptyQueue]
        /\ links = [p \in Players |-> IF p \in InitialQueued THEN <<InQueue(CurrentKey)>> ELSE <<>>]
        /\ bgs = [i \in Instances |-> None]
        /\ client = [p \in Players |-> "none"]
        /\ started = 0
        /\ enqueued = [p \in Players |-> "never"]
     \/ /\ queues = [k \in QueueKeys |-> EmptyQueue]
        /\ links = [p \in Players |-> <<InBattleground(1)>>]
        /\ \E s \in InitialNodes :
             bgs = [i \in Instances |->
               IF i = 1
               THEN LET alone(team) == {Alone(p) : p \in {x \in Players : TeamOf[x] = team}}
                    IN WithInvited(WithInvited(NewBattleground(s, CurrentKey), "horde", alone("horde")),
                                   "alliance", alone("alliance"))
               ELSE None]
        /\ client = [p \in Players |-> IF p \in Watched THEN "invited" ELSE "none"]
        /\ started = 1
        /\ enqueued = [p \in Players |-> "once"]
  /\ ptr = [i \in Instances |-> None]
  /\ todo = [t \in Threads |-> <<>>]
  /\ copy = [t \in Threads |-> [i \in {} |-> None]]
  /\ waiting = [p \in Players |-> FALSE]
  /\ pendingInvite = [p \in Players |-> FALSE]
  /\ events = [p \in Players |-> [e \in EventKinds |-> 0]]
  /\ inGame = [p \in Players |-> None]
  /\ inputs = 0
  /\ overlap = FALSE
  /\ broken = [refused |-> FALSE, orphans |-> {}]

(***************************** Calls and steps *****************************)

Idle == \A t \in Threads : todo[t] = <<>>

\* Thread t begins a call that consists of the given steps; a goroutine that serves a
\* subscription takes its events one after the other.
Begin(t, steps) ==
  /\ Cardinality({u \in Threads : todo[u] # <<>>}) < MaxBusy
  /\ todo' = [todo EXCEPT ![t] = @ \o steps]
  /\ overlap' = (overlap \/ ~Idle)

At(t, step) == todo[t] # <<>> /\ Head(todo[t])[1] = step
Arg(t, n) == Head(todo[t])[n + 1]
Continue(t, steps) == todo' = [todo EXCEPT ![t] = steps \o Tail(@)]
Return(t) == todo' = [todo EXCEPT ![t] = <<>>]

\* The steps for every element of S, one element after the other in any order.
InAnyOrder(S, Steps(_)) == {FlattenSeq([j \in DOMAIN s |-> Steps(s[j])]) : s \in SetToSeqs(S)}

Notify(S, kind) ==
  events' = [p \in Players |-> IF p \in S \cap Watched THEN [events[p] EXCEPT ![kind] = @ + 1] ELSE events[p]]

(********************************** Links **********************************)

addLink(S, link) == [p \in Players |-> IF p \in S THEN Append(links[p], link) ELSE links[p]]

IsQueueLink(link) == link[1] = "queue"
\* The queue type decides which link goes, not the queue itself.
removeQueueForGroupMembers(S) ==
  [p \in Players |-> IF p \in S THEN RemoveFirstMatch(links[p], IsQueueLink) ELSE links[p]]

removeBattlegroundLinkForPlayer(ls, S, i) ==
  [p \in Players |-> IF p \in S THEN RemoveFirst(ls[p], InBattleground(i)) ELSE ls[p]]

AddIfFree(t) ==
  /\ At(t, "addQueueForGroupMembersIfFree")
  /\ LET k == Arg(t, 1)
         g == Arg(t, 2)
     IN \/ /\ \E p \in MembersOf(g) : links[p] # <<>>
           /\ Return(t)
           /\ UNCHANGED links
        \/ /\ \A p \in MembersOf(g) : links[p] = <<>>
           /\ links' = addLink(MembersOf(g), InQueue(k))
           /\ Continue(t, <<>>)
  /\ UNCHANGED <<queues, bgs, ptr, nodes, started, copy, gateway, inputs, history>>

AddLink(t) ==
  /\ At(t, "addLinkForGroupMembers")
  /\ links' = addLink(MembersOf(Arg(t, 1)), Arg(t, 2))
  /\ Continue(t, <<>>)
  /\ UNCHANGED <<queues, bgs, ptr, nodes, started, copy, gateway, inputs, history>>

Unlink(t) ==
  /\ At(t, "removeQueueForGroupMembers")
  /\ links' = removeQueueForGroupMembers(MembersOf(Arg(t, 1)))
  /\ Continue(t, <<>>)
  /\ UNCHANGED <<queues, bgs, ptr, nodes, started, copy, gateway, inputs, history>>

UnlinkBattleground(t) ==
  /\ At(t, "removeBattlegroundLinkForPlayer")
  /\ links' = removeBattlegroundLinkForPlayer(links, Arg(t, 1), Arg(t, 2))
  /\ Continue(t, <<>>)
  /\ UNCHANGED <<queues, bgs, ptr, nodes, started, copy, gateway, inputs, history>>

(********************************** Queues *********************************)

AddQueuedGroup(t) ==
  /\ At(t, "AddQueuedGroup")
  /\ LET k == Arg(t, 1)
         g == Arg(t, 2)
     IN /\ queues' = [queues EXCEPT
             ![k].groups = {x \in @ : x.leader # g.leader} \cup {g},
             ![k].leaderOf = [p \in Players |-> IF p \in MembersOf(g) THEN g.leader ELSE @[p]]]
        /\ Continue(t, << <<"process", k>> >>)
  /\ UNCHANGED <<links, bgs, ptr, nodes, started, copy, gateway, inputs, history>>

\* The group is forgotten, and its members, but not the entry of its leader.
Forget(q, leader, members) ==
  [groups |-> {g \in q.groups : g.leader # leader},
   leaderOf |-> [p \in Players |-> IF p \in members THEN None ELSE q.leaderOf[p]]]

RemoveQueuedGroup(t) ==
  /\ At(t, "RemoveQueuedGroup")
  /\ LET k == Arg(t, 1)
         leader == queues[k].leaderOf[Arg(t, 2)]
         members == UNION {g.members : g \in {x \in queues[k].groups : x.leader = leader}}
     IN queues' = IF leader = None THEN queues ELSE [queues EXCEPT ![k] = Forget(@, leader, members)]
  /\ Continue(t, <<>>)
  /\ UNCHANGED <<links, bgs, ptr, nodes, started, copy, gateway, inputs, history>>

RemoveGroupFromQueue(t) ==
  /\ At(t, "removeGroupFromQueue")
  /\ queues' = [queues EXCEPT ![Arg(t, 1)] = Forget(@, Arg(t, 2).leader, Arg(t, 2).members)]
  /\ Continue(t, <<>>)
  /\ UNCHANGED <<links, bgs, ptr, nodes, started, copy, gateway, inputs, history>>

RemoveAllQueuedGroups(t) ==
  /\ At(t, "RemoveAllQueuedGroups")
  /\ queues' = [queues EXCEPT ![Arg(t, 1)] = EmptyQueue]
  /\ Continue(t, <<>>)
  /\ UNCHANGED <<links, bgs, ptr, nodes, started, copy, gateway, inputs, history>>

(****************************** Battlegrounds ******************************)

Count(b, team) == Len(b.active[team]) + Len(b.invited[team])

\* Mutant: invitations do not count.
BackfillSlotsForTeam_IgnoresInvites(b, team) ==
  Max({0, Min({MaxPlayersPerTeam, Max({MinPlayersPerTeam, Len(b.active[Other(team)])})}) - Len(b.active[team])})

\* How far a team may grow: to the other team or the minimum, within the maximum.
BackfillSlotsForTeam(b, team) ==
  Max({0, Min({MaxPlayersPerTeam, Max({MinPlayersPerTeam, Count(b, Other(team))})}) - Count(b, team)})

RemovePlayerFromInvite(b, p) == [b EXCEPT !.invited = [team \in Teams |-> RemoveFirst(@[team], p)]]
RemovePlayer(b, p) ==
  RemovePlayerFromInvite([b EXCEPT !.active = [team \in Teams |-> RemoveFirst(@[team], p)]], p)

IsInvited(p, b, team) == p \in ToSet(b.invited[team])
Occupants(b) == UNION {ToSet(b.active[team]) \cup ToSet(b.invited[team]) : team \in Teams}

\* The object thread t works on: its copy, or the stored one if t saved its copy last.
Object(t, i) == IF ptr[i] = t THEN bgs[i] ELSE copy[t][i]

\* A thread whose object leaves the repository keeps it.
Keep(t, i, b) == IF ptr[i] \in Threads \ {t} THEN [copy EXCEPT ![ptr[i]][i] = b] ELSE copy

\* SaveBattleground: a pointer to the thread's object, whatever was stored; ended ones go.
Save(t, i, b) ==
  /\ bgs' = [bgs EXCEPT ![i] = IF b.ended THEN None ELSE b]
  /\ ptr' = [ptr EXCEPT ![i] = IF b.ended THEN None ELSE t]
  /\ copy' = IF b.ended THEN [Keep(t, i, bgs[i]) EXCEPT ![t][i] = b] ELSE Keep(t, i, bgs[i])

GetActiveBattlegrounds(k) == {i \in Instances : bgs[i] # None /\ bgs[i].key = k}

Process(t) ==
  /\ At(t, "process")
  /\ LET k == Arg(t, 1)
         needPlayers == {i \in GetActiveBattlegrounds(k) : \E team \in Teams : BackfillSlotsForTeam(bgs[i], team) > 0}
         fill(i) == << <<"backfill", i, "alliance", k>>, <<"backfill", i, "horde", k>> >>
     IN /\ copy' = [copy EXCEPT ![t] = [i \in needPlayers |-> bgs[i]]]
        /\ \E steps \in InAnyOrder(needPlayers, fill) : Continue(t, Append(steps, <<"createNew", k>>))
  /\ UNCHANGED <<server, gateway, inputs, history>>

Backfill(t) ==
  /\ At(t, "backfill")
  /\ LET i == Arg(t, 1)
         team == Arg(t, 2)
         k == Arg(t, 3)
         slots == BackfillSlotsForTeam(Object(t, i), team)
     IN \E S \in FindGroupsForGivenSlots(queues[k].groups, slots, team) :
          Continue(t, IF S = {} THEN <<>> ELSE << <<"InviteGroups", i, team, S, k>> >>)
  /\ UNCHANGED <<server, copy, gateway, inputs, history>>

\* After an invitation: each group changes its links, then each group leaves the queue.
Relink(S, i) ==
  LET one(g) == << <<"removeQueueForGroupMembers", g>>, <<"addLinkForGroupMembers", g, InBattleground(i)>> >>
  IN InAnyOrder(S, one)
Dequeue(S, k) == LET one(g) == << <<"removeGroupFromQueue", k, g>> >> IN InAnyOrder(S, one)

\* The events go out before the battleground is saved; nobody can use them before.
InviteGroups(t) ==
  /\ At(t, "InviteGroups")
  /\ LET i == Arg(t, 1)
         S == Arg(t, 3)
     IN /\ Save(t, i, WithInvited(Object(t, i), Arg(t, 2), S))
        /\ Notify(UNION {MembersOf(g) : g \in S}, "invited")
        /\ \E r \in Relink(S, i), d \in Dequeue(S, Arg(t, 4)) : Continue(t, r \o d)
  /\ UNCHANGED <<queues, links, nodes, started, client, waiting, pendingInvite, inGame, inputs, history>>

CreateNew(t) ==
  /\ At(t, "createNew")
  /\ copy' = [copy EXCEPT ![t] = [i \in {} |-> None]]
  /\ ptr' = [i \in Instances |-> IF ptr[i] = t THEN None ELSE ptr[i]]
  /\ LET k == Arg(t, 1)
     IN \E pick \in BalancedGroups(queues[k].groups, MinPlayersPerTeam, MaxPlayersPerTeam) :
          Continue(t, IF pick.alliance = {} \/ pick.horde = {} THEN <<>> ELSE << <<"CreateBattleground", k, pick>> >>)
  /\ UNCHANGED <<queues, links, bgs, nodes, started, gateway, inputs, history>>

\* The worldservers on which a battleground of the queue can run (external: registry).
AvailableGameServers(k) == IF k = "realm" THEN {RealmServer} ELSE nodes

CreateBattleground(t) ==
  /\ At(t, "CreateBattleground")
  /\ started < MaxInstances
  /\ LET k == Arg(t, 1)
         pick == Arg(t, 2)
         i == started + 1
     IN /\ \E s \in AvailableGameServers(k) :
             bgs' = [bgs EXCEPT ![i] =
               WithInvited(WithInvited(NewBattleground(s, k), "horde", pick.horde), "alliance", pick.alliance)]
        /\ started' = i
        /\ Notify(UNION {MembersOf(g) : g \in pick.horde \cup pick.alliance}, "invited")
        /\ \E rh \in Relink(pick.horde, i), ra \in Relink(pick.alliance, i),
              dh \in Dequeue(pick.horde, k), da \in Dequeue(pick.alliance, k) :
             Continue(t, rh \o ra \o dh \o da)
  /\ UNCHANGED <<queues, links, ptr, nodes, copy, client, waiting, pendingInvite, inGame, inputs, history>>

\* No server, or it refuses.  AddGroupToQueue takes the links back, not the queued
\* group; the goroutine that moves queues only logs.
CreateBattlegroundFails(t) ==
  /\ At(t, "CreateBattleground")
  /\ \/ AvailableGameServers(Arg(t, 1)) = {} /\ UNCHANGED inputs
     \/ inputs < MaxInputs /\ inputs' = inputs + 1
  /\ IF t \in Players
     THEN todo' = [todo EXCEPT ![t] = << <<"removeQueueForGroupMembers", Last(@)[2]>> >>]
     ELSE Continue(t, <<>>)
  /\ broken' = [broken EXCEPT !.refused = TRUE]
  /\ UNCHANGED <<server, copy, gateway, enqueued, overlap>>

(************************* Leaving, joining, ending ************************)

\* RemovePlayerFromQueue and PlayerBecomeOffline go through the links of the player.
RemovePlayerFromQueue(t) ==
  /\ At(t, "RemovePlayerFromQueue")
  /\ LET p == Arg(t, 1)
     IN Continue(t, [j \in DOMAIN links[p] |-> <<"leave", p, links[p][j]>>])
  /\ UNCHANGED <<server, copy, gateway, inputs, history>>

\* Mutant: the links of the group go, the group stays in the queue.
LeaveLink_KeepsGroup(t) ==
  /\ At(t, "leave")
  /\ LET p == Arg(t, 1)
         link == Arg(t, 2)
         queued == {g \in queues[link[2]].groups : g.leader = queues[link[2]].leaderOf[p]}
     IN Continue(t, IF IsQueueLink(link) THEN SetToSeq({<<"removeQueueForGroupMembers", g>> : g \in queued})
                    ELSE << <<"PlayerLeftBattleground", p, link[2]>> >>)
  /\ UNCHANGED <<server, copy, gateway, inputs, history>>

LeaveLink(t) ==
  /\ At(t, "leave")
  /\ LET p == Arg(t, 1)
         link == Arg(t, 2)
         q == queues[link[2]]
         \* QueuedGroupByPlayer: an empty group if the leader's entry outlived the group
         queued == {g \in q.groups : g.leader = q.leaderOf[p]}
     IN Continue(t,
          CASE ~IsQueueLink(link) -> << <<"PlayerLeftBattleground", p, link[2]>> >>
            [] q.leaderOf[p] = None -> <<>>
            [] OTHER -> SetToSeq({<<"removeQueueForGroupMembers", g>> : g \in queued})
                        \o << <<"RemoveQueuedGroup", link[2], p>> >>)
  /\ UNCHANGED <<server, copy, gateway, inputs, history>>

PlayerLeftBattleground(t) ==
  /\ At(t, "PlayerLeftBattleground")
  /\ LET p == Arg(t, 1)
         i == Arg(t, 2)
     IN \/ bgs[i] = None /\ Continue(t, <<>>) /\ UNCHANGED bgs
        \/ /\ bgs[i] # None
           /\ bgs' = [bgs EXCEPT ![i] = RemovePlayer(@, p)]
           /\ Continue(t, << <<"removeBattlegroundLinkForPlayer", {p}, i>> >>)
  /\ UNCHANGED <<queues, links, ptr, nodes, started, copy, gateway, inputs, history>>

PlayerJoinedBattleground(t) ==
  /\ At(t, "PlayerJoinedBattleground")
  /\ LET p == Arg(t, 1)
         i == Arg(t, 2)
     IN bgs' = IF bgs[i] # None /\ \E team \in Teams : IsInvited(p, bgs[i], team)
               THEN LET team == CHOOSE x \in Teams : IsInvited(p, bgs[i], x)
                    IN [bgs EXCEPT ![i] = [RemovePlayer(@, p) EXCEPT !.active[team] = Append(@, p)]]
               ELSE bgs
  /\ Return(t)
  /\ UNCHANGED <<queues, links, ptr, nodes, started, copy, gateway, inputs, history>>

\* BattlegroundStatusChanged to StatusEnded, under the lock of the repository.
StatusEnded(t) ==
  /\ At(t, "BattlegroundStatusChanged")
  /\ LET i == Arg(t, 1)
     IN \/ bgs[i] = None /\ UNCHANGED <<bgs, ptr, links, copy>>
        \/ /\ bgs[i] # None
           /\ links' = removeBattlegroundLinkForPlayer(links, Occupants(bgs[i]), i)
           /\ copy' = Keep(None, i, [bgs[i] EXCEPT !.ended = TRUE])
           /\ bgs' = [bgs EXCEPT ![i] = None]
           /\ ptr' = [ptr EXCEPT ![i] = None]
  /\ Continue(t, <<>>)
  /\ UNCHANGED <<queues, nodes, started, gateway, inputs, history>>

\* Mutant: the invitation is announced as expired and stays.
RemoveInvite_OnlyAnnounces(t) ==
  /\ At(t, "RemovePlayerFromInvite")
  /\ Continue(t, << <<"InviteExpired", Arg(t, 1)>> >>)
  /\ UNCHANGED <<server, copy, gateway, inputs, history>>

RemoveInvite(t) ==
  /\ At(t, "RemovePlayerFromInvite")
  /\ LET p == Arg(t, 1)
         i == Arg(t, 2)
     IN \/ bgs[i] = None /\ Continue(t, <<>>) /\ UNCHANGED bgs
        \/ /\ bgs[i] # None
           /\ bgs' = [bgs EXCEPT ![i] = RemovePlayerFromInvite(@, p)]
           /\ Continue(t, << <<"RemovePlayerFromQueue", p>>, <<"InviteExpired", p>> >>)
  /\ UNCHANGED <<queues, links, ptr, nodes, started, copy, gateway, inputs, history>>

InviteExpired(t) ==
  /\ At(t, "InviteExpired")
  /\ Notify({Arg(t, 1)}, "expired")
  /\ Continue(t, <<>>)
  /\ UNCHANGED <<server, copy, client, waiting, pendingInvite, inGame, inputs, history>>

(************************** Cross-realm nodes ******************************)

\* OnNoCrossRealmNodesAvailable and OnNoCrossRealmNodesUnAvailable.
MoveQueues(t) ==
  /\ At(t, "moveQueues")
  /\ LET from == Arg(t, 1)
         to == Arg(t, 2)
         move(g) == << <<"removeQueueForGroupMembers", g>>, <<"AddQueuedGroup", to, g>>,
                       <<"addLinkForGroupMembers", g, InQueue(to)>> >>
         groups == queues[from].groups
     IN IF groups = {} THEN Continue(t, <<>>)
        ELSE \E steps \in InAnyOrder(groups, move) : Continue(t, << <<"RemoveAllQueuedGroups", from>> >> \o steps)
  /\ UNCHANGED <<server, copy, gateway, inputs, history>>

\* Only the links of players inside the battlegrounds are removed.
DeleteAllWithGameServerAddress(t) ==
  /\ At(t, "DeleteAllWithGameServerAddress")
  /\ LET gone == {i \in Instances : bgs[i] # None /\ bgs[i].server = Arg(t, 1)}
         active(i) == UNION {ToSet(bgs[i].active[team]) : team \in Teams}
         unlink(i) == << <<"removeBattlegroundLinkForPlayer", active(i), i>> >>
     IN /\ \E steps \in InAnyOrder(gone, unlink) : Continue(t, steps)
        /\ bgs' = [i \in Instances |-> IF i \in gone THEN None ELSE bgs[i]]
        /\ ptr' = [i \in Instances |-> IF i \in gone THEN None ELSE ptr[i]]
        /\ copy' = [u \in Threads |-> [i \in DOMAIN copy[u] |-> IF i \in gone /\ ptr[i] = u THEN bgs[i] ELSE copy[u][i]]]
        /\ broken' = [broken EXCEPT !.orphans = @ \cup UNION {(Occupants(bgs[i]) \ active(i)) \X {i} : i \in gone}]
  /\ UNCHANGED <<queues, links, nodes, started, gateway, inputs, enqueued, overlap>>

OnGameServerAdded(n) ==
  /\ inputs < MaxInputs /\ n \in Nodes \ nodes
  /\ nodes' = nodes \cup {n}
  /\ inputs' = inputs + 1
  /\ Begin("gsAdded", IF nodes = {} THEN << <<"moveQueues", "realm", "battlegroup">> >> ELSE <<>>)
  /\ UNCHANGED <<queues, links, bgs, ptr, started, copy, gateway, enqueued, broken>>

OnGameServerRemoved(n) ==
  /\ inputs < MaxInputs /\ n \in nodes \cup {RealmServer}
  /\ nodes' = nodes \ {n}
  /\ inputs' = inputs + 1
  /\ Begin("gsRemoved",
       (IF nodes = {n} THEN << <<"moveQueues", "battlegroup", "realm">> >> ELSE <<>>)
       \o << <<"DeleteAllWithGameServerAddress", n>> >>)
  /\ inGame' = [p \in Players |-> IF inGame[p] # None /\ bgs[inGame[p]] # None /\ bgs[inGame[p]].server = n
                                  THEN None ELSE inGame[p]]
  /\ UNCHANGED <<queues, links, bgs, ptr, started, copy, client, waiting, pendingInvite, events, enqueued, broken>>

(***************************** Gateway sessions ****************************)

HandleEnqueueToBattleground(p) ==
  /\ todo[p] = <<>> /\ inputs < MaxInputs
  /\ inGame[p] = None             \* CanPlayerJoinBattlegroundQueue (external: worldserver)
  /\ inputs' = inputs + 1
  /\ \E members \in Party[p] :
       LET g == [Alone(p) EXCEPT !.members = members]
           k == CurrentKey
       IN /\ Begin(p, << <<"addQueueForGroupMembersIfFree", k, g>>, <<"AddQueuedGroup", k, g>>, <<"JoinedQueue", g>> >>)
          /\ enqueued' = [q \in Players |-> IF q = p /\ enqueued[q] = "never" THEN "once"
                                           ELSE IF q \in MembersOf(g) THEN "more often" ELSE enqueued[q]]
  /\ UNCHANGED <<server, copy, gateway, broken>>

JoinedQueue(p) ==
  /\ At(p, "JoinedQueue")
  /\ Notify(MembersOf(Arg(p, 1)), "joined")
  /\ waiting' = [waiting EXCEPT ![p] = p \in Watched]
  /\ Return(p)
  /\ UNCHANGED <<server, copy, client, pendingInvite, inGame, inputs, history>>

LeaveBattlegroundQueue(p) ==
  /\ todo[p] = <<>> /\ inputs < MaxInputs
  /\ p \in Watched => client[p] # "none"
  /\ inputs' = inputs + 1
  /\ Begin(p, << <<"RemovePlayerFromQueue", p>>, <<"leftQueue">> >>)
  /\ UNCHANGED <<server, copy, gateway, enqueued, broken>>

LeftQueue(p) ==
  /\ At(p, "leftQueue")
  /\ client' = [client EXCEPT ![p] = "none"]
  /\ Return(p)
  /\ UNCHANGED <<server, copy, waiting, pendingInvite, events, inGame, inputs, history>>

EnterBattleground(p) ==
  /\ todo[p] = <<>> /\ inputs < MaxInputs
  /\ p \in Watched => client[p] = "invited"
  /\ inGame[p] = None
  /\ inputs' = inputs + 1
  /\ Begin(p, << <<"BattlegroundQueueDataForPlayer">> >>)
  /\ UNCHANGED <<server, copy, gateway, enqueued, broken>>

\* The first link of p names a battleground that is gone.
Dangling(p) ==
  IF links[p] = <<>> \/ IsQueueLink(Head(links[p])) THEN FALSE ELSE bgs[Head(links[p])[2]] = None

\* The worldserver adds the player before the matchmaking server is told.
QueueDataForPlayer(p) ==
  /\ At(p, "BattlegroundQueueDataForPlayer")
  /\ ~Dangling(p)
  /\ LET entering == IF links[p] = <<>> THEN FALSE ELSE ~IsQueueLink(Head(links[p]))
         i == Head(links[p])[2]
     IN /\ Continue(p, IF entering THEN << <<"PlayerJoinedBattleground", p, i>> >> ELSE <<>>)
        /\ inGame' = IF entering THEN [inGame EXCEPT ![p] = i] ELSE inGame
  /\ UNCHANGED <<server, copy, client, waiting, pendingInvite, events, inputs, history>>

\* All state is in memory: a restart begins with nothing, and every call fails.
Restarted ==
  /\ queues' = [k \in QueueKeys |-> EmptyQueue]
  /\ links' = [p \in Players |-> <<>>]
  /\ bgs' = [i \in Instances |-> None]
  /\ ptr' = [i \in Instances |-> None]
  /\ todo' = [t \in Threads |-> <<>>]
  /\ copy' = [t \in Threads |-> [i \in {} |-> None]]
  /\ UNCHANGED <<nodes, started, gateway, enqueued, overlap, broken>>

\* The link of a battleground that is gone: a nil dereference in a gRPC handler.
Panic(p) ==
  /\ At(p, "BattlegroundQueueDataForPlayer")
  /\ Dangling(p)
  /\ UNCHANGED inputs
  /\ Restarted

\* Events of different subjects overtake each other; a session handles them between packets.
Receive(p, kind) ==
  /\ todo[p] = <<>> /\ events[p][kind] > 0
  /\ events' = [events EXCEPT ![p][kind] = @ - 1]

HandleEventMMJoinedPVPQueue(p) ==
  /\ Receive(p, "joined")
  /\ client' = [client EXCEPT ![p] = IF pendingInvite[p] THEN "invited" ELSE "queued"]
  /\ waiting' = [waiting EXCEPT ![p] = FALSE]
  /\ pendingInvite' = [pendingInvite EXCEPT ![p] = FALSE]
  /\ UNCHANGED <<server, todo, copy, inGame, inputs, history>>

\* Mutant: the invitation is shown at once, although the queue is not known yet.
HandleEventMMInvitedToBGOrArena_AtOnce(p) ==
  /\ Receive(p, "invited")
  /\ client' = [client EXCEPT ![p] = "invited"]
  /\ UNCHANGED <<server, todo, copy, waiting, pendingInvite, inGame, inputs, history>>

HandleEventMMInvitedToBGOrArena(p) ==
  /\ Receive(p, "invited")
  /\ pendingInvite' = [pendingInvite EXCEPT ![p] = @ \/ waiting[p]]
  /\ client' = [client EXCEPT ![p] = IF waiting[p] THEN @ ELSE "invited"]
  /\ UNCHANGED <<server, todo, copy, waiting, inGame, inputs, history>>

HandleEventMMInviteExpired(p) ==
  /\ Receive(p, "expired")
  /\ client' = [client EXCEPT ![p] = "none"]
  /\ UNCHANGED <<server, todo, copy, waiting, pendingInvite, inGame, inputs, history>>

(************************* Worldservers and timers *************************)

\* The session of p ends; the characters listener hears of it.
Logout(p) ==
  /\ todo[p] = <<>> /\ inputs < MaxInputs
  /\ inputs' = inputs + 1
  /\ client' = [client EXCEPT ![p] = "none"]
  /\ waiting' = [waiting EXCEPT ![p] = FALSE]
  /\ pendingInvite' = [pendingInvite EXCEPT ![p] = FALSE]
  /\ events' = [events EXCEPT ![p] = [e \in EventKinds |-> 0]]
  /\ inGame' = [inGame EXCEPT ![p] = None]
  /\ Begin("listener", << <<"RemovePlayerFromQueue", p>> >>)
  /\ UNCHANGED <<server, copy, enqueued, broken>>

TC9PlayerLeftBattleground(p) ==
  /\ inGame[p] # None /\ inputs < MaxInputs
  /\ inputs' = inputs + 1
  /\ Begin("sidecar", << <<"PlayerLeftBattleground", p, inGame[p]>> >>)
  /\ inGame' = [inGame EXCEPT ![p] = None]
  /\ UNCHANGED <<server, copy, client, waiting, pendingInvite, events, enqueued, broken>>

TC9BattlegroundStatusChanged(i) ==
  /\ bgs[i] # None /\ inputs < MaxInputs
  /\ inputs' = inputs + 1
  /\ Begin("sidecar", << <<"BattlegroundStatusChanged", i>> >>)
  /\ UNCHANGED <<server, copy, gateway, enqueued, broken>>

\* The step of a call that invites to battleground i.
Inviting(step, i) ==
  \/ step[1] = "InviteGroups" /\ step[2] = i
  \/ step[1] = "addLinkForGroupMembers" /\ step[3] = InBattleground(i)

\* A minute has passed since the invitation: the call that made it has ended.  An expiry
\* during other calls counts as an input.
ProcessExpiredInvite(p, i) ==
  /\ todo["expirer"] = <<>>
  /\ \A t \in Threads : \A j \in DOMAIN todo[t] : ~Inviting(todo[t][j], i)
  /\ bgs[i] # None /\ \E team \in Teams : IsInvited(p, bgs[i], team)
  /\ \/ Idle /\ UNCHANGED inputs
     \/ ~Idle /\ inputs < MaxInputs /\ inputs' = inputs + 1
  /\ Begin("expirer", << <<"RemovePlayerFromInvite", p, i>> >>)
  /\ UNCHANGED <<server, copy, gateway, enqueued, broken>>

Step(t) ==
  \/ AddIfFree(t) \/ AddLink(t) \/ Unlink(t) \/ UnlinkBattleground(t)
  \/ AddQueuedGroup(t) \/ RemoveQueuedGroup(t) \/ RemoveGroupFromQueue(t) \/ RemoveAllQueuedGroups(t)
  \/ Process(t) \/ Backfill(t) \/ InviteGroups(t) \/ CreateNew(t)
  \/ CreateBattleground(t) \/ CreateBattlegroundFails(t)
  \/ RemovePlayerFromQueue(t) \/ LeaveLink(t) \/ PlayerLeftBattleground(t) \/ PlayerJoinedBattleground(t)
  \/ StatusEnded(t) \/ RemoveInvite(t) \/ InviteExpired(t) \/ MoveQueues(t) \/ DeleteAllWithGameServerAddress(t)
  \/ t \in Sessions /\ (JoinedQueue(t) \/ LeftQueue(t) \/ QueueDataForPlayer(t) \/ Panic(t))

Deliver(p) ==
  HandleEventMMJoinedPVPQueue(p) \/ HandleEventMMInvitedToBGOrArena(p) \/ HandleEventMMInviteExpired(p)

Next ==
  \/ \E t \in Threads : Step(t)
  \/ \E p \in Sessions :
       \/ HandleEnqueueToBattleground(p) \/ LeaveBattlegroundQueue(p) \/ EnterBattleground(p)
       \/ Deliver(p) \/ Logout(p) \/ TC9PlayerLeftBattleground(p)
  \/ \E p \in Players, i \in Instances : ProcessExpiredInvite(p, i)
  \/ \E i \in Instances : TC9BattlegroundStatusChanged(i)
  \/ \E n \in Nodes \cup {RealmServer} : OnGameServerAdded(n) \/ OnGameServerRemoved(n)

Spec == Init /\ [][Next]_vars

\* Goroutines run, events arrive, and the expiry loop wakes up every second.
FairSpec ==
  /\ Spec
  /\ \A t \in Threads : WF_vars(Step(t))
  /\ \A p \in Sessions : WF_vars(Deliver(p))
  /\ \A p \in Players, i \in Instances : WF_vars(ProcessExpiredInvite(p, i))

(******************************* Properties ********************************)

\* Where the queues and battlegrounds have a player.
Places(p) ==
  {InQueue(k) : k \in {x \in QueueKeys : \E g \in queues[x].groups : p \in MembersOf(g)}}
  \cup {InBattleground(i) : i \in {x \in Instances : bgs[x] # None /\ p \in Occupants(bgs[x])}}

\* Unless calls have overlapped, the link of a player is where the queues and battlegrounds
\* have him, and he is in one of them at most ("A player holds at most one queue or
\* battleground link at a time"), so that he can leave and enqueue again.  Two calls leave
\* something behind even when they run alone: a battleground that no server takes keeps its
\* groups in the queue without links (nothing is claimed after it), and a removed worldserver
\* leaves the players who were invited to its battlegrounds linked to them
\* (battleground_service.go:442-456) until the process ends, as it does when one of them asks
\* for his queue data.  What a player has besides his places is such a link and nothing else.
LinksAgree ==
  Idle /\ ~overlap /\ ~broken.refused =>
    \A p \in Players :
      LET orphaned == {InBattleground(o[2]) : o \in {x \in broken.orphans : x[1] = p}}
      IN /\ Places(p) \subseteq ToSet(links[p])
         /\ ToSet(links[p]) \subseteq Places(p) \cup orphaned
         /\ Len(links[p]) <= 1

\* However processing, expiry, joins, stale copies and moves interleave, no team of a stored
\* battleground has more players and invitations than it has places.
TeamsWithinMax ==
  \A i \in Instances : bgs[i] # None => \A team \in Teams : Count(bgs[i], team) <= MaxPlayersPerTeam

\* Invite and join events overtake each other; a leader who enqueued once, and whom nobody
\* else took along, is not put back to "in queue" by the late one (bgInviteOrderingFix).
InviteNotOverwritten ==
  [][\A p \in Players : client[p] = "invited" /\ enqueued[p] = "once" /\ links[p] # <<>> => client'[p] # "queued"]_vars

\* Invitations end: nobody stays invited for ever, although stale copies of a battleground
\* may bring an invitation back.
InvitesEnd ==
  \A p \in Players : []<>(\A i \in Instances : bgs[i] # None => \A team \in Teams : ~IsInvited(p, bgs[i], team))
=============================================================================
