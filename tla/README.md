# TLA+ verification of ToCloud9

ToCloud9 turns a monolithic World of Warcraft server (AzerothCore, TrinityCore)
into a set of processes: a gateway that holds the client connections, several
worldservers that share the maps of a realm, and one small service per feature
that used to live inside the worldserver. This directory holds the TLA+ models
of the parts whose correctness depends on the order in which things happen, the
TLC configurations that check them on small instances, and TLAPS proofs.

## 1. The system

| Part | State | Operations | Talks to |
|---|---|---|---|
| `apps/guidserver` | Redis counter per (realm, GUID type); in memory: buffered ranges, queue of waiting requests | `GetGuids`; dispatcher, pool of request processors; seeding from MySQL at start | Redis (WATCH/MULTI/EXEC), MySQL, worldservers (gRPC) |
| `game-server/libsidecar/guids` | iterator inside the worldserver: current range, next ranges, trigger value | `Next`, prefetching goroutine | guidserver |
| `apps/groupserver` | MySQL tables `groups`, `group_member`, `group_invites`; complete in-memory copy; one mutex per group | Invite, Uninvite, Leave, AcceptInvite, ChangeLeader, ConvertToRaid, loot, difficulty, icons; login/logout callbacks | MySQL, NATS events, servers-registry (group binding) |
| `apps/matchmakingserver` | in memory: queues per bracket, battlegrounds, one link per player | enqueue, leave, invite, join, leave battleground, status changes, node and realm events | worldservers (gRPC), NATS |
| `apps/servers-registry` | Redis: worldservers, gateways, their maps, layers and group bindings | register, health loss, distribution of maps, "maps loaded", select a worldserver for a player | Redis, NATS, health checks |
| `apps/guildserver`, `apps/mailserver`, `apps/auctionhouse`, `apps/chatserver`, `apps/charserver` | MySQL plus in-memory caches | one service per game feature | MySQL, NATS, worldservers |
| `apps/gateway` | one session per client: game socket, world socket, character, event channel | login, packets in both directions, redirect to another worldserver | all of the above |
| `apps/authserver` | account and session key | SRP6 login, realm list | MySQL, servers-registry |
| `game-server/libsidecar`, `libsidecar-cpp` | queues between NATS/gRPC threads and the world thread | event handlers, gRPC API | NATS, gRPC |
| `apps/mysqlreverseproxy`, `apps/perun`, `shared`, `gen` | proxy connections; local process runner; wrappers; generated code | | |

What is hard in this code, and hard to test:

* handlers run concurrently in every service (one goroutine per gRPC call, one
  per NATS subscription) and share caches; locks are taken late, or not at all;
* a value is looked up, the lock taken or the database asked, and the value used;
* the database and its cache are two writes, and a process may die in between;
* optimistic transactions (Redis WATCH) abort, time out and are retried;
* servers appear and disappear while others are computing an assignment;
* messages about one player come over different channels, in any order.

`PROJECT.json` lists these hazards at the line where they bite, with the
properties that would notice, and every part with its status.

What makes each part correct:

* GUID service: two objects never get the same GUID, whichever instance or
  worldserver asks, through restarts and failing Redis commands; a caller is
  always answered.
* GUID iterator: every GUID of an answer is used once; `Next` never waits for an
  answer nobody asked for.
* Groups: list, player mapping and MySQL agree; a player is in one group; a
  disbanded group stays gone; locks are released; the leader is a member.
* Registry: every map has a host (layered maps as many as configured), worldservers
  end up running what they are assigned, members of a group meet, dead servers leave.
* Matchmaking: one queue or battleground link per player; teams within their
  sizes; invitations end; a client does not lose its invitation to a late event.
* Chat channels: one owner as long as there are members, memory and rows agree,
  the chat server knows who is online.
* Guilds: cache and tables agree, one master, a session knows its guild.
* Mail and auctions: money and items are neither lost nor doubled between purses,
  bags, mails and lots; expired mail and overdue auctions end.
* Gateway: a session has one player, on the worldserver at the other end of its
  socket; events of a character reach the session that plays it; a session that
  loses its world gets another one or its client is told.

## 2. Modules

| Module | Models | Extends |
|---|---|---|
| `GuidServer`, `MCGuidServer` | `apps/guidserver`: start, `GetGuids`, dispatcher, processors, Redis transaction | |
| `GuidServerProofs` | theorems about `GuidServer` | `GuidServer`, `TLAPS` |
| `GuidProvider`, `MCGuidProvider` | `game-server/libsidecar/guids` | |
| `GuidProviderProofs` | theorem about `GuidProvider` | `GuidProvider`, `TLAPS` |
| `GroupServer`, `MCGroupServer` | `apps/groupserver` service, cache, repository, character listener | |
| `GroupServerProofs` | theorems about `GroupServer`: locks, lists and index; cache and MySQL, leaders | `GroupServer`, `TLAPS` |
| `MapBalancing` | bin packing and layers: pure operators | |
| `ServersRegistry`, `MCServersRegistry` | registry service, Redis repositories, layers, health checker, worldservers as the registry sees them | `MapBalancing` |
| `ServersRegistryProofs` | theorems about `ServersRegistry` | `ServersRegistry`, `TLAPS` |
| `TeamBalancing` | which queued groups are picked: pure operators | |
| `Matchmaking`, `MCMatchmaking` | `apps/matchmakingserver` and the battleground packets of the gateway | `TeamBalancing` |
| `ChannelOwnership` | what a channel promises about its owner: an abstract specification | |
| `ChatChannels`, `MCChatChannels` | `apps/chatserver` and the channel part of the gateway; implements `ChannelOwnership` | instance of it |
| `ChatChannelsProofs` | theorems about `ChatChannels` | `ChatChannels`, `TLAPS` |
| `Guilds`, `MCGuilds` | `apps/guildserver` and the guild packets and events of the gateway | |
| `GuildsProofs` | theorems about `Guilds` | `Guilds`, `TLAPS` |
| `Mail`, `MCMail` | `apps/mailserver` and the mail packets of the gateway | |
| `AuctionHouse`, `MCAuctionHouse` | `apps/auctionhouse` and the auction packets of the gateway, over the mail and the purses of `Mail` | `Mail` |
| `TradeProofs` | theorems about `AuctionHouse` and `Mail` | `AuctionHouse`, `TLAPS` |
| `GatewaySession`, `MCGatewaySession` | `apps/gateway`: sessions, their world connections, recovery and redirects | |
| `GatewaySessionProofs` | theorems about `GatewaySession` | `GatewaySession`, `TLAPS` |

All modules follow one pattern. A goroutine, a gRPC call or a session is a thread
with the name of its next step; a step ends where another goroutine can notice,
at a lock, a statement, a channel or a remote call. A failing statement or call, a
crash with restart, a lost or late message is an action of its own, guarded by a
fault bound. Where the code gives no promise (it wrote a row from an old copy, it
lost half of a sequence to an error) a *history variable* records it, and the properties say
exactly what is claimed in spite of that: these variables are named in each
module's `VARIABLES`, are never read by an action's guard, and stand in the
properties' hypotheses.

### GuidServer

One (realm, GUID type) key. `maxGuid` is the Redis value, absent or there at first; `cache[s]` the
buffered diapasons of instance `s`; `requestChan`, `responseChan` and
`workChan` are the channels, `inProcess` and `callbacks` the dispatcher's record of
reservations under way and of the handlers that wait for them;
`work[p]` is the state of a processor inside the WATCH loop; `call[h]` what a
gRPC handler is doing; `boot[s]` how far start-up has come. One action is one
critical section, one channel operation or one Redis command. `Touch` marks
every watched transaction when the key is written, which is what Redis does;
EXEC then aborts and the loop retries. `RedisError` includes an EXEC that is
applied although its answer is lost. `PctUsageAtLeast`, `UseGuids`,
`CleanupEmpty` and `AddDiapason` are the arithmetic on diapasons, with the copy
semantics of the Go loop variable in `UseGuids`.

### GuidProvider

The worldserver's iterator: the list of ranges, the position, the trigger value
(`TriggerValue` is `calculateIteratorValueToTriggerUpdate`), the goroutines that
fetch the next answer and block on the unbuffered channel, and the retry loop.
The GUID service is external: it answers with ascending ranges of the given shapes. `missed` (history) marks
an answer of which the percentage ends with a range: its trigger lies behind that range, so nothing asks for the next answer.

### GroupServer

`groups`, `inCache` and `memberOf` are the cache and its index, `dbGroups`, `dbColumns`,
`dbMember` and `dbInvites` the MySQL tables, `lock` the mutex per group. The cache is
changed through pointers, before or after the SQL statement as in the source. A failing
statement, a refused binding of a new group, a login or logout event, a nil dereference
and a restart (the cache is loaded from MySQL again) are actions. The history `mishaps` names what
the handlers do not prevent and has happened: a player was added who is in a group already
(`joinedTwice`), a rollback deleted a group another handler had locked (`deletedInUse`), a player joined a group a
restart had left without members (`emptyJoined`), a leader removed himself with Uninvite
(`leaderRemoved`), a departure deleted the player's row of another group (`rowLost`), a foundation was left
half stored (`leftUnfinished`).

### MapBalancing and ServersRegistry

`Assignments(S, config)` is the set of outcomes of `distributeMapsToServers` on the
servers `S`: Go's map iteration, the unstable sort and the order of SMEMBERS are
the nondeterminism. `FirstFit` is one pass of the packing, `AddReplica` one of the layers, and the loops
are functions on the naturals, so that the proofs can go through them pass by pass. `RemoveMap` keeps track of the array that a slice shares with
`AvailableMaps`.

`stored` and `index` are the Redis value and set, written by `Upsert`, `Update` and
`Remove` in that order of commands; `Update` is one step (WATCH with retries). A
thread is a gRPC handler or the goroutine of the health checker. `Register`,
`MapsLoaded`, `UpdateConfiguration`, `Select`, `BindGroup` and `HandleResult` start a
call; `MapsLoadedOne` ... `Publish` are its commands. A worldserver is a status,
the maps it runs, its unhandled `GSMapsReassigned` events and the confirmations
it has not sent; how it loads maps is external. `Distributions` tabulates
`Assignments`, only so that TLC computes the packing once. `disturbed` remembers that two
changes overlapped or that one was cut short, `escaped` which servers the checker has forgotten although
they are listed, because their removal failed or ran against their own registration or confirmation; `answers` are the servers to which
members of the group were sent since the set of available servers last changed. `Openings` are the
situations a behaviour starts from: a server has died unnoticed, the group has a binding.

### TeamBalancing and Matchmaking

`TeamBalancing` gives, as sets of possible results, the backtracking of `balancedGroups`
and the greedy scan of `findGroupsForGivenSlots`. `Matchmaking` has one realm in one
battlegroup, one type and one bracket, so two queues: `queues` (groups and leader
entries), `links` (`playersQueueOrBattleground`), `bgs` (the repository, which hands out
pointers or copies; `ptr` says which), `nodes`. `todo[t]` is what the call of a session,
of a NATS listener, of the expiry ticker or of a worldserver still has to do,
one critical section or remote call after the other. `events` carries join
and invite messages to the sessions in any order, `client`, `waiting` and `pendingInvite`
are what a session makes of them (`bgInviteOrderingFix`).

### ChannelOwnership and ChatChannels

One channel. `objects` and `active` are the `ActiveChannel` objects and the manager's
entry (a dropped object can still be in a caller's hands), `row` is what MySQL has,
`call[p]` the packet of a session and the handler that runs for it,
`call[Listener]` the listener for logins and logouts, `logins` and `logouts` its two
subscriptions, `known` the characters repository, `subs`, `streams`, `news` and
`sending` the gateway's broadcaster. `Ownership` instantiates `ChannelOwnership` with the members,
owners and moderators in memory, or the rows while the server is down, and
`broken` with "rows that missed a write were loaded"; `OwnershipSpec` is its
specification: every step of the channel is a step of that or leaves it unchanged.

### Guilds

One guild: tables, `cache`, `session` (what each gateway session believes), `calls`, the
NATS subjects `logins`, `logouts` and `kicks`, and the kick events in each session's
`inbox`. Ranks are uint8. A call reads the cache without a lock, runs its
statement, writes the cache under the lock and publishes. Texts are abstracted to
who wrote them. The first id lookup of a packet is part of its step, a session logs
out between calls only. `slips` and `raced` are history variables that name what explains a
difference; `rank gap` came from longer random simulations than the run: when the answer to a deletion of the last rank is
lost and a rank is added, the ids in the table have a gap, and from then on `GuildRanks[:rank]`,
which takes an id for an index, keeps a deleted rank in the cache, after a restart too. `rank ids used up` came from
the proof of `OneMaster`: every such gap moves the next id one up, and a rank with the id 255 would let a demotion wrap to 0.

### Mail and AuctionHouse

`wallet` and `bag` are the characters in their worldservers, `mails`, `attached` and
`instances` the tables. A gateway handler is the sequence of calls to worldserver and mail
service it makes; the mail service's statements are steps of their own; `cleaner`
is the ticker. `AuctionHouse` extends this with `rows`, per instance `cache`, `nextID`,
`news` (the NATS events on their way), `clerk` (the ticker) and the history `listed` (the ids inserted so far), and sends its mails through
`AddMail` of `Mail`. `opening` picks the situation a behaviour starts from.
`exposed` records that money or an item may have been lost or doubled by a
failure between two calls or an overwritten row.

### GatewaySession

`ses[s]` is a `GameSession`: `world` its world socket, `client` and `current` the worldserver
it calls, `at`/`via` the step of the handler that runs. `workers` are the goroutines
of `onWorldSocketClosed` (three attempts) and of `InterceptMoveWorldPortAck`; they hand a socket over through
`safe` (`sessionSafeFuChan`). `conns` are connections to worldservers,
`registered` the broadcaster's channels, `events` the characters whose events are in a session's `eventsChan` or with
a sender that has looked it up (both outlive the logout). A goroutine in `await` has opened a connection and waits for its
first packet, for which there is no deadline. Handlers that connect (`Login`, layers,
battlegrounds, `HandleReadyForRedirectRequest`) share the steps `SelectGameServer` and
`ConnectToGameServer`. A nil dereference ends the process (`Panic`). `visit` picks
which clients come, what they do and which characters get events. A client sends CMsgPlayerLogin from its character screen only:
this is assumed of the client, `Login` does not check it (`session.go:269`). `slips` records what makes a session lose its order: a goroutine was
still connecting when the client logged out or was moved ("late"), a redirect failed
after the old socket was closed ("stranded"), a battleground (which keeps the old gRPC client).

## 3. Runs

| Run | Instance | States, time | Checks |
|---|---|---|---|
| `GuidShared` | 2 instances, 2 handlers, 1 processor each, counter absent or seeded, 6 calls of one size, 1 Redis error, 1 restart | 1.6 M, 1 min | `TypeOK`, `UniqueWhileHealthy`, `InstancesDisjoint`, `WaitersAreKnown` |
| `GuidProvider` | answers of one to three ranges on a fresh realm (both branches of the trigger), 4 pools, 3 errors | 218 k, 10 s | `DrawnOnce`, `NextReturns` |
| `GroupLocks` | 3 members, 2 handlers, 2 calls of Leave and SetDifficulty, 1 login event, 1 MySQL error, panics | 130 k, 1 min | `CallsReturn` |
| `GroupJoins` | 3 players, 2 handlers, 8 operations, 4 calls, 1 refused binding, 1 restart | 1.1 M, 2-3 min | `MappedPlayersAreMembers`, `MembersAreMapped`, `DisbandedStaysGone`, `CacheMirrorsDB`, `LeaderIsMember` |
| `Registry` | 2 worldservers, 2 maps, 1 handler, 1 start, 1 configuration or lookup, 1 fault | 179 k, 1 min | `MapsAreHosted`, `ListedAreChecked`, `WorldFollows` |
| `RegistryGroups` | 2 worldservers, 1 layered map, 2 handlers, 2 calls, no binding or one to a server that may die, 1 fault; or 1 call after a server with a binding has died | 159 k, 2 min | `GroupTogether`, `DeadServersLeave`, `CallsReturn` |
| `Matchmaking` | 2 players in a party and an opponent already queued, 1 cross-realm node, 2 instances, 2 packets or node events, expiry | 192 k, 1 min | `LinksAgree`, `TeamsWithinMax`, `InvitesEnd`, `InviteNotOverwritten` |
| `ChatChannels` | 3 members with a moderator, 2 packets, 2 faults (failed write, crash, dropped object) | 239 k, 1 min | `MirrorsRows`, `SessionsAreMembers`, `PresenceFollows`, `OwnershipSpec`, `CallsReturn` |
| `Guilds` | master, officer and invited newcomer, 17 requests of which 4 happen, 2 faults | 220 k, 2-3 min | `CacheMirrorsRows`, `OneMaster`, `SessionsFollow` |
| `Mail` | 2 players, 1 item, with or without cash on delivery, 3 packets, 1 fault, expiry | 193 k, 30 s | `MoneyConserved`, `ItemOnce`, `ExpiredMailLeaves` |
| `AuctionHouse` | 1 instance with 3 requests and 1 fault, or 2 instances with an auction under way | 463 k, 90 s | `LotOnce`, `GoldConserved`, `OneClerkPerLot`, `OverdueAuctionsEnd` |
| `GatewaySession` | 1 client with 2 characters and 4 inputs on 1 or 2 worldservers, or 2 clients of one character with 2 inputs, or 1 client whose 2 characters get events; 1 goroutine at a time, 1 fault | 707 k, 2 min | `SocketMatchesCharacter`, `EventsReachOwner`, `LostWorldEnds` |

Every property has a mutant of the code that breaks it (`PROJECT.json`, "mutants"; the operators marked
"Mutant" in the modules).

**Bounds.** Two instances (handlers, members, worldservers) are the smallest
number that can interfere, three players the smallest for an owner with two heirs, a
master with a race about two ranks, or a bidder who is outbid. The calls suffice to use up a buffered range and come
back to it (`GuidShared`: the buffer multiplier is 5, so 6 calls cross it), to do
something between lookup and use in another call, to found a group, join it, use it and lose it
again (`GroupJoins`: four calls; with three the rollback of a foundation never met a handler at work on the new
group), to log out and in again while a
goroutine still connects (`GatewaySession`: login, logout, login, move), or to change the servers
between two commands of a distribution. One fault is enough to put a
failure at every step; `ChatChannels` takes two, because a failed write matters only once
a restart loads it. Bounds are guards of the actions that start something, so what has been started
always runs to its end. `CHECK_DEADLOCK FALSE`: the bounded environment may
simply stop calling.

**Fairness.** A goroutine that can run does run: `WF` for the steps of handlers,
dispatcher, processors, checker, tickers, sessions and event handlers. `GroupLocks` uses `SF` for
handlers, because Go's `sync.Mutex` hands a contended lock over to the longest
waiting goroutine. No fairness is assumed of clients, failures or crashes, nor of the first
packet of a worldserver, for which recoveries and redirects wait without a deadline (`WorkerConnect`). A failing
fetch in `GuidProvider` is retried for ever and eventually succeeds (the
error bound); Redis expires the realm lock (its time to live). A ticker
runs again and again; a service that died is started again.

**Conditions.** What the code does not promise is excluded by name:
`UniqueWhileHealthy` and `InstancesDisjoint` claim nothing once a second first start has set the
counter back, the former also once a reservation has failed (then `GetGuids` may answer with the range 0..0), and
`GuidShared` has one request size (see below). `MapsAreHosted`, `ListedAreChecked` and
`WorldFollows` hold while changes do not overlap and none was cut short; the code takes
no common lock around them. `MapsAreHosted` is about servers that are `Sufficient`, for whom the packing cuts off no bin
(see below): so are all sets of servers in the runs, and up to 39 servers without lists of maps under the default weights. `DeadServersLeave` excepts servers that have `escaped`. `GroupTogether` starts again when the set of servers that
handle the map changes. Of the mishaps of `GroupServer`, `joinedTwice` and `deletedInUse` end what is claimed of lists
and index, any of them `CacheMirrorsDB`, and all but `leftUnfinished` `LeaderIsMember`; both of these also end with a
failed statement, and the latter with a refused binding (a player may join between the two DELETEs of its rollback, and a restart then loads a
group that has this member and not its leader). `NextReturns` excepts answers whose trigger is missed.
`LinksAgree` is about calls that did not overlap, ends with a refused battleground, and names the links a removed worldserver
leaves with invited players (`broken.orphans`); `TeamsWithinMax` and `InvitesEnd` have
no such condition. `InviteNotOverwritten` is about leaders who enqueued once and whom nobody took along: only the session of
a leader holds an invitation back until "joined" has come (TLC found the case with three packets). The conservation properties hold while
nothing is `exposed`, and `GoldConserved` counts as `unpaid` the gold that players owed and did not pay (nobody looks at the
purse of a bidder, and a deduction may fail); `OverdueAuctionsEnd` excepts an auction that every running instance has
dropped after a failed statement (`dropped`). `CacheMirrorsRows` per member and text that was not `raced`.
`SocketMatchesCharacter` excepts sessions that a logout, redirect or change of layer overtook ("late"), those that lost their
world to a failed redirect ("stranded") from the single player, and, from the gRPC client, those that entered a battleground; that nobody on the
character screen has a socket has no condition. `EventsReachOwner` excepts
characters that two sessions had at once (`shared`), and lets events that were in the channel at the logout be handled on the character
screen. `LostWorldEnds` excepts "late" and "stranded" sessions, and a goroutine that waits for the first packet of a
running worldserver.

### Seen in the models

Behaviours of the code that the history variables stand for, or that the constants of a run
keep out (mixed request sizes):

* GUIDs: `UseGuids` drains a diapason through the loop's copy, so with requests of
  different sizes a GUID is handed out twice (`guid-diapasons.go:76`); on a fresh
  realm the trigger value can lie one past the end of a range and `Next` blocks for ever
  (`guids.go:111`); two first starts on an empty Redis can set the counter back
  (`guid.go:54`); a failed reservation makes `GetGuids` answer with GUID 0.
* Groups: `createGroup` shows the group before its binding is accepted, and the rollback deletes it without its lock,
  while another handler may be in `RemoveMember` or `Update`: players stay mapped to a group that is gone, or it
  comes back, which the comment on `groupLocks` excludes (`group.go:90-99`). The member rows have one key
  per player, so a departure that reaches its DELETE late removes the row of the player's next group; a player can
  join that group while a Leave of the old one is between MySQL and cache. The INSERTs of a foundation and the DELETEs
  of a disband are no transaction: a refused INSERT leaves rows without a group, a restart between the DELETEs leaves
  an empty group that an old invite can join, and a join between them leaves a row that keeps its player
  out of every group. The leader may Uninvite himself. A logout during a disband
  dereferences a group that is gone (`group.go:804`); two invitations can exceed the size; the
  online flag of a member can be written to the slot of another.
* Registry: `AssignedButPendingMaps` is overwritten by the next distribution, so a
  map is routable before it is loaded (`game-server.go:461`); `Register` and
  `onServerUnhealthy` distribute without the realm lock; `MapsLoadedForServer` can bring back
  a removed server that nobody checks; a stale failed check removes a
  server that has just registered again. The checker forgets a server before it is removed, so when the removal fails
  before SREM (`game-server_redis.go:112`) a dead server is listed until the registry restarts. When the packing opens more bins than there are servers, the bins
  beyond are cut off: `lenDiff` is negative, so the loop that would share them out never runs
  (`distributor.go:116`), and their maps have no host. It takes three equally heavy maps on two servers, or the default
  weights on two servers when servers with lists of maps have all maps but 0, 1, 530 and 571 (120, 100, 100 and 50).
* Matchmaking: overlapping `process` calls and moves give a player two links; a removed worldserver
  leaves the links of invited players, who then are "already in queue" and
  whose queue data dereferences nil; `SaveBattleground` of an old copy brings back removed
  players; a failed `CreateBattleground` leaves a group queued without links;
  the pruning of `FindBestGroups` misses better combinations (groups of 3, 2, 2 and 4 places).
* Chat: a ban is two calls and the player may rejoin between them; settings are written
  from snapshots in any order; a failed transfer leaves rows with no owner or two; a join
  can hit an object the clean-up dropped; ownership passes to members who may be offline,
  where the comment says online; a send on a closed player stream ends the gateway; after a restart
  the characters repository is empty until players log in again.
* Guilds: rights without the bit 0x40 grant everything (`HasRight`); deleting the last rank checks neither members nor
  the default ranks its comment names, after which newcomers get rank 0 or a nil rank ends
  the process; promoting the master wraps to rank 255; a kick and a rejoin, or adding and
  deleting a rank, leave cache and table apart; with a gap in the rank ids the cache keeps deleted ranks, new ids climb, and below an id of 255 a demotion wraps to the master's; a kick event can miss the session.
* Mail: cash on delivery is paid before a full bag is noticed; an item is in the
  bag before it leaves the mail; the ticker writes whole rows it read earlier; expired auction mails are returned to
  nobody; a mail deleted while it is being returned can take along an item the sender has already taken out;
  two queries of the mail list can disagree and index out of range.
* Auctions: ids are counted per instance (`generateAuctionID`), so a second instance fails to list and the item is
  lost; an id whose auction is over may be given to another auction, and since the ticker's DELETE goes by the
  id alone, two instances then settle the same auction (hence `Reused` in `OneClerkPerLot`);
  a buyout by the current high bidder pays the rest and is refunded the old bid too; two buyouts at once pay
  the seller twice; late events revert newer bids; bids and buyouts are accepted without a look at the purse, so the seller or
  the outbid player can be paid with gold that nobody paid (`auction.go:203-252`, `session/auctionhouse.go:211`); a ticker whose
  SELECT or DELETE fails takes the auction for settled elsewhere and drops it from its cache (`auction.go:504-513`), so its row,
  the lot and the bid stay unsettled until a restart.
* Gateway: the recovery goroutine dereferences the character after a logout, which ends the
  whole gateway; it installs a socket into a session that has logged in another character;
  a redirect that finishes after the logout leaves its connection open, so the next login
  has a second player in the world; replaced sockets are not closed; a failed layer or
  battleground redirect leaves a session without world and without recovery, entering a
  battleground without world socket dereferences nil; after the client left nobody drains the
  send channel, and a session blocked there never announces its logout; the logout of an
  older session unregisters the newer one of the same character. The session keeps its event channel after the
  logout: events in it, and of senders past the lookup (`broadcaster.go:203-215`), are handled without a
  character (`session.go:257`, `652-664`), which some handlers dereference. The wait for the first packet of a new
  world connection (`session.go:514-524`) has no deadline in a recovery (`578`) or redirect (`interceptors.go:257`), so a
  silent worldserver leaves the client without world and answer.

## 4. Proofs

`GuidServerProofs`, for any sets of instances, handlers, processors and request
sizes and any bounds, from the named assumptions of `GuidServer` (sizes, buffer
multiplier and retries are positive, `DBMax` is a natural number, `NoCallback` is no handler):

* `TypeCorrect`: `Spec => []TypeOK`. One step per action; the lemmas say what
  `UseGuids`, `CleanupEmpty` and `AddDiapason` return (`LeftBefore` is a cardinality, so
  its lemmas rest on `FiniteSetTheorems`).
* `InstancesAreDisjoint`: `Spec => []InstancesDisjoint`. Two instances never hold the same GUID
  (0 aside, the mark of a failed reservation), whoever seeded the key.
  `InstancesDisjoint` is not inductive: a commit reserves the GUIDs after the value
  that WATCH read, so one must know that nobody holds GUIDs beyond the counter, and
  that a transaction which was not touched read the current counter. `Reserved`
  says both: the value of an untouched processor at EXEC is `maxGuid`, and everything
  held, buffered or arriving, lies in `0..maxGuid`. It is claimed, like the
  property, as long as no first start has set the counter back (`CounterKept`, which a
  behaviour loses for good: `MishapsStay`). `HeldShrinks` and `HeldGrows` cover every
  step: either nothing new is held, or one instance gains a range above the old counter.
* `NoGuidTwice`: `OneSize(n) |- Spec => []UniqueWhileHealthy`. The hypothesis, that all requests are for the same
  number of GUIDs, is what one configuration of the sidecars gives (`config.go:30-36`), and is needed: `UseGuids`
  empties a diapason in a copy when a request spans two of them (`guid-diapasons.go:76`). With one
  size every range is a whole number of pools (`Multiples`), so a request never spans two
  (`UseOnePool`). Uniqueness needs more than disjoint sets: a buffer must not list a GUID in two
  diapasons, so `Ordered` says that buffer and responses are increasing ranges of whole pools, and
  `Apart` that what waits is reserved, above `DBMax`, of one instance, and not yet used. That a
  reservation starts above `DBMax` is `Seeded`, for instances that are up, and only those have
  transactions (`Booted`).
* `WaitersAreWoken`: `Spec => []WaitersAreKnown`. A handler in `wait` has its callback in exactly one of five
  places of its instance. The property does not speak of the handlers that do not wait, and so is not
  inductive: `AllParked` adds that their callback is nowhere (a stale one would block the dispatcher in an unbuffered send
  to a handler that is not receiving), and `CallbacksInProcess` that `callbacksQueue` holds callbacks only
  under amounts in process, so a response that is on its way will find them. One lemma per hop of a callback, from
  `SendRequestParks` to `DispatchResponseParks`; `TailPositions` and `AppendPositions` say what a receive and a send do to the positions in a channel.

`GuidProviderProofs`, for any answers, percentages and bounds:

* `DrawsAreFresh`: `Spec => []DrawnOnce`. The ranges of an answer lie one above the other and above all earlier ones
  (`AnswerAscends`, from what `Offset` counts); the invariant (`ProviderInvariant`) keeps the walked range below the rest of its answer, the
  answers of different goroutines apart, and everything drawn apart from all of them. Where the
  trigger lies does not matter for this, only for `NextReturns`.

`GatewaySessionProofs`, for any sessions, characters, worldservers, goroutines and bounds:

* `TypeCorrect`: every reachable state is well typed.
* `OwnersAreReached`: `Spec => []EventsReachOwner`, and `SocketsMatch`:
  `Spec => []SocketMatchesCharacter`. The invariant has two parts beside the types.
  `Owners` says whose registration the broadcaster has, for every character no second session
  has taken over, and whose events a session's channel holds: those of its character, unless it is on the character screen or about to announce a
  login, which makes a new channel. `AllInOrder` says for every session which connections it, its goroutines and
  its queue `safe` hold (`Holdings`), that at most one of them is under way and connects the session's character unless
  one was overtaken (`OneAtATime`), which worldserver the gRPC client follows (`ClientFollows`) and which one
  has the player (`PlayersAreHeld`, `OnePlayer`): a socket is installed by a handler or a goroutine
  other than the one that asked for it. One conjunct was found only when the proof of
  `OnLoggedOut` failed: a client at its character screen has no goroutine, no waiting socket and no player
  in any world (`OnScreen`).

`ServersRegistryProofs`, for any servers, maps, weights, layers, handlers and bounds. Servers
and maps are finite sets. For all but the last theorem a plan is any function from the listed servers to sets of maps.

* `TypeCorrect`: every call is at a command of its own and has the locals it needs there.
* `GroupsStayTogether`: `Spec => []GroupTogether`. A lookup under way has read either the binding or the
  set of available servers, and the latter may be old; the invariant
  (`AnswersInv`) says what a stale reader can still answer.
* `ListedAreWatched`: `Spec => []ListedAreChecked`. A registration and a removal write the value, the set and
  the checker one after the other, so in between a server is `HalfListed`; that is
  harmless only while the call is `Alone`, and the call that ends first must find what
  it wrote (`KeepsWatched`).
* `WorldsFollow`: `EveryServerGetsMaps |- Spec => []WorldFollows`. The running maps of a server lead, through
  its waiting events in order, to what the registry has stored for it (`Leads`, the existence
  of the intermediate sets), and what a
  distribution is about to publish is computed from what is stored (`SnapshotInv`). The
  hypothesis is what the proof needed: the worldserver ignores an event whose
  `OldAssignedMapsToHandle` is empty (`events-servers-registry.go:35`), so a server that a
  distribution left without maps, with more servers than maps, does not follow the next one. It holds
  in the instances of the runs.
* `MapsHaveHosts`: `Spec => []MapsAreHosted`, in two halves. `PlansHostMaps` is about the algorithm: whatever the order of
  maps and servers, after each pass of the packing the bins hold the maps packed so far (`PackingPacks`); a
  bin per server, unless one is cut off, gives every map a host (`DistributedMapsHaveHosts`); a replica goes
  to a server that has none, and none is added only if every server that takes any map has one, so a
  layered map ends on as many servers as configured, or on all of these (`MapIsLayered`), and the layers of one map leave
  the others where they are (`MapsAreLayered`). The passes are followed by induction over the naturals,
  with `WFMin` of `WellFoundedInduction` on the passes that would fail (`LoopInduction`, `LoopOutcome`). `HostInv` is about the calls: between
  reading the servers and writing the last assignment the plan is one for the servers that are listed now and
  the configuration that is stored now (`PlanInv`), and a confirmation writes back the assignment that is stored.

`ChatChannelsProofs`, for any players, passwords, first members and bounds,
from the assumptions of `ChatChannels` (listener and `NoOne` are no players, the first members have one
who is no moderator):

* `TypeCorrect`: every handler is at a place of its own operation, with the object, player, heir or
  snapshot it needs there.
* `OwnershipHolds`: `Spec => OwnershipSpec`, the refinement of `ChannelOwnership`. A join is `Join`; leaving,
  kicks, bans and pruning are `Remove`; a transfer and a logout are `HandOver`; loading damaged rows is
  `Break`, creating the channel anew `Renew`; the second write of every pair of writes, a crash,
  a clean-up and a start are stutters. For that the *rows* must be a channel in order whenever the server can
  die and load them, also half-way through a pair of writes. `ChannelInv` states it: the mutex is held by exactly the
  handler that has a second write to do (`LockInv`), whom that write is about is still
  a member (`HeldInv`), the rows differ from memory in the flags of one player (`SameBut`) or in the old
  owner's flag (`Cleared`), a dropped object of the current row is empty (`DroppedInv`), and the owner is the
  one member with the flag, in memory and in rows that will be loaded (`OwnerInv`).
* `RowsMirrored`: `Spec => []MirrorsRows`. Members and flags are `MirrorInv` of the above; settings and bans are
  written after the unlock, so `SettingsInv` says that at most one write is outstanding while MySQL does not
  lag, and what it still has to do.
* `PresenceIsFollowed`: `Spec => []PresenceFollows`. A player who has not crossed is in at most one of the two queues,
  and there once (`PresenceInv`); that a logout finds no answer outstanding for the session, so that the
  gateway's state cannot change after it, is `AnswerInv`.
* `ShownAreMembers`: `Spec => []SessionsAreMembers`. A session that shows the channel, or is about to, is a member, and
  a call of it is on the active object; joins on dropped objects are excluded because those of the
  current row are empty (`SessionInv`).

`GroupServerProofs`, for any players, handlers, stored groups and invites and any bounds, from the
assumptions of `GroupServer` (finitely many players, initial groups with at least one member and no common ones):

* `TypeCorrect`: every handler has, at each step, the ids and players that the step reads (`Shape`).
* `HandlersHoldTheLock`: `Spec => []LocksHeld`. From the check under the lock to its return a handler holds the mutex of its
  group; the exception is the rollback of a foundation.
* `PlayersAreMembers`: `Spec => []MappedPlayersAreMembers`, `MembersAreFound`: `Spec => []MembersAreMapped` and
  `NothingComesBack`: `Spec => []DisbandedStaysGone`, one invariant. `Agreed` says that lists and index agree and that
  what a handler checked is still so at its later steps (`Stable`): the player it removes is mapped to the
  locked group, the group it puts back or adds to is cached, a group that is being founded is in nobody's
  hands. The holder of a lock can be disturbed only by a rollback, a joined player only by a second join, hence
  `Undisturbed`. `IdsGiven` (no id is in use before AUTO_INCREMENT gives it), `FoundationsDiffer` and `DeletedFirst` keep a new group
  from meeting an old one. The first attempt at the proof failed at the rollback, and TLC then
  found the counterexample with a fourth call; the condition `deletedInUse` and the bound come from there.
* `StoreIsMirrored`: `Spec => []CacheMirrorsDB`. Between calls cache and tables are equal; the invariant (`Mirrors`) says what is
  so during a call. A cached group that nobody deletes (`Doomed`) differs from its rows only in a member that a
  handler has deleted from MySQL and not yet from the list (`RowPending`), in one that it has inserted and not yet listed
  (`EntryPending`), or in columns it has yet to save (`ColumnsPending`), and that handler holds the lock; a stored group is cached or
  being founded; `Done` says what each of these handlers has written so far. A step touches one
  group (`Touches`, `Same`, `Apart`), so `MirrorsKeep` reduces each action to the group it is about.
* `LeadersBelong`: `Spec => []LeaderIsMember`. The leader must be a member in the rows too, since a restart may load them at
  any time (`HasStoredLeader`), and a leaving leader has been replaced in cache and in MySQL before his row goes.

`GuildsProofs`, for any players, ranks, invites, requests and bounds, from `GuildsAssumption` (a guild is founded
with at least the default ranks, at most `GuildRankMax`, which is less than 256, and one master):

* `GuildTypes`: tables, guild in memory and calls are well typed; in particular ids stay bytes, and `SetToSeq` and
  `ORDER BY` (`IdAt`) of the tables give well-formed lists (`LoadsTables`).
* `OneMasterRules`: `Spec => []OneMaster`. A call decides on ranks in memory and writes rows that others have
  changed since, so the invariant (`MasterKept`) follows the founder through all three: his row and no other has rank 0, his
  entries in memory and no other have rank 0, and a call that was decided on (`Harmless`) is not about him and makes nobody else
  master. A newcomer must get a rank below the master's, hence `KnowsMaster` wants two different
  ranks in memory and `DefaultRows` two in the table, which a restart loads. The proof failed at a demotion first: its new rank is an id plus one, in
  a byte, and the gaps that unanswered deletions leave let ids grow; so `rank ids used up` came into the model.
* `RowsAreMirrored`: `Spec => []CacheMirrorsRows`. Tables and memory are seen as cells: each member, the ranks, each text. A cell
  that is not excused (`Trusted`) is the same in both (`Settled`), or one call stands at its cache write and owes
  exactly what makes it the same (`Pending`; a second such call would have made the cell `raced`, `OneWriter`).
  `DeleteLowestGuildRank` uses an id as an index, which is right because ids without a gap are 0..n-1 (`NoGap`, `RanksSettled`).
  Every step writes one cell; `KeepsMirror` reduces the others to `Untouched`.

`TradeProofs`, for any players, items, instances, openings, prices and bounds, from
`AuctionAssumption` (every opening has each item in one bag or one auction) and `MailAssumption`:

* `HouseInvariantHolds`: the types, that every call is at a step of its own with its session waiting for it, and
  the parts below.
* `OneClerkSettles`: `AuctionSpec => []OneClerkPerLot`. The property was first stated for every id; TLC refuted that
  with an id given twice, and so the history `listed` of all ids ever inserted and `Reused` came into
  the model. `ClerksClaim` says that a ticker about to settle has deleted the row it holds, or the id was given again
  (`Numbered`: the number of an auction is its place in `listed`, so another auction has another number).
* `LotsAreKept`: `AuctionSpec => []LotOnce`. With ids given twice, a row, a cached entry, an event and a call
  with the same id need not be the same auction. `Filed` is what does hold: all copies
  of an auction with items carry one id, the home of its items. `LotsKept` says that an item
  in a mail is in a row only while the call that mailed it is about to delete that very row. Both are claimed unless a failure exposed the item, which a behaviour
  never takes back.
* `ItemsAreKept`: `ItemsHaveOwners |- MailSpec => []ItemOnce`, about `Mail` by itself; the hypothesis, that every
  item is in some bag at first, is true of the run and not part of `MailAssumption` because `AuctionHouse` starts from the bags of
  its openings. In between calls an item may be in a bag and in a mail at once, and in a mail without
  having a row. `ItemPlaced` therefore counts as `Owners` only the holders that are
  not just taking the item (`Takers`), and the calls that send it (`Carriers`); `InstancesScanned` is why a taker gets an item that still has a
  row (`MailByID` joins `item_instance`), and `ItemsDeletedFirst` and `InstancesDeletedFirst` say that the receiver's
  deletion and the ticker's, which go in opposite orders, destroy only what nobody owns.

Only model-checked: liveness and everything with `ENABLED`, which is beyond the prover; the sums of
`MoneyConserved` and `GoldConserved`, the sizes of the teams that the selection picks (`FindBestGroups`, `TotalMembers`)
and the steps and links that sequence operators compute (`FlattenSeq`, `RemoveFirstMatch`), hence
`TeamsWithinMax`, `LinksAgree` and `InviteNotOverwritten`: each is a fold or a recursive function whose
laws would have to be proved by induction first.

## 5. Not modelled, and the plan

Not modelled, with reasons, in `PROJECT.json`: byte formats and ciphers, SRP6,
the SQL proxy, the local process runner, generated code (about half of the Go lines of the
repository), deployment. Within the modelled parts: `SendMessage` and `StartReadyCheck` (they only publish) and
the statistics buffer of the group server; gateways as registered servers, cross-realm servers (the
same code on other keys), metrics, solo and preferred lookups of the registry; the 24 hour
life of a group binding; rights of channels and chat messages; guild chat, rosters and
permission queries; list queries of the auction house; in the gateway the updates barrier, name
queries, packets that are only forwarded, and the capacity of a session's event channel (100: when a stuck session has filled it, senders block). The charserver's cache of online
characters (with the friend lists) was tried in composition with `GatewaySession`:
the product is beyond TLC at useful bounds, so it needs a module of its own.

Planned, in order:

1. An abstract GUID dispenser implemented by `GuidServer`, and a membership
   map with atomic join and leave implemented by `GroupServer` between calls.
2. `Charserver` with gateway health from the registry; the sidecar's queues between NATS, gRPC and the world thread.

Run the checks with `tlc -workers 2 -config <Run>.cfg <Module>` and
`tlapm <Module>.tla` for each of the modules with proofs (`ChatChannelsProofs` and `GroupServerProofs` take ten minutes or more,
the others up to five).
