------------------------------- MODULE Guilds -------------------------------
(* The guild service (apps/guildserver) and the guild part of the gateway    *)
(* sessions (apps/gateway/session/guild.go), for one guild.  A call reads    *)
(* the cache without a lock, runs a statement, writes the cache under the    *)
(* lock and publishes an event: calls of several players overlap in each of  *)
(* these gaps.  A nil dereference in a handler ends the process.             *)
EXTENDS Integers, Sequences, FiniteSets, SequencesExt

CONSTANTS
  Players,
  FirstRanks,    \* the rank of each member at first, a partial function
  FirstRights,   \* the rights of each rank at first, a sequence: rank 0 first
  FirstInvites,  \* the characters that are invited at first
  RightSets,     \* the rights the master may give to a rank
  GuildRankMax,  \* 10
  DefaultRanks,  \* 5: GuildRankDefaultID
  NoText,        \* the texts nobody has written yet
  Plays,         \* bound: who asks for what on whom
  MaxInputs,     \* bound: guild packets, logins, logouts and faults together
  MaxFaults      \* bound: failed statements and events, crashes and lost gateways

Rights == {"invite", "remove", "promote", "demote", "motd", "info", "public", "officer"}

\* Every right constant includes the bit of RightEmpty, here "base".
RightEmpty == {"base"}
GuildRankGuildMaster == 0
Uint8(n) == n % 256

\* A guild is founded with its default ranks and one master.
ASSUME GuildsAssumption ==
  /\ IsFiniteSet(Players) /\ Players \cap {"none", "motd", "info", "ranks"} = {}
  /\ FirstRights \in Seq(SUBSET (Rights \cup RightEmpty)) /\ RightSets \subseteq SUBSET (Rights \cup RightEmpty)
  /\ DOMAIN FirstRanks \subseteq Players /\ FirstInvites \subseteq Players
  /\ FirstRanks \in [DOMAIN FirstRanks -> 0..(Len(FirstRights) - 1)]
  /\ \E p \in DOMAIN FirstRanks : \A q \in DOMAIN FirstRanks : FirstRanks[q] = GuildRankGuildMaster <=> q = p
  /\ {GuildRankMax, DefaultRanks, MaxInputs, MaxFaults} \subseteq Nat
  /\ 2 <= DefaultRanks /\ DefaultRanks <= Len(FirstRights) /\ Len(FirstRights) <= GuildRankMax /\ GuildRankMax < 256

VARIABLES
  memberRows, rankRows, textRows, invites, \* tables guild_member, guild_rank, guild, guild_invites
  cache,     \* the guild in memory: members, ranks and texts
  up,        \* the service runs
  session,   \* the gateway session of each player
  calls,     \* the call of each session
  logins, logouts, kicks, \* NATS messages on their way, a sequence per subject
  inbox,     \* kick events in the events channel of each session
  inputs, faults,
  slips,     \* what the service let happen that its code counts on never happening
  raced,     \* what two overlapping calls, or a statement whose answer was lost, wrote
  missed     \* players whose session was not told of the last change

rowVars == <<memberRows, rankRows, textRows, invites>>
sessionVars == <<session, inbox>>
eventVars == <<logins, logouts, kicks>>
ghostVars == <<slips, raced, missed>>
bounds == <<inputs, faults>>
vars == <<rowVars, cache, up, sessionVars, calls, eventVars, bounds, ghostVars>>

-----------------------------------------------------------------------------
(* The guild in memory.  A linked member is the one guildMembersCache has    *)
(* for its character; the others are only in GuildMembers of the guild.     *)

Row(rank) == [rank |-> rank, public |-> NoText, officer |-> NoText]
Member(p, row, online) == [who |-> p, row |-> row, online |-> online, linked |-> TRUE]

Entries(p) == {k \in DOMAIN cache.members : cache.members[k].who = p}
Linked(p) == \E k \in Entries(p) : cache.members[k].linked
guildMemberForMemberGuid(p) == cache.members[Min(Entries(p))]

rankWithID(id) == {k \in DOMAIN cache.ranks : cache.ranks[k].id = id}
HasRank(p) == Entries(p) # {} /\ rankWithID(guildMemberForMemberGuid(p).row.rank) # {}
rankForMember(p) == cache.ranks[Min(rankWithID(guildMemberForMemberGuid(p).row.rank))]
lowestRankInGuild == Max({0} \cup {cache.ranks[k].id : k \in DOMAIN cache.ranks})

\* (Rights & right) != RightEmpty: without the base bit every right is given.
HasRight(p, right) == LET given == rankForMember(p).rights IN right \in given \/ "base" \notin given

buildGenericEventPayload == {cache.members[k].who : k \in {j \in DOMAIN cache.members : cache.members[j].online}}

\* ORDER BY rid: the k-th of the ids.
IdAt(ids, k) == CHOOSE id \in ids : Cardinality({x \in ids : x < id}) = k - 1

\* What the tables hold, ranks in the order of their ids; the column online of
\* a character follows its session.
LoadAllForRealm(members, ranks, texts, online) ==
  [members |-> SetToSeq({Member(p, members[p], p \in online) : p \in DOMAIN members}),
   ranks |-> [k \in 1..Cardinality(DOMAIN ranks) |->
                LET id == IdAt(DOMAIN ranks, k) IN [id |-> id, rights |-> ranks[id]]],
   texts |-> texts]
NoCache == [members |-> <<>>, ranks |-> <<>>, texts |-> [motd |-> NoText, info |-> NoText]]

-----------------------------------------------------------------------------
(* Calls: at is the next step; value is the rank, text or rights to write.  *)

Idle == [op |-> "none", at |-> "none", target |-> NoText, value |-> NoText, noRank |-> FALSE, online |-> {}]
Online(p) == session[p].at # "off"

Input == inputs < MaxInputs /\ inputs' = inputs + 1
Faulty == Input /\ faults < MaxFaults /\ faults' = faults + 1
At(p, step) == calls[p].at = step
Goes(p, step) == calls' = [calls EXCEPT ![p].at = step]
Return(p) == calls' = [calls EXCEPT ![p] = Idle]

\* What a call writes to both the tables and the cache.
Cell(p) ==
  LET c == calls[p] IN
  CASE c.op \in {"accept", "leave"} -> p
    [] c.op \in {"kick", "promote", "demote", "public", "officer"} -> c.target
    [] c.op \in {"motd", "info"} -> c.op
    [] c.op \in {"rank", "addRank", "delRank"} -> "ranks"
    [] OTHER -> "none"

\* Whose membership the call changes.
Subject(p) == IF calls[p].op \in {"accept", "leave", "kick"} THEN {Cell(p)} ELSE {}

\* Another call wrote the same rows and not yet the cache, or decided on ranks
\* that are about to change.
Overlaps(p) ==
  \E q \in Players \ {p} :
    /\ Cell(q) = Cell(p)
    /\ At(q, "cache") \/ (Cell(p) = "ranks" /\ At(q, "statement"))

\* The process ends with every call; what the calls had written stays.
Panic ==
  /\ up' = FALSE
  /\ cache' = NoCache
  /\ calls' = [p \in Players |-> Idle]
  /\ raced' = {}
  /\ missed' = missed \cup UNION {Subject(q) : q \in {r \in Players : At(r, "cache") \/ At(r, "publish")}}
  /\ UNCHANGED <<rowVars, sessionVars, eventVars, slips>>

-----------------------------------------------------------------------------
(* Packets of the clients                                                   *)

\* The first thing a call reads: the guild of the requester and of the target,
\* or the invite.
Found(p, op, target) ==
  CASE op = "invite" -> Linked(p) /\ ~Linked(target)
    [] op = "accept" -> p \in invites
    [] op \in {"kick", "public", "officer", "promote", "demote"} -> Linked(p) /\ Linked(target)
    [] OTHER -> Linked(p)

\* A packet that is refused here changes nothing.
Ask(p, op, target, value) ==
  /\ up /\ session[p].at = "on" /\ calls[p] = Idle
  /\ <<p, op, target>> \in Plays /\ Input /\ Found(p, op, target)
  /\ calls' = [calls EXCEPT ![p] = [Idle EXCEPT !.op = op, !.at = IF op = "accept" THEN "uninvite" ELSE "check", !.target = target, !.value = value]]
  /\ UNCHANGED <<faults, rowVars, cache, up, sessionVars, eventVars, ghostVars>>

\* A member is looked up by name in the roster of the session's guild.
guildMemberGUIDByName(p, t) == session[p].guild /\ Entries(t) # {}

HandleGuildInvite(p, t) == p # t /\ Ask(p, "invite", t, NoText)
HandleGuildInviteAccept(p) == Ask(p, "accept", p, NoText)
HandleGuildLeave(p) == Ask(p, "leave", p, NoText)
HandleGuildKick(p, t) == guildMemberGUIDByName(p, t) /\ Ask(p, "kick", t, NoText)
HandleGuildSetMessageOfTheDay(p) == Ask(p, "motd", p, p)
HandleGuildSetInfoText(p) == Ask(p, "info", p, p)
HandleGuildSetPublicNote(p, t) == guildMemberGUIDByName(p, t) /\ Ask(p, "public", t, p)
HandleGuildSetOfficerNote(p, t) == guildMemberGUIDByName(p, t) /\ Ask(p, "officer", t, p)
HandleGuildRankUpdate(p, id, rights) == Ask(p, "rank", id, rights)
HandleGuildRankAdd(p) == Ask(p, "addRank", p, NoText)
HandleGuildRankDelete(p) == Ask(p, "delRank", p, NoText)
HandleGuildPromote(p, t) == guildMemberGUIDByName(p, t) /\ Ask(p, "promote", t, NoText)
HandleGuildDemote(p, t) == guildMemberGUIDByName(p, t) /\ Ask(p, "demote", t, NoText)

Packet(p) ==
  \/ HandleGuildInviteAccept(p) \/ HandleGuildLeave(p)
  \/ HandleGuildSetMessageOfTheDay(p) \/ HandleGuildSetInfoText(p)
  \/ HandleGuildRankAdd(p) \/ HandleGuildRankDelete(p)
  \/ \E id \in 0..(GuildRankMax - 1), rights \in RightSets : HandleGuildRankUpdate(p, id, rights)
  \/ \E t \in Players :
       \/ HandleGuildInvite(p, t) \/ HandleGuildKick(p, t)
       \/ HandleGuildSetPublicNote(p, t) \/ HandleGuildSetOfficerNote(p, t)
       \/ HandleGuildPromote(p, t) \/ HandleGuildDemote(p, t)

-----------------------------------------------------------------------------
(* The service reads                                                        *)

RightOf(op) == IF op = "kick" THEN "remove" ELSE op

\* The requester may run this kind of operation at all.
Entitled(p) ==
  LET op == calls[p].op IN
  CASE op = "leave" -> rankForMember(p).id # GuildRankGuildMaster
    [] op \in {"rank", "addRank", "delRank"} -> rankForMember(p).id = GuildRankGuildMaster
    [] OTHER -> HasRight(p, RightOf(op))

\* updateRank and AddGuildRank compute with uint8.
NewRank(p) == Uint8(rankForMember(calls[p].target).id + (IF calls[p].op = "promote" THEN -1 ELSE 1))

\* Mutant: a member may be promoted to the rank of the promoter.
Permitted_Equal(p) ==
  LET c == calls[p] IN
  CASE c.op = "kick" -> rankForMember(p).id < rankForMember(c.target).id
    [] c.op = "promote" -> rankForMember(p).id <= NewRank(p)
    [] c.op = "demote" -> rankForMember(p).id < rankForMember(c.target).id /\ NewRank(p) <= lowestRankInGuild
    [] c.op \in {"public", "officer"} -> Entries(c.target) # {}
    [] c.op = "addRank" -> Len(cache.ranks) < GuildRankMax
    [] OTHER -> TRUE

Permitted(p) ==
  LET c == calls[p] IN
  CASE c.op = "kick" -> rankForMember(p).id < rankForMember(c.target).id
    [] c.op = "promote" -> rankForMember(p).id < NewRank(p)
    [] c.op = "demote" -> rankForMember(p).id < rankForMember(c.target).id /\ NewRank(p) <= lowestRankInGuild
    [] c.op \in {"public", "officer"} -> Entries(c.target) # {}
    [] c.op = "addRank" -> Len(cache.ranks) < GuildRankMax
    [] OTHER -> TRUE

\* A rank that is not found is a nil pointer; only InviteMember and the notes
\* look at it before they use it.
NilRank(p) ==
  LET c == calls[p] IN
  \/ c.op \notin {"invite", "public", "officer"} /\ ~HasRank(p)
  \/ c.op \in {"kick", "promote", "demote"} /\ HasRank(p) /\ Entitled(p) /\ ~HasRank(c.target)

Decision(p) ==
  LET c == calls[p] IN
  CASE c.op \in {"promote", "demote"} -> [c EXCEPT !.value = NewRank(p), !.noRank = rankWithID(NewRank(p)) = {}]
    [] c.op = "addRank" -> [c EXCEPT !.value = Uint8(lowestRankInGuild + 1)]
    [] c.op = "delRank" -> [c EXCEPT !.value = lowestRankInGuild]
    [] c.op = "kick" -> [c EXCEPT !.online = buildGenericEventPayload]
    [] OTHER -> c

Check(p) ==
  /\ At(p, "check")
  /\ IF NilRank(p) THEN Panic
     ELSE /\ IF HasRank(p) /\ Entitled(p) /\ Permitted(p)
             THEN calls' = [calls EXCEPT ![p] = [Decision(p) EXCEPT !.at = "statement"]]
             ELSE Return(p)
          /\ UNCHANGED <<rowVars, cache, up, sessionVars, eventVars, ghostVars>>
  /\ UNCHANGED bounds

-----------------------------------------------------------------------------
(* The service writes                                                       *)

Put(f, x, v) == [y \in DOMAIN f \cup {x} |-> IF y = x THEN v ELSE f[y]]
Drop(f, S) == [y \in DOMAIN f \ S |-> f[y]]

\* guid is unique in guild_member, the rank id in guild_rank.
DuplicateKey(p) ==
  \/ calls[p].op = "accept" /\ p \in DOMAIN memberRows
  \/ calls[p].op = "addRank" /\ calls[p].value \in DOMAIN rankRows

\* INSERT, DELETE and UPDATE of guild_member.
WriteMember(p) ==
  LET c == calls[p] t == Cell(p) IN
  memberRows' = CASE c.op = "accept" -> Put(memberRows, p, Row(c.value))
                  [] c.op \in {"leave", "kick"} -> Drop(memberRows, {t})
                  [] t \in DOMAIN memberRows /\ c.op \in {"promote", "demote"} -> [memberRows EXCEPT ![t].rank = c.value]
                  [] t \in DOMAIN memberRows /\ c.op \in {"public", "officer"} -> [memberRows EXCEPT ![t][c.op] = c.value]
                  [] OTHER -> memberRows

\* UPDATE, INSERT of guild_rank; DELETE of the rank and all below it.
WriteRank(p) ==
  LET c == calls[p] IN
  rankRows' = CASE c.op = "rank" /\ c.target \in DOMAIN rankRows -> [rankRows EXCEPT ![c.target] = c.value]
                [] c.op = "addRank" -> Put(rankRows, c.value, RightEmpty)
                [] c.op = "delRank" -> Drop(rankRows, {id \in DOMAIN rankRows : id >= c.value})
                [] OTHER -> rankRows

Write(p) ==
  LET c == calls[p] IN
  /\ WriteMember(p) /\ WriteRank(p)
  /\ textRows' = IF c.op \in {"motd", "info"} THEN [textRows EXCEPT ![c.op] = c.value] ELSE textRows
  /\ invites' = IF c.op = "invite" THEN invites \cup {c.target} ELSE invites
  /\ slips' = slips \cup (IF c.op = "promote" /\ c.value = 255 THEN {"master promoted"} ELSE {})
                    \cup (IF c.op = "delRank" /\ c.value < DefaultRanks THEN {"default rank deleted"} ELSE {})
                    \cup (IF c.op = "addRank" /\ c.value - 1 \notin DOMAIN rankRows THEN {"rank gap"} ELSE {})
                    \cup (IF c.op = "addRank" /\ c.value = 255 THEN {"rank ids used up"} ELSE {})

\* InviteAccepted removes the invite, then takes the lowest rank.
RemoveGuildInviteForCharacter(p) ==
  /\ At(p, "uninvite")
  /\ invites' = invites \ {p}
  /\ calls' = [calls EXCEPT ![p].at = "statement", ![p].value = lowestRankInGuild]
  /\ UNCHANGED <<memberRows, rankRows, textRows, cache, up, sessionVars, eventVars, bounds, ghostVars>>

Statement(p) ==
  /\ At(p, "statement")
  /\ IF DuplicateKey(p)
     THEN Return(p) /\ UNCHANGED <<rowVars, slips, raced>>
     ELSE /\ Write(p)
          /\ Goes(p, IF calls[p].op = "invite" THEN "publish" ELSE "cache")
          /\ raced' = IF Overlaps(p) THEN raced \cup {Cell(p)} ELSE raced
  /\ UNCHANGED <<cache, up, sessionVars, eventVars, bounds, missed>>

\* A statement fails, or its answer is lost and the call ends all the same.
StatementFails(p, applied) ==
  /\ At(p, "statement") /\ Faulty
  /\ Return(p)
  /\ IF applied /\ ~DuplicateKey(p)
     THEN Write(p) /\ raced' = raced \cup {Cell(p)} /\ missed' = missed \cup Subject(p)
     ELSE UNCHANGED <<rowVars, ghostVars>>
  /\ UNCHANGED <<cache, up, sessionVars, eventVars>>

\* A field of the members that the maps have for the players of S.
Changed(e, field, value) ==
  IF field \in DOMAIN e.row THEN [e EXCEPT !.row[field] = value] ELSE [e EXCEPT ![field] = value]
Update(S, field, value) ==
  [k \in DOMAIN cache.members |->
     IF cache.members[k].who \in S /\ cache.members[k].linked THEN Changed(cache.members[k], field, value)
     ELSE cache.members[k]]
Unlink(p) == Update({p}, "linked", FALSE)

AddGuildMember(p, rank) == Append(Unlink(p), Member(p, Row(rank), TRUE))

\* The first member with the guid leaves the list.
RemoveGuildMember(t) ==
  IF Linked(t) THEN RemoveAt(Unlink(t), Min(Entries(t))) ELSE cache.members

UpdateGuildRank(id, rights) ==
  [k \in DOMAIN cache.ranks |->
     IF rankWithID(id) # {} /\ k = Min(rankWithID(id)) THEN [id |-> id, rights |-> rights] ELSE cache.ranks[k]]

\* Mutant: the slice keeps the rank that is deleted.
DeleteLowestGuildRank_Kept(id) == IF id >= Len(cache.ranks) THEN cache.ranks ELSE SubSeq(cache.ranks, 1, id + 1)

\* GuildRanks[:rank]: the id is used as an index.
DeleteLowestGuildRank(id) == IF id > Len(cache.ranks) THEN cache.ranks ELSE SubSeq(cache.ranks, 1, id)

\* The events of the other operations only tell clients what to show.
WriteCache(p) ==
  LET c == calls[p] IN
  /\ At(p, "cache")
  /\ cache' =
       CASE c.op = "accept" -> [cache EXCEPT !.members = AddGuildMember(p, c.value)]
         [] c.op \in {"leave", "kick"} -> [cache EXCEPT !.members = RemoveGuildMember(c.target)]
         [] c.op \in {"promote", "demote"} ->
              [cache EXCEPT !.members = Update({c.target}, "rank", c.value)]
         [] c.op \in {"public", "officer"} ->
              [cache EXCEPT !.members = Update({c.target}, c.op, c.value)]
         [] c.op \in {"motd", "info"} -> [cache EXCEPT !.texts[c.op] = c.value]
         [] c.op = "rank" -> [cache EXCEPT !.ranks = UpdateGuildRank(c.target, c.value)]
         [] c.op = "addRank" -> [cache EXCEPT !.ranks = Append(@, [id |-> c.value, rights |-> RightEmpty])]
         [] c.op = "delRank" -> [cache EXCEPT !.ranks = DeleteLowestGuildRank(c.value)]
  /\ IF c.op \in {"accept", "leave", "kick", "promote", "demote"} THEN Goes(p, "publish") ELSE Return(p)
  /\ UNCHANGED <<rowVars, up, sessionVars, eventVars, bounds, ghostVars>>

-----------------------------------------------------------------------------
(* Events and answers                                                       *)

\* The payload of an invite names the inviter, that of a promotion the rank:
\* neither is looked at before it is used.
NilPayload(p) ==
  \/ calls[p].op = "invite" /\ Entries(p) = {}
  \/ calls[p].op \in {"promote", "demote"} /\ calls[p].noRank

\* Mutant: the session keeps the guild its character left.
Answer_Joins(p) ==
  session' = IF Online(p) /\ calls[p].op = "accept" THEN [session EXCEPT ![p].guild = TRUE] ELSE session

\* The session sets the guild of its character when the call succeeds.
Answer(p) ==
  session' = IF Online(p) /\ calls[p].op \in {"accept", "leave"}
             THEN [session EXCEPT ![p].guild = calls[p].op = "accept"] ELSE session

Publish(p) ==
  /\ At(p, "publish")
  /\ IF NilPayload(p) THEN Panic
     ELSE /\ kicks' = IF calls[p].op = "kick"
                      THEN Append(kicks, [who |-> calls[p].target, online |-> calls[p].online]) ELSE kicks
          /\ Answer(p) /\ Return(p)
          /\ UNCHANGED <<rowVars, cache, up, inbox, logins, logouts, ghostVars>>
  /\ UNCHANGED bounds

\* The event is not published, and the call returns the error.
PublishFails(p) ==
  /\ At(p, "publish") /\ ~NilPayload(p) /\ Faulty
  /\ Return(p) /\ missed' = missed \cup Subject(p)
  /\ UNCHANGED <<rowVars, cache, up, sessionVars, eventVars, slips, raced>>

\* The event goes to the members online in the payload that are registered.
NewGuildMemberKickedEvent ==
  /\ kicks # <<>>
  /\ kicks' = Tail(kicks)
  /\ LET t == Head(kicks).who
         told == t \in Head(kicks).online /\ session[t].at = "on" IN
     /\ inbox' = IF told THEN [inbox EXCEPT ![t] = @ + 1] ELSE inbox
     /\ missed' = IF ~told /\ Online(t) THEN missed \cup {t} ELSE missed
  /\ UNCHANGED <<rowVars, cache, up, session, calls, logins, logouts, bounds, slips, raced>>

\* A kick event that comes after the character joined again is taken for real.
HandleEventGuildMemberKicked(p) ==
  /\ inbox[p] > 0 /\ session[p].at = "on" /\ calls[p] = Idle
  /\ inbox' = [inbox EXCEPT ![p] = @ - 1]
  /\ session' = [session EXCEPT ![p].guild = FALSE]
  /\ missed' = IF p \in DOMAIN memberRows THEN missed \cup {p} ELSE missed
  /\ UNCHANGED <<rowVars, cache, up, calls, eventVars, bounds, slips, raced>>

-----------------------------------------------------------------------------
(* Sessions come and go                                                     *)

\* connectToGameServer reads the character, with its guild, from the table.
Login(p) ==
  /\ session[p].at = "off" /\ calls[p] = Idle /\ Input
  /\ session' = [session EXCEPT ![p] = [at |-> "entering", guild |-> p \in DOMAIN memberRows]]
  /\ missed' = missed \ {p}
  /\ UNCHANGED <<faults, rowVars, cache, up, inbox, calls, eventVars, slips, raced>>

RegisterCharacter(p) ==
  /\ session[p].at = "entering"
  /\ session' = [session EXCEPT ![p].at = "on"]
  /\ logins' = Append(logins, {p})
  /\ UNCHANGED <<rowVars, cache, up, inbox, calls, logouts, kicks, bounds, ghostVars>>

Leaves(S) ==
  /\ session' = [p \in Players |-> IF p \in S THEN [at |-> "off", guild |-> FALSE] ELSE session[p]]
  /\ inbox' = [p \in Players |-> IF p \in S THEN 0 ELSE inbox[p]]

onLoggedOut(p) ==
  /\ session[p].at = "on" /\ calls[p] = Idle /\ <<p, "logout", p>> \in Plays /\ Input
  /\ Leaves({p})
  /\ logouts' = Append(logouts, {p})
  /\ UNCHANGED <<faults, rowVars, cache, up, calls, logins, kicks, ghostVars>>

\* The gateway is lost with its sessions; the characters service tells, in
\* one message (CharEventCharsDisconnectedUnhealthyGW).
\* Calls under way go on without anybody to answer.
GatewayLost ==
  /\ Faulty
  /\ LET gone == {p \in Players : Online(p)} IN
     /\ gone # {}
     /\ Leaves(gone)
     /\ logouts' = Append(logouts, gone)
  /\ UNCHANGED <<rowVars, cache, up, calls, logins, kicks, ghostVars>>

SetOnline(S, online) ==
  cache' = IF up THEN [cache EXCEPT !.members = Update(S, "online", online)] ELSE cache

HandleCharacterLoggedIn ==
  /\ logins # <<>>
  /\ SetOnline(Head(logins), TRUE)
  /\ logins' = Tail(logins)
  /\ UNCHANGED <<rowVars, up, sessionVars, calls, logouts, kicks, bounds, ghostVars>>

HandleCharacterLoggedOut ==
  /\ logouts # <<>>
  /\ SetOnline(Head(logouts), FALSE)
  /\ logouts' = Tail(logouts)
  /\ UNCHANGED <<rowVars, up, sessionVars, calls, logins, kicks, bounds, ghostVars>>

Crash ==
  /\ up /\ Faulty
  /\ Panic

Warmup ==
  /\ ~up /\ up' = TRUE
  /\ cache' = LoadAllForRealm(memberRows, rankRows, textRows, {p \in Players : Online(p)})
  /\ UNCHANGED <<rowVars, sessionVars, calls, eventVars, bounds, ghostVars>>

-----------------------------------------------------------------------------
Init ==
  /\ memberRows = [p \in DOMAIN FirstRanks |-> Row(FirstRanks[p])]
  /\ rankRows = [id \in 0..(Len(FirstRights) - 1) |-> FirstRights[id + 1]]
  /\ textRows = [motd |-> NoText, info |-> NoText]
  /\ invites = FirstInvites
  /\ cache = LoadAllForRealm(memberRows, rankRows, textRows, Players)
  /\ up = TRUE
  /\ session = [p \in Players |-> [at |-> "on", guild |-> p \in DOMAIN FirstRanks]]
  /\ calls = [p \in Players |-> Idle]
  /\ inbox = [p \in Players |-> 0]
  /\ logins = <<>> /\ logouts = <<>> /\ kicks = <<>>
  /\ inputs = 0 /\ faults = 0
  /\ slips = {} /\ raced = {} /\ missed = {}

CallStep(p) ==
  \/ Check(p) \/ RemoveGuildInviteForCharacter(p)
  \/ Statement(p) \/ WriteCache(p) \/ Publish(p)

Fault ==
  \/ Crash \/ GatewayLost
  \/ \E p \in Players : PublishFails(p) \/ \E applied \in BOOLEAN : StatementFails(p, applied)

Next ==
  \/ \E p \in Players :
       \/ Packet(p) \/ CallStep(p) \/ HandleEventGuildMemberKicked(p)
       \/ Login(p) \/ RegisterCharacter(p) \/ onLoggedOut(p)
  \/ NewGuildMemberKickedEvent \/ HandleCharacterLoggedIn \/ HandleCharacterLoggedOut
  \/ Warmup \/ Fault

Spec == Init /\ [][Next]_vars

\* Goroutines run, NATS delivers, a session handles its events.  Clients need
\* not send anything, and nothing has to restart.  Each call and each event has
\* few steps and inputs are bounded, so that one condition is fair to all.
Progress == NewGuildMemberKickedEvent \/ \E p \in Players : CallStep(p) \/ HandleEventGuildMemberKicked(p)
FairSpec == Spec /\ WF_vars(Progress)

-----------------------------------------------------------------------------
(* Properties                                                               *)

Agrees(cell) ==
  CASE cell \in Players ->
         IF cell \in DOMAIN memberRows
         THEN Cardinality(Entries(cell)) = 1 /\ Linked(cell) /\ guildMemberForMemberGuid(cell).row = memberRows[cell]
         ELSE Entries(cell) = {}
    [] cell = "ranks" -> {<<cache.ranks[k].id, cache.ranks[k].rights>> : k \in DOMAIN cache.ranks}
                           = {<<id, rankRows[id]>> : id \in DOMAIN rankRows}
    [] OTHER -> cache.texts[cell] = textRows[cell]

\* The guild in memory is the guild in the tables: after every call, also when
\* calls of other players on other members run in between, a failed statement
\* or a restart, each member, the ranks and the texts are the same in both,
\* unless calls that overlapped wrote them in two orders or the answer of a
\* statement was lost (RemoveGuildMember, SetMemberRank, DeleteLowestGuildRank).
\* The ranks may also differ once a rank was added above one whose deletion was
\* not answered: their ids have a gap then, and GuildRanks[:rank] keeps the
\* rank it should delete, a restart later as well.
CacheMirrorsRows ==
  up => \A cell \in Players \cup {"ranks", "motd", "info"} :
          \/ cell \in raced \/ (cell = "ranks" /\ "rank gap" \in slips)
          \/ (\E q \in Players : At(q, "cache") /\ Cell(q) = cell) \/ Agrees(cell)

\* A guild has one guild master, whoever promotes, demotes, kicks, leaves and
\* joins at the same time on ranks read before (updateRank, Kick, Leave,
\* lowestRankInGuild), as long as nobody promotes the master, which wraps the
\* rank to 255, or deletes a default rank, so that newcomers get rank 0, and as long
\* as no rank has the id 255, from which a demotion wraps to 0.  A gap between
\* the rank ids does no harm here.
OneMaster ==
  slips \subseteq {"rank gap"} => Cardinality({p \in DOMAIN memberRows : memberRows[p].rank = GuildRankGuildMaster}) = 1

\* A session learns of its character's guild: joined, left or kicked, it comes
\* to show what the table says, or the character leaves the world, unless the
\* kick event went past it or came too late, or its call failed half way
\* (HandleGuildInviteAccept, HandleGuildLeave, HandleEventGuildMemberKicked).
SessionsFollow ==
  \A p \in Players :
    (Online(p) /\ session[p].guild # (p \in DOMAIN memberRows))
      ~> (~Online(p) \/ session[p].guild = (p \in DOMAIN memberRows) \/ p \in missed)
=============================================================================
