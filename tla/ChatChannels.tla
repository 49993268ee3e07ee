---------------------------- MODULE ChatChannels ----------------------------
(***************************************************************************)
(* Custom chat channels: the gateway sessions that join, leave, moderate   *)
(* and speak, the chat server with the channel it keeps in memory and      *)
(* writes through to MySQL, its listener for logins and logouts, its       *)
(* clean-up and its restart, and the gateway's broadcaster.                *)
(*                                                                         *)
(* One channel name, one team, one chat server.  A session handles one     *)
(* packet at a time and waits for the answer, so call[p] is the packet of  *)
(* p and the server handler that runs for it; call[Listener] is the event  *)
(* the listener handles.  A critical section of ActiveChannel.mu with at   *)
(* most one write to MySQL is one step; with two writes the mutex has a    *)
(* holder in between.  The reads a handler does before it (membership,     *)
(* permission, the target's name) are one step; a refused call changes     *)
(* nothing and is left out.  Channel rights are not used (no rights row).  *)
(***************************************************************************)
EXTENDS Naturals, FiniteSets, SequencesExt

CONSTANTS
  Players, Listener, NoOne,
  Passwords,      \* what a client may send; NoPassword among them
  NoPassword,
  FirstMembers, FirstModerators, \* who is in the channel at the start, in one of the initial states
  MaxInputs,      \* bound: packets, logins and logouts
  MaxFaults       \* bound: failed writes, crashes of the chat server, rows deleted as unused

ASSUME PlayersAssumption == Listener \notin Players /\ NoOne \notin Players \cup {Listener}
ASSUME PasswordsAssumption == NoPassword \in Passwords
ASSUME FirstAssumption ==
  /\ FirstModerators \subseteq FirstMembers /\ FirstMembers \subseteq Players
  /\ FirstMembers # {} => FirstMembers \ FirstModerators # {}
ASSUME BoundsAssumption == MaxInputs \in Nat /\ MaxFaults \in Nat

VARIABLES
  objects,    \* ActiveChannel objects: the current one and one that was dropped
  active,     \* the object in ChannelManager.channels, 0 if none
  row,        \* the channel in MySQL: channels, channels_members, channels_bans
  server,     \* "up", "down", or where the start has got to
  roll,       \* the online characters the starting server was told
  known,      \* the characters repository of the chat server
  logins, logouts, \* events on their way to the chat server: two subscriptions, each in order
  call,       \* per session and for the listener
  session,    \* per player: offline, online, or online and showing the channel
  subs,       \* gateway: ChatChannel.members
  streams,    \* gateway: players with an open PlayerStreams channel
  news,       \* channel events wait for the broadcaster
  sending,    \* BroadcastToChannel: the player whose stream it holds
  inputs, faults,
  damage,     \* history: "rows" when MySQL missed a change of the members, "memory" once that was loaded
  lagging,    \* history: MySQL may have missed a change of settings or bans
  crossed,    \* history: players whose login and logout were under way together, or unheard of
  expelled    \* history: players removed by others since they joined

chat == <<objects, active, row, server, roll, known>>
gateway == <<session, subs, streams, news, sending>>
bounds == <<inputs, faults>>
history == <<damage, lagging, crossed, expelled>>
presence == <<logins, logouts>>
vars == <<chat, presence, call, gateway, bounds, history>>

Threads == Players \cup {Listener}
Roles == {"owner", "moderator", "muted"}
NoRoles == [r \in Roles |-> {}]
Objects == 1..2

NewRow(id, pw) == [listed |-> TRUE, id |-> id, members |-> {}, flags |-> NoRoles,
                   banned |-> {}, password |-> pw, announce |-> TRUE]

\* GetOrCreateChannel: the object built from the rows; ownerGUID is the last owner the rows name.
Loaded(r) == {[id |-> r.id, members |-> r.members, flags |-> r.flags, owner |-> o, banned |-> r.banned,
               password |-> r.password, announce |-> r.announce, moderation |-> FALSE, holder |-> NoOne] :
               o \in IF r.flags["owner"] = {} THEN {NoOne} ELSE r.flags["owner"]}

Unused == [id |-> 0, members |-> {}, flags |-> NoRoles, owner |-> NoOne, banned |-> {},
           password |-> NoPassword, announce |-> TRUE, moderation |-> FALSE, holder |-> NoOne]

Idle == [op |-> "idle", at |-> "idle", on |-> 0, to |-> NoOne, with |-> <<>>]

Online == {p \in Players : session[p] # "offline"}

-----------------------------------------------------------------------------
(* Members and rows                                                        *)

Without(flags, gone) == [r \in Roles |-> flags[r] \ gone]
With(flags, r, p) == [flags EXCEPT ![r] = @ \cup {p}]

\* Mutant: moderators are not preferred.
Heirs_AnyMember(ch, stay) == stay

\* Whom ownership falls to when its holder is not among those who stay.
Heirs(ch, stay) == LET mods == stay \cap ch.flags["moderator"] IN IF mods # {} THEN mods ELSE stay

\* SaveChannelMember, RemoveChannelMember, UpdateMemberFlags: rows of the channel id of the object.
SaveMember(r, ch, p) ==
  IF r.id # ch.id THEN r
  ELSE [r EXCEPT !.members = @ \cup {p},
                 !.flags = [x \in Roles |-> (@[x] \ {p}) \cup (ch.flags[x] \cap {p})]]
RemoveMembers(r, ch, gone) ==
  IF r.id # ch.id THEN r ELSE [r EXCEPT !.members = @ \ gone, !.flags = Without(@, gone)]
UpdateFlags(r, ch, p) == IF p \in r.members THEN SaveMember(r, ch, p) ELSE r

\* UpdateChannel with a snapshot <<password, announce>>, AddChannelBan and RemoveChannelBan.
UpdateChannel(r, ch, s) ==
  IF r.id # ch.id \/ ~r.listed THEN r ELSE [r EXCEPT !.password = s[1], !.announce = s[2]]
WriteBan(r, ch, p, on) ==
  IF r.id # ch.id THEN r ELSE [r EXCEPT !.banned = IF on THEN @ \cup {p} ELSE @ \ {p}]

\* The mutex of object o is free.
Unlocked(o) == objects[o].holder = NoOne

MayFail == faults < MaxFaults
Failed == faults' = faults + 1

Return(t) == call' = [call EXCEPT ![t] = Idle]
GoTo(t, at) == call' = [call EXCEPT ![t].at = at]
\* The answer; nobody waits for it if the gateway is gone.
Reply(t, at) == IF session[t] = "offline" THEN Return(t) ELSE GoTo(t, at)

\* A change of settings or bans has been made in memory and not yet in MySQL.
WritePending(ts) == \E t \in ts : call[t].at \in {"snapshot", "writeSettings", "writeBan"}

Damaged == damage' = IF damage = "none" THEN "rows" ELSE damage

-----------------------------------------------------------------------------
(* Packets: HandleJoinChannel and the handlers that look the channel up    *)

Input == inputs < MaxInputs /\ inputs' = inputs + 1

Begin(p, op, at, o, to, with) ==
  /\ session[p] # "offline" /\ call[p] = Idle /\ server = "up"
  /\ Input
  /\ call' = [call EXCEPT ![p] = [op |-> op, at |-> at, on |-> o, to |-> to, with |-> with]]

\* An object nothing points to can be reused for the next channel.
Reusable(o) == o # active /\ \A t \in Threads : call[t].on # o
Spare == CHOOSE o \in Objects : Reusable(o)

GetOrCreateChannel(p, pw) ==
  /\ IF active # 0
     THEN /\ Begin(p, "join", "join", active, NoOne, pw)
          /\ UNCHANGED <<objects, active, row, damage, lagging, expelled>>
     ELSE /\ \E o \in Objects : Reusable(o)
          /\ Begin(p, "join", "join", Spare, NoOne, pw)
          /\ row' = IF row.listed THEN row ELSE NewRow(row.id + 1, pw)
          /\ \E ch \in Loaded(row') : objects' = [objects EXCEPT ![Spare] = ch]
          /\ active' = Spare
          /\ damage' = IF ~row.listed THEN "none" ELSE IF damage = "rows" THEN "memory" ELSE damage
          /\ lagging' = (lagging \/ WritePending(Players))
          /\ expelled' = IF row.listed THEN expelled ELSE Players
  /\ UNCHANGED <<server, roll, known, presence, gateway, faults, crossed>>

Owns(ch, p) == p \in ch.flags["owner"]
Moderates(ch, p) == p \in ch.flags["owner"] \cup ch.flags["moderator"]

\* The methods of ChannelManager up to their last read: permission, and the target's name among the members.
KickPlayer(ch, p, q) == Moderates(ch, p) /\ q \in ch.members
BanPlayerByName(ch, p, q) == Moderates(ch, p) /\ q \in ch.members
UnbanPlayerByName(ch, p, q) == Moderates(ch, p) /\ q \in ch.members
SetModeratorByName(ch, p, q) == Owns(ch, p) /\ q \in ch.members
SetMuteByName(ch, p, q) == Moderates(ch, p) /\ q \in ch.members
SetOwnerByName(ch, p, q) == Owns(ch, p) /\ q \in ch.members
SetChannelPassword(ch, p) == Owns(ch, p)
ToggleChannelModeration(ch, p) == Moderates(ch, p)
ToggleChannelAnnouncements(ch, p) == Moderates(ch, p)

\* A handler of ChatService that finds the channel and is permitted to go on.
Request(p, op, to, with, permitted) ==
  /\ active # 0 /\ Unlocked(active) /\ permitted
  /\ Begin(p, op, op, active, to, with)
  /\ UNCHANGED <<chat, presence, gateway, faults, history>>

LeaveChannelByGUID(p) == Request(p, "leave", NoOne, <<>>, TRUE)
KickFromChannel(p, q) == Request(p, "kick", q, <<>>, KickPlayer(objects[active], p, q))
BanFromChannel(p, q) == Request(p, "ban", q, <<>>, BanPlayerByName(objects[active], p, q))
UnbanFromChannel(p, q) == Request(p, "unban", q, <<>>, UnbanPlayerByName(objects[active], p, q))
SetChannelModerator(p, q) == Request(p, "setModerator", q, <<>>, SetModeratorByName(objects[active], p, q))
UnsetChannelModerator(p, q) == Request(p, "unsetModerator", q, <<>>, SetModeratorByName(objects[active], p, q))
SetChannelMute(p, q) == Request(p, "mute", q, <<>>, SetMuteByName(objects[active], p, q))
UnsetChannelMute(p, q) == Request(p, "unmute", q, <<>>, SetMuteByName(objects[active], p, q))
SetChannelOwner(p, q) == Request(p, "setOwner", q, <<>>, SetOwnerByName(objects[active], p, q))
RequestPassword(p, pw) == Request(p, "setPassword", NoOne, pw, SetChannelPassword(objects[active], p))
RequestModeration(p) == Request(p, "moderation", NoOne, <<>>, ToggleChannelModeration(objects[active], p))
RequestAnnouncements(p) == Request(p, "announcements", NoOne, <<>>, ToggleChannelAnnouncements(objects[active], p))

\* Packets that only publish an event: a message of somebody who may speak, and an invitation of a
\* character that is known and no member.
CanSpeak(ch, p) ==
  /\ p \in ch.members \ ch.flags["muted"]
  /\ ch.moderation => Moderates(ch, p)

InviteToChannel(ch, p) == p \in ch.members /\ known \ ch.members # {}

Publish == news' = TRUE

PublishOnly(p, permitted) ==
  /\ server = "up" /\ active # 0 /\ Unlocked(active) /\ session[p] # "offline" /\ call[p] = Idle
  /\ permitted
  /\ Input
  /\ Publish
  /\ UNCHANGED <<chat, presence, call, session, subs, streams, sending, faults, history>>

\* The packets of a client; what they name is the client's choice.
HandleJoinChannel(p) == \E pw \in Passwords : GetOrCreateChannel(p, pw)
HandleLeaveChannel(p) == LeaveChannelByGUID(p)
HandleChannelKick(p) == \E q \in Players : KickFromChannel(p, q)
HandleChannelBan(p) == \E q \in Players : BanFromChannel(p, q)
HandleChannelUnban(p) == \E q \in Players : UnbanFromChannel(p, q)
HandleChannelSetModerator(p) == \E q \in Players : SetChannelModerator(p, q)
HandleChannelUnsetModerator(p) == \E q \in Players : UnsetChannelModerator(p, q)
HandleChannelMute(p) == \E q \in Players : SetChannelMute(p, q)
HandleChannelUnmute(p) == \E q \in Players : UnsetChannelMute(p, q)
HandleChannelSetOwner(p) == \E q \in Players : SetChannelOwner(p, q)
HandleChannelPassword(p) == \E pw \in Passwords : RequestPassword(p, pw)
HandleChannelModerate(p) == RequestModeration(p)
HandleChannelAnnouncements(p) == RequestAnnouncements(p)
SendChannelMessageToChat(p) == PublishOnly(p, CanSpeak(objects[active], p))
HandleChannelInvite(p) == PublishOnly(p, InviteToChannel(objects[active], p))

-----------------------------------------------------------------------------
(* The steps of ActiveChannel                                              *)

\* A step of the call of t on its object, whose mutex must be free.
Enter(t, at) == call[t].at = at /\ server = "up" /\ Unlocked(call[t].on)

\* ActiveChannel.JoinChannel: banned, wrong password, member already, or added and saved.
JoinChannel(p) ==
  LET o == call[p].on
      ch == objects[o]
      joined == [ch EXCEPT !.members = @ \cup {p},
                           !.flags["owner"] = IF ch.members = {} THEN {p} ELSE @,
                           !.owner = IF ch.members = {} THEN p ELSE @]
      refused == p \in ch.banned \/ (ch.password # NoPassword /\ ch.password # call[p].with)
  IN /\ Enter(p, "join")
     /\ \/ refused /\ Return(p) /\ UNCHANGED <<objects, row, faults, damage, news, expelled>>
        \/ ~refused /\ p \in ch.members /\ Reply(p, "joined") /\ Publish
           /\ UNCHANGED <<objects, row, faults, damage, expelled>>
        \/ /\ ~refused /\ p \notin ch.members
           /\ objects' = [objects EXCEPT ![o] = joined]
           /\ row' = SaveMember(row, joined, p)
           /\ IF o = active THEN damage' = damage ELSE Damaged
           /\ expelled' = expelled \ {p}
           /\ Reply(p, "joined") /\ Publish /\ UNCHANGED faults
        \/ /\ ~refused /\ p \notin ch.members
           /\ MayFail /\ Failed
           /\ objects' = [objects EXCEPT ![o].owner = joined.owner]
           /\ Return(p) /\ UNCHANGED <<row, damage, news, expelled>>
  /\ UNCHANGED <<active, server, roll, known, presence, session, subs, streams, sending,
                 inputs, lagging, crossed>>

\* What the caller of LeaveChannel does next: answer, or go on with the ban.
AfterLeave(t, left) ==
  LET op == call[t].op
  IN CASE op = "ban" -> GoTo(t, "banning")
       [] op = "leave" /\ left -> Reply(t, "left")
       [] OTHER -> Return(t)

Announced(t, left) == news' = (news \/ (left /\ call[t].op \in {"leave", "kick"}))

\* ActiveChannel.LeaveChannel for a leave, a kick or a ban.  An owner is followed by an heir
\* whose flag is a second write under the same lock.
LeaveHeirs(ch, gone) == Heirs(ch, ch.members \ {gone})

LeaveChannel(t) ==
  LET o == call[t].on
      ch == objects[o]
      gone == IF call[t].op = "leave" THEN t ELSE call[t].to
      left == [ch EXCEPT !.members = @ \ {gone}, !.flags = Without(@, {gone})]
      follows == gone \in ch.flags["owner"] /\ left.members # {}
  IN /\ \E at \in {"leave", "kick", "ban"} : Enter(t, at)
     /\ \/ gone \notin ch.members /\ AfterLeave(t, FALSE)
           /\ UNCHANGED <<objects, row, faults, damage, news, expelled>>
        \/ /\ gone \in ch.members /\ MayFail /\ Failed
           /\ IF call[t].op = "ban" THEN GoTo(t, "banning") ELSE Return(t)
           /\ UNCHANGED <<objects, row, damage, news, expelled>>
        \/ /\ gone \in ch.members /\ ~follows
           /\ objects' = [objects EXCEPT ![o] = left]
           /\ row' = RemoveMembers(row, ch, {gone})
           /\ expelled' = IF call[t].op = "leave" THEN expelled ELSE expelled \cup {gone}
           /\ AfterLeave(t, TRUE) /\ Announced(t, TRUE) /\ UNCHANGED <<faults, damage>>
        \/ /\ gone \in ch.members /\ follows
           /\ \E heir \in LeaveHeirs(ch, gone) :
                /\ objects' = [objects EXCEPT ![o] = [left EXCEPT !.flags = With(@, "owner", heir),
                                                                  !.owner = heir, !.holder = t]]
                /\ call' = [call EXCEPT ![t].at = "heir", ![t].with = heir]
           /\ row' = RemoveMembers(row, ch, {gone})
           /\ expelled' = IF call[t].op = "leave" THEN expelled ELSE expelled \cup {gone}
           /\ UNCHANGED <<faults, damage, news>>
  /\ UNCHANGED <<active, server, roll, known, presence, session, subs, streams, sending,
                 inputs, lagging, crossed>>

\* The flag of the heir; a failed write is only logged.
\* Mutant: the mutex is not released.
PersistHeir_KeepsLock(t) ==
  /\ call[t].at = "heir" /\ server = "up"
  /\ row' = UpdateFlags(row, objects[call[t].on], call[t].with)
  /\ IF t = Listener THEN GoTo(t, "remove") /\ Publish
                     ELSE AfterLeave(t, TRUE) /\ Announced(t, TRUE)
  /\ UNCHANGED <<objects, faults, damage, active, server, roll, known, presence, session, subs, streams,
                 sending, inputs, lagging, crossed, expelled>>

PersistHeir(t) ==
  LET o == call[t].on
  IN /\ call[t].at = "heir" /\ server = "up"
     /\ objects' = [objects EXCEPT ![o].holder = NoOne]
     /\ \/ row' = UpdateFlags(row, objects[o], call[t].with) /\ UNCHANGED <<faults, damage>>
        \/ MayFail /\ Failed /\ Damaged /\ row' = row
     /\ IF t = Listener THEN GoTo(t, "remove") /\ Publish
                        ELSE AfterLeave(t, TRUE) /\ Announced(t, TRUE)
  /\ UNCHANGED <<active, server, roll, known, presence, session, subs, streams, sending,
                 inputs, lagging, crossed, expelled>>

Quiet == UNCHANGED <<active, server, roll, known, presence, session, subs, streams, sending,
                     inputs, crossed, expelled>>

\* SetModerator and SetMute: reverted when the write faults.
SetFlag(p) ==
  LET o == call[p].on
      op == call[p].op
      role == IF op \in {"mute", "unmute"} THEN "muted" ELSE "moderator"
      q == call[p].to
      set == [objects[o] EXCEPT !.flags[role] = IF op \in {"mute", "setModerator"} THEN @ \cup {q} ELSE @ \ {q}]
  IN /\ \E at \in {"mute", "unmute", "setModerator", "unsetModerator"} : Enter(p, at)
     /\ Return(p)
     /\ \/ q \notin objects[o].members /\ UNCHANGED <<objects, row, faults, news>>
        \/ q \in objects[o].members /\ MayFail /\ Failed /\ UNCHANGED <<objects, row, news>>
        \/ /\ q \in objects[o].members
           /\ objects' = [objects EXCEPT ![o] = set]
           /\ row' = UpdateFlags(row, set, q)
           /\ Publish /\ UNCHANGED faults
  /\ Quiet /\ UNCHANGED <<damage, lagging>>

\* SetOwner: the old owner's flag is cleared and saved, then the new owner's set and saved.
SetOwnerOld(p) ==
  LET o == call[p].on
      ch == objects[o]
      cleared == [ch EXCEPT !.flags["owner"] = @ \ {ch.owner}]
  IN /\ Enter(p, "setOwner")
     /\ \/ call[p].to \notin ch.members /\ Return(p) /\ UNCHANGED <<objects, row, faults>>
        \/ call[p].to \in ch.members /\ ch.owner \in ch.members /\ MayFail /\ Failed
           /\ Return(p) /\ UNCHANGED <<objects, row>>
        \/ /\ call[p].to \in ch.members
           /\ objects' = [objects EXCEPT ![o].holder = p]
           /\ row' = IF ch.owner \in ch.members THEN UpdateFlags(row, cleared, ch.owner) ELSE row
           /\ GoTo(p, "setOwnerNew") /\ UNCHANGED faults
  /\ Quiet /\ UNCHANGED <<damage, lagging, news>>

NewOwnerFlags(ch, q) == [ch.flags EXCEPT !["owner"] = (@ \ {ch.owner}) \cup {q}]

SetOwnerNew(p) ==
  LET o == call[p].on
      q == call[p].to
      set == [objects[o] EXCEPT !.flags = NewOwnerFlags(objects[o], q), !.owner = q, !.holder = NoOne]
  IN /\ call[p].at = "setOwnerNew" /\ server = "up"
     /\ Return(p)
     /\ \/ /\ objects' = [objects EXCEPT ![o] = set]
           /\ row' = UpdateFlags(row, set, q)
           /\ Publish /\ UNCHANGED <<faults, damage>>
        \/ /\ MayFail /\ Failed /\ Damaged
           /\ objects' = [objects EXCEPT ![o].holder = NoOne]
           /\ UNCHANGED <<row, news>>
  /\ Quiet /\ UNCHANGED lagging

\* BanPlayer looks the channel up again, then bans in memory; UnbanPlayer removes the ban there.
BanInMemory(p) ==
  LET on == call[p].op = "ban"
      q == call[p].to
  IN /\ call[p].at \in {"banning", "unban"} /\ server = "up"
     /\ \/ active = 0 /\ Return(p) /\ UNCHANGED <<objects, lagging>>
        \/ /\ active # 0 /\ Unlocked(active)
           /\ objects' = [objects EXCEPT ![active].banned = IF on THEN @ \cup {q} ELSE @ \ {q}]
           /\ call' = [call EXCEPT ![p].at = "writeBan", ![p].on = active]
           /\ lagging' = (lagging \/ WritePending(Players \ {p}))
  /\ Quiet /\ UNCHANGED <<row, faults, damage, news>>

\* AddChannelBan and RemoveChannelBan, after the unlock.
WriteChannelBan(p) ==
  /\ call[p].at = "writeBan" /\ server = "up"
  /\ Return(p)
  /\ \/ row' = WriteBan(row, objects[call[p].on], call[p].to, call[p].op = "ban") /\ UNCHANGED <<faults, lagging>>
     \/ MayFail /\ Failed /\ lagging' = TRUE /\ row' = row
  /\ Quiet /\ UNCHANGED <<objects, damage, news>>

\* Settings: SetChannelPassword changes the password and takes the snapshot that is written after
\* the unlock; ToggleChannelAnnouncements toggles, takes its snapshot in a second critical section.
Snapshot(ch) == <<ch.password, ch.announce>>

\* Mirrored again only if nobody else writes and the object is the current one.
Overtaken(p) == WritePending(Players \ {p}) \/ call[p].on # active

SetPassword(p) ==
  LET o == call[p].on
      ch == [objects[o] EXCEPT !.password = call[p].with]
  IN /\ Enter(p, "setPassword")
     /\ objects' = [objects EXCEPT ![o] = ch]
     /\ call' = [call EXCEPT ![p].at = "writeSettings", ![p].with = Snapshot(ch)]
     /\ lagging' = (lagging \/ Overtaken(p))
  /\ Quiet /\ UNCHANGED <<row, faults, damage, news>>

ToggleAnnouncements(p) ==
  /\ Enter(p, "announcements")
  /\ objects' = [objects EXCEPT ![call[p].on].announce = ~@]
  /\ GoTo(p, "snapshot")
  /\ lagging' = (lagging \/ Overtaken(p))
  /\ Quiet /\ UNCHANGED <<row, faults, damage, news>>

SnapshotSettings(p) ==
  /\ Enter(p, "snapshot")
  /\ call' = [call EXCEPT ![p].at = "writeSettings", ![p].with = Snapshot(objects[call[p].on])]
  /\ Quiet /\ UNCHANGED <<objects, row, faults, damage, lagging, news>>

\* Mutant: the snapshot is not written when announcements are off.
WriteSettings_OnlyAnnounced(p) ==
  /\ call[p].at = "writeSettings" /\ server = "up"
  /\ Return(p)
  /\ row' = IF call[p].with[2] THEN UpdateChannel(row, objects[call[p].on], call[p].with) ELSE row
  /\ Quiet /\ UNCHANGED <<objects, faults, lagging, damage, news>>

WriteSettings(p) ==
  /\ call[p].at = "writeSettings" /\ server = "up"
  /\ Return(p)
  /\ \/ row' = UpdateChannel(row, objects[call[p].on], call[p].with) /\ UNCHANGED <<faults, lagging>>
     \/ MayFail /\ Failed /\ lagging' = TRUE /\ row' = row
  /\ Quiet /\ UNCHANGED <<objects, damage, news>>

ToggleModeration(p) ==
  /\ Enter(p, "moderation")
  /\ objects' = [objects EXCEPT ![call[p].on].moderation = ~@]
  /\ Return(p)
  /\ Quiet /\ UNCHANGED <<row, faults, damage, lagging, news>>

-----------------------------------------------------------------------------
(* Answers, logins and logouts at the gateway                              *)

\* ChatChannelsService of the gateway.
AddPlayerToChannel(p) == subs' = subs \cup {p} /\ streams' = streams \cup {p}
RemovePlayerFromChannel(p) == subs' = subs \ {p} /\ streams' = streams
DisconnectPlayer(p) == subs' = subs \ {p} /\ streams' = streams \ {p}

\* The rest of HandleJoinChannel: AddChannel, AddPlayerToChannel, the player's stream.
AddChannel(p) ==
  /\ call[p].at = "joined"
  /\ session' = [session EXCEPT ![p] = "shows"]
  /\ AddPlayerToChannel(p)
  /\ Return(p)
  /\ UNCHANGED <<chat, presence, news, sending, bounds, history>>

\* The rest of HandleLeaveChannel: RemoveChannel; the stream stays for the player's other channels.
RemoveChannel(p) ==
  /\ call[p].at = "left"
  /\ session' = [session EXCEPT ![p] = "online"]
  /\ RemovePlayerFromChannel(p)
  /\ Return(p)
  /\ UNCHANGED <<chat, presence, news, sending, bounds, history>>

\* Login: a new ChannelMembership, and the event the chat server listens to.
Login(p) ==
  /\ session[p] = "offline" /\ call[p] = Idle /\ Input
  /\ session' = [session EXCEPT ![p] = "online"]
  /\ IF server = "up"
     THEN logins' = Append(logins, p) /\ crossed' = IF p \in Range(logouts) THEN crossed \cup {p} ELSE crossed
     ELSE logins' = logins /\ crossed' = crossed \cup {p}
  /\ UNCHANGED <<chat, logouts, call, subs, streams, news, sending, faults,
                 damage, lagging, expelled>>

\* onLoggedOut: the event, then DisconnectPlayer takes the player out and closes the stream.
Logout(p) ==
  /\ session[p] # "offline" /\ call[p] = Idle /\ Input
  /\ session' = [session EXCEPT ![p] = "offline"]
  /\ DisconnectPlayer(p)
  /\ IF server = "up"
     THEN logouts' = Append(logouts, p) /\ crossed' = IF p \in Range(logins) THEN crossed \cup {p} ELSE crossed
     ELSE logouts' = logouts /\ crossed' = crossed \cup {p}
  /\ UNCHANGED <<chat, logins, call, news, sending, faults, damage, lagging, expelled>>

-----------------------------------------------------------------------------
(* The listener of the chat server                                         *)

\* CharactersListener: a login is added to the repository.
CharacterLoggedIn ==
  /\ server = "up" /\ logins # <<>>
  /\ known' = known \cup {Head(logins)}
  /\ logins' = Tail(logins)
  /\ UNCHANGED <<objects, active, row, server, roll, logouts, call, gateway, bounds, history>>

\* A logout looks the channels up first.
CharacterLoggedOut ==
  /\ server = "up" /\ call[Listener] = Idle /\ logouts # <<>>
  /\ call' = [call EXCEPT ![Listener] = [op |-> "logout", at |-> IF active = 0 THEN "remove" ELSE "logout",
                                         on |-> active, to |-> Head(logouts), with |-> <<>>]]
  /\ UNCHANGED <<chat, presence, gateway, bounds, history>>

\* TransferOwnershipOnLogout: the member stays, an owner is followed by an heir.  The write that
\* clears the old owner's flag may fail, the heir's flag is written next (PersistHeir).
TransferOwnershipOnLogout ==
  LET o == call[Listener].on
      ch == objects[o]
      p == call[Listener].to
      others == ch.members \ {p}
      follows == p \in ch.members \cap ch.flags["owner"] /\ others # {}
      Handed(q) == [ch EXCEPT !.flags["owner"] = (@ \ {p}) \cup {q}, !.owner = q, !.holder = Listener]
  IN /\ Enter(Listener, "logout")
     /\ \/ ~follows /\ GoTo(Listener, "remove") /\ UNCHANGED <<objects, row, faults, damage>>
        \/ /\ follows
           /\ \E heir \in Heirs(ch, others) :
                /\ objects' = [objects EXCEPT ![o] = Handed(heir)]
                /\ call' = [call EXCEPT ![Listener].at = "heir", ![Listener].with = heir]
                /\ \/ row' = UpdateFlags(row, Handed(heir), p) /\ UNCHANGED <<faults, damage>>
                   \/ MayFail /\ Failed /\ Damaged /\ row' = row
  /\ Quiet /\ UNCHANGED <<lagging, news>>

\* Mutant: the character is looked up by a name the logout does not carry.
RemoveCharacter_ByName ==
  /\ call[Listener].at = "remove" /\ server = "up"
  /\ logouts' = Tail(logouts)
  /\ Return(Listener)
  /\ UNCHANGED <<chat, logins, gateway, bounds, history>>

RemoveCharacter ==
  /\ call[Listener].at = "remove" /\ server = "up"
  /\ known' = known \ {call[Listener].to}
  /\ logouts' = Tail(logouts)
  /\ Return(Listener)
  /\ UNCHANGED <<objects, active, row, server, roll, logins, gateway, bounds, history>>

-----------------------------------------------------------------------------
(* Clean-up, crash and restart of the chat server                          *)

\* cleanupLocalMemory waits for the mutex of the channel and drops it when it is empty.
\* Mutant: it drops the channel without its members being gone.
CleanupLocalMemory_Any ==
  /\ server = "up" /\ active # 0 /\ Unlocked(active)
  /\ active' = 0
  /\ UNCHANGED <<objects, row, server, roll, known, presence, call, gateway, bounds, history>>

CleanupLocalMemory ==
  /\ server = "up" /\ active # 0 /\ Unlocked(active)
  /\ objects[active].members = {}
  /\ active' = 0
  /\ UNCHANGED <<objects, row, server, roll, known, presence, call, gateway, bounds, history>>

\* CleanOldChannels: the row of a channel nobody has spoken in for long, members or not.
CleanOldChannels ==
  /\ server = "up" /\ row.listed /\ MayFail /\ Failed
  /\ row' = [row EXCEPT !.listed = FALSE]
  /\ UNCHANGED <<objects, active, server, roll, known, presence, call, gateway, inputs, history>>

\* The process dies: calls end with an error at the gateway, events on their way are lost.
Crash ==
  /\ server # "down" /\ MayFail /\ Failed
  /\ server' = "down"
  /\ objects' = [o \in Objects |-> Unused]
  /\ active' = 0
  /\ known' = {}
  /\ logins' = <<>> /\ logouts' = <<>>
  /\ call' = [t \in Threads |-> IF call[t].at \in {"joined", "left"} THEN [call[t] EXCEPT !.on = 0] ELSE Idle]
  /\ crossed' = Players
  /\ damage' = IF damage # "none" \/ server = "heir" \/ \E o \in Objects : objects[o].holder # NoOne
               THEN "memory" ELSE "none"
  /\ lagging' = (lagging \/ WritePending(Players))
  /\ expelled' = expelled \cup (Players \ (IF row.listed THEN row.members ELSE {}))
  /\ UNCHANGED <<row, roll, gateway, inputs>>

\* main: PreloadChannels, and the online characters (external: charserver) or none if that call faults.
Preload ==
  /\ server = "down"
  /\ \/ row.listed /\ active' = 1 /\ \E ch \in Loaded(row) : objects' = [objects EXCEPT ![1] = ch]
     \/ ~row.listed /\ UNCHANGED <<active, objects>>
  /\ \/ roll' = Online /\ server' = "preloaded"
     \/ MayFail /\ server' = "up" /\ roll' = roll
  /\ faults' = IF server' = "up" THEN faults + 1 ELSE faults
  /\ UNCHANGED <<row, known, presence, call, gateway, inputs, history>>

\* PruneOfflineMembers: rows of offline members go one by one, a failure is only logged; an owner
\* who was offline is followed by an heir.
PruneOfflineMembers ==
  LET ch == objects[active]
      offline == ch.members \ roll
      left == [ch EXCEPT !.members = @ \ offline, !.flags = Without(@, offline)]
      lost == ch.owner # NoOne /\ ch.owner \notin roll
  IN /\ server = "preloaded"
     /\ IF active = 0 THEN server' = "up" /\ UNCHANGED <<objects, row, faults, damage, expelled>>
        ELSE /\ \/ row' = RemoveMembers(row, ch, offline) /\ UNCHANGED <<faults, damage>>
                \/ \E q \in offline : MayFail /\ Failed /\ Damaged /\ row' = RemoveMembers(row, ch, offline \ {q})
             /\ expelled' = expelled \cup offline
             /\ \/ ~(lost /\ left.members # {})
                   /\ objects' = [objects EXCEPT ![active] = [left EXCEPT !.owner = IF lost THEN NoOne ELSE @]]
                   /\ server' = "up"
                \/ lost /\ \E heir \in Heirs(ch, left.members) :
                     /\ objects' = [objects EXCEPT ![active] = [left EXCEPT !.flags = With(@, "owner", heir),
                                                                            !.owner = heir]]
                     /\ server' = "heir"
  /\ UNCHANGED <<active, roll, known, presence, call, gateway, inputs, lagging, crossed>>

PersistPruneHeir ==
  /\ server = "heir"
  /\ server' = "up"
  /\ \/ row' = UpdateFlags(row, objects[active], objects[active].owner) /\ UNCHANGED <<faults, damage>>
     \/ MayFail /\ Failed /\ Damaged /\ row' = row
  /\ UNCHANGED <<objects, active, roll, known, presence, call, gateway, inputs,
                 lagging, crossed, expelled>>

-----------------------------------------------------------------------------
(* The broadcaster of the gateway                                          *)

\* chatNatsListener: the next channel event.
NextEvent == news /\ sending = NoOne /\ news' = FALSE

\* BroadcastToChannel: the members, then per member the stream and the send.  One of them is followed.
BroadcastToChannel ==
  /\ NextEvent
  /\ \/ sending' \in subs \cap streams
     \/ subs \cap streams = {} /\ sending' = sending
  /\ UNCHANGED <<chat, presence, call, session, subs, streams, bounds, history>>

\* The send does not block; a full stream drops the event.
SendEvent ==
  /\ sending \in streams
  /\ sending' = NoOne
  /\ UNCHANGED <<chat, presence, call, session, subs, streams, news, bounds, history>>

\* A send on a stream that DisconnectPlayer closed in between panics: the gateway and its sessions
\* are gone, without logout events.
SendOnClosedStream ==
  /\ sending # NoOne /\ sending \notin streams
  /\ session' = [p \in Players |-> "offline"]
  /\ subs' = {} /\ streams' = {} /\ news' = FALSE
  /\ sending' = NoOne
  /\ call' = [t \in Threads |-> IF call[t].at \in {"joined", "left"} THEN Idle ELSE call[t]]
  /\ crossed' = Players
  /\ UNCHANGED <<chat, presence, bounds, damage, lagging, expelled>>

-----------------------------------------------------------------------------

\* Either nothing exists yet, or a channel with its first members, whose sessions show it.
Init ==
  /\ \E ms \in {{}, FirstMembers} :
       /\ row = IF ms = {} THEN [NewRow(0, NoPassword) EXCEPT !.listed = FALSE]
                ELSE [NewRow(1, NoPassword) EXCEPT !.members = ms,
                        !.flags["owner"] = {CHOOSE p \in ms \ FirstModerators : TRUE},
                        !.flags["moderator"] = FirstModerators]
       /\ active = IF ms = {} THEN 0 ELSE 1
       /\ objects = [o \in Objects |-> IF ms # {} /\ o = 1 THEN CHOOSE ch \in Loaded(row) : TRUE ELSE Unused]
       /\ session = [p \in Players |-> IF p \in ms THEN "shows" ELSE "offline"]
       /\ known = ms /\ subs = ms /\ streams = ms
  /\ server = "up" /\ roll = {} /\ logins = <<>> /\ logouts = <<>>
  /\ call = [t \in Threads |-> Idle]
  /\ news = FALSE /\ sending = NoOne
  /\ inputs = 0 /\ faults = 0
  /\ damage = "none" /\ lagging = FALSE /\ crossed = {} /\ expelled = {}

Packet(p) ==
  \/ HandleJoinChannel(p) \/ HandleLeaveChannel(p) \/ HandleChannelKick(p) \/ HandleChannelBan(p)
  \/ HandleChannelUnban(p) \/ HandleChannelSetModerator(p) \/ HandleChannelUnsetModerator(p)
  \/ HandleChannelMute(p) \/ HandleChannelUnmute(p) \/ HandleChannelSetOwner(p) \/ HandleChannelPassword(p)
  \/ HandleChannelModerate(p) \/ HandleChannelAnnouncements(p)
  \/ SendChannelMessageToChat(p) \/ HandleChannelInvite(p)
  \/ Login(p) \/ Logout(p)

Step(p) ==
  \/ JoinChannel(p) \/ LeaveChannel(p) \/ PersistHeir(p)
  \/ SetFlag(p) \/ SetOwnerOld(p) \/ SetOwnerNew(p)
  \/ BanInMemory(p) \/ WriteChannelBan(p)
  \/ SetPassword(p) \/ ToggleAnnouncements(p) \/ SnapshotSettings(p) \/ WriteSettings(p) \/ ToggleModeration(p)
  \/ AddChannel(p) \/ RemoveChannel(p)

ListenerStep ==
  \/ CharacterLoggedOut \/ TransferOwnershipOnLogout \/ PersistHeir(Listener) \/ RemoveCharacter

Start == Preload \/ PruneOfflineMembers \/ PersistPruneHeir

Broadcast ==
  BroadcastToChannel \/ SendEvent \/ SendOnClosedStream

\* Handlers that run, the listener, a start and the broadcaster go on: the scheduler runs some of them.
Progress == (\E p \in Players : Step(p)) \/ CharacterLoggedIn \/ ListenerStep \/ Start \/ Broadcast

Next ==
  \/ \E p \in Players : Packet(p)
  \/ Progress
  \/ CleanupLocalMemory \/ CleanOldChannels \/ Crash

Spec == Init /\ [][Next]_vars

Fairness == WF_vars(Progress)

FairSpec == Spec /\ Fairness

-----------------------------------------------------------------------------
(* Properties                                                              *)

\* The members and flags the channel has now: those in memory, or the rows while the server is down.
Current ==
  IF active # 0 THEN [members |-> objects[active].members, flags |-> objects[active].flags]
  ELSE IF server = "down" /\ row.listed THEN [members |-> row.members, flags |-> row.flags]
  ELSE [members |-> {}, flags |-> NoRoles]

Ownership == INSTANCE ChannelOwnership WITH
  members <- Current.members,
  owners <- Current.flags["owner"],
  moderators <- Current.flags["moderator"],
  broken <- damage = "memory"

\* Joins, leaves, kicks, bans, transfers, logouts, crashes and restarts, in any order and with failing
\* writes, implement the ownership of ChannelOwnership: one owner as long as there are members, an
\* heir who is a moderator if there is one, until rows that missed a write are loaded.
OwnershipSpec == Ownership!Spec

\* Write-through: with no critical section under way, MySQL holds the members and flags of the channel
\* in memory unless a write failed or a join hit a dropped object; and its password, announcements and
\* bans unless writes of those failed or overlapped.
MirrorsRows ==
  (server = "up" /\ active # 0 /\ row.listed /\ objects[active].id = row.id)
  => LET ch == objects[active]
     IN /\ (damage = "none" /\ ch.holder = NoOne) => (ch.members = row.members /\ ch.flags = row.flags)
        /\ (~lagging /\ ~WritePending(Players))
             => (ch.password = row.password /\ ch.announce = row.announce /\ ch.banned = row.banned)

\* A session that shows the channel is a member at the chat server, unless others removed the player
\* (the session is not told) or the membership was lost with a dropped object or a failed write.
SessionsAreMembers ==
  damage = "none" => \A p \in Players \ expelled :
    (session[p] = "shows" /\ call[p] = Idle) => p \in Current.members

\* Whispers reach whom they should: once the events are handled, the chat server knows exactly the
\* characters that are online, unless a login and a logout of a player were under way together.
PresenceFollows ==
  \A p \in Players \ crossed :
    (p \notin Range(logins) \cup Range(logouts)) => (p \in known <=> session[p] # "offline")

\* Every handler of a packet and every logout event is finished, no mutex stays locked: with the packets
\* bounded, all calls have returned in the end.
CallsReturn == []<>(\A t \in Threads : call[t] = Idle)

=============================================================================
