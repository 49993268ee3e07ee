------------------------- MODULE ChatChannelsProofs -------------------------
(***************************************************************************)
(* Proofs about ChatChannels, for any players, passwords, first members    *)
(* and bounds:                                                             *)
(*   TypeCorrect         every handler is at a place of its own operation  *)
(*                       and has what it uses there;                       *)
(*   OwnershipHolds      ChatChannels implements ChannelOwnership;         *)
(*   RowsMirrored        MirrorsRows;                                      *)
(*   PresenceIsFollowed  PresenceFollows;                                  *)
(*   ShownAreMembers     SessionsAreMembers.                               *)
(*                                                                         *)
(* What each action does is stated once (the ...Effect lemmas), in terms   *)
(* of the record its object becomes; the invariants are proved from those. *)
(* First come the channel in memory and its rows: a step is either quiet   *)
(* (KeepsChannel) or the work of one handler on one object (Works), which  *)
(* is in order (Orderly).  Then come the settings and bans, the events and *)
(* the sessions.                                                           *)
(***************************************************************************)
EXTENDS ChatChannels, SequenceTheorems, TLAPS

-----------------------------------------------------------------------------
(* Types                                                                   *)

Flags == [Roles -> SUBSET Players]

ChannelRecord ==
  [id : Nat, members : SUBSET Players, flags : Flags, owner : Players \cup {NoOne}, banned : SUBSET Players,
   password : Passwords, announce : BOOLEAN, moderation : BOOLEAN, holder : Threads \cup {NoOne}]

RowRecord ==
  [listed : BOOLEAN, id : Nat, members : SUBSET Players, flags : Flags, banned : SUBSET Players,
   password : Passwords, announce : BOOLEAN]

\* The operations that name another player, and where their handlers are.
OnPlayer == {"kick", "ban", "unban", "setModerator", "unsetModerator", "mute", "unmute", "setOwner"}
OfChannel == {"leave", "setPassword", "moderation", "announcements"}

\* What the fields of a call hold at each place of its handler.
At(op, at) ==
  \/ op = at /\ at \in OnPlayer \cup OfChannel \cup {"join", "idle", "logout"}
  \/ op \in {"leave", "kick", "ban", "logout"} /\ at = "heir"
  \/ op = "logout" /\ at = "remove"
  \/ op = "setOwner" /\ at = "setOwnerNew"
  \/ op = "ban" /\ at = "banning"
  \/ op \in {"ban", "unban"} /\ at = "writeBan"
  \/ op = "announcements" /\ at = "snapshot"
  \/ op \in {"setPassword", "announcements"} /\ at = "writeSettings"
  \/ op = "join" /\ at = "joined"
  \/ op = "leave" /\ at = "left"

Carried == Passwords \cup Players \cup {<<>>} \cup (Passwords \X BOOLEAN)

CallRecord ==
  [op : OnPlayer \cup OfChannel \cup {"join", "idle", "logout"},
   at : OnPlayer \cup OfChannel \cup {"join", "idle", "logout", "heir", "remove", "setOwnerNew", "banning",
                                      "writeBan", "snapshot", "writeSettings", "joined", "left"},
   on : {0} \cup Objects, to : Players \cup {NoOne}, with : Carried]

WellFormed(t, c) ==
  /\ At(c.op, c.at)
  /\ t = Listener => c.op \in {"idle", "logout"}
  /\ t # Listener => c.op # "logout"
  /\ c.at = "idle" => c = Idle
  /\ c.op \in OnPlayer \cup {"logout"} => c.to \in Players
  /\ c.at \in {"join", "setPassword"} => c.with \in Passwords
  /\ c.at = "heir" => c.with \in Players
  /\ c.at = "writeSettings" => c.with \in Passwords \X BOOLEAN
  /\ c.at \notin {"idle", "remove", "joined", "left"} => c.on \in Objects

ChatTypes ==
  /\ objects \in [Objects -> ChannelRecord]
  /\ active \in {0} \cup Objects
  /\ row \in RowRecord
  /\ server \in {"up", "down", "preloaded", "heir"}
  /\ roll \in SUBSET Players
  /\ known \in SUBSET Players

CallTypes ==
  /\ call \in [Threads -> CallRecord]
  /\ \A t \in Threads : WellFormed(t, call[t])

GatewayTypes ==
  /\ session \in [Players -> {"offline", "online", "shows"}]
  /\ subs \in SUBSET Players
  /\ streams \in SUBSET Players
  /\ news \in BOOLEAN
  /\ sending \in Players \cup {NoOne}
  /\ logins \in Seq(Players)
  /\ logouts \in Seq(Players)

HistoryTypes ==
  /\ inputs \in 0..MaxInputs
  /\ faults \in 0..MaxFaults
  /\ damage \in {"none", "rows", "memory"}
  /\ lagging \in BOOLEAN
  /\ crossed \in SUBSET Players
  /\ expelled \in SUBSET Players

TypeOK == ChatTypes /\ CallTypes /\ GatewayTypes /\ HistoryTypes

-----------------------------------------------------------------------------
(* The channel in memory and its rows                                      *)

InServer(t) == call[t].at \notin {"idle", "joined", "left"}

\* A server that is not up runs no handler and holds no mutex; a row the start did not load is not listed.
StartInv ==
  /\ server # "up" =>
       /\ \A t \in Threads : ~InServer(t)
       /\ \A o \in Objects : objects[o].holder = NoOne /\ (o # active => objects[o].members = {})
  /\ server = "down" => active = 0 /\ damage # "rows"
  /\ server = "heir" => active # 0
  /\ server = "preloaded" /\ active = 0 => ~row.listed

\* A mutex is held by the handler that has a second write to do, and by no other.
Writes(t) == call[t].at \in {"heir", "setOwnerNew"}

LockInv ==
  /\ \A t \in Threads : Writes(t) => objects[call[t].on].holder = t
  /\ \A o \in Objects : objects[o].holder # NoOne => Writes(objects[o].holder) /\ call[objects[o].holder].on = o

\* Whom a second write is about is a member as long as the mutex is held.
HeldInv ==
  \A t \in Threads :
    /\ call[t].at = "heir" => call[t].with \in objects[call[t].on].members
    /\ call[t].at = "setOwnerNew" => call[t].to \in objects[call[t].on].members

\* No channel is newer than the row; the active one is the row's.
IdInv ==
  /\ \A o \in Objects : objects[o].id <= row.id
  /\ active # 0 => objects[active].id = row.id

\* Only members have roles, in memory and in MySQL.
RolesInv ==
  /\ \A o \in Objects, x \in Roles : objects[o].flags[x] \subseteq objects[o].members
  /\ \A x \in Roles : row.flags[x] \subseteq row.members

\* As long as MySQL missed nothing, a dropped channel of the row is empty, and so are the rows
\* when no channel is active.
DroppedInv ==
  damage = "none" =>
    /\ \A o \in Objects : o # active /\ objects[o].id = row.id => objects[o].members = {}
    /\ (active = 0 /\ server = "up" /\ row.listed) => row.members = {}

\* The rows of channel ch but for those of h, whose flags are still to be written.
SameBut(ch, r, h) ==
  ch.members = r.members /\ \A x \in Roles : ch.flags[x] \ {h} = r.flags[x] \ {h}

Cleared(ch, r) ==
  /\ ch.members = r.members
  /\ \A x \in Roles \ {"owner"} : ch.flags[x] = r.flags[x]
  /\ r.flags["owner"] = ch.flags["owner"] \ {ch.owner}

MirrorInv ==
  (damage = "none" /\ active # 0) =>
    LET ch == objects[active]
    IN /\ (ch.holder = NoOne /\ server # "heir") => ch.members = row.members /\ ch.flags = row.flags
       /\ server = "heir" => SameBut(ch, row, ch.owner)
       /\ \A t \in Threads : call[t].on = active =>
            /\ call[t].at = "heir" => SameBut(ch, row, call[t].with)
            /\ call[t].at = "setOwnerNew" => Cleared(ch, row)

\* The owner of a channel is the one member with the flag, until damaged rows are loaded.
OwnerInv ==
  damage # "memory" =>
    /\ active # 0 /\ objects[active].members # {} => objects[active].flags["owner"] = {objects[active].owner}
    /\ server = "down" /\ row.listed /\ row.members # {} => \E p \in Players : row.flags["owner"] = {p}

ChannelInv == StartInv /\ LockInv /\ HeldInv /\ IdInv /\ RolesInv /\ DroppedInv /\ MirrorInv /\ OwnerInv

\* A change of settings or bans is in memory and still to be written.
Pending(p) == call[p].at \in {"snapshot", "writeSettings", "writeBan"}

-----------------------------------------------------------------------------
(* What the operators on rows and channels return                          *)

\* The three flags of channels_members.
LEMMA RolesDistinct == "owner" \in Roles /\ "moderator" \in Roles /\ "muted" \in Roles
  BY DEF Roles

\* Players and the listener are the threads, and the listener is no player.
LEMMA ListenerIsThread ==
  /\ Listener \in Threads /\ Listener \notin Players /\ NoOne \notin Threads
  /\ \A p \in Players : p \in Threads /\ p # Listener /\ p # NoOne
  BY PlayersAssumption DEF Threads

\* Roles with some players taken out, as RemoveMember leaves them.
LEMMA WithoutFlags ==
  ASSUME NEW f \in Flags, NEW gone
  PROVE  Without(f, gone) \in Flags /\ \A x \in Roles : Without(f, gone)[x] = f[x] \ gone
  BY DEF Flags, Without

\* Roles with one more given.
LEMMA WithFlag ==
  ASSUME NEW f \in Flags, NEW r \in Roles, NEW p \in Players
  PROVE  /\ With(f, r, p) \in Flags
         /\ With(f, r, p)[r] = f[r] \cup {p}
         /\ \A x \in Roles : x # r => With(f, r, p)[x] = f[x]
  BY DEF Flags, With

\* The fields of a row that only a change of settings or bans writes.
Keeps(r, n) ==
  /\ n.listed = r.listed /\ n.id = r.id
  /\ n.banned = r.banned /\ n.password = r.password /\ n.announce = r.announce

\* SaveChannelMember writes the row of one player, of the channel with the
\* object's id only.
LEMMA SaveMemberRow ==
  ASSUME NEW r \in RowRecord, NEW ch \in ChannelRecord, NEW p \in Players
  PROVE  /\ SaveMember(r, ch, p) \in RowRecord /\ Keeps(r, SaveMember(r, ch, p))
         /\ r.id # ch.id => SaveMember(r, ch, p) = r
         /\ r.id = ch.id =>
              /\ SaveMember(r, ch, p).members = r.members \cup {p}
              /\ \A x \in Roles : SaveMember(r, ch, p).flags[x] = (r.flags[x] \ {p}) \cup (ch.flags[x] \cap {p})
<1> CASE r.id # ch.id
  BY DEF SaveMember, Keeps
<1> CASE r.id = ch.id
  <2> DEFINE fl == [x \in Roles |-> (r.flags[x] \ {p}) \cup (ch.flags[x] \cap {p})]
  <2>1. fl \in Flags
    BY DEF RowRecord, ChannelRecord, Flags
  <2>2. SaveMember(r, ch, p) = [r EXCEPT !.members = r.members \cup {p}, !.flags = fl]
    BY DEF SaveMember, RowRecord
  <2>3. \A x \in Roles : fl[x] = (r.flags[x] \ {p}) \cup (ch.flags[x] \cap {p})
    OBVIOUS
  <2> HIDE DEF fl
  <2>4. SaveMember(r, ch, p) \in RowRecord
    BY <2>1, <2>2 DEF RowRecord
  <2>5. /\ SaveMember(r, ch, p).members = r.members \cup {p} /\ SaveMember(r, ch, p).flags = fl
        /\ Keeps(r, SaveMember(r, ch, p))
    BY <2>2 DEF Keeps, RowRecord
  <2> QED
    BY <2>3, <2>4, <2>5
<1> QED
  OBVIOUS

\* RemoveChannelMember deletes rows of the channel with the object's id only.
LEMMA RemoveMembersRow ==
  ASSUME NEW r \in RowRecord, NEW ch \in ChannelRecord, NEW gone
  PROVE  /\ RemoveMembers(r, ch, gone) \in RowRecord /\ Keeps(r, RemoveMembers(r, ch, gone))
         /\ r.id # ch.id => RemoveMembers(r, ch, gone) = r
         /\ r.id = ch.id =>
              /\ RemoveMembers(r, ch, gone).members = r.members \ gone
              /\ \A x \in Roles : RemoveMembers(r, ch, gone).flags[x] = r.flags[x] \ gone
<1> CASE r.id # ch.id
  BY DEF RemoveMembers, Keeps
<1> CASE r.id = ch.id
  <2> DEFINE fl == Without(r.flags, gone)
  <2>1. fl \in Flags /\ \A x \in Roles : fl[x] = r.flags[x] \ gone
    BY WithoutFlags DEF RowRecord
  <2>2. RemoveMembers(r, ch, gone) = [r EXCEPT !.members = r.members \ gone, !.flags = fl]
    BY DEF RemoveMembers, RowRecord
  <2> HIDE DEF fl
  <2> QED
    BY <2>1, <2>2 DEF Keeps, RowRecord
<1> QED
  OBVIOUS

\* UpdateMemberFlags writes the flags of a row that exists, and adds no member.
LEMMA UpdateFlagsRow ==
  ASSUME NEW r \in RowRecord, NEW ch \in ChannelRecord, NEW p \in Players
  PROVE  /\ UpdateFlags(r, ch, p) \in RowRecord /\ Keeps(r, UpdateFlags(r, ch, p))
         /\ (r.id # ch.id \/ p \notin r.members) => UpdateFlags(r, ch, p) = r
         /\ UpdateFlags(r, ch, p).members = r.members
         /\ (r.id = ch.id /\ p \in r.members) =>
              \A x \in Roles : UpdateFlags(r, ch, p).flags[x] = (r.flags[x] \ {p}) \cup (ch.flags[x] \cap {p})
<1> CASE p \notin r.members
  BY DEF UpdateFlags, Keeps
<1> CASE p \in r.members
  <2>1. UpdateFlags(r, ch, p) = SaveMember(r, ch, p)
    BY DEF UpdateFlags
  <2>2. p \in r.members => r.members \cup {p} = r.members
    OBVIOUS
  <2>3. r.id # ch.id => SaveMember(r, ch, p).members = r.members
    BY SaveMemberRow
  <2>4. r.id = ch.id => SaveMember(r, ch, p).members = r.members
    BY <2>2, SaveMemberRow
  <2> QED
    BY <2>1, <2>3, <2>4, SaveMemberRow
<1> QED
  OBVIOUS

\* UpdateChannel writes password and announcements and nothing of the members.
LEMMA UpdateChannelRow ==
  ASSUME NEW r \in RowRecord, NEW ch, NEW s \in Passwords \X BOOLEAN
  PROVE  /\ UpdateChannel(r, ch, s) \in RowRecord
         /\ UpdateChannel(r, ch, s).listed = r.listed /\ UpdateChannel(r, ch, s).id = r.id
         /\ UpdateChannel(r, ch, s).members = r.members /\ UpdateChannel(r, ch, s).flags = r.flags
         /\ UpdateChannel(r, ch, s).banned = r.banned
         /\ (r.id = ch.id /\ r.listed) =>
              UpdateChannel(r, ch, s).password = s[1] /\ UpdateChannel(r, ch, s).announce = s[2]
  BY DEF UpdateChannel, RowRecord

\* A new channel has no roles.
LEMMA NoRolesFlags == NoRoles \in Flags /\ \A x \in Roles : NoRoles[x] = {}
  BY DEF NoRoles, Flags

\* CreateChannel inserts a row without members.
LEMMA NewRowType ==
  ASSUME NEW i \in Nat, NEW pw \in Passwords
  PROVE  /\ NewRow(i, pw) \in RowRecord /\ NewRow(i, pw).listed /\ NewRow(i, pw).id = i
         /\ NewRow(i, pw).members = {} /\ NewRow(i, pw).flags = NoRoles
  BY NoRolesFlags DEF NewRow, RowRecord

\* An object that stands for no channel is a channel record.
LEMMA UnusedType ==
  /\ Unused \in ChannelRecord /\ Unused.id = 0 /\ Unused.members = {} /\ Unused.holder = NoOne
  /\ \A x \in Roles : Unused.flags[x] = {}
  BY NoRolesFlags, PasswordsAssumption DEF Unused, ChannelRecord

\* A channel loaded from its rows has their members, roles, bans and settings,
\* and the owner they name.
LEMMA LoadedType ==
  ASSUME NEW r \in RowRecord, NEW ch \in Loaded(r)
  PROVE  /\ ch \in ChannelRecord
         /\ ch.id = r.id /\ ch.members = r.members /\ ch.flags = r.flags /\ ch.holder = NoOne
         /\ ch.banned = r.banned /\ ch.password = r.password /\ ch.announce = r.announce
         /\ IF r.flags["owner"] = {} THEN ch.owner = NoOne ELSE ch.owner \in r.flags["owner"]
<1>1. PICK o \in IF r.flags["owner"] = {} THEN {NoOne} ELSE r.flags["owner"] :
        ch = [id |-> r.id, members |-> r.members, flags |-> r.flags, owner |-> o, banned |-> r.banned,
              password |-> r.password, announce |-> r.announce, moderation |-> FALSE, holder |-> NoOne]
  BY DEF Loaded
<1>2. r.flags \in Flags /\ r.flags["owner"] \subseteq Players
  BY RolesDistinct DEF RowRecord, Flags
<1>3. o \in Players \cup {NoOne}
  BY <1>2
<1>4. ch \in ChannelRecord
  BY <1>1, <1>2, <1>3 DEF RowRecord, ChannelRecord
<1> QED
  BY <1>1, <1>4

\* The rows of a channel can always be loaded.
LEMMA SomeLoaded ==
  ASSUME NEW r \in RowRecord
  PROVE  Loaded(r) # {}
  BY DEF Loaded

\* An heir is one of those who stay, and there is one if anybody stays.
LEMMA HeirsStay ==
  ASSUME NEW ch \in ChannelRecord, NEW stay \in SUBSET Players
  PROVE  /\ Heirs(ch, stay) \subseteq stay
         /\ Heirs(ch, stay) = IF stay \cap ch.flags["moderator"] # {} THEN stay \cap ch.flags["moderator"] ELSE stay
  BY DEF Heirs

-----------------------------------------------------------------------------
(* Calls                                                                   *)

\* A thread without a call is well-formed.
LEMMA IdleCall == Idle \in CallRecord /\ \A t \in Threads : WellFormed(t, Idle)
  BY DEF Idle, CallRecord, WellFormed, At, Objects, OnPlayer, OfChannel, Carried

\* A well-formed call put in place of another keeps the calls well-formed.
LEMMA CallMoves ==
  ASSUME CallTypes, NEW t \in Threads, NEW c \in CallRecord, WellFormed(t, c),
         call' = [call EXCEPT ![t] = c]
  PROVE  CallTypes' /\ call'[t] = c /\ \A u \in Threads : u # t => call'[u] = call[u]
<1>1. call' \in [Threads -> CallRecord] /\ call'[t] = c /\ \A u \in Threads : u # t => call'[u] = call[u]
  BY DEF CallTypes
<1>2. ASSUME NEW u \in Threads PROVE WellFormed(u, call'[u])
  BY <1>1 DEF CallTypes
<1> QED
  BY <1>1, <1>2 DEF CallTypes, WellFormed

\* A handler that returns leaves its thread idle and the others alone.
LEMMA Returns ==
  ASSUME CallTypes, NEW t \in Threads, Return(t)
  PROVE  CallTypes' /\ call'[t] = Idle /\ \A u \in Threads : u # t => call'[u] = call[u]
  BY CallMoves, IdleCall DEF Return

\* A step of a handler to another place.
LEMMA Goes ==
  ASSUME CallTypes, NEW t \in Threads, NEW c \in CallRecord,
         c.op = call[t].op, c.to = call[t].to, At(c.op, c.at),
         c.at \in {"heir", "remove", "setOwnerNew", "banning", "writeBan", "snapshot", "writeSettings", "joined", "left"},
         c.at = "heir" => c.with \in Players,
         c.at = "writeSettings" => c.with \in Passwords \X BOOLEAN,
         c.at \notin {"remove", "joined", "left"} => c.on \in Objects,
         call' = [call EXCEPT ![t] = c]
  PROVE  CallTypes' /\ call'[t] = c /\ \A u \in Threads : u # t => call'[u] = call[u]
<1>1. WellFormed(t, call[t])
  BY DEF CallTypes
<1>2. WellFormed(t, c)
  BY <1>1 DEF WellFormed
<1> QED
  BY <1>2, CallMoves

\* GoTo leaves the object and what the call carries.
LEMMA GoesTo ==
  ASSUME CallTypes, NEW t \in Threads,
         NEW at \in {"remove", "setOwnerNew", "banning", "snapshot", "joined", "left"},
         At(call[t].op, at), at \notin {"remove", "joined", "left"} => call[t].on \in Objects,
         GoTo(t, at)
  PROVE  /\ CallTypes'
         /\ call'[t].at = at /\ call'[t].with = call[t].with /\ call'[t].on = call[t].on
         /\ call'[t].op = call[t].op /\ call'[t].to = call[t].to
         /\ \A u \in Threads : u # t => call'[u] = call[u]
<1> DEFINE c == [call[t] EXCEPT !.at = at]
<1>1. call' = [call EXCEPT ![t] = c] /\ call[t] \in CallRecord
  BY DEF GoTo, CallTypes
<1>2. /\ c \in CallRecord /\ c.op = call[t].op /\ c.to = call[t].to /\ c.at = at
      /\ c.with = call[t].with /\ c.on = call[t].on
  BY <1>1 DEF CallRecord
<1> HIDE DEF c
<1>3. CallTypes' /\ call'[t] = c /\ \A u \in Threads : u # t => call'[u] = call[u]
  BY <1>1, <1>2, Goes
<1> QED
  BY <1>2, <1>3

\* The answer to a player, or none.
LEMMA Replies ==
  ASSUME CallTypes, NEW t \in Threads, NEW at \in {"joined", "left"}, At(call[t].op, at), Reply(t, at)
  PROVE  /\ CallTypes'
         /\ \/ session[t] # "offline" /\ call'[t].at = at
            \/ session[t] = "offline" /\ call'[t] = Idle
         /\ call'[t].on \in {0, call[t].on} /\ (call'[t].at # "idle" => call'[t].at = at)
         /\ \A u \in Threads : u # t => call'[u] = call[u]
<1> CASE session[t] = "offline"
  BY Returns DEF Reply, Idle
<1> CASE session[t] # "offline"
  <2>1. GoTo(t, at)
    BY DEF Reply
  <2>2. at \notin {"remove", "joined", "left"} => call[t].on \in Objects
    OBVIOUS
  <2>3. at \in {"remove", "setOwnerNew", "banning", "snapshot", "joined", "left"}
    OBVIOUS
  <2> QED
    BY <2>1, <2>2, <2>3, GoesTo
<1> QED
  OBVIOUS

\* A packet begins.
LEMMA Begins ==
  ASSUME CallTypes, NEW p \in Players, NEW op \in OnPlayer \cup OfChannel \cup {"join"},
         NEW o \in Objects, NEW to \in Players \cup {NoOne}, NEW with \in Carried,
         op \in OnPlayer => to \in Players,
         op \in {"join", "setPassword"} => with \in Passwords,
         Begin(p, op, op, o, to, with)
  PROVE  /\ CallTypes'
         /\ call'[p].op = op /\ call'[p].at = op /\ call'[p].on = o
         /\ \A u \in Threads : u # p => call'[u] = call[u]
<1> DEFINE c == [op |-> op, at |-> op, on |-> o, to |-> to, with |-> with]
<1>1. c \in CallRecord /\ c.op = op /\ c.at = op /\ c.on = o /\ c.to = to /\ c.with = with
  BY DEF CallRecord
<1>2. call' = [call EXCEPT ![p] = c]
  BY DEF Begin
<1>3. p \in Threads /\ p # Listener
  BY ListenerIsThread
<1> HIDE DEF c
<1>4. At(op, op) /\ op # "idle" /\ op # "logout" /\ op # "heir" /\ op # "writeSettings"
  BY DEF At, OnPlayer, OfChannel
<1>5. WellFormed(p, c)
  BY <1>1, <1>3, <1>4 DEF WellFormed
<1> QED
  BY <1>1, <1>2, <1>3, <1>5, CallMoves

-----------------------------------------------------------------------------
(* What the actions that leave members and roles alone do                  *)

\* A channel with the members and roles it had; without members its owner is of no account.
Same(ch, n) ==
  /\ n.id = ch.id /\ n.members = ch.members /\ n.flags = ch.flags /\ n.holder = ch.holder
  /\ ch.members # {} => n.owner = ch.owner

KeepsChannel ==
  /\ active' = active /\ server' = server /\ damage' = damage
  /\ \A o \in Objects : Same(objects[o], objects'[o])
  /\ row'.id = row.id /\ row'.members = row.members /\ row'.flags = row.flags
  /\ row'.listed => row.listed
  /\ server # "up" => objects' = objects /\ row' = row
  /\ \A t \in Threads : Writes(t) \/ Writes(t)' => call'[t] = call[t]
  /\ \A t \in Threads : InServer(t)' => InServer(t) \/ server = "up"

\* The handlers of ChatService that look the channel up and go on.
Requests(p) ==
  \/ HandleLeaveChannel(p) \/ HandleChannelKick(p) \/ HandleChannelBan(p)
  \/ HandleChannelUnban(p) \/ HandleChannelSetModerator(p) \/ HandleChannelUnsetModerator(p)
  \/ HandleChannelMute(p) \/ HandleChannelUnmute(p) \/ HandleChannelSetOwner(p) \/ HandleChannelPassword(p)
  \/ HandleChannelModerate(p) \/ HandleChannelAnnouncements(p)

\* What a permitted request does does not depend on the permission.
LEMMA RequestIsPermitted ==
  ASSUME NEW p, NEW op, NEW to, NEW with, NEW permitted, Request(p, op, to, with, permitted)
  PROVE  Request(p, op, to, with, TRUE)
  BY DEF Request

\* The handlers that look the channel up differ in the operation, the player
\* named and the password only.
LEMMA RequestShape ==
  ASSUME NEW p \in Players, Requests(p)
  PROVE  \E op \in OnPlayer \cup OfChannel, to \in Players \cup {NoOne}, with \in Carried :
            /\ op \in OnPlayer => to \in Players
            /\ op = "setPassword" => with \in Passwords
            /\ Request(p, op, to, with, TRUE)
<1> DEFINE Goal == \E op \in OnPlayer \cup OfChannel, to \in Players \cup {NoOne}, with \in Carried :
                     /\ op \in OnPlayer => to \in Players
                     /\ op = "setPassword" => with \in Passwords
                     /\ Request(p, op, to, with, TRUE)
<1>0. ASSUME NEW q \in Players, NEW op \in OnPlayer, NEW permitted, Request(p, op, q, <<>>, permitted)
      PROVE  Goal
  <2>1. <<>> \in Carried /\ op # "setPassword" /\ op \in OnPlayer \cup OfChannel
    BY DEF Carried, OnPlayer
  <2> QED
    BY <1>0, <2>1, RequestIsPermitted
<1> USE RequestIsPermitted DEF OnPlayer, OfChannel, Carried
<1>1. CASE HandleLeaveChannel(p)
  BY <1>1 DEF HandleLeaveChannel, LeaveChannelByGUID
<1>2. CASE HandleChannelKick(p)
  <2>1. PICK q \in Players : KickFromChannel(p, q)
    BY <1>2 DEF HandleChannelKick
  <2> QED
    BY <2>1, <1>0 DEF KickFromChannel
<1>3. CASE HandleChannelBan(p)
  <2>1. PICK q \in Players : BanFromChannel(p, q)
    BY <1>3 DEF HandleChannelBan
  <2> QED
    BY <2>1, <1>0 DEF BanFromChannel
<1>4. CASE HandleChannelUnban(p)
  <2>1. PICK q \in Players : UnbanFromChannel(p, q)
    BY <1>4 DEF HandleChannelUnban
  <2> QED
    BY <2>1, <1>0 DEF UnbanFromChannel
<1>5. CASE HandleChannelSetModerator(p)
  <2>1. PICK q \in Players : SetChannelModerator(p, q)
    BY <1>5 DEF HandleChannelSetModerator
  <2> QED
    BY <2>1, <1>0 DEF SetChannelModerator
<1>6. CASE HandleChannelUnsetModerator(p)
  <2>1. PICK q \in Players : UnsetChannelModerator(p, q)
    BY <1>6 DEF HandleChannelUnsetModerator
  <2> QED
    BY <2>1, <1>0 DEF UnsetChannelModerator
<1>7. CASE HandleChannelMute(p)
  <2>1. PICK q \in Players : SetChannelMute(p, q)
    BY <1>7 DEF HandleChannelMute
  <2> QED
    BY <2>1, <1>0, Zenon DEF SetChannelMute
<1>8. CASE HandleChannelUnmute(p)
  <2>1. PICK q \in Players : UnsetChannelMute(p, q)
    BY <1>8 DEF HandleChannelUnmute
  <2> QED
    BY <2>1, <1>0 DEF UnsetChannelMute
<1>9. CASE HandleChannelSetOwner(p)
  <2>1. PICK q \in Players : SetChannelOwner(p, q)
    BY <1>9 DEF HandleChannelSetOwner
  <2> QED
    BY <2>1, <1>0 DEF SetChannelOwner
<1>10. CASE HandleChannelPassword(p)
  <2>1. PICK pw \in Passwords : RequestPassword(p, pw)
    BY <1>10 DEF HandleChannelPassword
  <2>2. Request(p, "setPassword", NoOne, pw, TRUE)
    BY <2>1 DEF RequestPassword
  <2> QED
    BY <2>2
<1>11. CASE HandleChannelModerate(p)
  BY <1>11 DEF HandleChannelModerate, RequestModeration
<1>12. CASE HandleChannelAnnouncements(p)
  BY <1>12 DEF HandleChannelAnnouncements, RequestAnnouncements
<1> QED
  BY <1>1, <1>2, <1>3, <1>4, <1>5, <1>6, <1>7, <1>8, <1>9, <1>10, <1>11, <1>12, Zenon DEF Requests

\* A request starts a call on the active channel and changes nothing else.
LEMMA RequestEffect ==
  ASSUME ChatTypes, CallTypes, NEW p \in Players, Requests(p)
  PROVE  /\ UNCHANGED <<chat, presence, gateway, faults, history>> /\ Input
         /\ active \in Objects /\ server = "up" /\ call[p] = Idle
         /\ CallTypes' /\ \A u \in Threads : u # p => call'[u] = call[u]
         /\ call'[p].op \in OnPlayer \cup OfChannel /\ call'[p].at = call'[p].op /\ call'[p].on = active
<1>1. PICK op \in OnPlayer \cup OfChannel, to \in Players \cup {NoOne}, with \in Carried :
            /\ op \in OnPlayer => to \in Players
            /\ op = "setPassword" => with \in Passwords
            /\ Request(p, op, to, with, TRUE)
  BY RequestShape
<1>2. active \in Objects /\ UNCHANGED <<chat, presence, gateway, faults, history>> /\ Begin(p, op, op, active, to, with)
  BY <1>1 DEF Request, ChatTypes
<1>3. op \in OnPlayer \cup OfChannel \cup {"join"} /\ op # "join"
  BY DEF OnPlayer, OfChannel
<1>4. /\ CallTypes' /\ call'[p].op = op /\ call'[p].at = op /\ call'[p].on = active
      /\ \A u \in Threads : u # p => call'[u] = call[u]
  BY <1>1, <1>2, <1>3, Begins
<1>5. Input /\ server = "up" /\ call[p] = Idle
  BY <1>2 DEF Begin
<1> QED
  BY <1>1, <1>2, <1>4, <1>5

\* What a session or the broadcaster does at the gateway.
GatewayStep(p) ==
  \/ SendChannelMessageToChat(p) \/ HandleChannelInvite(p) \/ Login(p) \/ Logout(p) \/ AddChannel(p) \/ RemoveChannel(p)

\* A session's own steps change nothing at the chat server; at most an answer
\* is taken.
LEMMA GatewayEffect ==
  ASSUME CallTypes, NEW p \in Players, GatewayStep(p)
  PROVE  /\ UNCHANGED chat /\ damage' = damage /\ lagging' = lagging /\ expelled' = expelled
         /\ CallTypes'
         /\ \/ call' = call
            \/ /\ call[p].at \in {"joined", "left"} /\ call'[p] = Idle
               /\ \A u \in Threads : u # p => call'[u] = call[u]
<1> p \in Threads
  BY ListenerIsThread
<1>1. CASE AddChannel(p) \/ RemoveChannel(p)
  BY <1>1, Returns DEF AddChannel, RemoveChannel, history
<1>2. CASE SendChannelMessageToChat(p) \/ HandleChannelInvite(p)
  BY <1>2 DEF SendChannelMessageToChat, HandleChannelInvite, PublishOnly, history, CallTypes
<1>3. CASE Login(p) \/ Logout(p)
  BY <1>3 DEF Login, Logout, CallTypes
<1> QED
  BY <1>1, <1>2, <1>3 DEF GatewayStep

\* The broadcaster changes nothing at the chat server; when it panics, answers
\* are lost.
LEMMA BroadcastEffect ==
  ASSUME CallTypes, Broadcast
  PROVE  /\ UNCHANGED chat /\ damage' = damage /\ lagging' = lagging /\ expelled' = expelled
         /\ CallTypes'
         /\ \/ call' = call
            \/ \A t \in Threads : call'[t] = IF call[t].at \in {"joined", "left"} THEN Idle ELSE call[t]
<1>1. CASE BroadcastToChannel \/ SendEvent
  BY <1>1 DEF BroadcastToChannel, SendEvent, history, CallTypes
<1>2. CASE SendOnClosedStream
  <2>1. /\ call' \in [Threads -> CallRecord]
        /\ \A t \in Threads : call'[t] = IF call[t].at \in {"joined", "left"} THEN Idle ELSE call[t]
    BY <1>2, IdleCall DEF SendOnClosedStream, CallTypes
  <2>2. \A t \in Threads : WellFormed(t, call'[t])
    BY <2>1, IdleCall DEF CallTypes
  <2>3. CallTypes'
    BY <2>1, <2>2 DEF CallTypes, WellFormed
  <2> QED
    BY <1>2, <2>1, <2>3 DEF SendOnClosedStream
<1> QED
  BY <1>1, <1>2 DEF Broadcast

\* A login event changes only the known characters.
LEMMA LoggedInEffect ==
  ASSUME ChatTypes, CallTypes, GatewayTypes, CharacterLoggedIn
  PROVE  /\ UNCHANGED <<objects, active, row, server, roll, call, damage, lagging, expelled>>
         /\ ChatTypes' /\ CallTypes'
<1>1. logins # <<>> /\ logins \in Seq(Players)
  BY DEF CharacterLoggedIn, GatewayTypes
<1>2. Head(logins) \in Players
  BY <1>1, HeadTailProperties
<1> QED
  BY <1>2 DEF CharacterLoggedIn, ChatTypes, CallTypes, history

\* A logout event starts the listener's call for the first player in the queue.
LEMMA LoggedOutEffect ==
  ASSUME ChatTypes, CallTypes, GatewayTypes, CharacterLoggedOut
  PROVE  /\ UNCHANGED <<objects, active, row, server, roll, known, damage, lagging, expelled>>
         /\ CallTypes' /\ server = "up" /\ call[Listener] = Idle
         /\ call'[Listener].op = "logout" /\ call'[Listener].at \in {"logout", "remove"}
         /\ call'[Listener].on = active /\ call'[Listener].to = Head(logouts)
         /\ \A u \in Threads : u # Listener => call'[u] = call[u]
<1>1. Head(logouts) \in Players
  BY HeadTailProperties DEF CharacterLoggedOut, GatewayTypes
<1> DEFINE at == IF active = 0 THEN "remove" ELSE "logout"
           h == Head(logouts)
           c == [op |-> "logout", at |-> at, on |-> active, to |-> h, with |-> <<>>]
<1>2. at \in {"logout", "remove"} /\ (at = "logout" => active \in Objects) /\ active \in {0} \cup Objects /\ h \in Players
  BY <1>1 DEF ChatTypes
<1>3. call' = [call EXCEPT ![Listener] = c]
  BY DEF CharacterLoggedOut
<1> HIDE DEF at, h
<1>4. c \in CallRecord /\ c.op = "logout" /\ c.at = at /\ c.on = active /\ c.to = h
  BY <1>2 DEF CallRecord, Carried
<1> HIDE DEF c
<1>5. WellFormed(Listener, c)
  BY <1>2, <1>4 DEF WellFormed, At
<1> QED
  BY <1>2, <1>3, <1>4, <1>5, ListenerIsThread, CallMoves DEF CharacterLoggedOut, chat, history, h

\* The listener ends its call by forgetting the character.
LEMMA RemoveEffect ==
  ASSUME ChatTypes, CallTypes, RemoveCharacter
  PROVE  /\ UNCHANGED <<objects, active, row, server, roll, damage, lagging, expelled>>
         /\ ChatTypes' /\ CallTypes' /\ call[Listener].at = "remove" /\ call'[Listener] = Idle
         /\ \A u \in Threads : u # Listener => call'[u] = call[u]
  BY ListenerIsThread, Returns DEF RemoveCharacter, ChatTypes, history

-----------------------------------------------------------------------------
(* Settings and bans                                                       *)

\* An object gets another record.
LEMMA ObjectMoves ==
  ASSUME objects \in [Objects -> ChannelRecord], NEW o \in Objects, NEW n \in ChannelRecord,
         objects' = [objects EXCEPT ![o] = n]
  PROVE  /\ objects' \in [Objects -> ChannelRecord]
         /\ objects'[o] = n /\ \A u \in Objects : u # o => objects'[u] = objects[u]
  OBVIOUS

\* A ban or unban changes the bans of the active channel, looked up again, and
\* is then to be written.
LEMMA BanInMemoryEffect ==
  ASSUME ChatTypes, CallTypes, NEW p \in Players, BanInMemory(p)
  PROVE  /\ UNCHANGED <<row, active, server, roll, known, damage, expelled, faults>>
         /\ server = "up" /\ call[p].at \in {"banning", "unban"} /\ ChatTypes' /\ CallTypes'
         /\ \A u \in Threads : u # p => call'[u] = call[u]
         /\ \/ active = 0 /\ call'[p] = Idle /\ objects' = objects /\ lagging' = lagging
            \/ /\ active \in Objects
               /\ call'[p].at = "writeBan" /\ call'[p].on = active
               /\ call'[p].op = call[p].op /\ call'[p].to = call[p].to
               /\ \A o \in Objects : Same(objects[o], objects'[o])
               /\ objects'[active].password = objects[active].password
               /\ objects'[active].announce = objects[active].announce
               /\ objects'[active].banned = IF call[p].op = "ban" THEN objects[active].banned \cup {call[p].to}
                                                                  ELSE objects[active].banned \ {call[p].to}
               /\ \A o \in Objects : o # active => objects'[o] = objects[o]
               /\ lagging' = (lagging \/ WritePending(Players \ {p}))
<1>p. p \in Threads
  BY ListenerIsThread
<1>1. /\ UNCHANGED <<row, active, server, roll, known, damage, expelled, faults>>
      /\ server = "up" /\ call[p].at \in {"banning", "unban"}
  BY DEF BanInMemory, Quiet
<1>2. CASE active = 0
  <2>1. Return(p) /\ objects' = objects /\ lagging' = lagging
    BY <1>2 DEF BanInMemory
  <2> QED
    BY <1>p, <1>1, <1>2, <2>1, Returns DEF ChatTypes
<1>3. CASE active # 0
  <2> DEFINE q == call[p].to
             b == IF call[p].op = "ban" THEN objects[active].banned \cup {q} ELSE objects[active].banned \ {q}
             n == [objects[active] EXCEPT !.banned = b]
  <2>1. /\ objects' = [objects EXCEPT ![active] = n]
        /\ call' = [call EXCEPT ![p].at = "writeBan", ![p].on = active]
        /\ lagging' = (lagging \/ WritePending(Players \ {p}))
    BY <1>3 DEF BanInMemory, ChatTypes, ChannelRecord
  <2>2. active \in Objects /\ objects[active] \in ChannelRecord /\ call[p] \in CallRecord /\ WellFormed(p, call[p])
    BY <1>p, <1>3 DEF ChatTypes, CallTypes
  <2>3. call[p].op \in {"ban", "unban"} /\ q \in Players /\ call[p].with \in Carried
    BY <1>1, <2>2 DEF WellFormed, At, CallRecord, OnPlayer, OfChannel
  <2>4. b \in SUBSET Players
    BY <2>2, <2>3 DEF ChannelRecord
  <2> HIDE DEF b
  <2>5. n \in ChannelRecord /\ Same(objects[active], n) /\ n.banned = b
        /\ n.password = objects[active].password /\ n.announce = objects[active].announce
    BY <2>2, <2>4 DEF ChannelRecord, Same
  <2> HIDE DEF n
  <2>6. /\ objects' \in [Objects -> ChannelRecord] /\ objects'[active] = n
        /\ \A u \in Objects : u # active => objects'[u] = objects[u]
    BY <2>1, <2>2, <2>5, ObjectMoves DEF ChatTypes
  <2>7. \A o \in Objects : Same(objects[o], objects'[o])
    BY <2>5, <2>6 DEF Same
  <2> DEFINE c == [call[p] EXCEPT !.at = "writeBan", !.on = active]
  <2>8. call' = [call EXCEPT ![p] = c]
    BY <1>p, <2>1, <2>2 DEF CallTypes
  <2>9. /\ c \in CallRecord /\ c.op = call[p].op /\ c.to = call[p].to /\ c.at = "writeBan" /\ c.on = active
        /\ At(c.op, c.at)
    BY <2>2, <2>3 DEF CallRecord, At
  <2> HIDE DEF c
  <2>10. CallTypes' /\ call'[p] = c /\ \A u \in Threads : u # p => call'[u] = call[u]
    BY <1>p, <2>2, <2>8, <2>9, Goes
  <2>11. ChatTypes'
    BY <1>1, <2>6 DEF ChatTypes
  <2> QED
    BY <1>1, <2>1, <2>2, <2>5, <2>6, <2>7, <2>9, <2>10, <2>11 DEF b
<1> QED
  BY <1>2, <1>3

\* The write of a ban returns; it reaches the rows of the object's id, or MySQL
\* lags.
LEMMA WriteBanEffect ==
  ASSUME ChatTypes, CallTypes, NEW p \in Players, WriteChannelBan(p)
  PROVE  /\ UNCHANGED <<objects, active, server, roll, known, damage, expelled>>
         /\ server = "up" /\ call[p].at = "writeBan" /\ call'[p] = Idle /\ ChatTypes' /\ CallTypes'
         /\ \A u \in Threads : u # p => call'[u] = call[u]
         /\ row'.listed = row.listed /\ row'.id = row.id /\ row'.members = row.members /\ row'.flags = row.flags
         /\ \/ lagging'
            \/ /\ lagging' = lagging /\ row'.password = row.password /\ row'.announce = row.announce
               /\ row.id = objects[call[p].on].id =>
                    row'.banned = IF call[p].op = "ban" THEN row.banned \cup {call[p].to} ELSE row.banned \ {call[p].to}
<1>p. p \in Threads
  BY ListenerIsThread
<1>1. /\ UNCHANGED <<objects, active, server, roll, known, damage, expelled>>
      /\ server = "up" /\ call[p].at = "writeBan" /\ Return(p)
  BY DEF WriteChannelBan, Quiet
<1>2. call[p].to \in Players /\ (call[p].op = "ban") \in BOOLEAN
  BY <1>p, <1>1 DEF CallTypes, WellFormed, At, OnPlayer, OfChannel
<1>3. row \in RowRecord
  BY DEF ChatTypes
<1>4. CASE lagging' /\ row' = row
  BY <1>p, <1>1, <1>4, Returns DEF ChatTypes
<1>5. CASE lagging' = lagging /\ row' = WriteBan(row, objects[call[p].on], call[p].to, call[p].op = "ban")
  <2>1. /\ row' \in RowRecord
        /\ row'.listed = row.listed /\ row'.id = row.id /\ row'.members = row.members /\ row'.flags = row.flags
        /\ row'.password = row.password /\ row'.announce = row.announce
        /\ row.id = objects[call[p].on].id =>
             row'.banned = IF call[p].op = "ban" THEN row.banned \cup {call[p].to} ELSE row.banned \ {call[p].to}
    BY <1>2, <1>3, <1>5 DEF WriteBan, RowRecord
  <2> QED
    BY <1>p, <1>1, <1>5, <2>1, Returns DEF ChatTypes
<1> QED
  BY <1>4, <1>5 DEF WriteChannelBan

\* A new password is set and captured with the announcements for the write
\* after the unlock.
LEMMA SetPasswordEffect ==
  ASSUME ChatTypes, CallTypes, NEW p \in Players, SetPassword(p)
  PROVE  /\ UNCHANGED <<row, active, server, roll, known, damage, expelled>>
         /\ server = "up" /\ call[p].at = "setPassword" /\ ChatTypes' /\ CallTypes'
         /\ call[p].on \in Objects
         /\ \A u \in Threads : u # p => call'[u] = call[u]
         /\ call'[p].at = "writeSettings" /\ call'[p].on = call[p].on /\ call'[p].op = call[p].op
         /\ call'[p].with = Snapshot(objects'[call[p].on])
         /\ \A o \in Objects : /\ Same(objects[o], objects'[o])
                               /\ objects'[o].banned = objects[o].banned
                               /\ o # call[p].on => objects'[o] = objects[o]
         /\ lagging' = (lagging \/ Overtaken(p))
<1>p. p \in Threads
  BY ListenerIsThread
<1> DEFINE o == call[p].on
           n == [objects[o] EXCEPT !.password = call[p].with]
<1>1. /\ UNCHANGED <<row, active, server, roll, known, damage, expelled>>
      /\ server = "up" /\ call[p].at = "setPassword"
      /\ objects' = [objects EXCEPT ![o] = n]
      /\ call' = [call EXCEPT ![p].at = "writeSettings", ![p].with = Snapshot(n)]
      /\ lagging' = (lagging \/ Overtaken(p))
  BY DEF SetPassword, Enter, Quiet
<1>2. call[p] \in CallRecord /\ WellFormed(p, call[p])
  BY <1>p DEF CallTypes
<1>3. call[p].op = "setPassword" /\ call[p].with \in Passwords /\ o \in Objects
  BY <1>1, <1>2 DEF WellFormed, At, OnPlayer, OfChannel
<1>4. objects[o] \in ChannelRecord
  BY <1>3 DEF ChatTypes
<1>5. n \in ChannelRecord /\ Same(objects[o], n) /\ n.banned = objects[o].banned
  BY <1>3, <1>4 DEF ChannelRecord, Same
<1>6. Snapshot(n) \in Passwords \X BOOLEAN
  BY <1>5 DEF Snapshot, ChannelRecord
<1> DEFINE c == [call[p] EXCEPT !.at = "writeSettings", !.with = Snapshot(n)]
<1>7. call' = [call EXCEPT ![p] = c]
  BY <1>p, <1>1, <1>2 DEF CallTypes
<1> HIDE DEF n
<1>8. /\ c \in CallRecord /\ c.op = call[p].op /\ c.to = call[p].to /\ c.at = "writeSettings" /\ c.on = o
      /\ c.with = Snapshot(n) /\ At(c.op, c.at)
  BY <1>2, <1>3, <1>6 DEF CallRecord, Carried, At
<1> HIDE DEF c
<1>9. /\ objects' \in [Objects -> ChannelRecord] /\ objects'[o] = n
      /\ \A u \in Objects : u # o => objects'[u] = objects[u]
  BY <1>1, <1>3, <1>5, ObjectMoves DEF ChatTypes
<1>10. \A u \in Objects : Same(objects[u], objects'[u]) /\ objects'[u].banned = objects[u].banned
  BY <1>5, <1>9 DEF Same
<1>11. CallTypes' /\ call'[p] = c /\ \A u \in Threads : u # p => call'[u] = call[u]
  BY <1>p, <1>3, <1>6, <1>7, <1>8, Goes
<1>12. ChatTypes'
  BY <1>1, <1>9 DEF ChatTypes
<1> QED
  BY <1>1, <1>3, <1>8, <1>9, <1>10, <1>11, <1>12

\* The announcements are toggled; the snapshot is taken in a second critical
\* section.
LEMMA ToggleAnnouncementsEffect ==
  ASSUME ChatTypes, CallTypes, NEW p \in Players, ToggleAnnouncements(p)
  PROVE  /\ UNCHANGED <<row, active, server, roll, known, damage, expelled>>
         /\ server = "up" /\ call[p].at = "announcements" /\ ChatTypes' /\ CallTypes'
         /\ call[p].on \in Objects
         /\ \A u \in Threads : u # p => call'[u] = call[u]
         /\ call'[p].at = "snapshot" /\ call'[p].on = call[p].on /\ call'[p].op = call[p].op
         /\ \A o \in Objects : /\ Same(objects[o], objects'[o])
                               /\ objects'[o].banned = objects[o].banned /\ objects'[o].password = objects[o].password
                               /\ o # call[p].on => objects'[o] = objects[o]
         /\ lagging' = (lagging \/ Overtaken(p))
<1>p. p \in Threads
  BY ListenerIsThread
<1> DEFINE o == call[p].on
           n == [objects[o] EXCEPT !.announce = ~objects[o].announce]
<1>2. call[p] \in CallRecord /\ WellFormed(p, call[p])
  BY <1>p DEF CallTypes
<1>3. call[p].at = "announcements" /\ call[p].op = "announcements" /\ o \in Objects
  BY <1>2 DEF WellFormed, At, OnPlayer, OfChannel, ToggleAnnouncements, Enter
<1>4. objects[o] \in ChannelRecord
  BY <1>3 DEF ChatTypes
<1>1. /\ UNCHANGED <<row, active, server, roll, known, damage, expelled>>
      /\ server = "up"
      /\ objects' = [objects EXCEPT ![o] = n]
      /\ GoTo(p, "snapshot")
      /\ lagging' = (lagging \/ Overtaken(p))
  BY <1>3, <1>4 DEF ToggleAnnouncements, Enter, Quiet, ChannelRecord, ChatTypes
<1>5. /\ n \in ChannelRecord /\ Same(objects[o], n) /\ n.banned = objects[o].banned
      /\ n.password = objects[o].password
  BY <1>3, <1>4 DEF ChannelRecord, Same
<1> HIDE DEF n
<1>8. At(call[p].op, "snapshot")
  BY <1>3 DEF At
<1>9. /\ objects' \in [Objects -> ChannelRecord] /\ objects'[o] = n
      /\ \A u \in Objects : u # o => objects'[u] = objects[u]
  BY <1>1, <1>3, <1>5, ObjectMoves DEF ChatTypes
<1>10. \A u \in Objects : /\ Same(objects[u], objects'[u]) /\ objects'[u].banned = objects[u].banned
                          /\ objects'[u].password = objects[u].password
  BY <1>5, <1>9 DEF Same
<1>11. /\ CallTypes' /\ call'[p].at = "snapshot" /\ call'[p].on = o /\ call'[p].op = call[p].op
       /\ \A u \in Threads : u # p => call'[u] = call[u]
  BY <1>p, <1>1, <1>3, <1>8, GoesTo
<1>12. ChatTypes'
  BY <1>1, <1>9 DEF ChatTypes
<1> QED
  BY <1>1, <1>3, <1>9, <1>10, <1>11, <1>12

\* The snapshot is what the object holds at that time.
LEMMA SnapshotEffect ==
  ASSUME ChatTypes, CallTypes, NEW p \in Players, SnapshotSettings(p)
  PROVE  /\ UNCHANGED <<objects, row, active, server, roll, known, damage, expelled, lagging>>
         /\ server = "up" /\ call[p].at = "snapshot" /\ CallTypes'
         /\ \A u \in Threads : u # p => call'[u] = call[u]
         /\ call'[p].at = "writeSettings" /\ call'[p].on = call[p].on /\ call'[p].op = call[p].op
         /\ call'[p].with = Snapshot(objects[call[p].on])
<1>p. p \in Threads
  BY ListenerIsThread
<1> DEFINE o == call[p].on
           s == Snapshot(objects[o])
<1>1. /\ UNCHANGED <<objects, row, active, server, roll, known, damage, expelled, lagging>>
      /\ server = "up" /\ call[p].at = "snapshot"
      /\ call' = [call EXCEPT ![p].at = "writeSettings", ![p].with = s]
  BY DEF SnapshotSettings, Enter, Quiet
<1>2. call[p] \in CallRecord /\ WellFormed(p, call[p])
  BY <1>p DEF CallTypes
<1>3. call[p].op = "announcements" /\ o \in Objects
  BY <1>1, <1>2 DEF WellFormed, At, OnPlayer, OfChannel
<1>4. objects[o] \in ChannelRecord
  BY <1>3 DEF ChatTypes
<1>6. s \in Passwords \X BOOLEAN
  BY <1>4 DEF Snapshot, ChannelRecord
<1> HIDE DEF s
<1> DEFINE c == [call[p] EXCEPT !.at = "writeSettings", !.with = s]
<1>7. call' = [call EXCEPT ![p] = c]
  BY <1>p, <1>1, <1>2 DEF CallTypes
<1>8. /\ c \in CallRecord /\ c.op = call[p].op /\ c.to = call[p].to /\ c.at = "writeSettings" /\ c.on = o
      /\ c.with = s /\ At(c.op, c.at)
  BY <1>2, <1>3, <1>6 DEF CallRecord, Carried, At
<1> HIDE DEF c
<1>11. CallTypes' /\ call'[p] = c /\ \A u \in Threads : u # p => call'[u] = call[u]
  BY <1>p, <1>3, <1>6, <1>7, <1>8, Goes
<1> QED
  BY <1>1, <1>8, <1>11 DEF s

\* The write of the settings returns; the snapshot reaches the rows of the
\* object's id, or MySQL lags.
LEMMA WriteSettingsEffect ==
  ASSUME ChatTypes, CallTypes, NEW p \in Players, WriteSettings(p)
  PROVE  /\ UNCHANGED <<objects, active, server, roll, known, damage, expelled>>
         /\ server = "up" /\ call[p].at = "writeSettings" /\ call'[p] = Idle /\ ChatTypes' /\ CallTypes'
         /\ \A u \in Threads : u # p => call'[u] = call[u]
         /\ row'.listed = row.listed /\ row'.id = row.id /\ row'.members = row.members /\ row'.flags = row.flags
         /\ \/ lagging'
            \/ /\ lagging' = lagging /\ row'.banned = row.banned
               /\ row.id = objects[call[p].on].id /\ row.listed =>
                    row'.password = call[p].with[1] /\ row'.announce = call[p].with[2]
<1>p. p \in Threads
  BY ListenerIsThread
<1>1. /\ UNCHANGED <<objects, active, server, roll, known, damage, expelled>>
      /\ server = "up" /\ call[p].at = "writeSettings" /\ Return(p)
  BY DEF WriteSettings, Quiet
<1>2. call[p].with \in Passwords \X BOOLEAN
  BY <1>p, <1>1 DEF CallTypes, WellFormed
<1>3. row \in RowRecord
  BY DEF ChatTypes
<1>4. CASE lagging' /\ row' = row
  BY <1>p, <1>1, <1>4, Returns DEF ChatTypes
<1>5. CASE lagging' = lagging /\ row' = UpdateChannel(row, objects[call[p].on], call[p].with)
  <2>1. /\ row' \in RowRecord
        /\ row'.listed = row.listed /\ row'.id = row.id /\ row'.members = row.members /\ row'.flags = row.flags
        /\ row'.banned = row.banned
        /\ row.id = objects[call[p].on].id /\ row.listed =>
             row'.password = call[p].with[1] /\ row'.announce = call[p].with[2]
    BY <1>2, <1>3, <1>5, UpdateChannelRow
  <2> QED
    BY <1>p, <1>1, <1>5, <2>1, Returns DEF ChatTypes
<1> QED
  BY <1>4, <1>5 DEF WriteSettings

\* Moderation is in memory only.
LEMMA ToggleModerationEffect ==
  ASSUME ChatTypes, CallTypes, NEW p \in Players, ToggleModeration(p)
  PROVE  /\ UNCHANGED <<row, active, server, roll, known, damage, expelled, lagging>>
         /\ server = "up" /\ call[p].at = "moderation" /\ ChatTypes' /\ CallTypes'
         /\ \A u \in Threads : u # p => call'[u] = call[u]
         /\ call'[p] = Idle
         /\ \A o \in Objects : /\ Same(objects[o], objects'[o])
                               /\ objects'[o].banned = objects[o].banned /\ objects'[o].password = objects[o].password
                               /\ objects'[o].announce = objects[o].announce
<1>p. p \in Threads
  BY ListenerIsThread
<1> DEFINE o == call[p].on
           n == [objects[o] EXCEPT !.moderation = ~objects[o].moderation]
<1>2. call[p] \in CallRecord /\ WellFormed(p, call[p])
  BY <1>p DEF CallTypes
<1>3. call[p].at = "moderation" /\ o \in Objects
  BY <1>2 DEF WellFormed, ToggleModeration, Enter
<1>4. objects[o] \in ChannelRecord
  BY <1>3 DEF ChatTypes
<1>1. /\ UNCHANGED <<row, active, server, roll, known, damage, expelled, lagging>>
      /\ server = "up" /\ Return(p)
      /\ objects' = [objects EXCEPT ![o] = n]
  BY <1>3, <1>4 DEF ToggleModeration, Enter, Quiet, ChannelRecord, ChatTypes
<1>5. /\ n \in ChannelRecord /\ Same(objects[o], n) /\ n.banned = objects[o].banned
      /\ n.password = objects[o].password /\ n.announce = objects[o].announce
  BY <1>3, <1>4 DEF ChannelRecord, Same
<1> HIDE DEF n
<1>9. /\ objects' \in [Objects -> ChannelRecord] /\ objects'[o] = n
      /\ \A u \in Objects : u # o => objects'[u] = objects[u]
  BY <1>1, <1>3, <1>5, ObjectMoves DEF ChatTypes
<1>10. \A u \in Objects : /\ Same(objects[u], objects'[u]) /\ objects'[u].banned = objects[u].banned
                          /\ objects'[u].password = objects[u].password
                          /\ objects'[u].announce = objects[u].announce
  BY <1>5, <1>9 DEF Same
<1>12. ChatTypes'
  BY <1>1, <1>9 DEF ChatTypes
<1> QED
  BY <1>p, <1>1, <1>3, <1>10, <1>12, Returns

-----------------------------------------------------------------------------
(* The actions that change members or roles                                *)

\* Handler t gives its object o the record n and may write rows.
Works(t, o, n) ==
  /\ server = "up" /\ server' = server /\ active' = active
  /\ o \in Objects /\ n \in ChannelRecord /\ call[t].on = o
  /\ n.id = objects[o].id /\ n.banned = objects[o].banned
  /\ n.password = objects[o].password /\ n.announce = objects[o].announce
  /\ objects'[o] = n /\ \A u \in Objects : u # o => objects'[u] = objects[u]
  /\ Keeps(row, row')
  /\ InServer(t) /\ ~Pending(t)
  /\ call'[t].on \in {0, o} /\ call'[t].at \notin {"snapshot", "writeSettings", "writeBan"}
  /\ InServer(t)' => call'[t].on = o
  /\ \A u \in Threads : u # t => call'[u] = call[u]
  /\ lagging' = lagging

\* Handler t returns or goes on without having changed members or roles.
Passes(t) ==
  /\ server = "up" /\ server' = server /\ active' = active /\ row' = row /\ damage' = damage
  /\ \A o \in Objects : /\ Same(objects[o], objects'[o]) /\ objects'[o].banned = objects[o].banned
                        /\ objects'[o].password = objects[o].password /\ objects'[o].announce = objects[o].announce
  /\ InServer(t) /\ ~Writes(t) /\ ~Pending(t)
  /\ call'[t].at \in {"idle", "joined", "banning", "remove"}
  /\ call'[t].on \in {0, call[t].on} /\ (InServer(t)' => call'[t].on = call[t].on)
  /\ \A u \in Threads : u # t => call'[u] = call[u]
  /\ lagging' = lagging /\ expelled' = expelled

\* Objects that stay as they are have their members, roles, settings and bans.
LEMMA PassesKept ==
  ASSUME \A o \in Objects : objects'[o] = objects[o]
  PROVE  \A o \in Objects : /\ Same(objects[o], objects'[o]) /\ objects'[o].banned = objects[o].banned
                            /\ objects'[o].password = objects[o].password /\ objects'[o].announce = objects[o].announce
  BY DEF Same

\* A handler past its look-up has an object, of the right types.
LEMMA HandlerObject ==
  ASSUME ChatTypes, CallTypes, NEW t \in Threads, call[t].at \notin {"idle", "remove", "joined", "left"}
  PROVE  /\ call[t].on \in Objects /\ objects[call[t].on] \in ChannelRecord
         /\ objects[call[t].on].flags \in Flags /\ objects[call[t].on].members \in SUBSET Players
         /\ \A x \in Roles : objects[call[t].on].flags[x] \in SUBSET Players
         /\ call[t] \in CallRecord /\ WellFormed(t, call[t]) /\ At(call[t].op, call[t].at)
<1>1. call[t].on \in Objects /\ call[t] \in CallRecord /\ WellFormed(t, call[t])
  BY DEF CallTypes, WellFormed
<1> QED
  BY <1>1 DEF ChatTypes, ChannelRecord, Flags, WellFormed

\* JoinChannel refuses, finds the member there, fails, or adds the member in
\* memory and in the rows; the first is the owner.
LEMMA JoinEffect ==
  ASSUME ChatTypes, CallTypes, NEW p \in Players, JoinChannel(p)
  PROVE  /\ ChatTypes' /\ CallTypes' /\ call[p].at = "join" /\ Unlocked(call[p].on)
         /\ call'[p].at \in {"idle", "joined"}
         /\ \/ Passes(p) /\ (call'[p].at = "joined" => p \in objects[call[p].on].members)
            \/ \E o \in Objects, n \in ChannelRecord :
                 /\ Works(p, o, n)
                 /\ p \notin objects[o].members /\ n.members = objects[o].members \cup {p}
                 /\ n.flags["owner"] = IF objects[o].members = {} THEN {p} ELSE objects[o].flags["owner"]
                 /\ \A x \in Roles \ {"owner"} : n.flags[x] = objects[o].flags[x]
                 /\ n.owner = IF objects[o].members = {} THEN p ELSE objects[o].owner
                 /\ n.holder = NoOne
                 /\ row.id # n.id => row' = row
                 /\ row.id = n.id => /\ row'.members = row.members \cup {p}
                                     /\ \A x \in Roles : row'.flags[x] = (row.flags[x] \ {p}) \cup (n.flags[x] \cap {p})
                 /\ damage' = IF o # active /\ damage = "none" THEN "rows" ELSE damage
                 /\ expelled' = expelled \ {p}
<1>p. p \in Threads /\ p # Listener
  BY ListenerIsThread
<1> DEFINE o == call[p].on
           ch == objects[o]
           ow == IF ch.members = {} THEN {p} ELSE ch.flags["owner"]
           w == IF ch.members = {} THEN p ELSE ch.owner
           fl == [ch.flags EXCEPT !["owner"] = ow]
           joined == [ch EXCEPT !.members = @ \cup {p},
                           !.flags["owner"] = IF ch.members = {} THEN {p} ELSE @,
                           !.owner = IF ch.members = {} THEN p ELSE @]
           n == [ch EXCEPT !.members = ch.members \cup {p}, !.flags = fl, !.owner = w]
           refused == p \in ch.banned \/ (ch.password # NoPassword /\ ch.password # call[p].with)
<1>1. /\ call[p].at = "join" /\ server = "up" /\ Unlocked(o)
      /\ UNCHANGED <<active, server, roll, known, lagging>>
  BY DEF JoinChannel, Enter
<1>2. /\ o \in Objects /\ ch \in ChannelRecord /\ ch.flags \in Flags /\ ch.members \in SUBSET Players
      /\ \A x \in Roles : ch.flags[x] \in SUBSET Players
      /\ call[p].op = "join"
  BY <1>p, <1>1, HandlerObject DEF At, OnPlayer, OfChannel
<1>3. InServer(p) /\ ~Writes(p) /\ ~Pending(p) /\ At(call[p].op, "joined")
  BY <1>1, <1>2 DEF InServer, Writes, Pending, At
<1>4. joined = n
  BY <1>2, RolesDistinct DEF ChannelRecord, Flags
<1>5. \/ refused /\ Return(p) /\ UNCHANGED <<objects, row, damage, expelled>>
      \/ p \in ch.members /\ Reply(p, "joined") /\ UNCHANGED <<objects, row, damage, expelled>>
      \/ /\ p \notin ch.members
         /\ objects' = [objects EXCEPT ![o] = n]
         /\ row' = SaveMember(row, n, p)
         /\ IF o = active THEN damage' = damage ELSE Damaged
         /\ expelled' = expelled \ {p}
         /\ Reply(p, "joined")
      \/ /\ p \notin ch.members
         /\ objects' = [objects EXCEPT ![o].owner = n.owner]
         /\ Return(p) /\ UNCHANGED <<row, damage, expelled>>
  BY <1>4, Zenon DEF JoinChannel
<1>6. /\ ow \in SUBSET Players /\ w \in Players \cup {NoOne}
  BY <1>2, RolesDistinct DEF ChannelRecord
<1>7. fl \in Flags /\ fl["owner"] = ow /\ \A x \in Roles \ {"owner"} : fl[x] = ch.flags[x]
  BY <1>2, <1>6, RolesDistinct DEF Flags
<1> HIDE DEF fl
<1>8. /\ n \in ChannelRecord /\ n.members = ch.members \cup {p} /\ n.flags = fl /\ n.owner = w
      /\ n.holder = ch.holder /\ n.id = ch.id
      /\ n.banned = ch.banned /\ n.password = ch.password /\ n.announce = ch.announce
  BY <1>2, <1>6, <1>7, Zenon DEF ChannelRecord
<1> HIDE DEF n
<1>9. n.holder = NoOne
  BY <1>1, <1>8 DEF Unlocked
<1>10. CASE refused /\ Return(p) /\ UNCHANGED <<objects, row, damage, expelled>>
  <2>1. CallTypes' /\ call'[p] = Idle /\ \A u \in Threads : u # p => call'[u] = call[u]
    BY <1>p, <1>10, Returns
  <2>2. Passes(p) /\ call'[p].at = "idle"
    BY <1>1, <1>3, <1>10, <2>1, PassesKept DEF Passes, Idle, InServer
  <2> QED
    BY <1>1, <1>10, <2>1, <2>2 DEF ChatTypes
<1>11. CASE p \in ch.members /\ Reply(p, "joined") /\ UNCHANGED <<objects, row, damage, expelled>>
  <2>1. /\ CallTypes' /\ \A u \in Threads : u # p => call'[u] = call[u]
        /\ call'[p].on \in {0, o} /\ call'[p].at \in {"idle", "joined"}
    BY <1>p, <1>3, <1>11, Replies DEF Idle
  <2>2. Passes(p)
    BY <1>1, <1>3, <1>11, <2>1, PassesKept DEF Passes, InServer
  <2> QED
    BY <1>1, <1>11, <2>1, <2>2 DEF ChatTypes
<1>12. CASE /\ p \notin ch.members
            /\ objects' = [objects EXCEPT ![o].owner = n.owner]
            /\ Return(p) /\ UNCHANGED <<row, damage, expelled>>
  <2>1. CallTypes' /\ call'[p] = Idle /\ \A u \in Threads : u # p => call'[u] = call[u]
    BY <1>p, <1>12, Returns
  <2> DEFINE m == [ch EXCEPT !.owner = w]
  <2>2. objects' = [objects EXCEPT ![o] = m]
    BY <1>2, <1>8, <1>12 DEF ChatTypes
  <2>3. /\ m \in ChannelRecord /\ Same(ch, m) /\ m.banned = ch.banned /\ m.password = ch.password
        /\ m.announce = ch.announce
    BY <1>2, <1>6 DEF ChannelRecord, Same
  <2> HIDE DEF m
  <2>4. /\ objects' \in [Objects -> ChannelRecord]
        /\ objects'[o] = m /\ \A u \in Objects : u # o => objects'[u] = objects[u]
    BY <1>2, <2>2, <2>3, ObjectMoves DEF ChatTypes
  <2>5. \A u \in Objects : /\ Same(objects[u], objects'[u]) /\ objects'[u].banned = objects[u].banned
                           /\ objects'[u].password = objects[u].password /\ objects'[u].announce = objects[u].announce
    BY <2>3, <2>4 DEF Same
  <2>6. Passes(p) /\ call'[p].at = "idle"
    BY <1>1, <1>3, <1>12, <2>1, <2>5 DEF Passes, Idle, InServer
  <2> QED
    BY <1>1, <1>12, <2>1, <2>4, <2>6 DEF ChatTypes
<1>13. CASE /\ p \notin ch.members
            /\ objects' = [objects EXCEPT ![o] = n]
            /\ row' = SaveMember(row, n, p)
            /\ IF o = active THEN damage' = damage ELSE Damaged
            /\ expelled' = expelled \ {p}
            /\ Reply(p, "joined")
  <2>1. /\ CallTypes' /\ \A u \in Threads : u # p => call'[u] = call[u]
        /\ call'[p].on \in {0, o} /\ call'[p].at \in {"idle", "joined"}
    BY <1>p, <1>3, <1>13, Replies DEF Idle
  <2>2. /\ objects' \in [Objects -> ChannelRecord]
        /\ objects'[o] = n /\ \A u \in Objects : u # o => objects'[u] = objects[u]
    BY <1>2, <1>8, <1>13, ObjectMoves DEF ChatTypes
  <2>3. /\ row' \in RowRecord /\ Keeps(row, row')
        /\ row.id # n.id => row' = row
        /\ row.id = n.id => /\ row'.members = row.members \cup {p}
                            /\ \A x \in Roles : row'.flags[x] = (row.flags[x] \ {p}) \cup (n.flags[x] \cap {p})
    BY <1>8, <1>13, SaveMemberRow DEF ChatTypes
  <2>4. Works(p, o, n)
    BY <1>1, <1>2, <1>3, <1>8, <2>1, <2>2, <2>3 DEF Works, InServer
  <2>5. damage' = IF o # active /\ damage = "none" THEN "rows" ELSE damage
    BY <1>13 DEF Damaged
  <2>6. ChatTypes'
    BY <1>1, <2>2, <2>3 DEF ChatTypes
  <2>7. /\ n.flags["owner"] = IF objects[o].members = {} THEN {p} ELSE objects[o].flags["owner"]
        /\ \A x \in Roles \ {"owner"} : n.flags[x] = objects[o].flags[x]
        /\ n.owner = IF objects[o].members = {} THEN p ELSE objects[o].owner
    BY <1>7, <1>8
  <2> QED
    BY <1>1, <1>2, <1>8, <1>9, <1>13, <2>1, <2>3, <2>4, <2>5, <2>6, <2>7
<1> HIDE DEF refused
<1> QED
  BY <1>5, <1>10, <1>11, <1>12, <1>13

\* Where the call is after LeaveChannel; a leave that is not answered is of a
\* session that is gone.
LEMMA AfterLeaveCall ==
  ASSUME CallTypes, NEW t \in Players, NEW left \in BOOLEAN, call[t].op \in {"leave", "kick", "ban"},
         call[t].on \in Objects, AfterLeave(t, left)
  PROVE  /\ CallTypes' /\ \A u \in Threads : u # t => call'[u] = call[u]
         /\ call'[t].at \in {"idle", "left", "banning"} /\ call'[t].on \in {0, call[t].on}
         /\ call'[t].at = "banning" => call'[t].on = call[t].on
         /\ call'[t].at = "left" => left
         /\ call[t].op = "leave" /\ left /\ call'[t].at # "left" => session[t] = "offline"
<1>p. t \in Threads
  BY ListenerIsThread
<1>1. CASE call[t].op = "ban"
  <2>1. GoTo(t, "banning") /\ At(call[t].op, "banning")
    BY <1>1 DEF AfterLeave, At
  <2> QED
    BY <1>p, <1>1, <2>1, GoesTo
<1>2. CASE call[t].op = "leave" /\ left
  <2>1. Reply(t, "left") /\ At(call[t].op, "left")
    BY <1>2 DEF AfterLeave, At
  <2> QED
    BY <1>p, <1>2, <2>1, Replies DEF Idle
<1>3. CASE call[t].op # "ban" /\ ~(call[t].op = "leave" /\ left)
  <2>1. Return(t)
    BY <1>3 DEF AfterLeave
  <2> QED
    BY <1>p, <1>3, <2>1, Returns DEF Idle
<1> QED
  BY <1>1, <1>2, <1>3

\* UpdateMemberFlags wrote the flags that p has in n.
FlagsWritten(r, s, n, p) ==
  /\ s.members = r.members
  /\ r.id # n.id \/ p \notin r.members => s = r
  /\ r.id = n.id /\ p \in r.members => \A x \in Roles : s.flags[x] = (r.flags[x] \ {p}) \cup (n.flags[x] \cap {p})

\* UpdateMemberFlags in the terms of the proofs.
LEMMA FlagsAreWritten ==
  ASSUME NEW r \in RowRecord, NEW n \in ChannelRecord, NEW p \in Players
  PROVE  UpdateFlags(r, n, p) \in RowRecord /\ Keeps(r, UpdateFlags(r, n, p)) /\ FlagsWritten(r, UpdateFlags(r, n, p), n, p)
  BY UpdateFlagsRow DEF FlagsWritten

\* Handler t takes gone out of its object o and of the rows.
Departs(t, o, n, gone) ==
  /\ Works(t, o, n)
  /\ gone = IF call[t].op = "leave" THEN t ELSE call[t].to
  /\ gone \in objects[o].members /\ n.members = objects[o].members \ {gone}
  /\ row.id # n.id => row' = row
  /\ row.id = n.id => /\ row'.members = row.members \ {gone}
                      /\ \A x \in Roles : row'.flags[x] = row.flags[x] \ {gone}
  /\ damage' = damage
  /\ expelled' = IF call[t].op = "leave" THEN expelled ELSE expelled \cup {gone}

\* Nobody has to follow gone.
Unfollowed(t, o, n, gone) ==
  /\ gone \notin objects[o].flags["owner"] \/ n.members = {}
  /\ \A x \in Roles : n.flags[x] = objects[o].flags[x] \ {gone}
  /\ n.owner = objects[o].owner /\ n.holder = NoOne
  /\ call'[t].at \in {"idle", "left", "banning"}
  /\ call[t].op = "leave" /\ call'[t].at # "left" => session[t] = "offline"

\* The heir of gone has the channel in memory; the mutex is kept for the write of its flag.
Followed(t, o, n, gone, heir) ==
  /\ gone \in objects[o].flags["owner"] /\ heir \in Heirs(objects[o], n.members)
  /\ n.flags["owner"] = (objects[o].flags["owner"] \ {gone}) \cup {heir}
  /\ \A x \in Roles \ {"owner"} : n.flags[x] = objects[o].flags[x] \ {gone}
  /\ n.owner = heir /\ n.holder = t
  /\ call'[t].at = "heir" /\ call'[t].with = heir /\ call'[t].on = o
  /\ call'[t].op = call[t].op

\* LeaveChannel changes nothing, or takes the player out, with an heir to be
\* written if the owner goes and others stay.
LEMMA LeaveEffect ==
  ASSUME ChatTypes, CallTypes, NEW t \in Players, LeaveChannel(t)
  PROVE  /\ ChatTypes' /\ CallTypes' /\ call[t].at \in {"leave", "kick", "ban"} /\ Unlocked(call[t].on)
         /\ \/ Passes(t) /\ call'[t].at \in {"idle", "banning"}
            \/ \E o \in Objects, n \in ChannelRecord, gone \in Players :
                 Departs(t, o, n, gone) /\ Unfollowed(t, o, n, gone)
            \/ \E o \in Objects, n \in ChannelRecord, gone \in Players, heir \in Players :
                 Departs(t, o, n, gone) /\ Followed(t, o, n, gone, heir)
<1>p. t \in Threads /\ t # Listener
  BY ListenerIsThread
<1> DEFINE o == call[t].on
           ch == objects[o]
           gone == IF call[t].op = "leave" THEN t ELSE call[t].to
           fl == Without(ch.flags, {gone})
           left == [ch EXCEPT !.members = @ \ {gone}, !.flags = Without(@, {gone})]
           l == [ch EXCEPT !.members = ch.members \ {gone}, !.flags = fl]
           follows == gone \in ch.flags["owner"] /\ left.members # {}
<1>1. /\ call[t].at \in {"leave", "kick", "ban"} /\ server = "up" /\ Unlocked(o)
      /\ UNCHANGED <<active, server, roll, known, lagging>>
  BY Zenon DEF LeaveChannel, Enter
<1>2. /\ o \in Objects /\ ch \in ChannelRecord /\ ch.flags \in Flags /\ ch.members \in SUBSET Players
      /\ \A x \in Roles : ch.flags[x] \in SUBSET Players
      /\ call[t].op = call[t].at /\ call[t] \in CallRecord /\ WellFormed(t, call[t])
  BY <1>p, <1>1, HandlerObject DEF At, OnPlayer, OfChannel
<1>3. InServer(t) /\ ~Writes(t) /\ ~Pending(t)
  BY <1>1 DEF InServer, Writes, Pending
<1>4. gone \in Players
  BY <1>1, <1>2 DEF WellFormed, OnPlayer
<1>5. left = l
  BY <1>2 DEF ChannelRecord
<1>6. fl \in Flags /\ \A x \in Roles : fl[x] = ch.flags[x] \ {gone}
  BY <1>2, WithoutFlags
<1> HIDE DEF fl
<1>7. /\ l \in ChannelRecord /\ l.members = ch.members \ {gone} /\ l.flags = fl /\ l.owner = ch.owner
      /\ l.holder = ch.holder /\ l.id = ch.id
      /\ l.banned = ch.banned /\ l.password = ch.password /\ l.announce = ch.announce
  BY <1>2, <1>6, Zenon DEF ChannelRecord
<1>8. l.holder = NoOne
  BY <1>1, <1>7 DEF Unlocked
<1>9. \/ gone \notin ch.members /\ AfterLeave(t, FALSE) /\ UNCHANGED <<objects, row, damage, expelled>>
      \/ /\ IF call[t].op = "ban" THEN GoTo(t, "banning") ELSE Return(t)
         /\ UNCHANGED <<objects, row, damage, expelled>>
      \/ /\ gone \in ch.members /\ ~(gone \in ch.flags["owner"] /\ l.members # {})
         /\ objects' = [objects EXCEPT ![o] = l]
         /\ row' = RemoveMembers(row, ch, {gone})
         /\ expelled' = IF call[t].op = "leave" THEN expelled ELSE expelled \cup {gone}
         /\ AfterLeave(t, TRUE) /\ damage' = damage
      \/ /\ gone \in ch.members /\ gone \in ch.flags["owner"]
         /\ \E heir \in LeaveHeirs(ch, gone) :
                /\ objects' = [objects EXCEPT ![o] = [l EXCEPT !.flags = With(@, "owner", heir),
                                                               !.owner = heir, !.holder = t]]
                /\ call' = [call EXCEPT ![t].at = "heir", ![t].with = heir]
         /\ row' = RemoveMembers(row, ch, {gone})
         /\ expelled' = IF call[t].op = "leave" THEN expelled ELSE expelled \cup {gone}
         /\ damage' = damage
  BY <1>5, Zenon DEF LeaveChannel
<1>10. CASE /\ gone \notin ch.members /\ AfterLeave(t, FALSE) /\ UNCHANGED <<objects, row, damage, expelled>>
  <2>1. /\ CallTypes' /\ \A u \in Threads : u # t => call'[u] = call[u]
        /\ call'[t].at \in {"idle", "banning"} /\ call'[t].on \in {0, o}
        /\ call'[t].at = "banning" => call'[t].on = o
    BY <1>1, <1>2, <1>10, AfterLeaveCall
  <2>2. Passes(t)
    BY <1>1, <1>3, <1>10, <2>1, PassesKept DEF Passes, InServer
  <2> QED
    BY <1>1, <1>10, <2>1, <2>2 DEF ChatTypes
<1>11. CASE /\ IF call[t].op = "ban" THEN GoTo(t, "banning") ELSE Return(t)
            /\ UNCHANGED <<objects, row, damage, expelled>>
  <2>0. call[t].op = "ban" => At(call[t].op, "banning")
    BY DEF At
  <2>1. /\ CallTypes' /\ \A u \in Threads : u # t => call'[u] = call[u]
        /\ call'[t].at \in {"idle", "banning"} /\ call'[t].on \in {0, o}
        /\ call'[t].at = "banning" => call'[t].on = o
    BY <1>p, <1>2, <1>11, <2>0, GoesTo, Returns DEF Idle
  <2>2. Passes(t)
    BY <1>1, <1>3, <1>11, <2>1, PassesKept DEF Passes, InServer
  <2> QED
    BY <1>1, <1>11, <2>1, <2>2 DEF ChatTypes
<1>r. ASSUME row' = RemoveMembers(row, ch, {gone})
      PROVE  /\ row' \in RowRecord /\ Keeps(row, row')
             /\ row.id # ch.id => row' = row
             /\ row.id = ch.id => /\ row'.members = row.members \ {gone}
                                  /\ \A x \in Roles : row'.flags[x] = row.flags[x] \ {gone}
  BY <1>r, <1>2, RemoveMembersRow DEF ChatTypes
<1>12. CASE /\ gone \in ch.members /\ ~(gone \in ch.flags["owner"] /\ l.members # {})
            /\ objects' = [objects EXCEPT ![o] = l]
            /\ row' = RemoveMembers(row, ch, {gone})
            /\ expelled' = IF call[t].op = "leave" THEN expelled ELSE expelled \cup {gone}
            /\ AfterLeave(t, TRUE) /\ damage' = damage
  <2> HIDE DEF l
  <2>1. /\ CallTypes' /\ \A u \in Threads : u # t => call'[u] = call[u]
        /\ call'[t].at \in {"idle", "left", "banning"} /\ call'[t].on \in {0, o}
        /\ call'[t].at = "banning" => call'[t].on = o
        /\ call[t].op = "leave" /\ call'[t].at # "left" => session[t] = "offline"
    BY <1>1, <1>2, <1>12, AfterLeaveCall
  <2>2. /\ objects' \in [Objects -> ChannelRecord]
        /\ objects'[o] = l /\ \A u \in Objects : u # o => objects'[u] = objects[u]
    BY <1>2, <1>7, <1>12, ObjectMoves DEF ChatTypes
  <2>3. Works(t, o, l)
    BY <1>1, <1>2, <1>3, <1>7, <1>12, <1>r, <2>1, <2>2 DEF Works, InServer
  <2>4. ChatTypes'
    BY <1>1, <1>12, <1>r, <2>2 DEF ChatTypes
  <2> HIDE DEF gone
  <2>5. Unfollowed(t, o, l, gone)
    BY <1>6, <1>7, <1>8, <1>12, <2>1 DEF Unfollowed
  <2>6. gone = IF call[t].op = "leave" THEN t ELSE call[t].to
    BY DEF gone
  <2>7. Departs(t, o, l, gone)
    BY <1>7, <1>12, <1>r, <2>3, <2>6 DEF Departs
  <2> QED
    BY <1>1, <1>2, <1>4, <1>7, <2>1, <2>4, <2>5, <2>7
<1>13. CASE /\ gone \in ch.members /\ gone \in ch.flags["owner"]
            /\ \E heir \in LeaveHeirs(ch, gone) :
                   /\ objects' = [objects EXCEPT ![o] = [l EXCEPT !.flags = With(@, "owner", heir),
                                                                  !.owner = heir, !.holder = t]]
                   /\ call' = [call EXCEPT ![t].at = "heir", ![t].with = heir]
            /\ row' = RemoveMembers(row, ch, {gone})
            /\ expelled' = IF call[t].op = "leave" THEN expelled ELSE expelled \cup {gone}
            /\ damage' = damage
  <2>1. PICK heir \in LeaveHeirs(ch, gone) :
                /\ objects' = [objects EXCEPT ![o] = [l EXCEPT !.flags = With(@, "owner", heir),
                                                               !.owner = heir, !.holder = t]]
                /\ call' = [call EXCEPT ![t].at = "heir", ![t].with = heir]
    BY <1>13, Zenon
  <2> HIDE DEF l
  <2> DEFINE fh == With(fl, "owner", heir)
             n == [l EXCEPT !.flags = fh, !.owner = heir, !.holder = t]
             c == [call[t] EXCEPT !.at = "heir", !.with = heir]
  <2>2. heir \in Heirs(ch, l.members) /\ heir \in Players
    BY <1>2, <1>7, HeirsStay DEF LeaveHeirs
  <2>3. /\ fh \in Flags /\ fh["owner"] = (ch.flags["owner"] \ {gone}) \cup {heir}
        /\ \A x \in Roles \ {"owner"} : fh[x] = ch.flags[x] \ {gone}
    <3>1. /\ fh \in Flags /\ fh["owner"] = fl["owner"] \cup {heir}
          /\ \A x \in Roles : x # "owner" => fh[x] = fl[x]
      BY <1>6, <2>2, RolesDistinct, WithFlag
    <3> QED
      BY <1>6, <3>1, RolesDistinct
  <2>4. objects' = [objects EXCEPT ![o] = n]
    BY <1>7, <2>1 DEF ChannelRecord
  <2>5. call' = [call EXCEPT ![t] = c]
    BY <1>p, <2>1 DEF CallTypes
  <2>6. /\ c \in CallRecord /\ c.at = "heir" /\ c.with = heir /\ c.op = call[t].op /\ c.to = call[t].to /\ c.on = o
        /\ At(c.op, c.at)
    BY <1>1, <1>2, <2>2 DEF CallRecord, Carried, At
  <2> HIDE DEF fh
  <2>7. /\ n \in ChannelRecord /\ n.members = l.members /\ n.flags = fh /\ n.owner = heir /\ n.holder = t /\ n.id = ch.id
        /\ n.banned = ch.banned /\ n.password = ch.password /\ n.announce = ch.announce
    BY <1>p, <1>7, <2>2, <2>3 DEF ChannelRecord
  <2> HIDE DEF c, n
  <2>8. CallTypes' /\ call'[t] = c /\ \A u \in Threads : u # t => call'[u] = call[u]
    BY <1>p, <1>2, <2>2, <2>5, <2>6, Goes
  <2>9. /\ objects' \in [Objects -> ChannelRecord]
        /\ objects'[o] = n /\ \A u \in Objects : u # o => objects'[u] = objects[u]
    BY <1>2, <2>4, <2>7, ObjectMoves DEF ChatTypes
  <2>10. Works(t, o, n)
    BY <1>1, <1>2, <1>3, <1>13, <1>r, <2>6, <2>7, <2>8, <2>9 DEF Works, InServer
  <2>11. ChatTypes'
    BY <1>1, <1>13, <1>r, <2>9 DEF ChatTypes
  <2> HIDE DEF gone
  <2>12. Followed(t, o, n, gone, heir)
    BY <1>13, <2>2, <2>3, <2>6, <2>7, <2>8, Zenon DEF Followed
  <2>13. gone = IF call[t].op = "leave" THEN t ELSE call[t].to
    BY DEF gone
  <2>14. Departs(t, o, n, gone)
    BY <1>7, <1>13, <1>r, <2>7, <2>10, <2>13, Zenon DEF Departs
  <2> QED
    BY <1>1, <1>2, <1>4, <2>2, <2>7, <2>8, <2>11, <2>12, <2>14
<1> HIDE DEF l
<1> QED
  BY <1>9, <1>10, <1>11, <1>12, <1>13, Zenon

\* A failed write of a member's row.
Hurts == damage' = IF damage = "none" THEN "rows" ELSE damage

\* The heir's flag is written or the write is lost; the mutex is released
\* either way.
LEMMA PersistHeirEffect ==
  ASSUME ChatTypes, CallTypes, NEW t \in Threads, PersistHeir(t)
  PROVE  /\ ChatTypes' /\ CallTypes' /\ call[t].at = "heir" /\ expelled' = expelled
         /\ call'[t].at \in {"idle", "left", "banning", "remove"}
         /\ call[t].op = "leave" /\ call'[t].at # "left" => session[t] = "offline"
         /\ \E o \in Objects, n \in ChannelRecord :
              /\ Works(t, o, n)
              /\ n.members = objects[o].members /\ n.flags = objects[o].flags /\ n.owner = objects[o].owner
              /\ n.holder = NoOne
              /\ \/ FlagsWritten(row, row', n, call[t].with) /\ damage' = damage
                 \/ row' = row /\ Hurts
<1> DEFINE o == call[t].on
           ch == objects[o]
           n == [ch EXCEPT !.holder = NoOne]
<1>1. /\ call[t].at = "heir" /\ server = "up"
      /\ UNCHANGED <<active, server, roll, known, lagging, expelled>>
  BY DEF PersistHeir
<1>2. /\ o \in Objects /\ ch \in ChannelRecord /\ ch.flags \in Flags /\ ch.members \in SUBSET Players
      /\ call[t].op \in {"leave", "kick", "ban", "logout"} /\ WellFormed(t, call[t])
  BY <1>1, HandlerObject DEF At, OnPlayer, OfChannel
<1>3. InServer(t) /\ ~Pending(t) /\ call[t].with \in Players
  BY <1>1, <1>2 DEF InServer, Pending, WellFormed
<1>4. objects' = [objects EXCEPT ![o] = n]
  BY <1>2 DEF PersistHeir, ChatTypes
<1>5. /\ n \in ChannelRecord /\ n.members = ch.members /\ n.flags = ch.flags /\ n.owner = ch.owner
      /\ n.holder = NoOne /\ n.id = ch.id
      /\ n.banned = ch.banned /\ n.password = ch.password /\ n.announce = ch.announce
  BY <1>2 DEF ChannelRecord
<1> HIDE DEF n
<1>6. /\ objects' \in [Objects -> ChannelRecord]
      /\ objects'[o] = n /\ \A u \in Objects : u # o => objects'[u] = objects[u]
  BY <1>2, <1>4, <1>5, ObjectMoves DEF ChatTypes
<1>7. /\ CallTypes' /\ \A u \in Threads : u # t => call'[u] = call[u]
      /\ call'[t].at \in {"idle", "left", "banning", "remove"}
      /\ call'[t].on \in {0, o} /\ (call'[t].at \in {"banning", "remove"} => call'[t].on = o)
      /\ call[t].op = "leave" /\ call'[t].at # "left" => session[t] = "offline"
  <2>1. CASE t = Listener
    <3>1. GoTo(t, "remove") /\ At(call[t].op, "remove") /\ call[t].op = "logout"
      BY <1>2, <2>1 DEF PersistHeir, WellFormed, At
    <3> QED
      BY <3>1, GoesTo
  <2>2. CASE t # Listener
    <3>1. AfterLeave(t, TRUE) /\ t \in Players /\ call[t].op \in {"leave", "kick", "ban"}
      BY <1>2, <2>2 DEF PersistHeir, Threads, WellFormed
    <3> QED
      BY <1>2, <3>1, AfterLeaveCall
  <2> QED
    BY <2>1, <2>2
<1>8. /\ row' \in RowRecord /\ Keeps(row, row')
      /\ \/ FlagsWritten(row, row', n, call[t].with) /\ damage' = damage
         \/ row' = row /\ Hurts
  <2>1. CASE row' = UpdateFlags(row, ch, call[t].with) /\ damage' = damage
    <3>1. /\ row' \in RowRecord /\ Keeps(row, row') /\ FlagsWritten(row, row', ch, call[t].with)
      BY <1>2, <1>3, <2>1, FlagsAreWritten DEF ChatTypes
    <3> QED
      BY <1>5, <2>1, <3>1 DEF FlagsWritten
  <2>2. CASE row' = row /\ Damaged
    BY <2>2 DEF ChatTypes, Keeps, Damaged, Hurts
  <2> QED
    BY <2>1, <2>2 DEF PersistHeir
<1>9. Works(t, o, n)
  BY <1>1, <1>2, <1>3, <1>5, <1>6, <1>7, <1>8 DEF Works, InServer
<1>10. ChatTypes'
  BY <1>1, <1>6, <1>8 DEF ChatTypes
<1> QED
  BY <1>1, <1>2, <1>5, <1>7, <1>8, <1>9, <1>10

\* Moderator and mute flags of a member change in memory and in the rows, or
\* not at all.
LEMMA SetFlagEffect ==
  ASSUME ChatTypes, CallTypes, NEW p \in Players, SetFlag(p)
  PROVE  /\ ChatTypes' /\ CallTypes' /\ Unlocked(call[p].on) /\ expelled' = expelled /\ call'[p] = Idle
         /\ \/ Passes(p)
            \/ \E o \in Objects, n \in ChannelRecord :
                 /\ Works(p, o, n)
                 /\ call[p].to \in objects[o].members /\ n.members = objects[o].members
                 /\ n.flags["owner"] = objects[o].flags["owner"] /\ n.owner = objects[o].owner
                 /\ \A x \in Roles : n.flags[x] \cup {call[p].to} = objects[o].flags[x] \cup {call[p].to}
                 /\ n.holder = NoOne
                 /\ FlagsWritten(row, row', n, call[p].to) /\ damage' = damage
<1>p. p \in Threads
  BY ListenerIsThread
<1> DEFINE o == call[p].on
           ch == objects[o]
           op == call[p].op
           role == IF op \in {"mute", "unmute"} THEN "muted" ELSE "moderator"
           q == call[p].to
           set == [objects[o] EXCEPT !.flags[role] = IF op \in {"mute", "setModerator"} THEN @ \cup {q} ELSE @ \ {q}]
           v == IF op \in {"mute", "setModerator"} THEN ch.flags[role] \cup {q} ELSE ch.flags[role] \ {q}
           fl == [ch.flags EXCEPT ![role] = v]
           n == [ch EXCEPT !.flags = fl]
<1>1. /\ call[p].at \in {"mute", "unmute", "setModerator", "unsetModerator"} /\ server = "up" /\ Unlocked(o)
      /\ UNCHANGED <<active, server, roll, known, lagging, damage, expelled>> /\ Return(p)
  BY DEF SetFlag, Enter, Quiet
<1>2. /\ o \in Objects /\ ch \in ChannelRecord /\ ch.flags \in Flags /\ ch.members \in SUBSET Players
      /\ \A x \in Roles : ch.flags[x] \in SUBSET Players
      /\ call[p].op = call[p].at /\ WellFormed(p, call[p])
  BY <1>p, <1>1, HandlerObject DEF At, OnPlayer, OfChannel
<1>3. InServer(p) /\ ~Writes(p) /\ ~Pending(p) /\ q \in Players
  BY <1>1, <1>2 DEF InServer, Writes, Pending, WellFormed, OnPlayer
<1>4. CallTypes' /\ call'[p] = Idle /\ \A u \in Threads : u # p => call'[u] = call[u]
  BY <1>p, <1>1, Returns
<1>5. role \in Roles /\ role # "owner"
  BY DEF Roles
<1>6. v \in SUBSET Players /\ v \cup {q} = ch.flags[role] \cup {q}
  BY <1>2, <1>3, <1>5
<1>7. set = n
  BY <1>2, <1>5 DEF ChannelRecord, Flags
<1>8. \/ UNCHANGED <<objects, row>>
      \/ q \in ch.members /\ objects' = [objects EXCEPT ![o] = n] /\ row' = UpdateFlags(row, n, q)
  BY <1>7 DEF SetFlag
<1> HIDE DEF v, role
<1>9. fl \in Flags /\ fl["owner"] = ch.flags["owner"] /\ \A x \in Roles : fl[x] \cup {q} = ch.flags[x] \cup {q}
  BY <1>2, <1>5, <1>6, RolesDistinct DEF Flags
<1> HIDE DEF fl
<1>10. /\ n \in ChannelRecord /\ n.members = ch.members /\ n.flags = fl /\ n.owner = ch.owner
       /\ n.holder = ch.holder /\ n.id = ch.id
       /\ n.banned = ch.banned /\ n.password = ch.password /\ n.announce = ch.announce
  BY <1>2, <1>9 DEF ChannelRecord
<1> HIDE DEF n
<1>11. CASE UNCHANGED <<objects, row>>
  <2>1. Passes(p)
    BY <1>1, <1>3, <1>4, <1>11, PassesKept DEF Passes, Idle, InServer
  <2> QED
    BY <1>1, <1>4, <1>11, <2>1 DEF ChatTypes
<1>12. CASE q \in ch.members /\ objects' = [objects EXCEPT ![o] = n] /\ row' = UpdateFlags(row, n, q)
  <2>1. /\ objects' \in [Objects -> ChannelRecord]
        /\ objects'[o] = n /\ \A u \in Objects : u # o => objects'[u] = objects[u]
    BY <1>2, <1>10, <1>12, ObjectMoves DEF ChatTypes
  <2>2. row' \in RowRecord /\ Keeps(row, row') /\ FlagsWritten(row, row', n, q)
    BY <1>3, <1>10, <1>12, FlagsAreWritten DEF ChatTypes
  <2>3. Works(p, o, n)
    BY <1>1, <1>2, <1>3, <1>4, <1>10, <2>1, <2>2 DEF Works, InServer, Idle
  <2>4. ChatTypes'
    BY <1>1, <2>1, <2>2 DEF ChatTypes
  <2>5. n.holder = NoOne
    BY <1>1, <1>10 DEF Unlocked
  <2> QED
    BY <1>1, <1>2, <1>4, <1>9, <1>10, <1>12, <2>2, <2>3, <2>4, <2>5
<1> QED
  BY <1>8, <1>11, <1>12

\* The first half of SetOwner clears the old owner's flag in the rows and keeps
\* the mutex.
LEMMA SetOwnerOldEffect ==
  ASSUME ChatTypes, CallTypes, NEW p \in Players, SetOwnerOld(p)
  PROVE  /\ ChatTypes' /\ CallTypes' /\ Unlocked(call[p].on) /\ expelled' = expelled
         /\ \/ Passes(p) /\ call'[p] = Idle
            \/ \E o \in Objects, n \in ChannelRecord :
                 /\ Works(p, o, n)
                 /\ call[p].to \in objects[o].members
                 /\ n.members = objects[o].members /\ n.flags = objects[o].flags /\ n.owner = objects[o].owner
                 /\ n.holder = p
                 /\ call'[p].at = "setOwnerNew" /\ call'[p].to = call[p].to /\ call'[p].on = o
                 /\ row'.members = row.members
                 /\ row.id # n.id \/ n.owner \notin n.members => row' = row
                 /\ (row.id = n.id /\ n.owner \in n.members \cap row.members) =>
                      /\ row'.flags["owner"] = row.flags["owner"] \ {n.owner}
                      /\ \A x \in Roles \ {"owner"} :
                           row'.flags[x] = (row.flags[x] \ {n.owner}) \cup (n.flags[x] \cap {n.owner})
                 /\ n.owner \in n.members /\ n.owner \notin row.members => row' = row
                 /\ damage' = damage
<1>p. p \in Threads
  BY ListenerIsThread
<1> DEFINE o == call[p].on
           ch == objects[o]
           n == [ch EXCEPT !.holder = p]
           cleared == [ch EXCEPT !.flags["owner"] = @ \ {ch.owner}]
           fl == [ch.flags EXCEPT !["owner"] = ch.flags["owner"] \ {ch.owner}]
           k == [ch EXCEPT !.flags = fl]
<1>1. /\ call[p].at = "setOwner" /\ server = "up" /\ Unlocked(o)
      /\ UNCHANGED <<active, server, roll, known, lagging, damage, expelled>>
  BY DEF SetOwnerOld, Enter, Quiet
<1>2. /\ o \in Objects /\ ch \in ChannelRecord /\ ch.flags \in Flags /\ ch.members \in SUBSET Players
      /\ \A x \in Roles : ch.flags[x] \in SUBSET Players
      /\ call[p].op = "setOwner" /\ WellFormed(p, call[p])
  BY <1>p, <1>1, HandlerObject DEF At, OnPlayer, OfChannel
<1>3. InServer(p) /\ ~Writes(p) /\ ~Pending(p) /\ At(call[p].op, "setOwnerNew")
  BY <1>1, <1>2 DEF InServer, Writes, Pending, At
<1>4. cleared = k
  BY <1>2, RolesDistinct DEF ChannelRecord, Flags
<1>5. \/ Return(p) /\ UNCHANGED <<objects, row>>
      \/ /\ call[p].to \in ch.members
         /\ objects' = [objects EXCEPT ![o] = n]
         /\ row' = IF ch.owner \in ch.members THEN UpdateFlags(row, k, ch.owner) ELSE row
         /\ GoTo(p, "setOwnerNew")
  BY <1>2, <1>4 DEF SetOwnerOld, ChatTypes
<1>6. fl \in Flags /\ fl["owner"] = ch.flags["owner"] \ {ch.owner} /\ \A x \in Roles \ {"owner"} : fl[x] = ch.flags[x]
  BY <1>2, RolesDistinct DEF Flags
<1> HIDE DEF fl
<1>7. k \in ChannelRecord /\ k.flags = fl /\ k.id = ch.id
  BY <1>2, <1>6 DEF ChannelRecord
<1>8. /\ n \in ChannelRecord /\ n.members = ch.members /\ n.flags = ch.flags /\ n.owner = ch.owner
      /\ n.holder = p /\ n.id = ch.id
      /\ n.banned = ch.banned /\ n.password = ch.password /\ n.announce = ch.announce
  BY <1>p, <1>2 DEF ChannelRecord
<1> HIDE DEF k, n
<1>9. CASE Return(p) /\ UNCHANGED <<objects, row>>
  <2>1. CallTypes' /\ call'[p] = Idle /\ \A u \in Threads : u # p => call'[u] = call[u]
    BY <1>p, <1>9, Returns
  <2>2. Passes(p)
    BY <1>1, <1>3, <1>9, <2>1, PassesKept DEF Passes, Idle, InServer
  <2> QED
    BY <1>1, <1>9, <2>1, <2>2 DEF ChatTypes
<1>10. CASE /\ call[p].to \in ch.members
            /\ objects' = [objects EXCEPT ![o] = n]
            /\ row' = IF ch.owner \in ch.members THEN UpdateFlags(row, k, ch.owner) ELSE row
            /\ GoTo(p, "setOwnerNew")
  <2>1. /\ CallTypes' /\ call'[p].at = "setOwnerNew" /\ call'[p].to = call[p].to /\ call'[p].on = o
        /\ \A u \in Threads : u # p => call'[u] = call[u]
    BY <1>p, <1>2, <1>3, <1>10, GoesTo
  <2>2. /\ objects' \in [Objects -> ChannelRecord]
        /\ objects'[o] = n /\ \A u \in Objects : u # o => objects'[u] = objects[u]
    BY <1>2, <1>8, <1>10, ObjectMoves DEF ChatTypes
  <2>3. CASE ch.owner \in ch.members
    <3>1. row' \in RowRecord /\ Keeps(row, row') /\ FlagsWritten(row, row', k, ch.owner)
      BY <1>2, <1>7, <1>10, <2>3, FlagsAreWritten DEF ChatTypes
    <3>2. Works(p, o, n)
      BY <1>1, <1>2, <1>3, <1>8, <2>1, <2>2, <3>1 DEF Works, InServer
    <3>3. ChatTypes'
      BY <1>1, <2>2, <3>1 DEF ChatTypes
    <3>4. /\ row'.members = row.members
          /\ row.id # n.id => row' = row
          /\ ch.owner \notin row.members => row' = row
      BY <1>7, <1>8, <3>1 DEF FlagsWritten
    <3>5. ASSUME row.id = n.id, ch.owner \in row.members
          PROVE  /\ row'.flags["owner"] = row.flags["owner"] \ {ch.owner}
                 /\ \A x \in Roles \ {"owner"} :
                      row'.flags[x] = (row.flags[x] \ {ch.owner}) \cup (n.flags[x] \cap {ch.owner})
      <4>1. \A x \in Roles : row'.flags[x] = (row.flags[x] \ {ch.owner}) \cup (fl[x] \cap {ch.owner})
        BY <1>7, <1>8, <3>1, <3>5 DEF FlagsWritten
      <4>2. fl["owner"] \cap {ch.owner} = {}
        BY <1>6
      <4> QED
        BY <1>6, <1>8, <4>1, <4>2, RolesDistinct
    <3> QED
      BY <1>1, <1>2, <1>8, <1>10, <2>1, <2>3, <3>2, <3>3, <3>4, <3>5, Zenon
  <2>4. CASE ch.owner \notin ch.members
    <3>1. row' = row /\ Keeps(row, row')
      BY <1>10, <2>4 DEF Keeps
    <3>2. Works(p, o, n)
      BY <1>1, <1>2, <1>3, <1>8, <2>1, <2>2, <3>1 DEF Works, InServer
    <3>3. ChatTypes'
      BY <1>1, <2>2, <3>1 DEF ChatTypes
    <3> QED
      BY <1>1, <1>2, <1>8, <1>10, <2>1, <2>4, <3>1, <3>2, <3>3
  <2> QED
    BY <2>3, <2>4
<1> QED
  BY <1>5, <1>9, <1>10

\* The second half of SetOwner hands over in memory and in the rows, or gives
\* up with the rows damaged.
LEMMA SetOwnerNewEffect ==
  ASSUME ChatTypes, CallTypes, NEW p \in Players, SetOwnerNew(p)
  PROVE  /\ ChatTypes' /\ CallTypes' /\ expelled' = expelled /\ call[p].at = "setOwnerNew" /\ call'[p] = Idle
         /\ call[p].to \in Players
         /\ \E o \in Objects, n \in ChannelRecord :
              /\ Works(p, o, n) /\ n.members = objects[o].members /\ n.holder = NoOne
              /\ \/ /\ n.flags["owner"] = (objects[o].flags["owner"] \ {objects[o].owner}) \cup {call[p].to}
                    /\ \A x \in Roles \ {"owner"} : n.flags[x] = objects[o].flags[x]
                    /\ n.owner = call[p].to
                    /\ FlagsWritten(row, row', n, call[p].to) /\ damage' = damage
                 \/ n.flags = objects[o].flags /\ n.owner = objects[o].owner /\ row' = row /\ Hurts
<1>p. p \in Threads
  BY ListenerIsThread
<1> DEFINE o == call[p].on
           ch == objects[o]
           q == call[p].to
           fl == NewOwnerFlags(ch, q)
           n == [ch EXCEPT !.flags = fl, !.owner = q, !.holder = NoOne]
           m == [ch EXCEPT !.holder = NoOne]
<1>1. /\ call[p].at = "setOwnerNew" /\ server = "up" /\ Return(p)
      /\ UNCHANGED <<active, server, roll, known, lagging, expelled>>
  BY DEF SetOwnerNew, Quiet
<1>2. /\ o \in Objects /\ ch \in ChannelRecord /\ ch.flags \in Flags /\ ch.members \in SUBSET Players
      /\ \A x \in Roles : ch.flags[x] \in SUBSET Players
      /\ call[p].op = "setOwner" /\ WellFormed(p, call[p])
  BY <1>p, <1>1, HandlerObject DEF At, OnPlayer, OfChannel
<1>3. InServer(p) /\ ~Pending(p) /\ q \in Players
  BY <1>1, <1>2 DEF InServer, Pending, WellFormed, OnPlayer
<1>4. CallTypes' /\ call'[p] = Idle /\ \A u \in Threads : u # p => call'[u] = call[u]
  BY <1>p, <1>1, Returns
<1>5. \/ objects' = [objects EXCEPT ![o] = n] /\ row' = UpdateFlags(row, n, q) /\ damage' = damage
      \/ objects' = [objects EXCEPT ![o] = m] /\ row' = row /\ Damaged
  BY <1>2 DEF SetOwnerNew, ChatTypes
<1>6. /\ fl \in Flags /\ fl["owner"] = (ch.flags["owner"] \ {ch.owner}) \cup {q}
      /\ \A x \in Roles \ {"owner"} : fl[x] = ch.flags[x]
  BY <1>2, <1>3, RolesDistinct DEF Flags, NewOwnerFlags
<1> HIDE DEF fl
<1>7. /\ n \in ChannelRecord /\ n.members = ch.members /\ n.flags = fl /\ n.owner = q
      /\ n.holder = NoOne /\ n.id = ch.id
      /\ n.banned = ch.banned /\ n.password = ch.password /\ n.announce = ch.announce
  BY <1>2, <1>3, <1>6 DEF ChannelRecord
<1>8. /\ m \in ChannelRecord /\ m.members = ch.members /\ m.flags = ch.flags /\ m.owner = ch.owner
      /\ m.holder = NoOne /\ m.id = ch.id
      /\ m.banned = ch.banned /\ m.password = ch.password /\ m.announce = ch.announce
  BY <1>2 DEF ChannelRecord
<1> HIDE DEF n, m
<1>9. CASE objects' = [objects EXCEPT ![o] = n] /\ row' = UpdateFlags(row, n, q) /\ damage' = damage
  <2>1. /\ objects' \in [Objects -> ChannelRecord]
        /\ objects'[o] = n /\ \A u \in Objects : u # o => objects'[u] = objects[u]
    BY <1>2, <1>7, <1>9, ObjectMoves DEF ChatTypes
  <2>2. row' \in RowRecord /\ Keeps(row, row') /\ FlagsWritten(row, row', n, q)
    BY <1>3, <1>7, <1>9, FlagsAreWritten DEF ChatTypes
  <2>3. Works(p, o, n)
    BY <1>1, <1>2, <1>3, <1>4, <1>7, <2>1, <2>2 DEF Works, InServer, Idle
  <2>4. ChatTypes'
    BY <1>1, <2>1, <2>2 DEF ChatTypes
  <2> QED
    BY <1>1, <1>2, <1>3, <1>4, <1>6, <1>7, <1>9, <2>2, <2>3, <2>4
<1>10. CASE objects' = [objects EXCEPT ![o] = m] /\ row' = row /\ Damaged
  <2>1. /\ objects' \in [Objects -> ChannelRecord]
        /\ objects'[o] = m /\ \A u \in Objects : u # o => objects'[u] = objects[u]
    BY <1>2, <1>8, <1>10, ObjectMoves DEF ChatTypes
  <2>2. row' \in RowRecord /\ Keeps(row, row') /\ Hurts
    BY <1>10 DEF ChatTypes, Keeps, Hurts, Damaged
  <2>3. Works(p, o, m)
    BY <1>1, <1>2, <1>3, <1>4, <1>8, <2>1, <2>2 DEF Works, InServer, Idle
  <2>4. ChatTypes'
    BY <1>1, <2>1, <2>2 DEF ChatTypes
  <2> QED
    BY <1>1, <1>2, <1>3, <1>4, <1>8, <1>10, <2>2, <2>3, <2>4
<1> QED
  BY <1>5, <1>9, <1>10

\* The listener hands the channel of p, who logged out, to an heir.
HandsOver(o, n, p, heir) ==
  /\ Works(Listener, o, n)
  /\ p \in objects[o].members \cap objects[o].flags["owner"]
  /\ heir \in Heirs(objects[o], objects[o].members \ {p})
  /\ n.members = objects[o].members
  /\ n.flags["owner"] = (objects[o].flags["owner"] \ {p}) \cup {heir}
  /\ \A x \in Roles \ {"owner"} : n.flags[x] = objects[o].flags[x]
  /\ n.owner = heir /\ n.holder = Listener
  /\ call'[Listener].at = "heir" /\ call'[Listener].with = heir /\ call'[Listener].on = o
  /\ \/ FlagsWritten(row, row', n, p) /\ damage' = damage
     \/ row' = row /\ Hurts

\* On a logout an owner with other members is followed by an heir whose flag is
\* still to be written.
LEMMA TransferEffect ==
  ASSUME ChatTypes, CallTypes, TransferOwnershipOnLogout
  PROVE  /\ ChatTypes' /\ CallTypes' /\ Unlocked(call[Listener].on) /\ expelled' = expelled
         /\ call[Listener].at = "logout" /\ call'[Listener].to = call[Listener].to
         /\ call'[Listener].at \in {"remove", "heir"}
         /\ \/ Passes(Listener)
            \/ \E o \in Objects, n \in ChannelRecord, p \in Players, heir \in Players : HandsOver(o, n, p, heir)
<1>p. Listener \in Threads
  BY ListenerIsThread
<1> DEFINE o == call[Listener].on
           ch == objects[o]
           p == call[Listener].to
           others == ch.members \ {p}
           Handed(q) == [ch EXCEPT !.flags["owner"] = (@ \ {p}) \cup {q}, !.owner = q, !.holder = Listener]
<1>1. /\ call[Listener].at = "logout" /\ server = "up" /\ Unlocked(o)
      /\ UNCHANGED <<active, server, roll, known, lagging, expelled>>
  BY Zenon DEF TransferOwnershipOnLogout, Enter, Quiet
<1>2. /\ o \in Objects /\ ch \in ChannelRecord /\ ch.flags \in Flags /\ ch.members \in SUBSET Players
      /\ \A x \in Roles : ch.flags[x] \in SUBSET Players
      /\ call[Listener].op = "logout" /\ WellFormed(Listener, call[Listener]) /\ call[Listener] \in CallRecord
  BY <1>p, <1>1, HandlerObject DEF At, OnPlayer, OfChannel
<1>3. /\ InServer(Listener) /\ ~Writes(Listener) /\ ~Pending(Listener) /\ p \in Players
      /\ At(call[Listener].op, "remove") /\ At(call[Listener].op, "heir")
  BY <1>1, <1>2 DEF InServer, Writes, Pending, WellFormed, At
<1>4. \/ GoTo(Listener, "remove") /\ UNCHANGED <<objects, row, damage>>
      \/ /\ p \in ch.members \cap ch.flags["owner"]
         /\ \E heir \in Heirs(ch, others) :
                /\ objects' = [objects EXCEPT ![o] = Handed(heir)]
                /\ call' = [call EXCEPT ![Listener].at = "heir", ![Listener].with = heir]
                /\ \/ row' = UpdateFlags(row, Handed(heir), p) /\ damage' = damage
                   \/ Damaged /\ row' = row
  BY Zenon DEF TransferOwnershipOnLogout
<1>5. CASE GoTo(Listener, "remove") /\ UNCHANGED <<objects, row, damage>>
  <2>1. /\ CallTypes' /\ call'[Listener].at = "remove" /\ call'[Listener].to = p /\ call'[Listener].on = o
        /\ \A u \in Threads : u # Listener => call'[u] = call[u]
    BY <1>p, <1>2, <1>3, <1>5, GoesTo
  <2>2. Passes(Listener)
    BY <1>1, <1>3, <1>5, <2>1, PassesKept DEF Passes, InServer
  <2> QED
    BY <1>1, <1>5, <2>1, <2>2 DEF ChatTypes
<1>6. CASE /\ p \in ch.members \cap ch.flags["owner"]
           /\ \E heir \in Heirs(ch, others) :
                /\ objects' = [objects EXCEPT ![o] = Handed(heir)]
                /\ call' = [call EXCEPT ![Listener].at = "heir", ![Listener].with = heir]
                /\ \/ row' = UpdateFlags(row, Handed(heir), p) /\ damage' = damage
                   \/ Damaged /\ row' = row
  <2>1. PICK heir \in Heirs(ch, others) :
                /\ objects' = [objects EXCEPT ![o] = Handed(heir)]
                /\ call' = [call EXCEPT ![Listener].at = "heir", ![Listener].with = heir]
                /\ \/ row' = UpdateFlags(row, Handed(heir), p) /\ damage' = damage
                   \/ Damaged /\ row' = row
    BY <1>6, Zenon
  <2> DEFINE fh == [ch.flags EXCEPT !["owner"] = (ch.flags["owner"] \ {p}) \cup {heir}]
             n == [ch EXCEPT !.flags = fh, !.owner = heir, !.holder = Listener]
             c == [call[Listener] EXCEPT !.at = "heir", !.with = heir]
  <2>2. heir \in Players
    BY <1>2, HeirsStay
  <2>3. Handed(heir) = n
    BY <1>2, RolesDistinct DEF ChannelRecord, Flags
  <2>4. /\ fh \in Flags /\ fh["owner"] = (ch.flags["owner"] \ {p}) \cup {heir}
        /\ \A x \in Roles \ {"owner"} : fh[x] = ch.flags[x]
    BY <1>2, <2>2, RolesDistinct DEF Flags
  <2> HIDE DEF fh
  <2>5. /\ n \in ChannelRecord /\ n.members = ch.members /\ n.flags = fh /\ n.owner = heir /\ n.holder = Listener
        /\ n.id = ch.id /\ n.banned = ch.banned /\ n.password = ch.password /\ n.announce = ch.announce
    BY <1>p, <1>2, <2>2, <2>4 DEF ChannelRecord
  <2> HIDE DEF n, Handed
  <2>6. call' = [call EXCEPT ![Listener] = c]
    BY <1>p, <2>1 DEF CallTypes
  <2>7. /\ c \in CallRecord /\ c.at = "heir" /\ c.with = heir /\ c.op = call[Listener].op
        /\ c.to = call[Listener].to /\ c.on = o /\ At(c.op, c.at)
    BY <1>2, <1>3, <2>2 DEF CallRecord, Carried
  <2> HIDE DEF c
  <2>8. CallTypes' /\ call'[Listener] = c /\ \A u \in Threads : u # Listener => call'[u] = call[u]
    BY <1>p, <1>2, <2>2, <2>6, <2>7, Goes
  <2>9. /\ objects' \in [Objects -> ChannelRecord]
        /\ objects'[o] = n /\ \A u \in Objects : u # o => objects'[u] = objects[u]
    BY <1>2, <2>1, <2>3, <2>5, ObjectMoves DEF ChatTypes
  <2>10. /\ row' \in RowRecord /\ Keeps(row, row')
         /\ \/ FlagsWritten(row, row', n, p) /\ damage' = damage
            \/ row' = row /\ Hurts
    <3>1. CASE row' = UpdateFlags(row, Handed(heir), p) /\ damage' = damage
      BY <1>3, <2>3, <2>5, <3>1, FlagsAreWritten DEF ChatTypes
    <3>2. CASE Damaged /\ row' = row
      BY <3>2 DEF ChatTypes, Keeps, Hurts, Damaged
    <3> QED
      BY <2>1, <3>1, <3>2
  <2>11. Works(Listener, o, n)
    BY <1>1, <1>2, <1>3, <2>5, <2>7, <2>8, <2>9, <2>10 DEF Works, InServer
  <2>12. ChatTypes'
    BY <1>1, <2>9, <2>10 DEF ChatTypes
  <2>13. HandsOver(o, n, p, heir)
    BY <1>6, <2>4, <2>5, <2>7, <2>8, <2>10, <2>11 DEF HandsOver
  <2> QED
    BY <1>1, <1>2, <1>3, <2>2, <2>5, <2>7, <2>8, <2>12, <2>13
<1> QED
  BY <1>4, <1>5, <1>6, Zenon

-----------------------------------------------------------------------------
(* Creation, clean-up, crash and start                                     *)

\* The object chosen for a new channel is one nothing points to.
LEMMA SpareIsReusable ==
  ASSUME \E o \in Objects : Reusable(o)
  PROVE  Spare \in Objects /\ Reusable(Spare)
  BY DEF Spare

\* A join of an active channel starts a call on it and changes nothing else.
LEMMA JoinExisting ==
  ASSUME ChatTypes, CallTypes, NEW p \in Players, HandleJoinChannel(p), active # 0
  PROVE  /\ UNCHANGED <<chat, presence, gateway, faults, history>> /\ Input
         /\ active \in Objects /\ server = "up" /\ call[p] = Idle
         /\ CallTypes' /\ \A u \in Threads : u # p => call'[u] = call[u]
         /\ call'[p].op = "join" /\ call'[p].at = "join" /\ call'[p].on = active
<1>1. PICK pw \in Passwords : GetOrCreateChannel(p, pw)
  BY DEF HandleJoinChannel
<1>2. /\ Begin(p, "join", "join", active, NoOne, pw) /\ active \in Objects
      /\ UNCHANGED <<chat, presence, gateway, faults, history>>
  BY <1>1 DEF GetOrCreateChannel, chat, history, ChatTypes
<1>3. pw \in Carried /\ "join" \notin OnPlayer
  BY DEF Carried, OnPlayer
<1>4. /\ CallTypes' /\ call'[p].op = "join" /\ call'[p].at = "join" /\ call'[p].on = active
      /\ \A u \in Threads : u # p => call'[u] = call[u]
  BY <1>2, <1>3, Begins
<1> QED
  BY <1>2, <1>4 DEF Begin

\* The channel is loaded from the rows, or created in MySQL and loaded.
Creates(p, o) ==
  /\ active = 0 /\ server = "up" /\ call[p] = Idle /\ Reusable(o)
  /\ active' = o /\ server' = server
  /\ \A u \in Objects : u # o => objects'[u] = objects[u]
  /\ objects'[o] \in Loaded(row')
  /\ row.listed => row' = row
  /\ ~row.listed => row'.listed /\ row'.id = row.id + 1 /\ row'.members = {} /\ row'.flags = NoRoles
  /\ damage' = IF ~row.listed THEN "none" ELSE IF damage = "rows" THEN "memory" ELSE damage
  /\ lagging' = (lagging \/ WritePending(Players))
  /\ expelled' = IF row.listed THEN expelled ELSE Players
  /\ call'[p].op = "join" /\ call'[p].at = "join" /\ call'[p].on = o
  /\ \A u \in Threads : u # p => call'[u] = call[u]

\* A join without an active channel loads the rows or creates them, and starts
\* a call on the new object.
LEMMA JoinNew ==
  ASSUME ChatTypes, CallTypes, NEW p \in Players, HandleJoinChannel(p), active = 0
  PROVE  /\ ChatTypes' /\ CallTypes' /\ Input /\ UNCHANGED <<roll, known, presence, gateway, faults, crossed>>
         /\ \E o \in Objects : Creates(p, o)
<1>1. PICK pw \in Passwords : GetOrCreateChannel(p, pw)
  BY DEF HandleJoinChannel
<1>2. (\E o \in Objects : Reusable(o)) /\ Begin(p, "join", "join", Spare, NoOne, pw)
  BY <1>1 DEF GetOrCreateChannel
<1>3. Spare \in Objects /\ Reusable(Spare)
  BY <1>2, SpareIsReusable
<1>4. PICK o \in Objects : o = Spare
  BY <1>3
<1>5. pw \in Carried /\ "join" \notin OnPlayer
  BY DEF Carried, OnPlayer
<1>6. Begin(p, "join", "join", o, NoOne, pw) /\ Reusable(o)
  BY <1>2, <1>3, <1>4
<1>7. /\ CallTypes' /\ call'[p].op = "join" /\ call'[p].at = "join" /\ call'[p].on = o
      /\ \A u \in Threads : u # p => call'[u] = call[u]
  BY <1>5, <1>6, Begins
<1>8. /\ row' = IF row.listed THEN row ELSE NewRow(row.id + 1, pw)
      /\ \E ch \in Loaded(row') : objects' = [objects EXCEPT ![o] = ch]
      /\ active' = o
      /\ damage' = IF ~row.listed THEN "none" ELSE IF damage = "rows" THEN "memory" ELSE damage
      /\ lagging' = (lagging \/ WritePending(Players))
      /\ expelled' = IF row.listed THEN expelled ELSE Players
      /\ UNCHANGED <<server, roll, known, presence, gateway, faults, crossed>>
  BY <1>1, <1>4 DEF GetOrCreateChannel
<1>9. row \in RowRecord /\ row.id \in Nat /\ row.id + 1 \in Nat
  BY DEF ChatTypes, RowRecord
<1>10. /\ row' \in RowRecord
       /\ ~row.listed => row'.listed /\ row'.id = row.id + 1 /\ row'.members = {} /\ row'.flags = NoRoles
  BY <1>8, <1>9, NewRowType
<1>11. PICK ch \in Loaded(row') : objects' = [objects EXCEPT ![o] = ch]
  BY <1>8
<1>12. ch \in ChannelRecord
  BY <1>10, <1>11, LoadedType
<1>13. /\ objects' \in [Objects -> ChannelRecord]
       /\ objects'[o] = ch /\ \A u \in Objects : u # o => objects'[u] = objects[u]
  BY <1>11, <1>12, ObjectMoves DEF ChatTypes
<1>14. ChatTypes'
  BY <1>8, <1>10, <1>13 DEF ChatTypes
<1>15. Input /\ server = "up" /\ call[p] = Idle
  BY <1>6 DEF Begin
<1>16. Creates(p, o)
  BY <1>6, <1>7, <1>8, <1>10, <1>11, <1>13, <1>15 DEF Creates
<1> QED
  BY <1>7, <1>8, <1>14, <1>15, <1>16

\* A crash ends the calls in the server and empties its memory; the rows stay.
LEMMA CrashEffect ==
  ASSUME ChatTypes, CallTypes, Crash
  PROVE  /\ ChatTypes' /\ CallTypes' /\ active' = 0 /\ server' = "down" /\ row' = row
         /\ objects' = [o \in Objects |-> Unused]
         /\ damage' = IF damage # "none" \/ server = "heir" \/ \E o \in Objects : objects[o].holder # NoOne
                      THEN "memory" ELSE "none"
         /\ lagging' = (lagging \/ WritePending(Players))
         /\ expelled' = expelled \cup (Players \ (IF row.listed THEN row.members ELSE {}))
         /\ \A t \in Threads : /\ call'[t].on = 0
                               /\ IF call[t].at \in {"joined", "left"} THEN call'[t].at = call[t].at
                                                                       ELSE call'[t] = Idle
<1>1. /\ active' = 0 /\ server' = "down" /\ row' = row /\ roll' = roll /\ known' = {}
      /\ objects' = [o \in Objects |-> Unused]
      /\ damage' = IF damage # "none" \/ server = "heir" \/ \E o \in Objects : objects[o].holder # NoOne
                      THEN "memory" ELSE "none"
      /\ lagging' = (lagging \/ WritePending(Players))
      /\ expelled' = expelled \cup (Players \ (IF row.listed THEN row.members ELSE {}))
      /\ call' = [t \in Threads |-> IF call[t].at \in {"joined", "left"} THEN [call[t] EXCEPT !.on = 0] ELSE Idle]
  BY DEF Crash
<1>2. ASSUME NEW t \in Threads
      PROVE  /\ call'[t] \in CallRecord /\ WellFormed(t, call'[t]) /\ call'[t].on = 0
             /\ IF call[t].at \in {"joined", "left"} THEN call'[t].at = call[t].at ELSE call'[t] = Idle
  <2>1. CASE call[t].at \in {"joined", "left"}
    <3> DEFINE c == [call[t] EXCEPT !.on = 0]
    <3>1. call[t] \in CallRecord /\ WellFormed(t, call[t]) /\ call'[t] = c
      BY <1>1, <2>1 DEF CallTypes
    <3>2. /\ c \in CallRecord /\ c.on = 0 /\ c.at = call[t].at /\ c.op = call[t].op
          /\ c.to = call[t].to /\ c.with = call[t].with
      BY <3>1 DEF CallRecord
    <3> HIDE DEF c
    <3>3. WellFormed(t, c)
      BY <2>1, <3>1, <3>2 DEF WellFormed
    <3> QED
      BY <2>1, <3>1, <3>2, <3>3
  <2>2. CASE call[t].at \notin {"joined", "left"}
    <3>1. call'[t] = Idle
      BY <1>1, <2>2
    <3> QED
      BY <2>2, <3>1, IdleCall DEF Idle
  <2> QED
    BY <2>1, <2>2
<1>3. CallTypes'
  <2>1. call' \in [Threads -> CallRecord]
    BY <1>1, <1>2
  <2> QED
    BY <1>2, <2>1 DEF CallTypes, WellFormed
<1>4. ChatTypes'
  BY <1>1, UnusedType DEF ChatTypes
<1> QED
  BY <1>1, <1>2, <1>3, <1>4

\* The start loads the channel if its row is listed.
LEMMA PreloadEffect ==
  ASSUME ChatTypes, CallTypes, Preload
  PROVE  /\ ChatTypes' /\ CallTypes' /\ UNCHANGED <<row, call, damage, lagging, expelled>>
         /\ server = "down" /\ server' \in {"preloaded", "up"}
         /\ \/ /\ row.listed /\ active' = 1 /\ objects'[1] \in Loaded(row)
               /\ \A u \in Objects : u # 1 => objects'[u] = objects[u]
            \/ ~row.listed /\ UNCHANGED <<active, objects>>
<1>1. /\ UNCHANGED <<row, known, call, damage, lagging, expelled>>
      /\ server = "down" /\ server' \in {"preloaded", "up"}
      /\ roll' = Online \/ roll' = roll
  BY DEF Preload, history
<1>2. Online \in SUBSET Players /\ row \in RowRecord /\ 1 \in Objects
  BY DEF Online, ChatTypes, Objects
<1>3. CASE row.listed
  <2>1. PICK ch \in Loaded(row) : active' = 1 /\ objects' = [objects EXCEPT ![1] = ch]
    BY <1>3 DEF Preload
  <2>2. ch \in ChannelRecord
    BY <1>2, <2>1, LoadedType
  <2>3. /\ objects' \in [Objects -> ChannelRecord]
        /\ objects'[1] = ch /\ \A u \in Objects : u # 1 => objects'[u] = objects[u]
    BY <1>2, <2>1, <2>2, ObjectMoves DEF ChatTypes
  <2> QED
    BY <1>1, <1>2, <1>3, <2>1, <2>3 DEF ChatTypes, CallTypes
<1>4. CASE ~row.listed
  <2>1. UNCHANGED <<active, objects>>
    BY <1>4 DEF Preload
  <2> QED
    BY <1>1, <1>2, <1>4, <2>1 DEF ChatTypes, CallTypes
<1> QED
  BY <1>3, <1>4

\* The members who are offline go, with their rows or all but one of them.
Prunes(n, offline) ==
  LET ch == objects[active]
  IN /\ offline = ch.members \ roll
     /\ n.id = ch.id /\ n.holder = ch.holder
     /\ n.banned = ch.banned /\ n.password = ch.password /\ n.announce = ch.announce
     /\ n.members = ch.members \ offline
     /\ \A x \in Roles \ {"owner"} : n.flags[x] = ch.flags[x] \ offline
     /\ objects'[active] = n /\ \A u \in Objects : u # active => objects'[u] = objects[u]
     /\ Keeps(row, row')
     /\ expelled' = expelled \cup offline
     /\ \A x \in Roles : row.flags[x] \subseteq row.members => row'.flags[x] \subseteq row'.members
     /\ \/ /\ damage' = damage
           /\ row.id = ch.id => row'.members = row.members \ offline /\ \A x \in Roles : row'.flags[x] = row.flags[x] \ offline
        \/ Hurts
     /\ \/ /\ n.flags["owner"] = ch.flags["owner"] \ offline
           /\ \/ n.owner = ch.owner /\ (ch.owner = NoOne \/ ch.owner \in roll)
              \/ n.members = {}
           /\ server' = "up"
        \/ /\ ch.owner # NoOne /\ ch.owner \notin roll
           /\ n.owner \in Heirs(ch, n.members)
           /\ n.flags["owner"] = (ch.flags["owner"] \ offline) \cup {n.owner}
           /\ server' = "heir"

\* Pruning takes the offline members out, with an heir to be written if the
\* owner was one.
LEMMA PruneEffect ==
  ASSUME ChatTypes, CallTypes, PruneOfflineMembers
  PROVE  /\ ChatTypes' /\ CallTypes' /\ UNCHANGED <<active, roll, call, lagging>> /\ server = "preloaded"
         /\ \/ active = 0 /\ server' = "up" /\ UNCHANGED <<objects, row, damage, expelled>>
            \/ active \in Objects /\ \E n \in ChannelRecord, offline \in SUBSET Players : Prunes(n, offline)
<1>1. UNCHANGED <<active, roll, known, call, lagging>> /\ server = "preloaded"
  BY Zenon DEF PruneOfflineMembers
<1>2. CallTypes'
  BY <1>1 DEF CallTypes
<1>3. CASE active = 0
  <2>1. server' = "up" /\ UNCHANGED <<objects, row, damage, expelled>>
    BY <1>3 DEF PruneOfflineMembers
  <2> QED
    BY <1>1, <1>2, <1>3, <2>1 DEF ChatTypes
<1>4. CASE active # 0
  <2> DEFINE ch == objects[active]
             offline == ch.members \ roll
             fl == Without(ch.flags, offline)
             left == [ch EXCEPT !.members = @ \ offline, !.flags = Without(@, offline)]
             l == [ch EXCEPT !.members = ch.members \ offline, !.flags = fl]
             lost == ch.owner # NoOne /\ ch.owner \notin roll
  <2>1. /\ active \in Objects /\ ch \in ChannelRecord /\ ch.flags \in Flags /\ ch.members \in SUBSET Players
        /\ \A x \in Roles : ch.flags[x] \in SUBSET Players
    BY <1>4 DEF ChatTypes, ChannelRecord, Flags
  <2>2. left = l
    BY <2>1 DEF ChannelRecord
  <2>3. offline \in SUBSET Players
    BY <2>1
  <2>4. /\ \/ row' = RemoveMembers(row, ch, offline) /\ damage' = damage
           \/ \E q \in offline : Damaged /\ row' = RemoveMembers(row, ch, offline \ {q})
        /\ expelled' = expelled \cup offline
        /\ \/ /\ ~(lost /\ l.members # {})
              /\ objects' = [objects EXCEPT ![active] = [l EXCEPT !.owner = IF lost THEN NoOne ELSE @]]
              /\ server' = "up"
           \/ /\ lost
              /\ \E heir \in Heirs(ch, l.members) :
                     /\ objects' = [objects EXCEPT ![active] = [l EXCEPT !.flags = With(@, "owner", heir),
                                                                         !.owner = heir]]
                     /\ server' = "heir"
    BY <1>4, <2>2, Zenon DEF PruneOfflineMembers
  <2>5. fl \in Flags /\ \A x \in Roles : fl[x] = ch.flags[x] \ offline
    BY <2>1, WithoutFlags
  <2> HIDE DEF fl
  <2>6. /\ l \in ChannelRecord /\ l.members = ch.members \ offline /\ l.flags = fl /\ l.owner = ch.owner
        /\ l.holder = ch.holder /\ l.id = ch.id
        /\ l.banned = ch.banned /\ l.password = ch.password /\ l.announce = ch.announce
    BY <2>1, <2>5 DEF ChannelRecord
  <2> HIDE DEF l
  <2>7. /\ row' \in RowRecord /\ Keeps(row, row')
        /\ \A x \in Roles : row.flags[x] \subseteq row.members => row'.flags[x] \subseteq row'.members
        /\ \/ /\ damage' = damage
              /\ row.id = ch.id => row'.members = row.members \ offline /\ \A x \in Roles : row'.flags[x] = row.flags[x] \ offline
           \/ Hurts
    <3>0. row \in RowRecord
      BY DEF ChatTypes
    <3>1. ASSUME NEW gone, row' = RemoveMembers(row, ch, gone)
          PROVE  /\ row' \in RowRecord /\ Keeps(row, row')
                 /\ \A x \in Roles : row.flags[x] \subseteq row.members => row'.flags[x] \subseteq row'.members
                 /\ row.id = ch.id => row'.members = row.members \ gone /\ \A x \in Roles : row'.flags[x] = row.flags[x] \ gone
      <4>1. /\ row' \in RowRecord /\ Keeps(row, row') /\ (row.id # ch.id => row' = row)
            /\ row.id = ch.id => row'.members = row.members \ gone /\ \A x \in Roles : row'.flags[x] = row.flags[x] \ gone
        BY <2>1, <3>0, <3>1, RemoveMembersRow
      <4>2. \A x \in Roles : row.flags[x] \subseteq row.members => row'.flags[x] \subseteq row'.members
        <5>1. CASE row.id # ch.id
          BY <4>1, <5>1
        <5>2. CASE row.id = ch.id
          BY <4>1, <5>2
        <5> QED
          BY <5>1, <5>2
      <4> QED
        BY <4>1, <4>2
    <3>2. CASE row' = RemoveMembers(row, ch, offline) /\ damage' = damage
      BY <3>1, <3>2
    <3>3. CASE \E q \in offline : Damaged /\ row' = RemoveMembers(row, ch, offline \ {q})
      BY <3>1, <3>3 DEF Damaged, Hurts
    <3> QED
      BY <2>4, <3>2, <3>3, Zenon
  <2>8. CASE /\ ~(lost /\ l.members # {})
             /\ objects' = [objects EXCEPT ![active] = [l EXCEPT !.owner = IF lost THEN NoOne ELSE @]]
             /\ server' = "up"
    <3> DEFINE w == IF lost THEN NoOne ELSE ch.owner
               n == [l EXCEPT !.owner = w]
    <3>1. w \in Players \cup {NoOne} /\ (w = ch.owner \/ l.members = {}) /\ (w # ch.owner => l.members = {})
          /\ (l.members # {} => w = ch.owner /\ (ch.owner = NoOne \/ ch.owner \in roll))
      BY <2>1, <2>8 DEF ChannelRecord
    <3>2. objects' = [objects EXCEPT ![active] = n]
      BY <2>6, <2>8 DEF ChannelRecord
    <3> HIDE DEF w
    <3>3. /\ n \in ChannelRecord /\ n.members = l.members /\ n.flags = fl /\ n.owner = w
          /\ n.holder = ch.holder /\ n.id = ch.id
          /\ n.banned = ch.banned /\ n.password = ch.password /\ n.announce = ch.announce
      BY <2>6, <3>1 DEF ChannelRecord
    <3> HIDE DEF n
    <3>4. /\ objects' \in [Objects -> ChannelRecord]
          /\ objects'[active] = n /\ \A u \in Objects : u # active => objects'[u] = objects[u]
      BY <2>1, <3>2, <3>3, ObjectMoves DEF ChatTypes
    <3>5. Prunes(n, offline)
      BY <2>4, <2>5, <2>6, <2>7, <2>8, <3>1, <3>3, <3>4, RolesDistinct DEF Prunes
    <3>6. ChatTypes'
      BY <1>1, <2>7, <2>8, <3>4 DEF ChatTypes
    <3> QED
      BY <1>1, <1>2, <2>1, <2>3, <3>3, <3>5, <3>6
  <2>9. CASE /\ lost
             /\ \E heir \in Heirs(ch, l.members) :
                     /\ objects' = [objects EXCEPT ![active] = [l EXCEPT !.flags = With(@, "owner", heir),
                                                                         !.owner = heir]]
                     /\ server' = "heir"
    <3>1. PICK heir \in Heirs(ch, l.members) :
                     /\ objects' = [objects EXCEPT ![active] = [l EXCEPT !.flags = With(@, "owner", heir),
                                                                         !.owner = heir]]
                     /\ server' = "heir"
      BY <2>9, Zenon
    <3> DEFINE fh == With(fl, "owner", heir)
               n == [l EXCEPT !.flags = fh, !.owner = heir]
    <3>2. heir \in Players
      BY <2>1, <2>6, HeirsStay
    <3>3. /\ fh \in Flags /\ fh["owner"] = fl["owner"] \cup {heir}
          /\ \A x \in Roles : x # "owner" => fh[x] = fl[x]
      BY <2>5, <3>2, RolesDistinct, WithFlag
    <3>4. objects' = [objects EXCEPT ![active] = n]
      BY <2>6, <3>1 DEF ChannelRecord
    <3> HIDE DEF fh
    <3>5. /\ n \in ChannelRecord /\ n.members = l.members /\ n.flags = fh /\ n.owner = heir
          /\ n.holder = ch.holder /\ n.id = ch.id
          /\ n.banned = ch.banned /\ n.password = ch.password /\ n.announce = ch.announce
      BY <2>6, <3>2, <3>3 DEF ChannelRecord
    <3> HIDE DEF n
    <3>6. /\ objects' \in [Objects -> ChannelRecord]
          /\ objects'[active] = n /\ \A u \in Objects : u # active => objects'[u] = objects[u]
      BY <2>1, <3>4, <3>5, ObjectMoves DEF ChatTypes
    <3>7. Prunes(n, offline)
      BY <2>4, <2>5, <2>6, <2>7, <2>9, <3>1, <3>3, <3>5, <3>6, RolesDistinct, Zenon DEF Prunes
    <3>8. ChatTypes'
      BY <1>1, <2>7, <3>1, <3>6 DEF ChatTypes
    <3> QED
      BY <1>1, <1>2, <2>1, <2>3, <3>5, <3>7, <3>8
  <2> QED
    BY <2>4, <2>8, <2>9, Zenon
<1> QED
  BY <1>3, <1>4

\* The flag of the heir found while pruning is written, or the write is lost.
LEMMA PersistPruneHeirEffect ==
  ASSUME ChatTypes, CallTypes, active \in Objects, PersistPruneHeir
  PROVE  /\ ChatTypes' /\ CallTypes' /\ UNCHANGED <<objects, active, roll, call, lagging, expelled>>
         /\ server = "heir" /\ server' = "up" /\ Keeps(row, row')
         /\ \/ FlagsWritten(row, row', objects[active], objects[active].owner) /\ damage' = damage
            \/ row' = row /\ Hurts
<1> DEFINE ch == objects[active]
<1>1. /\ UNCHANGED <<objects, active, roll, known, call, lagging, expelled>> /\ server = "heir" /\ server' = "up"
      /\ \/ row' = UpdateFlags(row, ch, ch.owner) /\ damage' = damage
         \/ Damaged /\ row' = row
  BY DEF PersistPruneHeir
<1>2. row \in RowRecord /\ ch \in ChannelRecord /\ ch.owner \in Players \cup {NoOne} /\ row.members \in SUBSET Players
  BY DEF ChatTypes, ChannelRecord, RowRecord
<1>3. CASE row' = UpdateFlags(row, ch, ch.owner) /\ damage' = damage
  <2>1. CASE ch.owner \in Players
    <3>1. row' \in RowRecord /\ Keeps(row, row') /\ FlagsWritten(row, row', ch, ch.owner)
      BY <1>2, <1>3, <2>1, FlagsAreWritten
    <3> QED
      BY <1>1, <1>3, <3>1 DEF ChatTypes, CallTypes
  <2>2. CASE ch.owner = NoOne
    <3>1. ch.owner \notin row.members
      BY <1>2, <2>2, PlayersAssumption
    <3>2. row' = row
      BY <1>3, <3>1 DEF UpdateFlags
    <3>3. Keeps(row, row') /\ FlagsWritten(row, row', ch, ch.owner)
      BY <3>1, <3>2 DEF Keeps, FlagsWritten
    <3> QED
      BY <1>1, <1>3, <3>2, <3>3 DEF ChatTypes, CallTypes
  <2> QED
    BY <1>2, <2>1, <2>2
<1>4. CASE Damaged /\ row' = row
  BY <1>1, <1>4 DEF ChatTypes, CallTypes, Keeps, Hurts, Damaged
<1> QED
  BY <1>1, <1>3, <1>4

-----------------------------------------------------------------------------
(* The steps, and which of them leave the channel alone                    *)

SettingsStep(p) ==
  \/ BanInMemory(p) \/ WriteChannelBan(p) \/ SetPassword(p) \/ ToggleAnnouncements(p) \/ SnapshotSettings(p)
  \/ WriteSettings(p) \/ ToggleModeration(p)

Listening == CharacterLoggedIn \/ CharacterLoggedOut \/ RemoveCharacter

\* The steps, grouped the way the proofs treat them.
LEMMA StepCases ==
  ASSUME Next
  PROVE  \/ \E p \in Players :
              \/ Requests(p) \/ HandleJoinChannel(p) \/ GatewayStep(p) \/ SettingsStep(p)
              \/ JoinChannel(p) \/ LeaveChannel(p) \/ SetFlag(p) \/ SetOwnerOld(p) \/ SetOwnerNew(p)
         \/ \E t \in Threads : PersistHeir(t)
         \/ Listening \/ TransferOwnershipOnLogout
         \/ Preload \/ PruneOfflineMembers \/ PersistPruneHeir \/ Broadcast
         \/ CleanupLocalMemory \/ CleanOldChannels \/ Crash
<1>1. CASE \E p \in Players : Packet(p)
  BY <1>1 DEF Packet, Requests, GatewayStep
<1>2. CASE \E p \in Players : Step(p)
  BY <1>2, ListenerIsThread DEF Step, GatewayStep, SettingsStep
<1>3. CASE CharacterLoggedIn \/ ListenerStep \/ Start
  BY <1>3, ListenerIsThread DEF ListenerStep, Listening, Start
<1> QED
  BY <1>1, <1>2, <1>3 DEF Next, Progress

\* The steps that change neither members nor roles, but for a refused or failed call.
LEMMA KeepsIfSame ==
  ASSUME ChatTypes, CallTypes, CallTypes', NEW t \in Threads,
         UNCHANGED <<active, server, damage>>,
         \A o \in Objects : Same(objects[o], objects'[o]),
         row'.id = row.id, row'.members = row.members, row'.flags = row.flags, row'.listed => row.listed,
         server # "up" => objects' = objects /\ row' = row,
         \A u \in Threads : u # t => call'[u] = call[u],
         ~Writes(t), ~Writes(t)', InServer(t)' => InServer(t) \/ server = "up"
  PROVE  KeepsChannel
<1>1. \A u \in Threads : Writes(u) \/ Writes(u)' => call'[u] = call[u]
  <2> SUFFICES ASSUME NEW u \in Threads, Writes(u) \/ Writes(u)' PROVE call'[u] = call[u]
    OBVIOUS
  <2>1. u # t
    OBVIOUS
  <2> QED
    BY <2>1
<1>2. \A u \in Threads : InServer(u)' => InServer(u) \/ server = "up"
  <2> SUFFICES ASSUME NEW u \in Threads, InServer(u)' PROVE InServer(u) \/ server = "up"
    OBVIOUS
  <2>1. CASE u = t
    BY <2>1
  <2>2. CASE u # t
    BY <2>2 DEF InServer
  <2> QED
    BY <2>1, <2>2
<1> QED
  BY <1>1, <1>2 DEF KeepsChannel

\* Objects that stay as they are are the same channels.
LEMMA SameObjects ==
  ASSUME objects' = objects
  PROVE  \A o \in Objects : Same(objects[o], objects'[o])
  BY DEF Same

\* Requests, and joins of an active channel, leave members and roles alone.
LEMMA QuietRequest ==
  ASSUME ChatTypes, CallTypes, NEW p \in Players, Requests(p) \/ (HandleJoinChannel(p) /\ active # 0)
  PROVE  ChatTypes' /\ CallTypes' /\ KeepsChannel
<1>p. p \in Threads
  BY ListenerIsThread
<1>1. /\ UNCHANGED <<chat, presence, gateway, faults, history>> /\ server = "up" /\ call[p] = Idle /\ CallTypes'
      /\ \A u \in Threads : u # p => call'[u] = call[u]
      /\ call'[p].at \in OnPlayer \cup OfChannel \cup {"join"}
  BY RequestEffect, JoinExisting
<1>2. ~Writes(p) /\ ~Writes(p)'
  BY <1>1 DEF Writes, Idle, OnPlayer, OfChannel
<1>3. UNCHANGED <<objects, active, row, server, roll, known, damage>>
  BY <1>1 DEF chat, history
<1> QED
  BY <1>p, <1>1, <1>2, <1>3, SameObjects, KeepsIfSame DEF ChatTypes

\* So do the steps of a session.
LEMMA QuietGateway ==
  ASSUME ChatTypes, CallTypes, NEW p \in Players, GatewayStep(p)
  PROVE  ChatTypes' /\ CallTypes' /\ KeepsChannel
<1>p. p \in Threads
  BY ListenerIsThread
<1>1. /\ UNCHANGED chat /\ damage' = damage /\ CallTypes'
      /\ \/ call' = call
         \/ /\ call[p].at \in {"joined", "left"} /\ call'[p] = Idle
            /\ \A u \in Threads : u # p => call'[u] = call[u]
  BY GatewayEffect
<1>2. UNCHANGED <<objects, active, row, server, roll, known, damage>>
  BY <1>1 DEF chat
<1>3. CASE call' = call
  BY <1>2, <1>3, <1>1 DEF KeepsChannel, Same, ChatTypes, InServer
<1>4. CASE /\ call[p].at \in {"joined", "left"} /\ call'[p] = Idle
           /\ \A u \in Threads : u # p => call'[u] = call[u]
  <2>1. ~Writes(p) /\ ~Writes(p)' /\ ~InServer(p)'
    BY <1>4 DEF Writes, Idle, InServer
  <2> QED
    BY <1>p, <1>1, <1>2, <1>4, <2>1, SameObjects, KeepsIfSame DEF ChatTypes
<1> QED
  BY <1>1, <1>3, <1>4

\* So does the broadcaster.
LEMMA QuietBroadcast ==
  ASSUME ChatTypes, CallTypes, Broadcast
  PROVE  ChatTypes' /\ CallTypes' /\ KeepsChannel
<1>1. /\ UNCHANGED chat /\ damage' = damage /\ CallTypes'
      /\ \/ call' = call
         \/ \A t \in Threads : call'[t] = IF call[t].at \in {"joined", "left"} THEN Idle ELSE call[t]
  BY BroadcastEffect
<1>2. UNCHANGED <<objects, active, row, server, roll, known, damage>>
  BY <1>1 DEF chat
<1>3. \A t \in Threads : /\ Writes(t) \/ Writes(t)' => call'[t] = call[t]
                         /\ InServer(t)' => InServer(t)
  BY <1>1 DEF Writes, InServer, Idle
<1> QED
  BY <1>1, <1>2, <1>3, SameObjects DEF KeepsChannel, ChatTypes

\* So does the listener but for TransferOwnershipOnLogout.
LEMMA QuietListening ==
  ASSUME ChatTypes, CallTypes, GatewayTypes, Listening
  PROVE  ChatTypes' /\ CallTypes' /\ KeepsChannel
<1>1. CASE CharacterLoggedIn
  <2>1. /\ UNCHANGED <<objects, active, row, server, roll, call, damage, lagging, expelled>>
        /\ ChatTypes' /\ CallTypes'
    BY <1>1, LoggedInEffect
  <2> QED
    BY <2>1, SameObjects DEF KeepsChannel, InServer
<1>2. CASE CharacterLoggedOut
  <2>1. /\ UNCHANGED <<objects, active, row, server, roll, known, damage, lagging, expelled>>
        /\ CallTypes' /\ server = "up" /\ call[Listener] = Idle
        /\ call'[Listener].at \in {"logout", "remove"}
        /\ \A u \in Threads : u # Listener => call'[u] = call[u]
    BY <1>2, LoggedOutEffect
  <2>2. ~Writes(Listener) /\ ~Writes(Listener)'
    BY <2>1 DEF Writes, Idle
  <2> QED
    BY <2>1, <2>2, SameObjects, KeepsIfSame, ListenerIsThread DEF ChatTypes
<1>3. CASE RemoveCharacter
  <2>1. /\ UNCHANGED <<objects, active, row, server, roll, damage, lagging, expelled>>
        /\ ChatTypes' /\ CallTypes' /\ call[Listener].at = "remove" /\ call'[Listener] = Idle
        /\ \A u \in Threads : u # Listener => call'[u] = call[u]
    BY <1>3, RemoveEffect
  <2>2. ~Writes(Listener) /\ ~Writes(Listener)' /\ ~InServer(Listener)'
    BY <2>1 DEF Writes, Idle, InServer
  <2> QED
    BY <2>1, <2>2, SameObjects, KeepsIfSame, ListenerIsThread
<1> QED
  BY <1>1, <1>2, <1>3 DEF Listening

\* So do the changes of settings and bans.
LEMMA QuietSettings ==
  ASSUME ChatTypes, CallTypes, NEW p \in Players, SettingsStep(p)
  PROVE  ChatTypes' /\ CallTypes' /\ KeepsChannel
<1>p. p \in Threads
  BY ListenerIsThread
<1>1. CASE BanInMemory(p)
  <2>1. /\ UNCHANGED <<row, active, server, damage>> /\ server = "up" /\ call[p].at \in {"banning", "unban"}
        /\ ChatTypes' /\ CallTypes' /\ \A u \in Threads : u # p => call'[u] = call[u]
        /\ call'[p].at \in {"idle", "writeBan"}
        /\ \A o \in Objects : Same(objects[o], objects'[o])
    <3>1. /\ UNCHANGED <<row, active, server, damage>> /\ server = "up" /\ call[p].at \in {"banning", "unban"}
          /\ ChatTypes' /\ CallTypes' /\ \A u \in Threads : u # p => call'[u] = call[u]
      BY <1>1, BanInMemoryEffect
    <3>2. \/ call'[p] = Idle /\ objects' = objects
          \/ call'[p].at = "writeBan" /\ \A o \in Objects : Same(objects[o], objects'[o])
      BY <1>1, BanInMemoryEffect
    <3>3. Idle.at = "idle"
      BY DEF Idle
    <3> QED
      BY <3>1, <3>2, <3>3, SameObjects
  <2>2. ~Writes(p) /\ ~Writes(p)'
    BY <2>1 DEF Writes
  <2> QED
    BY <1>p, <2>1, <2>2, KeepsIfSame
<1>2. CASE WriteChannelBan(p) \/ WriteSettings(p)
  <2>1. /\ UNCHANGED <<objects, active, server, damage>> /\ server = "up"
        /\ call[p].at \in {"writeBan", "writeSettings"} /\ call'[p] = Idle
        /\ ChatTypes' /\ CallTypes' /\ \A u \in Threads : u # p => call'[u] = call[u]
        /\ row'.listed = row.listed /\ row'.id = row.id /\ row'.members = row.members /\ row'.flags = row.flags
    BY <1>2, WriteBanEffect, WriteSettingsEffect
  <2>2. ~Writes(p) /\ ~Writes(p)'
    BY <2>1 DEF Writes, Idle
  <2> QED
    BY <1>p, <2>1, <2>2, SameObjects, KeepsIfSame
<1>3. CASE SetPassword(p)
  <2>1. /\ UNCHANGED <<row, active, server, damage>> /\ server = "up" /\ call[p].at = "setPassword"
        /\ ChatTypes' /\ CallTypes' /\ \A u \in Threads : u # p => call'[u] = call[u]
        /\ call'[p].at = "writeSettings"
        /\ \A o \in Objects : Same(objects[o], objects'[o])
    BY <1>3, SetPasswordEffect
  <2>2. ~Writes(p) /\ ~Writes(p)'
    BY <2>1 DEF Writes
  <2> QED
    BY <1>p, <2>1, <2>2, KeepsIfSame
<1>4. CASE ToggleAnnouncements(p)
  <2>1. /\ UNCHANGED <<row, active, server, damage>> /\ server = "up" /\ call[p].at = "announcements"
        /\ ChatTypes' /\ CallTypes' /\ \A u \in Threads : u # p => call'[u] = call[u]
        /\ call'[p].at = "snapshot"
        /\ \A o \in Objects : Same(objects[o], objects'[o])
    BY <1>4, ToggleAnnouncementsEffect
  <2>2. ~Writes(p) /\ ~Writes(p)'
    BY <2>1 DEF Writes
  <2> QED
    BY <1>p, <2>1, <2>2, KeepsIfSame
<1>5. CASE SnapshotSettings(p)
  <2>1. /\ UNCHANGED <<objects, row, active, server, damage>> /\ server = "up" /\ call[p].at = "snapshot"
        /\ CallTypes' /\ \A u \in Threads : u # p => call'[u] = call[u]
        /\ call'[p].at = "writeSettings"
        /\ UNCHANGED <<roll, known>>
    BY <1>5, SnapshotEffect
  <2>2. ~Writes(p) /\ ~Writes(p)'
    BY <2>1 DEF Writes
  <2> QED
    BY <1>p, <2>1, <2>2, SameObjects, KeepsIfSame DEF ChatTypes
<1>6. CASE ToggleModeration(p)
  <2>1. /\ UNCHANGED <<row, active, server, damage>> /\ server = "up" /\ call[p].at = "moderation"
        /\ ChatTypes' /\ CallTypes' /\ \A u \in Threads : u # p => call'[u] = call[u]
        /\ call'[p] = Idle
        /\ \A o \in Objects : Same(objects[o], objects'[o])
    BY <1>6, ToggleModerationEffect
  <2>2. ~Writes(p) /\ ~Writes(p)'
    BY <2>1 DEF Writes, Idle
  <2> QED
    BY <1>p, <2>1, <2>2, KeepsIfSame
<1> QED
  BY <1>1, <1>2, <1>3, <1>4, <1>5, <1>6 DEF SettingsStep

\* So does a handler that passes.
LEMMA QuietPass ==
  ASSUME ChatTypes, CallTypes, CallTypes', NEW t \in Threads, Passes(t)
  PROVE  KeepsChannel
<1>1. ~Writes(t)'
  BY DEF Passes, Writes
<1> QED
  BY <1>1, KeepsIfSame DEF Passes

\* CleanOldChannels deletes the channel's row and nothing in memory.
LEMMA QuietCleanOld ==
  ASSUME ChatTypes, CallTypes, CleanOldChannels
  PROVE  /\ ChatTypes' /\ CallTypes' /\ KeepsChannel
         /\ ~row'.listed /\ UNCHANGED <<objects, active, server, call, lagging, damage, expelled, known>>
<1>1. /\ UNCHANGED <<objects, active, server, roll, known, call, damage, lagging, expelled>> /\ server = "up"
      /\ row' = [row EXCEPT !.listed = FALSE]
  BY DEF CleanOldChannels, history
<1>2. /\ row' \in RowRecord /\ row'.id = row.id /\ row'.members = row.members /\ row'.flags = row.flags
      /\ ~row'.listed
  BY <1>1 DEF ChatTypes, RowRecord
<1> QED
  BY <1>1, <1>2, SameObjects DEF ChatTypes, CallTypes, KeepsChannel, InServer

-----------------------------------------------------------------------------
(* The channel invariant                                                   *)

\* A mutex-holder is at a place where it has a second write to do.
LEMMA WritersAreInServer ==
  ASSUME NEW t, Writes(t)
  PROVE  InServer(t)
  BY DEF Writes, InServer

\* A handler between its two writes has an object.
LEMMA WritersHaveObjects ==
  ASSUME CallTypes, NEW t \in Threads, Writes(t)
  PROVE  call[t].on \in Objects
  BY DEF CallTypes, WellFormed, Writes

\* A step that leaves members and roles alone keeps the channel's invariant.
LEMMA KeptChannel ==
  ASSUME ChatTypes, CallTypes, ChatTypes', CallTypes', ChannelInv, KeepsChannel
  PROVE  ChannelInv'
<1> USE DEF ChannelInv
<1>0. \A o \in Objects : Same(objects[o], objects'[o])
  BY DEF KeepsChannel
<1>1. StartInv'
  <2>1. server' # "up" => \A t \in Threads : ~InServer(t)'
    BY DEF KeepsChannel, StartInv
  <2>2. server' # "up" => \A o \in Objects : objects'[o].holder = NoOne /\ (o # active' => objects'[o].members = {})
    BY DEF KeepsChannel, StartInv
  <2>3. /\ server' = "down" => active' = 0 /\ damage' # "rows"
        /\ server' = "heir" => active' # 0
        /\ server' = "preloaded" /\ active' = 0 => ~row'.listed
    BY DEF KeepsChannel, StartInv
  <2> QED
    BY <2>1, <2>2, <2>3 DEF StartInv
<1>2. LockInv'
  <2>1. ASSUME NEW t \in Threads, Writes(t)' PROVE objects'[call'[t].on].holder = t
    <3>1. call'[t] = call[t] /\ Writes(t)
      BY <2>1 DEF KeepsChannel, Writes
    <3>2. call[t].on \in Objects
      BY <3>1, WritersHaveObjects
    <3> QED
      BY <1>0, <3>1, <3>2 DEF Same, LockInv
  <2>2. ASSUME NEW o \in Objects, objects'[o].holder # NoOne
        PROVE  call'[objects'[o].holder].at \in {"heir", "setOwnerNew"} /\ call'[objects'[o].holder].on = o
    <3>1. PICK h : h = objects[o].holder
      OBVIOUS
    <3>2. h = objects'[o].holder /\ h # NoOne
      BY <1>0, <2>2, <3>1 DEF Same
    <3>3. h \in Threads
      BY <3>1, <3>2 DEF ChatTypes, ChannelRecord
    <3>4. Writes(h) /\ call[h].on = o
      BY <3>1, <3>2 DEF LockInv
    <3>5. call'[h] = call[h]
      BY <3>3, <3>4 DEF KeepsChannel
    <3>6. Writes(h)'
      BY <3>4, <3>5 DEF Writes
    <3> QED
      BY <3>2, <3>4, <3>5, <3>6 DEF Writes
  <2> QED
    BY <2>1, <2>2 DEF LockInv, Writes
<1>3. HeldInv'
  <2> SUFFICES ASSUME NEW t \in Threads, Writes(t)'
               PROVE  /\ call'[t].at = "heir" => call'[t].with \in objects'[call'[t].on].members
                      /\ call'[t].at = "setOwnerNew" => call'[t].to \in objects'[call'[t].on].members
    BY DEF HeldInv, Writes
  <2>1. call'[t] = call[t] /\ Writes(t)
    BY DEF KeepsChannel, Writes
  <2>2. call[t].on \in Objects
    BY <2>1, WritersHaveObjects
  <2> QED
    BY <1>0, <2>1, <2>2 DEF Same, HeldInv
<1>4. IdInv'
  BY <1>0 DEF IdInv, KeepsChannel, Same, ChatTypes
<1>5. RolesInv'
  BY <1>0 DEF RolesInv, KeepsChannel, Same
<1>6. DroppedInv'
  BY <1>0 DEF DroppedInv, KeepsChannel, Same
<1>7. MirrorInv'
  <2> SUFFICES ASSUME damage = "none", active # 0
               PROVE  /\ objects'[active].holder = NoOne /\ server # "heir" =>
                           objects'[active].members = row'.members /\ objects'[active].flags = row'.flags
                      /\ server = "heir" => SameBut(objects'[active], row', objects'[active].owner)
                      /\ \A t \in Threads : call'[t].on = active =>
                           /\ call'[t].at = "heir" => SameBut(objects'[active], row', call'[t].with)
                           /\ call'[t].at = "setOwnerNew" => Cleared(objects'[active], row')
    BY DEF MirrorInv, KeepsChannel
  <2>1. active \in Objects /\ Same(objects[active], objects'[active])
    BY <1>0 DEF ChatTypes
  <2>2. ASSUME objects'[active].holder = NoOne, server # "heir"
        PROVE  objects'[active].members = row'.members /\ objects'[active].flags = row'.flags
    BY <2>1, <2>2 DEF MirrorInv, KeepsChannel, Same
  <2>3. ASSUME server = "heir" PROVE SameBut(objects'[active], row', objects'[active].owner)
    BY <2>1, <2>3 DEF MirrorInv, KeepsChannel, SameBut
  <2>4. ASSUME NEW t \in Threads, call'[t].on = active, Writes(t)'
        PROVE  /\ call'[t].at = "heir" => SameBut(objects'[active], row', call'[t].with)
               /\ call'[t].at = "setOwnerNew" => Cleared(objects'[active], row')
    <3>1. call'[t] = call[t] /\ Writes(t)
      BY <2>4 DEF KeepsChannel, Writes
    <3>2. call[t].at = "setOwnerNew" => objects'[active].owner = objects[active].owner
      BY <2>1, <2>4, <3>1 DEF HeldInv, Same
    <3> QED
      BY <2>1, <2>4, <3>1, <3>2 DEF MirrorInv, SameBut, Cleared, KeepsChannel, Same
  <2> QED
    BY <2>2, <2>3, <2>4 DEF Writes
<1>8. OwnerInv'
  <2>1. active # 0 => Same(objects[active], objects'[active])
    BY <1>0 DEF ChatTypes
  <2> QED
    BY <2>1 DEF OwnerInv, KeepsChannel, Same
<1> QED
  BY <1>1, <1>2, <1>3, <1>4, <1>5, <1>6, <1>7, <1>8

\* What a handler must establish for the object it works on.
Orderly(t, o, n) ==
  /\ objects[o].holder \in {NoOne, t} /\ n.holder \in {NoOne, t}
  /\ n.holder = t <=> Writes(t)'
  /\ call'[t].at = "heir" => call'[t].with \in n.members
  /\ call'[t].at = "setOwnerNew" => call'[t].to \in n.members
  /\ \A x \in Roles : n.flags[x] \subseteq n.members /\ row'.flags[x] \subseteq row'.members
  /\ damage' = damage \/ Hurts
  /\ o # active /\ n.id = row.id /\ objects[o].members = {} => damage' # "none"
  /\ n.id # row.id => row' = row
  /\ o = active /\ damage' # "memory" => (n.members # {} => n.flags["owner"] = {n.owner})
  /\ o = active /\ damage' = "none" =>
       /\ n.holder = NoOne => n.members = row'.members /\ n.flags = row'.flags
       /\ call'[t].at = "heir" => SameBut(n, row', call'[t].with)
       /\ call'[t].at = "setOwnerNew" => Cleared(n, row')

\* A handler that leaves its own object and the rows in order keeps the
\* channel's invariant: the mutex keeps the others out.
LEMMA WorkKeepsChannel ==
  ASSUME ChatTypes, CallTypes, ChatTypes', CallTypes', damage \in {"none", "rows", "memory"}, ChannelInv,
         NEW t \in Threads, NEW o \in Objects, NEW n \in ChannelRecord, Works(t, o, n), Orderly(t, o, n)
  PROVE  ChannelInv'
<1> USE DEF ChannelInv
<1>0. /\ server = "up" /\ server' = "up" /\ active' = active /\ call[t].on = o /\ n.id = objects[o].id
      /\ objects'[o] = n /\ \A u \in Objects : u # o => objects'[u] = objects[u]
      /\ row'.id = row.id /\ row'.listed = row.listed
      /\ \A u \in Threads : u # t => call'[u] = call[u]
      /\ InServer(t)' => call'[t].on = o
  BY DEF Works, Keeps
<1>a. /\ damage' = "none" => damage = "none"
      /\ damage' # "memory" => damage # "memory"
  BY DEF Orderly, Hurts
<1>b. ASSUME NEW u \in Threads, u # t, Writes(u)' PROVE call[u].on \in Objects /\ call[u].on # o /\ Writes(u) /\ call'[u] = call[u]
  <2>1. call'[u] = call[u] /\ Writes(u)
    BY <1>0, <1>b DEF Writes
  <2>2. call[u].on \in Objects /\ objects[call[u].on].holder = u
    BY <2>1, WritersHaveObjects DEF LockInv
  <2>3. u # NoOne
    BY ListenerIsThread
  <2> QED
    BY <1>b, <2>1, <2>2, <2>3 DEF Orderly
<1>c. ASSUME Writes(t)' PROVE call'[t].on = o
  <2>1. InServer(t)'
    BY <1>c DEF Writes, InServer
  <2> QED
    BY <1>0, <2>1
<1>t. t # NoOne
  BY ListenerIsThread
<1>1. StartInv'
  BY <1>0 DEF StartInv
<1>2. LockInv'
  <2>1. ASSUME NEW u \in Threads, Writes(u)' PROVE objects'[call'[u].on].holder = u
    <3>1. CASE u = t
      BY <1>0, <1>c, <2>1, <3>1 DEF Orderly
    <3>2. CASE u # t
      BY <1>0, <1>b, <2>1, <3>2 DEF LockInv
    <3> QED
      BY <3>1, <3>2
  <2>2. ASSUME NEW u \in Objects, objects'[u].holder # NoOne
        PROVE  call'[objects'[u].holder].at \in {"heir", "setOwnerNew"} /\ call'[objects'[u].holder].on = u
    <3>1. CASE u = o
      <4>1. objects'[u].holder = t /\ Writes(t)'
        BY <1>0, <2>2, <3>1 DEF Orderly
      <4>2. call'[t].on = u
        BY <1>c, <3>1, <4>1
      <4> QED
        BY <4>1, <4>2 DEF Writes
    <3>2. CASE u # o
      <4>1. PICK h : h = objects[u].holder
        OBVIOUS
      <4>2. h = objects'[u].holder /\ h # NoOne /\ h \in Threads
        BY <1>0, <2>2, <3>2, <4>1 DEF ChatTypes, ChannelRecord
      <4>3. Writes(h) /\ call[h].on = u
        BY <4>1, <4>2 DEF LockInv
      <4>4. h # t
        BY <1>0, <3>2, <4>3
      <4>5. call'[h] = call[h]
        BY <1>0, <4>2, <4>4
      <4> QED
        BY <4>2, <4>3, <4>5 DEF Writes
    <3> QED
      BY <3>1, <3>2
  <2> QED
    BY <2>1, <2>2 DEF LockInv, Writes
<1>3. HeldInv'
  <2> SUFFICES ASSUME NEW u \in Threads, Writes(u)'
               PROVE  /\ call'[u].at = "heir" => call'[u].with \in objects'[call'[u].on].members
                      /\ call'[u].at = "setOwnerNew" => call'[u].to \in objects'[call'[u].on].members
    BY DEF HeldInv, Writes
  <2>1. CASE u = t
    BY <1>0, <1>c, <2>1 DEF Orderly
  <2>2. CASE u # t
    BY <1>0, <1>b, <2>2 DEF HeldInv
  <2> QED
    BY <2>1, <2>2
<1>4. IdInv'
  <2>1. \A u \in Objects : objects'[u].id = objects[u].id
    BY <1>0
  <2> QED
    BY <1>0, <2>1 DEF IdInv, ChatTypes
<1>5. RolesInv'
  <2>1. ASSUME NEW u \in Objects, NEW x \in Roles PROVE objects'[u].flags[x] \subseteq objects'[u].members
    <3>1. CASE u = o
      BY <1>0, <3>1 DEF Orderly
    <3>2. CASE u # o
      BY <1>0, <3>2 DEF RolesInv
    <3> QED
      BY <3>1, <3>2
  <2> QED
    BY <2>1 DEF RolesInv, Orderly
<1>6. DroppedInv'
  <2> SUFFICES ASSUME damage' = "none"
               PROVE  /\ \A u \in Objects : u # active /\ objects'[u].id = row.id => objects'[u].members = {}
                      /\ active = 0 /\ row.listed => row'.members = {}
    BY <1>0 DEF DroppedInv
  <2>1. damage = "none"
    BY <1>a
  <2>2. ASSUME NEW u \in Objects, u # active, objects'[u].id = row.id PROVE objects'[u].members = {}
    <3>1. CASE u = o
      <4>1. objects[o].members = {}
        BY <1>0, <2>1, <2>2, <3>1 DEF DroppedInv
      <4> QED
        BY <1>0, <2>2, <3>1, <4>1 DEF Orderly
    <3>2. CASE u # o
      BY <1>0, <2>1, <2>2, <3>2 DEF DroppedInv
    <3> QED
      BY <3>1, <3>2
  <2>3. ASSUME active = 0, row.listed PROVE row'.members = {}
    <3>1. row.members = {}
      BY <1>0, <2>1, <2>3 DEF DroppedInv
    <3>2. o # active
      BY <2>3 DEF Objects
    <3>3. CASE n.id = row.id
      <4>1. objects[o].members = {}
        BY <1>0, <2>1, <3>2, <3>3 DEF DroppedInv
      <4> QED
        BY <3>2, <3>3, <4>1 DEF Orderly
    <3>4. CASE n.id # row.id
      BY <3>1, <3>4 DEF Orderly
    <3> QED
      BY <3>3, <3>4
  <2> QED
    BY <2>2, <2>3
<1>7. MirrorInv'
  <2> SUFFICES ASSUME damage' = "none", active # 0
               PROVE  /\ objects'[active].holder = NoOne =>
                           objects'[active].members = row'.members /\ objects'[active].flags = row'.flags
                      /\ \A u \in Threads : call'[u].on = active =>
                           /\ call'[u].at = "heir" => SameBut(objects'[active], row', call'[u].with)
                           /\ call'[u].at = "setOwnerNew" => Cleared(objects'[active], row')
    BY <1>0 DEF MirrorInv
  <2>1. damage = "none" /\ active \in Objects
    BY <1>a DEF ChatTypes
  <2>2. CASE o = active
    <3>1. objects'[active].holder = NoOne =>
            objects'[active].members = row'.members /\ objects'[active].flags = row'.flags
      BY <1>0, <2>2 DEF Orderly
    <3>2. ASSUME NEW u \in Threads, call'[u].on = active, Writes(u)'
          PROVE  /\ call'[u].at = "heir" => SameBut(objects'[active], row', call'[u].with)
                 /\ call'[u].at = "setOwnerNew" => Cleared(objects'[active], row')
      <4>1. u = t
        BY <1>b, <2>2, <3>2
      <4> QED
        BY <1>0, <2>2, <4>1 DEF Orderly
    <3> QED
      BY <3>1, <3>2 DEF Writes
  <2>3. CASE o # active
    <3>1. n.id # row.id
      BY <1>0, <2>1, <2>3 DEF DroppedInv, Orderly
    <3>2. row' = row /\ objects'[active] = objects[active]
      BY <1>0, <2>1, <2>3, <3>1 DEF Orderly
    <3>3. ASSUME NEW u \in Threads, call'[u].on = active, Writes(u)'
          PROVE  /\ call'[u].at = "heir" => SameBut(objects'[active], row', call'[u].with)
                 /\ call'[u].at = "setOwnerNew" => Cleared(objects'[active], row')
      <4>1. u # t
        BY <1>c, <2>3, <3>3
      <4>2. call'[u] = call[u]
        BY <1>0, <4>1
      <4> QED
        BY <2>1, <3>2, <3>3, <4>2 DEF MirrorInv
    <3>4. objects[active].holder = NoOne => objects[active].members = row.members /\ objects[active].flags = row.flags
      BY <1>0, <2>1 DEF MirrorInv
    <3> QED
      BY <3>2, <3>3, <3>4 DEF Writes
  <2> QED
    BY <2>2, <2>3
<1>8. OwnerInv'
  <2> SUFFICES ASSUME damage' # "memory", active # 0, objects'[active].members # {}
               PROVE  objects'[active].flags["owner"] = {objects'[active].owner}
    BY <1>0 DEF OwnerInv
  <2>1. CASE o = active
    BY <1>0, <2>1 DEF Orderly
  <2>2. CASE o # active
    <3>1. active \in Objects
      BY DEF ChatTypes
    <3>2. objects'[active] = objects[active]
      BY <1>0, <2>2, <3>1
    <3> QED
      BY <1>a, <3>2 DEF OwnerInv
  <2> QED
    BY <2>1, <2>2
<1> QED
  BY <1>1, <1>2, <1>3, <1>4, <1>5, <1>6, <1>7, <1>8

\* Roles are equal when each of them is.
LEMMA FlagsEqual ==
  ASSUME NEW f \in Flags, NEW g \in Flags, \A x \in Roles : f[x] = g[x]
  PROVE  f = g
  BY DEF Flags

\* Roles are sets of players.
LEMMA FlagTypes ==
  ASSUME ChatTypes, ChatTypes'
  PROVE  /\ row \in RowRecord /\ row.flags \in Flags /\ row'.flags \in Flags
         /\ \A o \in Objects : objects[o] \in ChannelRecord /\ objects[o].flags \in Flags /\ objects'[o].flags \in Flags
  BY DEF ChatTypes, RowRecord, ChannelRecord

\* What is known of the object of a handler whose mutex is free or its own.
LEMMA ActiveMirrors ==
  ASSUME ChatTypes, ChannelInv, server = "up", NEW o \in Objects
  PROVE  /\ \A x \in Roles : objects[o].flags[x] \subseteq objects[o].members /\ row.flags[x] \subseteq row.members
         /\ o = active => objects[o].id = row.id
         /\ o = active /\ damage = "none" /\ objects[o].holder = NoOne =>
              objects[o].members = row.members /\ objects[o].flags = row.flags
         /\ o = active /\ damage # "memory" /\ objects[o].members # {} => objects[o].flags["owner"] = {objects[o].owner}
         /\ damage = "none" /\ o # active /\ objects[o].id = row.id => objects[o].members = {}
<1>1. \A x \in Roles : objects[o].flags[x] \subseteq objects[o].members /\ row.flags[x] \subseteq row.members
  BY DEF ChannelInv, RolesInv
<1>2. active = o => active # 0
  BY DEF Objects
<1> QED
  BY <1>1, <1>2 DEF ChannelInv, IdInv, MirrorInv, OwnerInv, DroppedInv

\* A join leaves the channel in order; on a dropped object it damages the rows.
LEMMA JoinOrderly ==
  ASSUME ChatTypes, CallTypes, ChatTypes', ChannelInv, NEW p \in Players, call[p].at = "join",
         call'[p].at \in {"idle", "joined"}, NEW o \in Objects, NEW n \in ChannelRecord,
         Works(p, o, n), Unlocked(o),
         p \notin objects[o].members, n.members = objects[o].members \cup {p},
         n.flags["owner"] = IF objects[o].members = {} THEN {p} ELSE objects[o].flags["owner"],
         \A x \in Roles \ {"owner"} : n.flags[x] = objects[o].flags[x],
         n.owner = IF objects[o].members = {} THEN p ELSE objects[o].owner,
         n.holder = NoOne,
         row.id # n.id => row' = row,
         row.id = n.id => /\ row'.members = row.members \cup {p}
                          /\ \A x \in Roles : row'.flags[x] = (row.flags[x] \ {p}) \cup (n.flags[x] \cap {p}),
         damage' = IF o # active /\ damage = "none" THEN "rows" ELSE damage
  PROVE  Orderly(p, o, n)
<1> DEFINE ch == objects[o]
<1>1. server = "up" /\ ch.holder = NoOne /\ n.id = ch.id /\ p # NoOne /\ n.flags = objects'[o].flags
  BY ListenerIsThread DEF Works, Unlocked
<1>2. ~Writes(p)'
  BY DEF Writes
<1>3. /\ \A x \in Roles : ch.flags[x] \subseteq ch.members /\ row.flags[x] \subseteq row.members
      /\ o = active => ch.id = row.id
      /\ o = active /\ damage = "none" => ch.members = row.members /\ ch.flags = row.flags
      /\ o = active /\ damage # "memory" /\ ch.members # {} => ch.flags["owner"] = {ch.owner}
  BY <1>1, ActiveMirrors
<1>4. \A x \in Roles : n.flags[x] \subseteq n.members
  BY <1>3, RolesDistinct
<1>5. \A x \in Roles : row'.flags[x] \subseteq row'.members
  <2>1. CASE row.id # n.id
    BY <1>3, <2>1
  <2>2. CASE row.id = n.id
    BY <1>3, <2>2
  <2> QED
    BY <2>1, <2>2
<1>6. damage' = damage \/ Hurts
  BY DEF Hurts
<1>7. o # active => damage' # "none"
  OBVIOUS
<1>8. o = active /\ damage' # "memory" => (n.members # {} => n.flags["owner"] = {n.owner})
  BY <1>3
<1>9. ASSUME o = active, damage' = "none" PROVE n.members = row'.members /\ n.flags = row'.flags
  <2>1. ch.members = row.members /\ ch.flags = row.flags /\ row.id = n.id
    BY <1>1, <1>3, <1>9
  <2>2. \A x \in Roles : n.flags[x] = row'.flags[x]
    <3> SUFFICES ASSUME NEW x \in Roles PROVE n.flags[x] = row'.flags[x]
      OBVIOUS
    <3>1. row'.flags[x] = (ch.flags[x] \ {p}) \cup (n.flags[x] \cap {p})
      BY <2>1
    <3>2. p \notin ch.flags[x]
      BY <1>3
    <3>3. n.flags[x] \ {p} = ch.flags[x] \ {p}
      BY <1>3, RolesDistinct
    <3> QED
      BY <3>1, <3>2, <3>3
  <2> QED
    BY <1>1, <2>1, <2>2, FlagsEqual, FlagTypes
<1> QED
  BY <1>1, <1>2, <1>4, <1>5, <1>6, <1>7, <1>8, <1>9 DEF Orderly, Writes

\* A leave, a kick or a ban leaves the channel in order, half-written if an
\* heir follows.
LEMMA DepartOrderly ==
  ASSUME ChatTypes, CallTypes, ChatTypes', ChannelInv, NEW t \in Players, Unlocked(call[t].on),
         NEW o \in Objects, NEW n \in ChannelRecord, NEW gone \in Players, Departs(t, o, n, gone),
         \/ Unfollowed(t, o, n, gone)
         \/ \E heir \in Players : Followed(t, o, n, gone, heir)
  PROVE  Orderly(t, o, n)
<1> DEFINE ch == objects[o]
<1>1. /\ server = "up" /\ ch.holder = NoOne /\ n.id = ch.id /\ t # NoOne /\ n.flags = objects'[o].flags
      /\ gone \in ch.members /\ n.members = ch.members \ {gone} /\ damage' = damage
  BY ListenerIsThread DEF Departs, Works, Unlocked
<1>2. /\ \A x \in Roles : ch.flags[x] \subseteq ch.members /\ row.flags[x] \subseteq row.members
      /\ o = active => ch.id = row.id
      /\ o = active /\ damage = "none" => ch.members = row.members /\ ch.flags = row.flags
      /\ o = active /\ damage # "memory" /\ ch.members # {} => ch.flags["owner"] = {ch.owner}
  BY <1>1, ActiveMirrors
<1>3. /\ row.id # n.id => row' = row
      /\ row.id = n.id => /\ row'.members = row.members \ {gone}
                          /\ \A x \in Roles : row'.flags[x] = row.flags[x] \ {gone}
  BY DEF Departs
<1>4. \A x \in Roles : row'.flags[x] \subseteq row'.members
  <2>1. CASE row.id # n.id
    BY <1>2, <1>3, <2>1
  <2>2. CASE row.id = n.id
    BY <1>2, <1>3, <2>2
  <2> QED
    BY <2>1, <2>2
<1>5. o # active /\ n.id = row.id /\ objects[o].members = {} => damage' # "none"
  BY <1>1
<1>6. o = active /\ damage' = "none" =>
        row'.members = n.members /\ \A x \in Roles : row'.flags[x] = ch.flags[x] \ {gone}
  BY <1>1, <1>2, <1>3
<1>7. CASE Unfollowed(t, o, n, gone)
  <2>1. /\ gone \notin ch.flags["owner"] \/ n.members = {}
        /\ \A x \in Roles : n.flags[x] = ch.flags[x] \ {gone}
        /\ n.owner = ch.owner /\ n.holder = NoOne /\ call'[t].at \in {"idle", "left", "banning"}
    BY <1>7 DEF Unfollowed
  <2>2. ~Writes(t)'
    BY <2>1 DEF Writes
  <2>3. \A x \in Roles : n.flags[x] \subseteq n.members
    BY <1>1, <1>2, <2>1
  <2>4. o = active /\ damage' # "memory" => (n.members # {} => n.flags["owner"] = {n.owner})
    BY <1>1, <1>2, <2>1, RolesDistinct
  <2>5. ASSUME o = active, damage' = "none" PROVE n.members = row'.members /\ n.flags = row'.flags
    <3>1. n.flags \in Flags /\ row'.flags \in Flags
      BY FlagTypes DEF ChannelRecord
    <3>2. \A x \in Roles : n.flags[x] = row'.flags[x]
      BY <1>6, <2>1, <2>5
    <3> QED
      BY <1>6, <2>5, <3>1, <3>2, FlagsEqual
  <2> QED
    BY <1>1, <1>3, <1>4, <1>5, <2>1, <2>2, <2>3, <2>4, <2>5 DEF Orderly, Writes
<1>8. CASE \E heir \in Players : Followed(t, o, n, gone, heir)
  <2>1. PICK heir \in Players : Followed(t, o, n, gone, heir)
    BY <1>8
  <2>2. /\ gone \in ch.flags["owner"] /\ heir \in Heirs(ch, n.members)
        /\ n.flags["owner"] = (ch.flags["owner"] \ {gone}) \cup {heir}
        /\ \A x \in Roles \ {"owner"} : n.flags[x] = ch.flags[x] \ {gone}
        /\ n.owner = heir /\ n.holder = t
        /\ call'[t].at = "heir" /\ call'[t].with = heir /\ call'[t].on = o
    BY <2>1 DEF Followed
  <2>3. heir \in n.members
    <3>1. ch \in ChannelRecord /\ n.members \in SUBSET Players
      BY DEF ChatTypes, ChannelRecord
    <3> QED
      BY <2>2, <3>1, HeirsStay
  <2>4. \A x \in Roles : n.flags[x] \ {heir} = (ch.flags[x] \ {gone}) \ {heir} /\ n.flags[x] \subseteq (ch.flags[x] \ {gone}) \cup {heir}
    BY <2>2, RolesDistinct
  <2>5. \A x \in Roles : n.flags[x] \subseteq n.members
    BY <1>1, <1>2, <2>3, <2>4
  <2>6. ASSUME o = active, damage' # "memory" PROVE n.flags["owner"] = {n.owner}
    BY <1>1, <1>2, <2>2, <2>6
  <2>7. ASSUME o = active, damage' = "none" PROVE SameBut(n, row', heir)
    BY <1>6, <2>4, <2>7 DEF SameBut
  <2>8. Writes(t)'
    BY <2>2 DEF Writes
  <2> QED
    BY <1>1, <1>3, <1>4, <1>5, <2>2, <2>3, <2>5, <2>6, <2>7, <2>8 DEF Orderly, Writes
<1> QED
  BY <1>7, <1>8

\* The write of the heir's flag completes what the leave or the logout began.
LEMMA HeirOrderly ==
  ASSUME ChatTypes, CallTypes, ChatTypes', ChannelInv, NEW t \in Threads, call[t].at = "heir",
         call'[t].at \in {"idle", "left", "banning", "remove"},
         NEW o \in Objects, NEW n \in ChannelRecord, Works(t, o, n),
         n.members = objects[o].members, n.flags = objects[o].flags, n.owner = objects[o].owner,
         n.holder = NoOne,
         \/ FlagsWritten(row, row', n, call[t].with) /\ damage' = damage
         \/ row' = row /\ Hurts
  PROVE  Orderly(t, o, n)
<1> DEFINE ch == objects[o]
           h == call[t].with
<1>1. server = "up" /\ n.id = ch.id /\ t # NoOne /\ call[t].on = o /\ Writes(t)
  BY ListenerIsThread DEF Works, Writes
<1>2. ch.holder = t /\ h \in ch.members
  BY <1>1 DEF ChannelInv, LockInv, HeldInv
<1>3. /\ \A x \in Roles : ch.flags[x] \subseteq ch.members /\ row.flags[x] \subseteq row.members
      /\ o = active => ch.id = row.id
      /\ o = active /\ damage # "memory" /\ ch.members # {} => ch.flags["owner"] = {ch.owner}
      /\ damage = "none" /\ o # active /\ ch.id = row.id => ch.members = {}
  BY <1>1, ActiveMirrors
<1>4. o = active /\ damage = "none" => SameBut(ch, row, h)
  <2>1. active = o => active # 0
    BY DEF Objects
  <2> QED
    BY <1>1, <2>1 DEF ChannelInv, MirrorInv
<1>5. ~Writes(t)'
  BY DEF Writes
<1>6. \A x \in Roles : row'.flags[x] \subseteq row'.members
  <2>1. CASE row' = row
    BY <1>3, <2>1
  <2>2. CASE FlagsWritten(row, row', n, h) /\ row' # row
    <3>1. h \in row.members /\ row'.members = row.members
      BY <2>2 DEF FlagsWritten
    <3>2. \A x \in Roles : row'.flags[x] = (row.flags[x] \ {h}) \cup (n.flags[x] \cap {h})
      BY <2>2, <3>1 DEF FlagsWritten
    <3> QED
      BY <1>3, <3>1, <3>2
  <2> QED
    BY <2>1, <2>2
<1>7. o # active /\ n.id = row.id /\ ch.members = {} => damage' # "none"
  BY <1>2
<1>8. n.id # row.id => row' = row
  BY DEF FlagsWritten
<1>9. o = active /\ damage' # "memory" => (n.members # {} => n.flags["owner"] = {n.owner})
  BY <1>3 DEF Hurts
<1>10. ASSUME o = active, damage' = "none" PROVE n.members = row'.members /\ n.flags = row'.flags
  <2>1. damage = "none" /\ FlagsWritten(row, row', n, h)
    BY <1>10 DEF Hurts
  <2>2. ch.members = row.members /\ \A x \in Roles : ch.flags[x] \ {h} = row.flags[x] \ {h}
    BY <1>4, <1>10, <2>1 DEF SameBut
  <2>3. row.id = n.id /\ h \in row.members /\ row'.members = row.members
    BY <1>1, <1>2, <1>3, <1>10, <2>1, <2>2 DEF FlagsWritten
  <2>4. \A x \in Roles : row'.flags[x] = (row.flags[x] \ {h}) \cup (n.flags[x] \cap {h})
    BY <2>1, <2>3 DEF FlagsWritten
  <2>5. \A x \in Roles : row'.flags[x] = n.flags[x]
    BY <2>2, <2>4
  <2>6. n.flags \in Flags
    BY DEF ChannelRecord
  <2> QED
    BY <2>2, <2>3, <2>5, <2>6, FlagsEqual, FlagTypes
<1>11. damage' = damage \/ Hurts
  OBVIOUS
<1> QED
  BY <1>1, <1>2, <1>3, <1>5, <1>6, <1>7, <1>8, <1>9, <1>10, <1>11 DEF Orderly, Writes

\* A change of a moderator or mute flag leaves the channel in order.
LEMMA FlagOrderly ==
  ASSUME ChatTypes, CallTypes, ChatTypes', ChannelInv, NEW p \in Players, Unlocked(call[p].on), call'[p] = Idle,
         NEW o \in Objects, NEW n \in ChannelRecord, Works(p, o, n),
         call[p].to \in objects[o].members, n.members = objects[o].members,
         n.flags["owner"] = objects[o].flags["owner"], n.owner = objects[o].owner,
         \A x \in Roles : n.flags[x] \cup {call[p].to} = objects[o].flags[x] \cup {call[p].to},
         n.holder = NoOne, FlagsWritten(row, row', n, call[p].to), damage' = damage
  PROVE  Orderly(p, o, n)
<1> DEFINE ch == objects[o]
           q == call[p].to
<1>1. server = "up" /\ n.id = ch.id /\ p # NoOne /\ ch.holder = NoOne
  BY ListenerIsThread DEF Works, Unlocked
<1>2. /\ \A x \in Roles : ch.flags[x] \subseteq ch.members /\ row.flags[x] \subseteq row.members
      /\ o = active => ch.id = row.id
      /\ o = active /\ damage = "none" => ch.members = row.members /\ ch.flags = row.flags
      /\ o = active /\ damage # "memory" /\ ch.members # {} => ch.flags["owner"] = {ch.owner}
  BY <1>1, ActiveMirrors
<1>3. \A x \in Roles : n.flags[x] \subseteq n.members
  BY <1>2
<1>4. \A x \in Roles : row'.flags[x] \subseteq row'.members
  <2>1. CASE row' = row
    BY <1>2, <2>1
  <2>2. CASE row' # row
    <3>1. q \in row.members /\ row'.members = row.members
      BY <2>2 DEF FlagsWritten
    <3>2. \A x \in Roles : row'.flags[x] = (row.flags[x] \ {q}) \cup (n.flags[x] \cap {q})
      BY <2>2, <3>1 DEF FlagsWritten
    <3> QED
      BY <1>2, <3>1, <3>2
  <2> QED
    BY <2>1, <2>2
<1>5. ASSUME o = active, damage' = "none" PROVE n.members = row'.members /\ n.flags = row'.flags
  <2>1. ch.members = row.members /\ ch.flags = row.flags /\ row.id = n.id /\ q \in row.members /\ row'.members = row.members
    BY <1>1, <1>2, <1>5 DEF FlagsWritten
  <2>2. \A x \in Roles : row'.flags[x] = (ch.flags[x] \ {q}) \cup (n.flags[x] \cap {q})
    BY <2>1 DEF FlagsWritten
  <2>3. \A x \in Roles : row'.flags[x] = n.flags[x]
    BY <2>2
  <2>4. n.flags \in Flags
    BY DEF ChannelRecord
  <2> QED
    BY <2>1, <2>3, <2>4, FlagsEqual, FlagTypes
<1>6. n.id # row.id => row' = row
  BY DEF FlagsWritten
<1>7. call'[p].at = "idle" /\ ~Writes(p)'
  BY DEF Idle, Writes
<1> QED
  BY <1>1, <1>2, <1>3, <1>4, <1>5, <1>6, <1>7 DEF Orderly, Writes

\* After the first write of SetOwner the rows lack the owner's flag and nothing
\* else.
LEMMA SetOwnerOldOrderly ==
  ASSUME ChatTypes, CallTypes, ChatTypes', ChannelInv, NEW p \in Players, Unlocked(call[p].on),
         NEW o \in Objects, NEW n \in ChannelRecord, Works(p, o, n),
         call[p].to \in objects[o].members,
         n.members = objects[o].members, n.flags = objects[o].flags, n.owner = objects[o].owner, n.holder = p,
         call'[p].at = "setOwnerNew", call'[p].to = call[p].to, call'[p].on = o,
         row'.members = row.members,
         row.id # n.id \/ n.owner \notin n.members => row' = row,
         (row.id = n.id /\ n.owner \in n.members \cap row.members) =>
            /\ row'.flags["owner"] = row.flags["owner"] \ {n.owner}
            /\ \A x \in Roles \ {"owner"} :
                 row'.flags[x] = (row.flags[x] \ {n.owner}) \cup (n.flags[x] \cap {n.owner}),
         n.owner \in n.members /\ n.owner \notin row.members => row' = row,
         damage' = damage
  PROVE  Orderly(p, o, n)
<1> DEFINE ch == objects[o]
<1>1. server = "up" /\ n.id = ch.id /\ p # NoOne /\ ch.holder = NoOne
  BY ListenerIsThread DEF Works, Unlocked
<1>2. /\ \A x \in Roles : ch.flags[x] \subseteq ch.members /\ row.flags[x] \subseteq row.members
      /\ o = active => ch.id = row.id
      /\ o = active /\ damage = "none" => ch.members = row.members /\ ch.flags = row.flags
      /\ o = active /\ damage # "memory" /\ ch.members # {} => ch.flags["owner"] = {ch.owner}
  BY <1>1, ActiveMirrors
<1>4. \A x \in Roles : row'.flags[x] \subseteq row'.members
  <2>1. CASE row' = row
    BY <1>2, <2>1
  <2>2. CASE row' # row
    <3>1. row.id = n.id /\ n.owner \in n.members \cap row.members
      BY <2>2
    <3> QED
      BY <1>2, <3>1, RolesDistinct
  <2> QED
    BY <2>1, <2>2
<1>5. ASSUME o = active, damage' = "none" PROVE Cleared(n, row')
  <2>1. ch.members = row.members /\ ch.flags = row.flags /\ row.id = n.id /\ row'.members = row.members
    BY <1>1, <1>2, <1>5
  <2>2. CASE n.owner \in n.members
    <3>1. /\ row'.flags["owner"] = ch.flags["owner"] \ {n.owner}
          /\ \A x \in Roles \ {"owner"} : row'.flags[x] = (ch.flags[x] \ {n.owner}) \cup (ch.flags[x] \cap {n.owner})
      BY <2>1, <2>2
    <3>2. ASSUME NEW x \in Roles \ {"owner"} PROVE row'.flags[x] = ch.flags[x]
      <4>1. row'.flags[x] = (ch.flags[x] \ {n.owner}) \cup (ch.flags[x] \cap {n.owner})
        BY <3>1
      <4> QED
        BY <4>1
    <3> QED
      BY <2>1, <3>1, <3>2 DEF Cleared
  <2>3. CASE n.owner \notin n.members
    <3>1. row' = row /\ n.owner \notin ch.flags["owner"]
      BY <1>2, <2>3, RolesDistinct
    <3>2. ch.flags["owner"] \ {n.owner} = ch.flags["owner"]
      BY <3>1
    <3> QED
      BY <2>1, <3>1, <3>2 DEF Cleared
  <2> QED
    BY <2>2, <2>3
<1>7. Writes(p)'
  BY DEF Writes
<1> QED
  BY <1>1, <1>2, <1>4, <1>5, <1>7 DEF Orderly, Writes

\* The second write of SetOwner completes the first.
LEMMA SetOwnerNewOrderly ==
  ASSUME ChatTypes, CallTypes, ChatTypes', ChannelInv, NEW p \in Players, call[p].at = "setOwnerNew", call'[p] = Idle,
         NEW o \in Objects, NEW n \in ChannelRecord, Works(p, o, n), n.members = objects[o].members, n.holder = NoOne,
         \/ /\ n.flags["owner"] = (objects[o].flags["owner"] \ {objects[o].owner}) \cup {call[p].to}
            /\ \A x \in Roles \ {"owner"} : n.flags[x] = objects[o].flags[x]
            /\ n.owner = call[p].to
            /\ FlagsWritten(row, row', n, call[p].to) /\ damage' = damage
         \/ n.flags = objects[o].flags /\ n.owner = objects[o].owner /\ row' = row /\ Hurts
  PROVE  Orderly(p, o, n) /\ call[p].to \in objects[o].members
<1> DEFINE ch == objects[o]
           q == call[p].to
<1>1. server = "up" /\ n.id = ch.id /\ p # NoOne /\ call[p].on = o /\ Writes(p) /\ p \in Threads
  BY ListenerIsThread DEF Works, Writes
<1>2. ch.holder = p /\ q \in ch.members
  BY <1>1 DEF ChannelInv, LockInv, HeldInv
<1>3. /\ \A x \in Roles : ch.flags[x] \subseteq ch.members /\ row.flags[x] \subseteq row.members
      /\ o = active => ch.id = row.id
      /\ o = active /\ damage # "memory" /\ ch.members # {} => ch.flags["owner"] = {ch.owner}
  BY <1>1, ActiveMirrors
<1>4. o = active /\ damage = "none" => Cleared(ch, row)
  <2>1. active = o => active # 0
    BY DEF Objects
  <2> QED
    BY <1>1, <2>1 DEF ChannelInv, MirrorInv
<1>5. call'[p].at = "idle" /\ ~Writes(p)'
  BY DEF Idle, Writes
<1>6. \A x \in Roles : n.flags[x] \subseteq n.members
  BY <1>2, <1>3, RolesDistinct
<1>7. \A x \in Roles : row'.flags[x] \subseteq row'.members
  <2>1. CASE row' = row
    BY <1>3, <2>1
  <2>2. CASE FlagsWritten(row, row', n, q) /\ row' # row
    <3>1. q \in row.members /\ row'.members = row.members
      BY <2>2 DEF FlagsWritten
    <3>2. \A x \in Roles : row'.flags[x] = (row.flags[x] \ {q}) \cup (n.flags[x] \cap {q})
      BY <2>2, <3>1 DEF FlagsWritten
    <3> QED
      BY <1>3, <3>1, <3>2
  <2> QED
    BY <2>1, <2>2
<1>8. n.id # row.id => row' = row
  BY DEF FlagsWritten
<1>9. ASSUME o = active, damage' # "memory", n.members # {} PROVE n.flags["owner"] = {n.owner}
  <2>1. ch.flags["owner"] = {ch.owner}
    BY <1>3, <1>9 DEF Hurts
  <2> QED
    BY <2>1
<1>10. ASSUME o = active, damage' = "none" PROVE n.members = row'.members /\ n.flags = row'.flags
  <2>1. /\ damage = "none" /\ FlagsWritten(row, row', n, q)
        /\ n.flags["owner"] = (ch.flags["owner"] \ {ch.owner}) \cup {q}
        /\ \A x \in Roles \ {"owner"} : n.flags[x] = ch.flags[x]
    BY <1>10 DEF Hurts
  <2>2. /\ ch.members = row.members
        /\ \A x \in Roles \ {"owner"} : ch.flags[x] = row.flags[x]
        /\ row.flags["owner"] = ch.flags["owner"] \ {ch.owner}
    BY <1>4, <1>10, <2>1 DEF Cleared
  <2>3. row.id = n.id /\ q \in row.members /\ row'.members = row.members
    BY <1>1, <1>2, <1>3, <1>10, <2>1, <2>2 DEF FlagsWritten
  <2>4. \A x \in Roles : row'.flags[x] = (row.flags[x] \ {q}) \cup (n.flags[x] \cap {q})
    BY <2>1, <2>3 DEF FlagsWritten
  <2>5. row'.flags["owner"] = n.flags["owner"]
    <3>1. row'.flags["owner"] = (row.flags["owner"] \ {q}) \cup (n.flags["owner"] \cap {q})
      BY <2>4, RolesDistinct
    <3> QED
      BY <2>1, <2>2, <3>1
  <2>6. ASSUME NEW x \in Roles \ {"owner"} PROVE row'.flags[x] = n.flags[x]
    <3>1. row'.flags[x] = (n.flags[x] \ {q}) \cup (n.flags[x] \cap {q})
      BY <2>1, <2>2, <2>4
    <3> QED
      BY <3>1
  <2>7. n.flags \in Flags /\ \A x \in Roles : row'.flags[x] = n.flags[x]
    BY <2>5, <2>6 DEF ChannelRecord
  <2> QED
    BY <2>2, <2>3, <2>7, FlagsEqual, FlagTypes
<1>11. damage' = damage \/ Hurts
  OBVIOUS
<1>12. o # active /\ n.id = row.id /\ ch.members = {} => damage' # "none"
  BY <1>2
<1> QED
  BY <1>1, <1>2, <1>5, <1>6, <1>7, <1>8, <1>9, <1>10, <1>11, <1>12 DEF Orderly, Writes

\* After the first write of a logout the rows lack the heir's flag and nothing
\* else.
LEMMA HandOverOrderly ==
  ASSUME ChatTypes, CallTypes, ChatTypes', ChannelInv, Unlocked(call[Listener].on),
         NEW o \in Objects, NEW n \in ChannelRecord, NEW p \in Players, NEW heir \in Players, HandsOver(o, n, p, heir)
  PROVE  Orderly(Listener, o, n) /\ heir \in objects[o].members
<1> DEFINE ch == objects[o]
<1>1. /\ server = "up" /\ n.id = ch.id /\ Listener # NoOne /\ ch.holder = NoOne
      /\ p \in ch.members \cap ch.flags["owner"] /\ heir \in Heirs(ch, ch.members \ {p})
      /\ n.members = ch.members
      /\ n.flags["owner"] = (ch.flags["owner"] \ {p}) \cup {heir}
      /\ \A x \in Roles \ {"owner"} : n.flags[x] = ch.flags[x]
      /\ n.owner = heir /\ n.holder = Listener
      /\ call'[Listener].at = "heir" /\ call'[Listener].with = heir /\ call'[Listener].on = o
      /\ \/ FlagsWritten(row, row', n, p) /\ damage' = damage
         \/ row' = row /\ Hurts
  BY PlayersAssumption DEF HandsOver, Works, Unlocked
<1>2. /\ \A x \in Roles : ch.flags[x] \subseteq ch.members /\ row.flags[x] \subseteq row.members
      /\ o = active => ch.id = row.id
      /\ o = active /\ damage = "none" => ch.members = row.members /\ ch.flags = row.flags
      /\ o = active /\ damage # "memory" /\ ch.members # {} => ch.flags["owner"] = {ch.owner}
  BY <1>1, ActiveMirrors
<1>3. heir \in ch.members \ {p}
  <2>1. ch \in ChannelRecord /\ ch.members \ {p} \in SUBSET Players
    BY DEF ChatTypes, ChannelRecord
  <2> QED
    BY <1>1, <2>1, HeirsStay
<1>4. \A x \in Roles : n.flags[x] \subseteq n.members
  BY <1>1, <1>2, <1>3, RolesDistinct
<1>5. \A x \in Roles : row'.flags[x] \subseteq row'.members
  <2>1. CASE row' = row
    BY <1>2, <2>1
  <2>2. CASE FlagsWritten(row, row', n, p) /\ row' # row
    <3>1. p \in row.members /\ row'.members = row.members
      BY <2>2 DEF FlagsWritten
    <3>2. \A x \in Roles : row'.flags[x] = (row.flags[x] \ {p}) \cup (n.flags[x] \cap {p})
      BY <2>2, <3>1 DEF FlagsWritten
    <3> QED
      BY <1>2, <3>1, <3>2
  <2> QED
    BY <1>1, <2>1, <2>2
<1>6. n.id # row.id => row' = row
  BY <1>1 DEF FlagsWritten
<1>7. ASSUME o = active, damage' # "memory" PROVE n.flags["owner"] = {n.owner}
  <2>1. ch.flags["owner"] = {ch.owner}
    BY <1>1, <1>2, <1>7 DEF Hurts
  <2>2. ch.flags["owner"] = {p}
    BY <1>1, <2>1
  <2> QED
    BY <1>1, <2>2
<1>8. ASSUME o = active, damage' = "none" PROVE SameBut(n, row', heir)
  <2>1. damage = "none" /\ FlagsWritten(row, row', n, p)
    BY <1>1, <1>8 DEF Hurts
  <2>2. ch.members = row.members /\ ch.flags = row.flags /\ row.id = n.id
    BY <1>1, <1>2, <1>8, <2>1
  <2>3. row'.members = row.members /\ \A x \in Roles : row'.flags[x] = (ch.flags[x] \ {p}) \cup (n.flags[x] \cap {p})
    BY <1>1, <2>1, <2>2 DEF FlagsWritten
  <2>4. row'.flags["owner"] \ {heir} = n.flags["owner"] \ {heir}
    <3>1. row'.flags["owner"] = (ch.flags["owner"] \ {p}) \cup (n.flags["owner"] \cap {p})
      BY <2>3, RolesDistinct
    <3> QED
      BY <1>1, <1>3, <3>1
  <2>5. \A x \in Roles \ {"owner"} : row'.flags[x] \ {heir} = n.flags[x] \ {heir}
    BY <1>1, <2>3
  <2>6. \A x \in Roles : n.flags[x] \ {heir} = row'.flags[x] \ {heir}
    BY <2>4, <2>5
  <2> QED
    BY <1>1, <2>2, <2>3, <2>6 DEF SameBut
<1>9. Writes(Listener)' /\ (damage' = damage \/ Hurts)
  BY <1>1 DEF Writes
<1>10. o # active /\ n.id = row.id /\ ch.members = {} => damage' # "none"
  BY <1>1
<1> QED
  BY <1>1, <1>3, <1>4, <1>5, <1>6, <1>7, <1>8, <1>9, <1>10 DEF Orderly, Writes


-----------------------------------------------------------------------------
(* The start, and the actions that replace the active channel              *)

\* The channel's invariant and types hold at the start.
LEMMA InitChannel ==
  ASSUME Init
  PROVE  ChatTypes /\ CallTypes /\ ChannelInv
<1>1. PICK ms \in {{}, FirstMembers} :
        /\ row = IF ms = {} THEN [NewRow(0, NoPassword) EXCEPT !.listed = FALSE]
                 ELSE [NewRow(1, NoPassword) EXCEPT !.members = ms,
                         !.flags["owner"] = {CHOOSE p \in ms \ FirstModerators : TRUE},
                         !.flags["moderator"] = FirstModerators]
        /\ active = IF ms = {} THEN 0 ELSE 1
        /\ objects = [o \in Objects |-> IF ms # {} /\ o = 1 THEN CHOOSE ch \in Loaded(row) : TRUE ELSE Unused]
        /\ known = ms
  BY Zenon DEF Init
<1>a. (ms = {} => active = 0) /\ (ms # {} => active = 1)
  BY <1>1, Zenon
<1>2. /\ server = "up" /\ roll = {} /\ call = [t \in Threads |-> Idle] /\ damage = "none"
  BY Zenon DEF Init
<1>3. CallTypes /\ \A t \in Threads : call[t] = Idle /\ ~Writes(t)
  BY <1>2, IdleCall DEF CallTypes, Idle, Writes
<1>4. row \in RowRecord /\ (\A x \in Roles : row.flags[x] \subseteq row.members) /\ row.members = ms
  <2>1. CASE ms = {}
    <3>1. NewRow(0, NoPassword) \in RowRecord /\ NewRow(0, NoPassword).members = {} /\ NewRow(0, NoPassword).flags = NoRoles
      BY NewRowType, PasswordsAssumption
    <3> QED
      BY <1>1, <2>1, <3>1, NoRolesFlags DEF RowRecord
  <2>2. CASE ms # {}
    <3> DEFINE w == CHOOSE p \in ms \ FirstModerators : TRUE
               b == NewRow(1, NoPassword)
    <3>1. ms = FirstMembers /\ w \in ms \ FirstModerators
      BY <1>1, <2>2, FirstAssumption, Zenon
    <3>2. b \in RowRecord /\ b.members = {} /\ b.flags = NoRoles
      BY NewRowType, PasswordsAssumption
    <3>3. w \in ms /\ ms \in SUBSET Players /\ FirstModerators \subseteq ms
      BY <3>1, FirstAssumption
    <3>4. row = [b EXCEPT !.members = ms, !.flags["owner"] = {w}, !.flags["moderator"] = FirstModerators]
      BY <1>1, <2>2, Zenon
    <3> HIDE DEF w, b
    <3>5. /\ row.members = ms /\ row.flags = [[NoRoles EXCEPT !["owner"] = {w}] EXCEPT !["moderator"] = FirstModerators]
          /\ row.listed = b.listed /\ row.id = b.id /\ row.banned = b.banned /\ row.password = b.password
          /\ row.announce = b.announce
          /\ row = [listed |-> b.listed, id |-> b.id, members |-> ms, flags |-> row.flags, banned |-> b.banned,
                    password |-> b.password, announce |-> b.announce]
      BY <3>2, <3>4 DEF RowRecord
    <3>6. /\ row.flags["owner"] = {w} /\ row.flags["moderator"] = FirstModerators /\ row.flags["muted"] = {}
          /\ row.flags \in [Roles -> {{w}, FirstModerators, {}}]
      BY <3>5, NoRolesFlags DEF Roles, NoRoles
    <3>7. row.flags \in Flags
      BY <3>3, <3>6 DEF Flags
    <3>8. row \in RowRecord
      BY <3>2, <3>3, <3>5, <3>7 DEF RowRecord
    <3> QED
      BY <3>3, <3>5, <3>6, <3>8 DEF Roles
  <2> QED
    BY <2>1, <2>2
<1>5. ms # {} => row.flags["owner"] # {} /\ \A p, q \in row.flags["owner"] : p = q
  <2> HAVE ms # {}
  <2> DEFINE b == NewRow(1, NoPassword)
             w == CHOOSE p \in ms \ FirstModerators : TRUE
  <2>1. row = [b EXCEPT !.members = ms, !.flags["owner"] = {w}, !.flags["moderator"] = FirstModerators]
    BY <1>1, Zenon
  <2>2. b \in RowRecord /\ b.flags \in Flags
    BY NewRowType, PasswordsAssumption, NoRolesFlags
  <2> HIDE DEF w, b
  <2>3. row.flags = [[b.flags EXCEPT !["owner"] = {w}] EXCEPT !["moderator"] = FirstModerators]
    BY <2>1, <2>2 DEF RowRecord
  <2>4. row.flags["owner"] = {w}
    BY <2>2, <2>3 DEF Flags, Roles
  <2> QED
    BY <2>4
<1>6. ms # {} => objects[1] \in Loaded(row) /\ active = 1
  <2> HAVE ms # {}
  <2>1. 1 \in Objects
    BY DEF Objects
  <2>2. objects[1] = CHOOSE ch \in Loaded(row) : TRUE
    BY <1>1, <2>1, Zenon
  <2>3. Loaded(row) # {}
    BY <1>4, SomeLoaded
  <2>4. (CHOOSE ch \in Loaded(row) : TRUE) \in Loaded(row)
    BY <2>3
  <2> QED
    BY <1>1, <2>2, <2>4, Zenon
<1>7. \A o \in Objects : (ms = {} \/ o # 1) => objects[o] = Unused
  BY <1>1, Zenon
<1>8. /\ \A o \in Objects : objects[o] \in ChannelRecord /\ objects[o].holder = NoOne
      /\ \A o \in Objects : o # active => objects[o].members = {}
      /\ \A o \in Objects, x \in Roles : objects[o].flags[x] \subseteq objects[o].members
      /\ \A o \in Objects : objects[o].id \in {0, row.id}
      /\ active # 0 => objects[active].members = row.members /\ objects[active].flags = row.flags /\ objects[active].id = row.id
      /\ active # 0 => objects[active].flags["owner"] = {objects[active].owner}
  <2>1. ASSUME ms # {} PROVE /\ objects[1] \in ChannelRecord /\ objects[1].holder = NoOne /\ objects[1].id = row.id
                             /\ objects[1].members = row.members /\ objects[1].flags = row.flags
                             /\ objects[1].flags["owner"] = {objects[1].owner}
    <3>1. objects[1] \in Loaded(row)
      BY <1>6, <2>1
    <3>2. /\ objects[1] \in ChannelRecord /\ objects[1].holder = NoOne /\ objects[1].id = row.id
          /\ objects[1].members = row.members /\ objects[1].flags = row.flags
          /\ IF row.flags["owner"] = {} THEN objects[1].owner = NoOne ELSE objects[1].owner \in row.flags["owner"]
      BY <1>4, <3>1, LoadedType
    <3> QED
      BY <1>5, <2>1, <3>2
  <2>2. ms = {} => active = 0
    BY <1>1
  <2> QED
    BY <1>4, <1>6, <1>7, <2>1, <2>2, UnusedType
<1>9. ChatTypes
  <2>1. objects \in [Objects -> ChannelRecord]
    BY <1>1, <1>8, Zenon
  <2>2. active \in {0} \cup Objects
    BY <1>a DEF Objects
  <2>3. known \in SUBSET Players
    <3>1. row.members \in SUBSET Players
      BY <1>4 DEF RowRecord
    <3> QED
      BY <1>1, <1>4, <3>1, Zenon
  <2> QED
    BY <1>2, <1>4, <2>1, <2>2, <2>3 DEF ChatTypes
<1>10. ChannelInv
  <2>1. StartInv /\ HeldInv
    BY <1>2, <1>3 DEF StartInv, HeldInv, Writes
  <2>2. LockInv
    BY <1>3, <1>8 DEF LockInv
  <2>3. IdInv
    <3>1. row.id \in Nat
      BY <1>4 DEF RowRecord
    <3> QED
      BY <1>8, <3>1 DEF IdInv
  <2>4. RolesInv
    BY <1>4, <1>8 DEF RolesInv
  <2>5. DroppedInv
    <3>1. active = 0 => row.members = {}
      BY <1>a, <1>4
    <3> QED
      BY <1>8, <3>1 DEF DroppedInv
  <2>6. MirrorInv
    BY <1>2, <1>3, <1>8 DEF MirrorInv, Writes
  <2>7. OwnerInv
    BY <1>2, <1>8 DEF OwnerInv
  <2> QED
    BY <2>1, <2>2, <2>3, <2>4, <2>5, <2>6, <2>7 DEF ChannelInv
<1> QED
  BY <1>3, <1>9, <1>10

\* A channel loaded or created by a join is in order.
LEMMA CreateKeepsChannel ==
  ASSUME ChatTypes, CallTypes, ChatTypes', CallTypes', damage \in {"none", "rows", "memory"}, ChannelInv,
         NEW p \in Players, NEW o \in Objects, Creates(p, o)
  PROVE  ChannelInv' /\ (row.listed => objects'[o].members = row.members /\ objects'[o].flags = row.flags)
<1> USE DEF ChannelInv
<1>0. /\ active = 0 /\ server = "up" /\ call[p] = Idle /\ active' = o /\ server' = "up" /\ o # 0
      /\ \A t \in Threads : call[t].on # o
      /\ \A u \in Objects : u # o => objects'[u] = objects[u]
      /\ row.listed => row' = row
      /\ ~row.listed => row'.listed /\ row'.id = row.id + 1 /\ row'.members = {} /\ row'.flags = NoRoles
      /\ damage' = IF ~row.listed THEN "none" ELSE IF damage = "rows" THEN "memory" ELSE damage
      /\ call'[p].at = "join" /\ call'[p].on = o
      /\ \A u \in Threads : u # p => call'[u] = call[u]
      /\ p \in Threads
  BY ListenerIsThread DEF Creates, Reusable, Objects
<1>1. /\ objects'[o].id = row'.id /\ objects'[o].members = row'.members /\ objects'[o].flags = row'.flags
      /\ objects'[o].holder = NoOne
  <2>1. row' \in RowRecord /\ objects'[o] \in Loaded(row')
    BY DEF ChatTypes, Creates
  <2> QED
    BY <2>1, LoadedType
<1>2. ASSUME NEW t \in Threads, Writes(t)'
      PROVE  Writes(t) /\ call'[t] = call[t] /\ call[t].on \in Objects /\ objects'[call[t].on] = objects[call[t].on]
  <2>1. t # p
    BY <1>0, <1>2 DEF Writes
  <2>2. Writes(t) /\ call'[t] = call[t]
    BY <1>0, <1>2, <2>1 DEF Writes
  <2>3. call[t].on \in Objects /\ call[t].on # o
    BY <1>0, <2>2, WritersHaveObjects
  <2> QED
    BY <1>0, <2>2, <2>3
<1>3. row.id \in Nat /\ row'.id \in Nat /\ \A u \in Objects : objects[u].id \in Nat
  BY DEF ChatTypes, RowRecord, ChannelRecord
<1>4. \A u \in Objects : objects[u].id <= row'.id /\ (~row.listed => objects[u].id # row'.id)
  BY <1>0, <1>3 DEF IdInv
<1>5. row.listed /\ damage = "none" => row.members = {}
  BY <1>0 DEF DroppedInv
<1>6. \A x \in Roles : row'.flags[x] \subseteq row'.members
  BY <1>0, NoRolesFlags DEF RolesInv
<1>s. StartInv'
  BY <1>0 DEF StartInv
<1>l. LockInv'
  <2>1. ASSUME NEW t \in Threads, Writes(t)' PROVE objects'[call'[t].on].holder = t
    BY <1>2, <2>1 DEF LockInv
  <2>2. ASSUME NEW u \in Objects, objects'[u].holder # NoOne
        PROVE  call'[objects'[u].holder].at \in {"heir", "setOwnerNew"} /\ call'[objects'[u].holder].on = u
    <3>1. u # o
      BY <1>1, <2>2
    <3>2. PICK h : h = objects[u].holder
      OBVIOUS
    <3>3. h = objects'[u].holder /\ h # NoOne /\ h \in Threads
      BY <1>0, <2>2, <3>1, <3>2 DEF ChatTypes, ChannelRecord
    <3>4. Writes(h) /\ call[h].on = u
      BY <3>2, <3>3 DEF LockInv
    <3>5. h # p
      BY <1>0, <3>4 DEF Writes, Idle
    <3>6. call'[h] = call[h]
      BY <1>0, <3>3, <3>5
    <3> QED
      BY <3>3, <3>4, <3>6 DEF Writes
  <2> QED
    BY <2>1, <2>2 DEF LockInv, Writes
<1>h. HeldInv'
  <2> SUFFICES ASSUME NEW t \in Threads, Writes(t)'
               PROVE  /\ call'[t].at = "heir" => call'[t].with \in objects'[call'[t].on].members
                      /\ call'[t].at = "setOwnerNew" => call'[t].to \in objects'[call'[t].on].members
    BY DEF HeldInv, Writes
  <2> QED
    BY <1>2 DEF HeldInv
<1>i. IdInv'
  <2>1. \A u \in Objects : objects'[u].id <= row'.id
    BY <1>0, <1>1, <1>3, <1>4
  <2> QED
    BY <1>0, <1>1, <2>1 DEF IdInv
<1>r. RolesInv'
  BY <1>0, <1>1, <1>6 DEF RolesInv
<1>d. DroppedInv'
  <2> SUFFICES ASSUME damage' = "none", NEW u \in Objects, u # o, objects'[u].id = row'.id
               PROVE  objects'[u].members = {}
    BY <1>0 DEF DroppedInv
  <2>1. row.listed /\ objects'[u] = objects[u]
    BY <1>0, <1>4
  <2>2. damage = "none" /\ row' = row
    BY <1>0, <2>1
  <2> QED
    BY <1>0, <2>1, <2>2 DEF DroppedInv, Objects
<1>m. MirrorInv'
  <2>1. \A t \in Threads : Writes(t)' => call'[t].on # o
    BY <1>0, <1>2
  <2> QED
    BY <1>0, <1>1, <2>1 DEF MirrorInv, Writes
<1>o. OwnerInv'
  <2>1. damage' # "memory" => row'.members = {}
    BY <1>0, <1>5
  <2> QED
    BY <1>0, <1>1, <2>1 DEF OwnerInv
<1> QED
  BY <1>0, <1>1, <1>s, <1>l, <1>h, <1>i, <1>r, <1>d, <1>m, <1>o

\* A channel that is dropped from memory is empty, and so are its rows.
LEMMA CleanupKeepsChannel ==
  ASSUME ChatTypes, CallTypes, ChannelInv, CleanupLocalMemory
  PROVE  /\ ChatTypes' /\ CallTypes' /\ ChannelInv'
         /\ active \in Objects /\ objects[active].members = {}
         /\ UNCHANGED <<objects, row, server, roll, known, call, damage, lagging, expelled>> /\ active' = 0 /\ server = "up"
<1> USE DEF ChannelInv
<1>1. /\ server = "up" /\ active \in Objects /\ objects[active].holder = NoOne /\ objects[active].members = {}
      /\ active' = 0 /\ UNCHANGED <<objects, row, server, roll, known, call, damage, lagging, expelled>>
  BY DEF CleanupLocalMemory, Unlocked, ChatTypes, history
<1>2. ChatTypes' /\ CallTypes'
  BY <1>1 DEF ChatTypes, CallTypes, WellFormed, At, Idle
<1>3. StartInv' /\ HeldInv' /\ RolesInv' /\ IdInv'
  BY <1>1 DEF StartInv, HeldInv, RolesInv, IdInv
<1>4. LockInv'
  BY <1>1 DEF LockInv, Writes
<1>5. DroppedInv'
  <2> SUFFICES ASSUME damage = "none"
               PROVE  /\ \A o \in Objects : objects[o].id = row.id => objects[o].members = {}
                      /\ row.members = {}
    BY <1>1 DEF DroppedInv
  <2>1. row.members = {}
    BY <1>1 DEF MirrorInv, Objects
  <2> QED
    BY <1>1, <2>1 DEF DroppedInv
<1>6. MirrorInv' /\ OwnerInv'
  BY <1>1 DEF MirrorInv, OwnerInv
<1> QED
  BY <1>1, <1>2, <1>3, <1>4, <1>5, <1>6

\* What a crash leaves in the rows is a channel in order, unless a second write
\* was outstanding.
LEMMA CrashKeepsChannel ==
  ASSUME ChatTypes, CallTypes, ChannelInv, Crash
  PROVE  /\ ChannelInv'
         /\ damage' # "memory" /\ row.listed /\ row.members # {} =>
              active # 0 /\ objects[active].members = row.members /\ objects[active].flags = row.flags
         /\ damage' # "memory" => damage = "none" /\ (active # 0 => objects[active].holder = NoOne)
         /\ damage' # "memory" /\ active # 0 => objects[active].members = row.members /\ objects[active].flags = row.flags
<1> USE DEF ChannelInv
<1>1. /\ CallTypes' /\ active' = 0 /\ server' = "down" /\ row' = row /\ server # "down"
      /\ objects' = [o \in Objects |-> Unused]
      /\ damage' = IF damage # "none" \/ server = "heir" \/ \E o \in Objects : objects[o].holder # NoOne
                   THEN "memory" ELSE "none"
      /\ \A t \in Threads : IF call[t].at \in {"joined", "left"} THEN call'[t].at = call[t].at ELSE call'[t] = Idle
  BY CrashEffect DEF Crash
<1>2. \A t \in Threads : call'[t].at \in {"idle", "joined", "left"}
  BY <1>1 DEF Idle
<1>3. \A t \in Threads : ~InServer(t)' /\ ~Writes(t)'
  BY <1>2 DEF InServer, Writes
<1>4. /\ \A o \in Objects : objects'[o].id = 0 /\ objects'[o].members = {} /\ objects'[o].holder = NoOne
      /\ \A o \in Objects, x \in Roles : objects'[o].flags[x] = {}
  BY <1>1, UnusedType
<1>5. ASSUME damage' # "memory"
      PROVE  damage = "none" /\ server # "heir" /\ \A o \in Objects : objects[o].holder = NoOne
  BY <1>1, <1>5
<1>6. ASSUME damage' # "memory", active # 0
      PROVE  objects[active].members = row.members /\ objects[active].flags = row.flags
  <2>1. active \in Objects
    BY <1>6 DEF ChatTypes
  <2> QED
    BY <1>5, <1>6, <2>1 DEF MirrorInv
<1>7. ASSUME damage' # "memory", row.listed, row.members # {} PROVE active # 0
  <2>1. server \in {"up", "preloaded"}
    BY <1>1, <1>5, <1>7 DEF ChatTypes
  <2> QED
    BY <1>5, <1>7, <2>1 DEF DroppedInv, StartInv
<1>s. StartInv'
  BY <1>1, <1>3, <1>4 DEF StartInv
<1>l. LockInv'
  BY <1>3, <1>4 DEF LockInv
<1>h. HeldInv'
  BY <1>2 DEF HeldInv
<1>i. IdInv'
  <2>1. row.id \in Nat
    BY DEF ChatTypes, RowRecord
  <2> QED
    BY <1>1, <1>4, <2>1 DEF IdInv
<1>r. RolesInv'
  BY <1>1, <1>4 DEF RolesInv
<1>d. DroppedInv'
  BY <1>1, <1>4 DEF DroppedInv
<1>m. MirrorInv'
  BY <1>1 DEF MirrorInv
<1>o. OwnerInv'
  <2> SUFFICES ASSUME damage' # "memory", row.listed, row.members # {} PROVE \E p \in Players : row.flags["owner"] = {p}
    BY <1>1 DEF OwnerInv
  <2>1. active # 0 /\ damage = "none"
    BY <1>5, <1>7
  <2>2. objects[active].members # {} /\ objects[active].flags = row.flags
    BY <1>6, <2>1
  <2>3. row.flags["owner"] = {objects[active].owner}
    BY <2>1, <2>2 DEF OwnerInv
  <2>4. row.flags["owner"] \in SUBSET Players
    BY RolesDistinct DEF ChatTypes, RowRecord, Flags
  <2> QED
    BY <2>3, <2>4
<1> QED
  BY <1>5, <1>6, <1>7, <1>s, <1>l, <1>h, <1>i, <1>r, <1>d, <1>m, <1>o DEF ChatTypes

\* What the start loads is in order if the rows are.
LEMMA PreloadKeepsChannel ==
  ASSUME ChatTypes, CallTypes, ChannelInv, damage \in {"none", "rows", "memory"}, Preload
  PROVE  /\ ChannelInv' /\ active = 0
         /\ row.listed => active' # 0 /\ objects'[active'].members = row.members /\ objects'[active'].flags = row.flags
         /\ ~row.listed => active' = 0 /\ server' # "down"
<1> USE DEF ChannelInv
<1>0. /\ ChatTypes' /\ CallTypes' /\ row' = row /\ call' = call /\ damage' = damage
      /\ server = "down" /\ server' \in {"preloaded", "up"}
      /\ \/ /\ row.listed /\ active' = 1 /\ objects'[1] \in Loaded(row)
            /\ \A u \in Objects : u # 1 => objects'[u] = objects[u]
         \/ ~row.listed /\ UNCHANGED <<active, objects>>
  BY PreloadEffect
<1>1. /\ active = 0 /\ damage # "rows" /\ 1 \in Objects /\ 0 \notin Objects
      /\ \A t \in Threads : ~InServer(t) /\ ~Writes(t)
      /\ \A o \in Objects : objects[o].holder = NoOne /\ objects[o].members = {}
  BY <1>0, WritersAreInServer DEF StartInv, Objects
<1>2. \A t \in Threads : ~InServer(t)' /\ ~Writes(t)'
  BY <1>0, <1>1 DEF InServer, Writes
<1>3. CASE row.listed
  <2>0. /\ active' = 1 /\ objects'[1] \in Loaded(row) /\ \A u \in Objects : u # 1 => objects'[u] = objects[u]
    BY <1>0, <1>3
  <2>1. /\ objects'[1].id = row.id /\ objects'[1].members = row.members /\ objects'[1].flags = row.flags
        /\ objects'[1].holder = NoOne
        /\ IF row.flags["owner"] = {} THEN objects'[1].owner = NoOne ELSE objects'[1].owner \in row.flags["owner"]
    <3>1. row \in RowRecord
      BY DEF ChatTypes
    <3> QED
      BY <2>0, <3>1, LoadedType
  <2>2. \A u \in Objects : objects'[u].holder = NoOne /\ (u # 1 => objects'[u].members = {})
    BY <1>1, <2>0, <2>1
  <2>s. StartInv'
    BY <1>0, <1>2, <2>0, <2>2 DEF StartInv
  <2>l. LockInv'
    BY <1>2, <2>2 DEF LockInv
  <2>h. HeldInv'
    BY <1>2 DEF HeldInv, Writes
  <2>i. IdInv'
    <3>1. row.id \in Nat
      BY DEF ChatTypes, RowRecord
    <3>2. \A u \in Objects : objects'[u].id <= row.id
      BY <2>0, <2>1, <3>1 DEF IdInv
    <3> QED
      BY <1>0, <2>0, <2>1, <3>2 DEF IdInv
  <2>r. RolesInv'
    <3>1. ASSUME NEW u \in Objects, NEW x \in Roles PROVE objects'[u].flags[x] \subseteq objects'[u].members
      <4>1. CASE u = 1
        BY <2>1, <4>1 DEF RolesInv
      <4>2. CASE u # 1
        BY <2>0, <4>2 DEF RolesInv
      <4> QED
        BY <4>1, <4>2
    <3> QED
      BY <1>0, <3>1 DEF RolesInv
  <2>d. DroppedInv'
    BY <2>0, <2>2 DEF DroppedInv
  <2>m. MirrorInv'
    <3>1. server' # "heir"
      BY <1>0
    <3> QED
      BY <1>0, <1>2, <2>0, <2>1, <3>1 DEF MirrorInv, Writes
  <2>o. OwnerInv'
    <3> SUFFICES ASSUME damage # "memory", row.members # {} PROVE objects'[1].flags["owner"] = {objects'[1].owner}
      BY <1>0, <2>0, <2>1 DEF OwnerInv
    <3>1. \E p \in Players : row.flags["owner"] = {p}
      BY <1>0, <1>3 DEF OwnerInv
    <3> QED
      BY <2>1, <3>1
  <2> QED
    BY <1>1, <1>3, <2>0, <2>1, <2>s, <2>l, <2>h, <2>i, <2>r, <2>d, <2>m, <2>o
<1>4. CASE ~row.listed
  <2>0. active' = 0 /\ objects' = objects
    BY <1>0, <1>1, <1>4
  <2>1. StartInv'
    BY <1>0, <1>1, <1>2, <1>4, <2>0 DEF StartInv
  <2>2. LockInv' /\ HeldInv'
    BY <1>1, <1>2, <2>0 DEF LockInv, HeldInv, Writes
  <2>3. IdInv' /\ RolesInv' /\ DroppedInv' /\ MirrorInv'
    BY <1>0, <1>1, <1>4, <2>0 DEF IdInv, RolesInv, DroppedInv, MirrorInv
  <2>4. OwnerInv'
    BY <1>0, <1>4, <2>0 DEF OwnerInv
  <2> QED
    BY <1>0, <1>1, <1>4, <2>0, <2>1, <2>2, <2>3, <2>4
<1> QED
  BY <1>3, <1>4

\* Pruning leaves the channel in order, half-written if an heir follows.
LEMMA PruneKeepsChannel ==
  ASSUME ChatTypes, CallTypes, ChatTypes', ChannelInv, damage \in {"none", "rows", "memory"},
         server = "preloaded", UNCHANGED <<active, call>>, active \in Objects,
         NEW n \in ChannelRecord, NEW offline \in SUBSET Players, Prunes(n, offline)
  PROVE  ChannelInv'
<1> USE DEF ChannelInv
<1> DEFINE ch == objects[active]
<1>0. /\ offline = ch.members \ roll /\ n.id = ch.id /\ n.holder = ch.holder
      /\ n.members = ch.members \ offline
      /\ \A x \in Roles \ {"owner"} : n.flags[x] = ch.flags[x] \ offline
      /\ objects'[active] = n /\ \A u \in Objects : u # active => objects'[u] = objects[u]
      /\ row'.id = row.id /\ row'.listed = row.listed
      /\ \A x \in Roles : row.flags[x] \subseteq row.members => row'.flags[x] \subseteq row'.members
      /\ active # 0
  BY DEF Prunes, Keeps, Objects
<1>1. \/ /\ damage' = damage
         /\ row.id = ch.id => row'.members = row.members \ offline /\ \A x \in Roles : row'.flags[x] = row.flags[x] \ offline
      \/ Hurts
  BY DEF Prunes
<1>2. \/ /\ n.flags["owner"] = ch.flags["owner"] \ offline
         /\ \/ n.owner = ch.owner /\ (ch.owner = NoOne \/ ch.owner \in roll)
            \/ n.members = {}
         /\ server' = "up"
      \/ /\ ch.owner # NoOne /\ ch.owner \notin roll
         /\ n.owner \in Heirs(ch, n.members)
         /\ n.flags["owner"] = (ch.flags["owner"] \ offline) \cup {n.owner}
         /\ server' = "heir"
  BY DEF Prunes
<1>3. /\ \A t \in Threads : ~InServer(t) /\ ~Writes(t)
      /\ \A o \in Objects : objects[o].holder = NoOne /\ (o # active => objects[o].members = {})
  BY WritersAreInServer DEF StartInv
<1>4. \A t \in Threads : ~InServer(t)' /\ ~Writes(t)'
  BY <1>3 DEF InServer, Writes
<1>5. \A o \in Objects : objects'[o].holder = NoOne /\ objects'[o].id = objects[o].id /\ (o # active => objects'[o].members = {})
  BY <1>0, <1>3
<1>6. server' \in {"up", "heir"} /\ (server' = "heir" => n.owner \in n.members)
  <2>1. ch \in ChannelRecord /\ n.members \in SUBSET Players
    BY DEF ChatTypes, ChannelRecord
  <2> QED
    BY <1>2, <2>1, HeirsStay
<1>7. /\ \A x \in Roles : ch.flags[x] \subseteq ch.members
      /\ ch.flags["owner"] \subseteq Players
  BY RolesDistinct DEF RolesInv, ChatTypes, ChannelRecord, Flags
<1>s. StartInv'
  BY <1>0, <1>4, <1>5, <1>6 DEF StartInv
<1>l. LockInv'
  BY <1>4, <1>5 DEF LockInv
<1>h. HeldInv'
  BY <1>4 DEF HeldInv, Writes
<1>i. IdInv'
  BY <1>0, <1>5 DEF IdInv
<1>r. RolesInv'
  <2>1. \A x \in Roles : n.flags[x] \subseteq n.members
    BY <1>0, <1>2, <1>6, <1>7, RolesDistinct
  <2>2. ASSUME NEW u \in Objects, NEW x \in Roles PROVE objects'[u].flags[x] \subseteq objects'[u].members
    <3>1. CASE u = active
      BY <1>0, <2>1, <3>1
    <3>2. CASE u # active
      BY <1>0, <3>2 DEF RolesInv
    <3> QED
      BY <3>1, <3>2
  <2>3. \A x \in Roles : row'.flags[x] \subseteq row'.members
    BY <1>0 DEF RolesInv
  <2> QED
    BY <2>2, <2>3 DEF RolesInv
<1>d. DroppedInv'
  BY <1>0, <1>5 DEF DroppedInv
<1>m. MirrorInv'
  <2> SUFFICES ASSUME damage' = "none"
               PROVE  /\ server' # "heir" => n.members = row'.members /\ n.flags = row'.flags
                      /\ server' = "heir" => SameBut(n, row', n.owner)
    BY <1>0, <1>4 DEF MirrorInv, Writes
  <2>1. damage = "none" /\ row.id = ch.id
    BY <1>0, <1>1 DEF Hurts, IdInv
  <2>2. ch.members = row.members /\ ch.flags = row.flags
    BY <1>0, <1>3, <2>1 DEF MirrorInv
  <2>3. row'.members = n.members /\ \A x \in Roles : row'.flags[x] = ch.flags[x] \ offline
    BY <1>0, <1>1, <2>1, <2>2 DEF Hurts
  <2>4. ASSUME server' # "heir" PROVE n.flags = row'.flags
    <3>1. \A x \in Roles : n.flags[x] = row'.flags[x]
      BY <1>0, <1>2, <2>3, <2>4
    <3>2. n.flags \in Flags /\ row'.flags \in Flags
      BY FlagTypes DEF ChannelRecord
    <3> QED
      BY <3>1, <3>2, FlagsEqual
  <2>5. ASSUME server' = "heir" PROVE SameBut(n, row', n.owner)
    <3>1. n.flags["owner"] = (ch.flags["owner"] \ offline) \cup {n.owner}
      BY <1>2, <2>5
    <3>2. n.flags["owner"] \ {n.owner} = row'.flags["owner"] \ {n.owner}
      BY <2>3, <3>1, RolesDistinct
    <3>3. \A x \in Roles : n.flags[x] \ {n.owner} = row'.flags[x] \ {n.owner}
      BY <1>0, <2>3, <3>2
    <3> QED
      BY <2>3, <3>3 DEF SameBut
  <2> QED
    BY <2>3, <2>4, <2>5
<1>o. OwnerInv'
  <2> SUFFICES ASSUME damage' # "memory", n.members # {} PROVE n.flags["owner"] = {n.owner}
    BY <1>0, <1>6 DEF OwnerInv
  <2>1. damage # "memory" /\ ch.members # {}
    BY <1>0, <1>1 DEF Hurts
  <2>2. ch.flags["owner"] = {ch.owner}
    BY <1>0, <2>1 DEF OwnerInv
  <2>3. ch.owner \in Players /\ ch.owner \in ch.members /\ ch.owner # NoOne
    BY <1>7, <2>2, RolesDistinct, PlayersAssumption
  <2>4. CASE server' = "up"
    <3>1. n.flags["owner"] = ch.flags["owner"] \ offline /\ n.owner = ch.owner /\ ch.owner \in roll
      BY <1>2, <2>3, <2>4
    <3> QED
      BY <1>0, <2>2, <3>1
  <2>5. CASE server' = "heir"
    <3>1. ch.owner \notin roll /\ n.flags["owner"] = (ch.flags["owner"] \ offline) \cup {n.owner}
      BY <1>2, <2>5
    <3>2. ch.owner \in offline
      BY <1>0, <2>3, <3>1
    <3> QED
      BY <2>2, <3>1, <3>2
  <2> QED
    BY <1>6, <2>4, <2>5
<1> QED
  BY <1>s, <1>l, <1>h, <1>i, <1>r, <1>d, <1>m, <1>o

\* A start without a channel goes on without one.
LEMMA NothingPrunedKeepsChannel ==
  ASSUME ChatTypes, ChannelInv, server = "preloaded", active = 0, server' = "up",
         UNCHANGED <<objects, row, active, call, damage>>
  PROVE  ChannelInv'
<1> USE DEF ChannelInv
<1>1. ~row.listed /\ \A o \in Objects : o # active
  BY DEF StartInv, Objects
<1>2. \A o \in Objects : objects[o].members = {} /\ objects[o].holder = NoOne
  BY <1>1 DEF StartInv
<1> QED
  BY <1>1, <1>2 DEF StartInv, LockInv, Writes, HeldInv, IdInv, RolesInv, DroppedInv, MirrorInv, OwnerInv

\* The write of the heir's flag completes the pruning.
LEMMA PruneHeirKeepsChannel ==
  ASSUME ChatTypes, CallTypes, ChannelInv, damage \in {"none", "rows", "memory"}, PersistPruneHeir
  PROVE  ChatTypes' /\ CallTypes' /\ ChannelInv' /\ active \in Objects
<1> USE DEF ChannelInv
<1> DEFINE ch == objects[active]
<1>1. active \in Objects /\ active # 0 /\ server = "heir"
  BY DEF PersistPruneHeir, StartInv, ChatTypes
<1>2. /\ ChatTypes' /\ CallTypes' /\ UNCHANGED <<objects, active, call>> /\ server' = "up"
      /\ row'.id = row.id /\ row'.listed = row.listed
      /\ \/ FlagsWritten(row, row', ch, ch.owner) /\ damage' = damage
         \/ row' = row /\ Hurts
  BY <1>1, PersistPruneHeirEffect DEF Keeps
<1>3. /\ \A t \in Threads : ~Writes(t)
      /\ \A o \in Objects : objects[o].holder = NoOne /\ (o # active => objects[o].members = {})
  BY <1>1, WritersAreInServer DEF StartInv
<1>4. /\ \A x \in Roles : ch.flags[x] \subseteq ch.members /\ row.flags[x] \subseteq row.members
      /\ ch.id = row.id
  BY <1>1 DEF RolesInv, IdInv
<1>5. \A x \in Roles : row'.flags[x] \subseteq row'.members
  <2>1. CASE row' = row
    BY <1>4, <2>1
  <2>2. CASE FlagsWritten(row, row', ch, ch.owner) /\ row' # row
    <3>1. ch.owner \in row.members /\ row'.members = row.members
      BY <2>2 DEF FlagsWritten
    <3>2. \A x \in Roles : row'.flags[x] = (row.flags[x] \ {ch.owner}) \cup (ch.flags[x] \cap {ch.owner})
      BY <2>2, <3>1 DEF FlagsWritten
    <3> QED
      BY <1>4, <3>1, <3>2
  <2> QED
    BY <1>2, <2>1, <2>2
<1>6. StartInv' /\ IdInv'
  BY <1>1, <1>2 DEF StartInv, IdInv
<1>7. LockInv' /\ HeldInv'
  BY <1>2, <1>3 DEF LockInv, HeldInv, Writes
<1>8. RolesInv'
  BY <1>2, <1>5 DEF RolesInv
<1>9. DroppedInv'
  BY <1>1, <1>2, <1>3 DEF DroppedInv
<1>10. MirrorInv'
  <2> SUFFICES ASSUME damage' = "none" PROVE ch.members = row'.members /\ ch.flags = row'.flags
    BY <1>2, <1>3 DEF MirrorInv, Writes
  <2>1. damage = "none" /\ FlagsWritten(row, row', ch, ch.owner)
    BY <1>2 DEF Hurts
  <2>2. ch.members = row.members /\ \A x \in Roles : ch.flags[x] \ {ch.owner} = row.flags[x] \ {ch.owner}
    BY <1>1, <2>1 DEF MirrorInv, SameBut
  <2>3. row'.members = row.members
    BY <2>1 DEF FlagsWritten
  <2>4. ASSUME NEW x \in Roles PROVE ch.flags[x] = row'.flags[x]
    <3>1. CASE ch.owner \in row.members
      <4>1. row'.flags[x] = (row.flags[x] \ {ch.owner}) \cup (ch.flags[x] \cap {ch.owner})
        BY <1>4, <2>1, <3>1 DEF FlagsWritten
      <4> QED
        BY <2>2, <4>1
    <3>2. CASE ch.owner \notin row.members
      <4>1. row' = row
        BY <2>1, <3>2 DEF FlagsWritten
      <4>2. ch.owner \notin ch.flags[x] /\ ch.owner \notin row.flags[x]
        BY <1>4, <2>2, <3>2
      <4> QED
        BY <2>2, <4>1, <4>2
    <3> QED
      BY <3>1, <3>2
  <2>5. ch.flags \in Flags /\ row'.flags \in Flags
    BY <1>1, <1>2, FlagTypes
  <2> QED
    BY <2>2, <2>3, <2>4, <2>5, FlagsEqual
<1>11. OwnerInv'
  BY <1>1, <1>2 DEF OwnerInv, Hurts
<1> QED
  BY <1>1, <1>2, <1>6, <1>7, <1>8, <1>9, <1>10, <1>11

-----------------------------------------------------------------------------
(* What a step means to the members and owners of ChannelOwnership         *)

OwnershipStep == Ownership!Next \/ UNCHANGED Ownership!vars

\* The members and roles the channel has now, case by case.
LEMMA CurrentNow ==
  /\ active # 0 => Current.members = objects[active].members /\ Current.flags = objects[active].flags
  /\ active = 0 /\ server = "down" /\ row.listed => Current.members = row.members /\ Current.flags = row.flags
  /\ active = 0 /\ (server # "down" \/ ~row.listed) => Current.members = {} /\ Current.flags = NoRoles
  BY DEF Current

\* The same for the next state.
LEMMA CurrentThen ==
  /\ active' # 0 => Current'.members = objects'[active'].members /\ Current'.flags = objects'[active'].flags
  /\ active' = 0 /\ server' = "down" /\ row'.listed => Current'.members = row'.members /\ Current'.flags = row'.flags
  /\ active' = 0 /\ (server' # "down" \/ ~row'.listed) => Current'.members = {} /\ Current'.flags = NoRoles
  BY DEF Current

\* Members, roles and damage as they were: a stutter of ChannelOwnership.
LEMMA StuttersIf ==
  ASSUME Current'.members = Current.members, Current'.flags["owner"] = Current.flags["owner"],
         Current'.flags["moderator"] = Current.flags["moderator"],
         damage = "memory" <=> damage' = "memory"
  PROVE  OwnershipStep
  BY DEF OwnershipStep, Ownership!vars

\* Damaged rows in memory: the promise of ChannelOwnership is void.
LEMMA BreaksIf ==
  ASSUME damage' = "memory"
  PROVE  OwnershipStep
  BY DEF OwnershipStep, Ownership!Next, Ownership!Break

\* A join of ChannelOwnership.
LEMMA JoinsIf ==
  ASSUME NEW p \in Players, damage # "memory", damage' # "memory", p \notin Current.members,
         Current'.members = Current.members \cup {p},
         Current'.flags["owner"] = IF Current.members = {} THEN {p} ELSE Current.flags["owner"],
         Current'.flags["moderator"] = Current.flags["moderator"]
  PROVE  OwnershipStep
  BY DEF OwnershipStep, Ownership!Next, Ownership!Join, Ownership!Intact

\* A removal of ChannelOwnership, of any number of members, with an heir if the
\* owner is among them.
LEMMA RemovesIf ==
  ASSUME NEW gone \in SUBSET Players, damage # "memory", damage' # "memory",
         Current'.members = Current.members \ gone,
         IF Current.flags["owner"] \subseteq Current'.members THEN Current'.flags["owner"] = Current.flags["owner"]
         ELSE IF Current'.members = {} THEN Current'.flags["owner"] = {}
         ELSE \E q \in Heirs(Current, Current'.members) : Current'.flags["owner"] = {q},
         Current'.flags["moderator"] = Current.flags["moderator"] \ gone
  PROVE  OwnershipStep
  BY DEF OwnershipStep, Ownership!Next, Ownership!Remove, Ownership!Intact, Ownership!Heirs, Heirs

\* A transfer of ChannelOwnership.
LEMMA HandsOverIf ==
  ASSUME NEW q \in Players, damage # "memory", damage' # "memory", q \in Current.members,
         Current'.members = Current.members, Current'.flags["owner"] = {q},
         Current'.flags["moderator"] = Current.flags["moderator"]
  PROVE  OwnershipStep
  BY DEF OwnershipStep, Ownership!Next, Ownership!HandOver, Ownership!Intact

\* A change of the moderators in ChannelOwnership.
LEMMA GrantsIf ==
  ASSUME damage # "memory", damage' # "memory", Current'.flags["moderator"] \subseteq Current.members,
         Current'.members = Current.members, Current'.flags["owner"] = Current.flags["owner"]
  PROVE  OwnershipStep
  BY DEF OwnershipStep, Ownership!Next, Ownership!Grant, Ownership!Intact

\* A channel created anew in ChannelOwnership.
LEMMA RenewsIf ==
  ASSUME damage = "memory", damage' # "memory", Current'.members = {}, Current'.flags = NoRoles
  PROVE  OwnershipStep
  BY NoRolesFlags, RolesDistinct DEF OwnershipStep, Ownership!Next, Ownership!Renew

\* A step that leaves members and roles alone is a stutter.
LEMMA KeptOwnership ==
  ASSUME KeepsChannel, ChatTypes
  PROVE  OwnershipStep
<1>1. active' = active /\ server' = server /\ damage' = damage
  BY DEF KeepsChannel
<1>2. Current'.members = Current.members /\ Current'.flags = Current.flags
  <2>1. CASE active # 0
    <3>1. active \in Objects
      BY <2>1 DEF ChatTypes
    <3>2. Same(objects[active], objects'[active])
      BY <3>1 DEF KeepsChannel
    <3> QED
      BY <1>1, <2>1, <3>2, CurrentNow, CurrentThen DEF Same
  <2>2. CASE active = 0 /\ server = "down"
    <3>1. row' = row
      BY <2>2 DEF KeepsChannel
    <3> QED
      BY <1>1, <2>2, <3>1, CurrentNow, CurrentThen
  <2>3. CASE active = 0 /\ server # "down"
    BY <1>1, <2>3, CurrentNow, CurrentThen
  <2> QED
    BY <2>1, <2>2, <2>3
<1> QED
  BY <1>1, <1>2, StuttersIf

\* A handler of the active channel moves its members and roles, a handler of another one does not.
LEMMA WorkShows ==
  ASSUME ChatTypes, NEW t \in Threads, NEW o \in Objects, NEW n \in ChannelRecord, Works(t, o, n),
         damage' = damage \/ Hurts
  PROVE  /\ o # active => OwnershipStep
         /\ o = active => /\ Current.members = objects[o].members /\ Current.flags = objects[o].flags
                          /\ Current'.members = n.members /\ Current'.flags = n.flags
         /\ damage = "memory" <=> damage' = "memory"
<1>1. server = "up" /\ server' = "up" /\ active' = active /\ objects'[o] = n /\ \A u \in Objects : u # o => objects'[u] = objects[u]
  BY DEF Works
<1>2. damage = "memory" <=> damage' = "memory"
  BY DEF Hurts
<1>3. ASSUME o # active PROVE OwnershipStep
  <2>1. Current'.members = Current.members /\ Current'.flags = Current.flags
    <3>1. CASE active # 0
      <4>1. objects'[active] = objects[active]
        BY <1>1, <1>3, <3>1 DEF ChatTypes
      <4> QED
        BY <1>1, <3>1, <4>1, CurrentNow, CurrentThen
    <3>2. CASE active = 0
      BY <1>1, <3>2, CurrentNow, CurrentThen
    <3> QED
      BY <3>1, <3>2
  <2> QED
    BY <1>2, <2>1, StuttersIf
<1>4. ASSUME o = active PROVE /\ Current.members = objects[o].members /\ Current.flags = objects[o].flags
                              /\ Current'.members = n.members /\ Current'.flags = n.flags
  <2>1. active # 0
    BY <1>4 DEF Objects
  <2> QED
    BY <1>1, <1>4, <2>1, CurrentNow, CurrentThen
<1> QED
  BY <1>2, <1>3, <1>4

\* Who may follow depends on the roles only.
LEMMA HeirsOf ==
  ASSUME NEW a, NEW b, NEW stay, a.flags = b.flags
  PROVE  Heirs(a, stay) = Heirs(b, stay)
  BY DEF Heirs

-----------------------------------------------------------------------------
(* Every step keeps the channel invariant and the promise of ownership     *)

ChannelStep == ChatTypes' /\ CallTypes' /\ ChannelInv' /\ OwnershipStep

Damages == damage \in {"none", "rows", "memory"}

\* JoinChannel is a join or a stutter.
LEMMA JoinStep ==
  ASSUME ChatTypes, CallTypes, Damages, ChannelInv, NEW p \in Players, JoinChannel(p)
  PROVE  ChannelStep
<1>1. ChatTypes' /\ CallTypes' /\ p \in Threads /\ call[p].at = "join" /\ Unlocked(call[p].on) /\ call'[p].at \in {"idle", "joined"}
  BY JoinEffect, ListenerIsThread
<1>2. CASE Passes(p)
  <2>1. KeepsChannel
    BY <1>1, <1>2, QuietPass
  <2> QED
    BY <1>1, <2>1, KeptChannel, KeptOwnership DEF ChannelStep
<1>3. CASE \E o \in Objects, n \in ChannelRecord :
             /\ Works(p, o, n)
             /\ p \notin objects[o].members /\ n.members = objects[o].members \cup {p}
             /\ n.flags["owner"] = IF objects[o].members = {} THEN {p} ELSE objects[o].flags["owner"]
             /\ \A x \in Roles \ {"owner"} : n.flags[x] = objects[o].flags[x]
             /\ n.owner = IF objects[o].members = {} THEN p ELSE objects[o].owner
             /\ n.holder = NoOne
             /\ row.id # n.id => row' = row
             /\ row.id = n.id => /\ row'.members = row.members \cup {p}
                                 /\ \A x \in Roles : row'.flags[x] = (row.flags[x] \ {p}) \cup (n.flags[x] \cap {p})
             /\ damage' = IF o # active /\ damage = "none" THEN "rows" ELSE damage
  <2>1. PICK o \in Objects, n \in ChannelRecord :
             /\ Works(p, o, n)
             /\ p \notin objects[o].members /\ n.members = objects[o].members \cup {p}
             /\ n.flags["owner"] = IF objects[o].members = {} THEN {p} ELSE objects[o].flags["owner"]
             /\ \A x \in Roles \ {"owner"} : n.flags[x] = objects[o].flags[x]
             /\ n.owner = IF objects[o].members = {} THEN p ELSE objects[o].owner
             /\ n.holder = NoOne
             /\ row.id # n.id => row' = row
             /\ row.id = n.id => /\ row'.members = row.members \cup {p}
                                 /\ \A x \in Roles : row'.flags[x] = (row.flags[x] \ {p}) \cup (n.flags[x] \cap {p})
             /\ damage' = IF o # active /\ damage = "none" THEN "rows" ELSE damage
    BY <1>3
  <2>2. Unlocked(o)
    BY <1>1, <2>1 DEF Works
  <2>3. Orderly(p, o, n)
    BY <1>1, <2>1, <2>2, JoinOrderly
  <2>4. ChannelInv'
    BY <1>1, <2>1, <2>3, WorkKeepsChannel DEF Damages
  <2>5. damage' = damage \/ Hurts
    BY <2>1 DEF Hurts
  <2>6. /\ o # active => OwnershipStep
        /\ o = active => /\ Current.members = objects[o].members /\ Current.flags = objects[o].flags
                         /\ Current'.members = n.members /\ Current'.flags = n.flags
        /\ damage = "memory" <=> damage' = "memory"
    BY <1>1, <2>1, <2>5, WorkShows
  <2>7. CASE o = active /\ damage' # "memory"
    <3>1. n.flags["moderator"] = objects[o].flags["moderator"]
      BY <2>1, RolesDistinct
    <3> QED
      BY <1>1, <2>1, <2>4, <2>6, <2>7, <3>1, JoinsIf DEF ChannelStep
  <2> QED
    BY <1>1, <2>4, <2>6, <2>7, BreaksIf DEF ChannelStep
<1> QED
  BY <1>2, <1>3, JoinEffect

\* Taking a member out is a removal, whether an heir follows or not.
LEMMA DepartStep ==
  ASSUME ChatTypes, CallTypes, ChatTypes', CallTypes', Damages, ChannelInv, NEW t \in Players, Unlocked(call[t].on),
         NEW o \in Objects, NEW n \in ChannelRecord, NEW gone \in Players, Departs(t, o, n, gone),
         \/ Unfollowed(t, o, n, gone)
         \/ \E heir \in Players : Followed(t, o, n, gone, heir)
  PROVE  ChannelStep
<1> DEFINE ch == objects[o]
<1>1. t \in Threads /\ Works(t, o, n) /\ Orderly(t, o, n) /\ damage' = damage
  BY ListenerIsThread, DepartOrderly DEF Departs
<1>2. ChannelInv'
  BY <1>1, WorkKeepsChannel DEF Damages
<1>3. /\ o # active => OwnershipStep
      /\ o = active => /\ Current.members = objects[o].members /\ Current.flags = objects[o].flags
                       /\ Current'.members = n.members /\ Current'.flags = n.flags
      /\ damage = "memory" <=> damage' = "memory"
  BY <1>1, WorkShows
<1>4. ASSUME o = active, damage' # "memory" PROVE OwnershipStep
  <2>1. gone \in ch.members /\ n.members = ch.members \ {gone} /\ server = "up"
    BY DEF Departs, Works
  <2>2. ch.flags["owner"] = {ch.owner} /\ ch.flags["owner"] \subseteq ch.members
    BY <1>3, <1>4, <2>1, ActiveMirrors, RolesDistinct
  <2>3. n.flags["moderator"] = ch.flags["moderator"] \ {gone}
    BY RolesDistinct DEF Unfollowed, Followed
  <2>4. CASE Unfollowed(t, o, n, gone)
    <3>1. (gone \notin ch.flags["owner"] \/ n.members = {}) /\ n.flags["owner"] = ch.flags["owner"] \ {gone}
      BY <2>4, RolesDistinct DEF Unfollowed
    <3>2. CASE gone \notin ch.flags["owner"]
      <4>1. ch.flags["owner"] \subseteq n.members /\ n.flags["owner"] = ch.flags["owner"]
        BY <2>1, <2>2, <3>1, <3>2
      <4> QED
        BY <1>3, <1>4, <2>1, <2>3, <4>1, RemovesIf
    <3>3. CASE n.members = {}
      <4>1. ~(ch.flags["owner"] \subseteq n.members) /\ n.flags["owner"] = {}
        BY <2>1, <2>2, <3>1, <3>3
      <4> QED
        BY <1>3, <1>4, <2>1, <2>3, <3>3, <4>1, RemovesIf
    <3> QED
      BY <3>1, <3>2, <3>3
  <2>5. CASE \E heir \in Players : Followed(t, o, n, gone, heir)
    <3>1. PICK heir \in Players : Followed(t, o, n, gone, heir)
      BY <2>5
    <3>2. /\ gone \in ch.flags["owner"] /\ heir \in Heirs(ch, n.members)
          /\ n.flags["owner"] = (ch.flags["owner"] \ {gone}) \cup {heir}
      BY <3>1 DEF Followed
    <3>3. heir \in n.members
      <4>1. ch \in ChannelRecord /\ n.members \in SUBSET Players
        BY DEF ChatTypes, ChannelRecord
      <4> QED
        BY <3>2, <4>1, HeirsStay
    <3>4. ~(ch.flags["owner"] \subseteq n.members) /\ n.members # {} /\ n.flags["owner"] = {heir}
      BY <2>1, <2>2, <3>2, <3>3
    <3>5. heir \in Heirs(Current, n.members)
      BY <1>3, <1>4, <3>2, HeirsOf
    <3> QED
      BY <1>3, <1>4, <2>1, <2>3, <3>4, <3>5, RemovesIf
  <2> QED
    BY <2>4, <2>5
<1> QED
  BY <1>2, <1>3, <1>4, BreaksIf DEF ChannelStep

\* LeaveChannel is a removal or a stutter.
LEMMA LeaveStep ==
  ASSUME ChatTypes, CallTypes, Damages, ChannelInv, NEW t \in Players, LeaveChannel(t)
  PROVE  ChannelStep
<1>1. ChatTypes' /\ CallTypes' /\ t \in Threads /\ Unlocked(call[t].on)
  BY LeaveEffect, ListenerIsThread
<1>2. CASE Passes(t)
  <2>1. KeepsChannel
    BY <1>1, <1>2, QuietPass
  <2> QED
    BY <1>1, <2>1, KeptChannel, KeptOwnership DEF ChannelStep
<1>3. CASE \E o \in Objects, n \in ChannelRecord, gone \in Players :
             Departs(t, o, n, gone) /\ Unfollowed(t, o, n, gone)
  BY <1>1, <1>3, DepartStep
<1>4. CASE \E o \in Objects, n \in ChannelRecord, gone \in Players, heir \in Players :
             Departs(t, o, n, gone) /\ Followed(t, o, n, gone, heir)
  BY <1>1, <1>4, DepartStep
<1> QED
  BY <1>2, <1>3, <1>4, LeaveEffect

\* PersistHeir is a stutter: the heir has been the owner in memory since the
\* removal.
LEMMA HeirStep ==
  ASSUME ChatTypes, CallTypes, Damages, ChannelInv, NEW t \in Threads, PersistHeir(t)
  PROVE  ChannelStep
<1>1. ChatTypes' /\ CallTypes' /\ call[t].at = "heir" /\ call'[t].at \in {"idle", "left", "banning", "remove"}
  BY PersistHeirEffect
<1>2. PICK o \in Objects, n \in ChannelRecord :
              /\ Works(t, o, n)
              /\ n.members = objects[o].members /\ n.flags = objects[o].flags /\ n.owner = objects[o].owner
              /\ n.holder = NoOne
              /\ \/ FlagsWritten(row, row', n, call[t].with) /\ damage' = damage
                 \/ row' = row /\ Hurts
  BY PersistHeirEffect
<1>3. Orderly(t, o, n)
  BY <1>1, <1>2, HeirOrderly
<1>4. ChannelInv'
  BY <1>1, <1>2, <1>3, WorkKeepsChannel DEF Damages
<1>5. /\ o # active => OwnershipStep
      /\ o = active => /\ Current.members = objects[o].members /\ Current.flags = objects[o].flags
                       /\ Current'.members = n.members /\ Current'.flags = n.flags
      /\ damage = "memory" <=> damage' = "memory"
  BY <1>2, WorkShows
<1>6. o = active => OwnershipStep
  BY <1>2, <1>5, StuttersIf
<1> QED
  BY <1>1, <1>4, <1>5, <1>6 DEF ChannelStep

\* SetFlag is a grant or a stutter.
LEMMA SetFlagStep ==
  ASSUME ChatTypes, CallTypes, Damages, ChannelInv, NEW p \in Players, SetFlag(p)
  PROVE  ChannelStep
<1>1. ChatTypes' /\ CallTypes' /\ Unlocked(call[p].on) /\ call'[p] = Idle /\ p \in Threads
  BY SetFlagEffect, ListenerIsThread
<1>2. CASE Passes(p)
  <2>1. KeepsChannel
    BY <1>1, <1>2, QuietPass
  <2> QED
    BY <1>1, <2>1, KeptChannel, KeptOwnership DEF ChannelStep
<1>3. CASE ~Passes(p)
  <2>1. PICK o \in Objects, n \in ChannelRecord :
                 /\ Works(p, o, n)
                 /\ call[p].to \in objects[o].members /\ n.members = objects[o].members
                 /\ n.flags["owner"] = objects[o].flags["owner"] /\ n.owner = objects[o].owner
                 /\ \A x \in Roles : n.flags[x] \cup {call[p].to} = objects[o].flags[x] \cup {call[p].to}
                 /\ n.holder = NoOne
                 /\ FlagsWritten(row, row', n, call[p].to) /\ damage' = damage
    BY <1>3, SetFlagEffect
  <2>2. Orderly(p, o, n)
    BY <1>1, <2>1, FlagOrderly
  <2>3. ChannelInv'
    BY <1>1, <2>1, <2>2, WorkKeepsChannel DEF Damages
  <2>4. /\ o # active => OwnershipStep
        /\ o = active => /\ Current.members = objects[o].members /\ Current.flags = objects[o].flags
                         /\ Current'.members = n.members /\ Current'.flags = n.flags
        /\ damage = "memory" <=> damage' = "memory"
    BY <1>1, <2>1, WorkShows
  <2>5. n.flags["moderator"] \subseteq n.members
    BY <2>2, RolesDistinct DEF Orderly
  <2>6. o = active /\ damage' # "memory" => OwnershipStep
    BY <2>1, <2>4, <2>5, GrantsIf
  <2> QED
    BY <1>1, <2>3, <2>4, <2>6, BreaksIf DEF ChannelStep
<1> QED
  BY <1>2, <1>3

\* SetOwnerOld is a stutter: memory is unchanged until the second write.
LEMMA SetOwnerOldStep ==
  ASSUME ChatTypes, CallTypes, Damages, ChannelInv, NEW p \in Players, SetOwnerOld(p)
  PROVE  ChannelStep
<1>1. ChatTypes' /\ CallTypes' /\ Unlocked(call[p].on) /\ p \in Threads
  BY SetOwnerOldEffect, ListenerIsThread
<1>2. CASE Passes(p)
  <2>1. KeepsChannel
    BY <1>1, <1>2, QuietPass
  <2> QED
    BY <1>1, <2>1, KeptChannel, KeptOwnership DEF ChannelStep
<1>3. CASE ~Passes(p)
  <2>1. PICK o \in Objects, n \in ChannelRecord :
                 /\ Works(p, o, n)
                 /\ call[p].to \in objects[o].members
                 /\ n.members = objects[o].members /\ n.flags = objects[o].flags /\ n.owner = objects[o].owner
                 /\ n.holder = p
                 /\ call'[p].at = "setOwnerNew" /\ call'[p].to = call[p].to /\ call'[p].on = o
                 /\ row'.members = row.members
                 /\ row.id # n.id \/ n.owner \notin n.members => row' = row
                 /\ (row.id = n.id /\ n.owner \in n.members \cap row.members) =>
                      /\ row'.flags["owner"] = row.flags["owner"] \ {n.owner}
                      /\ \A x \in Roles \ {"owner"} :
                           row'.flags[x] = (row.flags[x] \ {n.owner}) \cup (n.flags[x] \cap {n.owner})
                 /\ n.owner \in n.members /\ n.owner \notin row.members => row' = row
                 /\ damage' = damage
    BY <1>3, SetOwnerOldEffect
  <2>2. Orderly(p, o, n)
    BY <1>1, <2>1, SetOwnerOldOrderly
  <2>3. ChannelInv'
    BY <1>1, <2>1, <2>2, WorkKeepsChannel DEF Damages
  <2>4. /\ o # active => OwnershipStep
        /\ o = active => /\ Current.members = objects[o].members /\ Current.flags = objects[o].flags
                         /\ Current'.members = n.members /\ Current'.flags = n.flags
        /\ damage = "memory" <=> damage' = "memory"
    BY <1>1, <2>1, WorkShows
  <2>5. o = active => OwnershipStep
    BY <2>1, <2>4, StuttersIf
  <2> QED
    BY <1>1, <2>3, <2>4, <2>5 DEF ChannelStep
<1> QED
  BY <1>2, <1>3

\* SetOwnerNew is a transfer or a stutter.
LEMMA SetOwnerNewStep ==
  ASSUME ChatTypes, CallTypes, Damages, ChannelInv, NEW p \in Players, SetOwnerNew(p)
  PROVE  ChannelStep
<1>1. /\ ChatTypes' /\ CallTypes' /\ call[p].at = "setOwnerNew" /\ call'[p] = Idle /\ call[p].to \in Players /\ p \in Threads
  BY SetOwnerNewEffect, ListenerIsThread
<1>2. PICK o \in Objects, n \in ChannelRecord :
              /\ Works(p, o, n) /\ n.members = objects[o].members /\ n.holder = NoOne
              /\ \/ /\ n.flags["owner"] = (objects[o].flags["owner"] \ {objects[o].owner}) \cup {call[p].to}
                    /\ \A x \in Roles \ {"owner"} : n.flags[x] = objects[o].flags[x]
                    /\ n.owner = call[p].to
                    /\ FlagsWritten(row, row', n, call[p].to) /\ damage' = damage
                 \/ n.flags = objects[o].flags /\ n.owner = objects[o].owner /\ row' = row /\ Hurts
  BY SetOwnerNewEffect
<1>3. Orderly(p, o, n) /\ call[p].to \in objects[o].members
  BY <1>1, <1>2, SetOwnerNewOrderly
<1>4. ChannelInv'
  BY <1>1, <1>2, <1>3, WorkKeepsChannel DEF Damages
<1>5. /\ o # active => OwnershipStep
      /\ o = active => /\ Current.members = objects[o].members /\ Current.flags = objects[o].flags
                       /\ Current'.members = n.members /\ Current'.flags = n.flags
      /\ damage = "memory" <=> damage' = "memory"
  BY <1>1, <1>2, WorkShows
<1>6. ASSUME o = active, damage' # "memory" PROVE OwnershipStep
  <2>1. CASE n.flags = objects[o].flags
    BY <1>2, <1>5, <1>6, <2>1, StuttersIf
  <2>2. CASE n.flags # objects[o].flags
    <3>1. /\ n.flags["owner"] = (objects[o].flags["owner"] \ {objects[o].owner}) \cup {call[p].to}
          /\ n.flags["moderator"] = objects[o].flags["moderator"]
      BY <1>2, <2>2, RolesDistinct
    <3>2. server = "up"
      BY <1>2 DEF Works
    <3>3. objects[o].flags["owner"] = {objects[o].owner}
      BY <1>3, <1>5, <1>6, <3>2, ActiveMirrors
    <3>4. n.flags["owner"] = {call[p].to}
      BY <3>1, <3>3
    <3> QED
      BY <1>1, <1>2, <1>3, <1>5, <1>6, <3>1, <3>4, HandsOverIf
  <2> QED
    BY <2>1, <2>2
<1> QED
  BY <1>1, <1>4, <1>5, <1>6, BreaksIf DEF ChannelStep

\* TransferOwnershipOnLogout is a transfer or a stutter.
LEMMA TransferStep ==
  ASSUME ChatTypes, CallTypes, Damages, ChannelInv, TransferOwnershipOnLogout
  PROVE  ChannelStep
<1>1. ChatTypes' /\ CallTypes' /\ Unlocked(call[Listener].on) /\ Listener \in Threads
  BY TransferEffect, ListenerIsThread
<1>2. CASE Passes(Listener)
  <2>1. KeepsChannel
    BY <1>1, <1>2, QuietPass
  <2> QED
    BY <1>1, <2>1, KeptChannel, KeptOwnership DEF ChannelStep
<1>3. CASE ~Passes(Listener)
  <2>1. PICK o \in Objects, n \in ChannelRecord, p \in Players, heir \in Players : HandsOver(o, n, p, heir)
    BY <1>3, TransferEffect
  <2>2. Orderly(Listener, o, n) /\ heir \in objects[o].members /\ Works(Listener, o, n) /\ (damage' = damage \/ Hurts)
    BY <1>1, <2>1, HandOverOrderly DEF HandsOver
  <2>3. ChannelInv'
    BY <1>1, <2>2, WorkKeepsChannel DEF Damages
  <2>4. /\ o # active => OwnershipStep
        /\ o = active => /\ Current.members = objects[o].members /\ Current.flags = objects[o].flags
                         /\ Current'.members = n.members /\ Current'.flags = n.flags
        /\ damage = "memory" <=> damage' = "memory"
    BY <1>1, <2>2, WorkShows
  <2>5. ASSUME o = active, damage' # "memory" PROVE OwnershipStep
    <3>1. /\ p \in objects[o].members \cap objects[o].flags["owner"] /\ n.members = objects[o].members
          /\ n.flags["owner"] = (objects[o].flags["owner"] \ {p}) \cup {heir}
          /\ n.flags["moderator"] = objects[o].flags["moderator"] /\ server = "up"
      BY <2>1, <2>2, RolesDistinct DEF HandsOver, Works
    <3>2. objects[o].flags["owner"] = {objects[o].owner}
      BY <2>4, <2>5, <3>1, ActiveMirrors
    <3>3. n.flags["owner"] = {heir}
      BY <3>1, <3>2
    <3> QED
      BY <2>2, <2>4, <2>5, <3>1, <3>3, HandsOverIf
  <2> QED
    BY <1>1, <2>3, <2>4, <2>5, BreaksIf DEF ChannelStep
<1> QED
  BY <1>2, <1>3

\* A join that loads or creates the channel is a stutter, a renewal or the
\* loading of damage.
LEMMA CreateStep ==
  ASSUME ChatTypes, CallTypes, Damages, ChannelInv, NEW p \in Players, HandleJoinChannel(p), active = 0
  PROVE  ChannelStep
<1>1. ChatTypes' /\ CallTypes' /\ \E o \in Objects : Creates(p, o)
  BY JoinNew
<1>2. PICK o \in Objects : Creates(p, o)
  BY <1>1
<1>3. /\ ChannelInv'
      /\ row.listed => objects'[o].members = row.members /\ objects'[o].flags = row.flags
  BY <1>1, <1>2, CreateKeepsChannel DEF Damages
<1>4. /\ server = "up" /\ active' = o /\ o # 0
      /\ damage' = IF ~row.listed THEN "none" ELSE IF damage = "rows" THEN "memory" ELSE damage
  BY <1>2 DEF Creates, Objects
<1>5. /\ Current.members = {} /\ Current.flags = NoRoles
      /\ Current'.members = objects'[o].members /\ Current'.flags = objects'[o].flags
  BY <1>4, CurrentNow, CurrentThen
<1>6. CASE ~row.listed
  <2>1. objects'[o].members = {} /\ objects'[o].flags = NoRoles
    <3>1. row' \in RowRecord /\ objects'[o] \in Loaded(row') /\ row'.members = {} /\ row'.flags = NoRoles
      BY <1>1, <1>2, <1>6 DEF Creates, ChatTypes
    <3> QED
      BY <3>1, LoadedType
  <2>a. damage' = "none"
    BY <1>4, <1>6
  <2>b. Current'.members = {} /\ Current'.flags = NoRoles
    BY <1>5, <2>1
  <2>2. ASSUME damage = "memory" PROVE OwnershipStep
    BY <2>2, <2>a, <2>b, RenewsIf
  <2>3. ASSUME damage # "memory" PROVE OwnershipStep
    BY <1>5, <2>3, <2>a, <2>b, StuttersIf
  <2> QED
    BY <1>1, <1>3, <2>2, <2>3 DEF ChannelStep
<1>7. CASE row.listed
  <2>1. damage' # "memory" => damage = "none"
    BY <1>4, <1>7 DEF Damages
  <2>2. damage = "none" => row.members = {}
    BY <1>4, <1>7 DEF ChannelInv, DroppedInv
  <2>3. \A x \in Roles : row.flags[x] \subseteq row.members
    BY DEF ChannelInv, RolesInv
  <2>4. CASE damage' # "memory"
    <3>1. \A x \in Roles : objects'[o].flags[x] = NoRoles[x]
      BY <1>3, <1>7, <2>1, <2>2, <2>3, <2>4, NoRolesFlags
    <3> QED
      BY <1>1, <1>3, <1>5, <1>7, <2>1, <2>2, <2>4, <3>1, StuttersIf, RolesDistinct DEF ChannelStep
  <2> QED
    BY <1>1, <1>3, <2>4, BreaksIf DEF ChannelStep
<1> QED
  BY <1>6, <1>7

\* Dropping an empty channel is a stutter.
LEMMA CleanupStep ==
  ASSUME ChatTypes, CallTypes, ChannelInv, CleanupLocalMemory
  PROVE  ChannelStep
<1>1. /\ ChatTypes' /\ CallTypes' /\ ChannelInv'
      /\ active \in Objects /\ objects[active].members = {}
      /\ damage' = damage /\ server' = server /\ active' = 0 /\ server = "up"
  BY CleanupKeepsChannel
<1>2. active # 0
  BY <1>1 DEF Objects
<1>3. \A x \in Roles : objects[active].flags[x] = NoRoles[x]
  BY <1>1, NoRolesFlags DEF ChannelInv, RolesInv
<1>4. /\ Current.members = objects[active].members /\ Current.flags = objects[active].flags
      /\ Current'.members = {} /\ Current'.flags = NoRoles
  BY <1>1, <1>2, CurrentNow, CurrentThen
<1>5. OwnershipStep
  BY <1>1, <1>3, <1>4, StuttersIf, RolesDistinct
<1> QED
  BY <1>1, <1>5 DEF ChannelStep

\* A crash is a stutter, the members moving to the rows, or leaves damage
\* behind.
LEMMA CrashStep ==
  ASSUME ChatTypes, CallTypes, Damages, ChannelInv, Crash
  PROVE  ChannelStep
<1>1. ChatTypes' /\ CallTypes' /\ ChannelInv' /\ active' = 0 /\ server' = "down" /\ row' = row /\ server # "down"
  BY CrashEffect, CrashKeepsChannel DEF Crash
<1>2. ASSUME damage' # "memory" PROVE OwnershipStep
  <2>1. /\ row.listed /\ row.members # {} => active # 0
        /\ damage = "none"
        /\ active # 0 => objects[active].members = row.members /\ objects[active].flags = row.flags
    BY <1>2, CrashKeepsChannel
  <2>2. \A x \in Roles : row.flags[x] \subseteq row.members
    BY DEF ChannelInv, RolesInv
  <2>3. CASE row.listed
    <3>1. Current'.members = row.members /\ Current'.flags = row.flags
      BY <1>1, <2>3, CurrentThen
    <3>2. CASE active # 0
      <4>1. Current.members = row.members /\ Current.flags = row.flags
        BY <2>1, <3>2, CurrentNow
      <4> QED
        BY <1>2, <2>1, <3>1, <4>1, StuttersIf
    <3>3. CASE active = 0
      <4>1. Current.members = {} /\ Current.flags = NoRoles /\ row.members = {}
        BY <1>1, <2>1, <2>3, <3>3, CurrentNow
      <4>2. \A x \in Roles : row.flags[x] = NoRoles[x]
        BY <2>2, <4>1, NoRolesFlags
      <4> QED
        BY <1>2, <2>1, <3>1, <4>1, <4>2, StuttersIf, RolesDistinct
    <3> QED
      BY <3>2, <3>3
  <2>4. CASE ~row.listed
    <3>1. Current'.members = {} /\ Current'.flags = NoRoles
      BY <1>1, <2>4, CurrentThen
    <3>2. Current.members \in SUBSET Players /\ Current.flags["moderator"] \subseteq Current.members
      <4>1. CASE active # 0
        <5>1. Current.members = row.members /\ Current.flags = row.flags
          BY <2>1, <4>1, CurrentNow
        <5> QED
          BY <2>2, <5>1, RolesDistinct DEF ChatTypes, RowRecord
      <4>2. CASE active = 0
        <5>1. Current.members = {} /\ Current.flags = NoRoles
          BY <2>4, <4>2, CurrentNow
        <5> QED
          BY <5>1, NoRolesFlags, RolesDistinct
      <4> QED
        BY <4>1, <4>2
    <3>3. /\ Current'.flags["owner"] = {} /\ Current'.flags["moderator"] = {}
          /\ Current'.flags["moderator"] = Current.flags["moderator"] \ Current.members
          /\ Current'.members = Current.members \ Current.members
      BY <3>1, <3>2, NoRolesFlags, RolesDistinct
    <3>4. Current.flags["owner"] \subseteq Current'.members => Current'.flags["owner"] = Current.flags["owner"]
      BY <3>1, <3>3
    <3>5. PICK gone \in SUBSET Players : gone = Current.members
      BY <3>2
    <3>6. IF Current.flags["owner"] \subseteq Current'.members THEN Current'.flags["owner"] = Current.flags["owner"]
          ELSE IF Current'.members = {} THEN Current'.flags["owner"] = {}
          ELSE \E q \in Heirs(Current, Current'.members) : Current'.flags["owner"] = {q}
      BY <3>1, <3>3, <3>4
    <3> QED
      BY <1>2, <2>1, <3>3, <3>5, <3>6, RemovesIf
  <2> QED
    BY <2>3, <2>4
<1> QED
  BY <1>1, <1>2, BreaksIf DEF ChannelStep

\* Loading the rows at the start is a stutter.
LEMMA PreloadStep ==
  ASSUME ChatTypes, CallTypes, Damages, ChannelInv, Preload
  PROVE  ChannelStep
<1>1. /\ ChatTypes' /\ CallTypes' /\ damage' = damage /\ server = "down"
  BY PreloadEffect
<1>2. /\ ChannelInv' /\ active = 0
      /\ row.listed => active' # 0 /\ objects'[active'].members = row.members /\ objects'[active'].flags = row.flags
      /\ ~row.listed => active' = 0 /\ server' # "down"
  BY PreloadKeepsChannel DEF Damages
<1>3. Current'.members = Current.members /\ Current'.flags = Current.flags
  BY <1>1, <1>2, CurrentNow, CurrentThen
<1> QED
  BY <1>1, <1>2, <1>3, StuttersIf DEF ChannelStep

\* Pruning is a removal, whether an heir follows or not.
LEMMA PruneStep ==
  ASSUME ChatTypes, CallTypes, Damages, ChannelInv, PruneOfflineMembers
  PROVE  ChannelStep
<1>1. ChatTypes' /\ CallTypes' /\ UNCHANGED <<active, call>> /\ server = "preloaded"
  BY PruneEffect
<1>2. CASE active = 0
  <2>1. server' = "up" /\ UNCHANGED <<objects, row, damage>>
    BY <1>2, PruneEffect DEF Objects
  <2>2. ChannelInv'
    BY <1>1, <1>2, <2>1, NothingPrunedKeepsChannel
  <2>3. Current'.members = Current.members /\ Current'.flags = Current.flags
    BY <1>1, <1>2, <2>1, CurrentNow, CurrentThen
  <2> QED
    BY <1>1, <2>1, <2>2, <2>3, StuttersIf DEF ChannelStep
<1>3. CASE active # 0
  <2>1. active \in Objects /\ \E n \in ChannelRecord, offline \in SUBSET Players : Prunes(n, offline)
    BY <1>3, PruneEffect
  <2>2. PICK n \in ChannelRecord, offline \in SUBSET Players : Prunes(n, offline)
    BY <2>1
  <2>3. ChannelInv'
    BY <1>1, <2>1, <2>2, PruneKeepsChannel DEF Damages
  <2> DEFINE ch == objects[active]
  <2>4. /\ offline = ch.members \ roll /\ n.members = ch.members \ offline
        /\ n.flags["moderator"] = ch.flags["moderator"] \ offline
        /\ objects'[active] = n
        /\ damage' = damage \/ Hurts
    BY <2>2, RolesDistinct DEF Prunes
  <2>5. /\ Current.members = ch.members /\ Current.flags = ch.flags
        /\ Current'.members = n.members /\ Current'.flags = n.flags
    BY <1>1, <1>3, <2>4, CurrentNow, CurrentThen
  <2>6. ASSUME damage' # "memory" PROVE OwnershipStep
    <3>1. damage # "memory"
      BY <2>4, <2>6 DEF Hurts
    <3>2. /\ ch.flags["owner"] \subseteq ch.members /\ ch.flags["owner"] \subseteq Players
          /\ ch.members # {} => ch.flags["owner"] = {ch.owner}
      BY <1>3, <2>1, <3>1, RolesDistinct DEF ChannelInv, RolesInv, OwnerInv, ChatTypes, ChannelRecord, Flags
    <3>3. CASE /\ n.flags["owner"] = ch.flags["owner"] \ offline
               /\ n.owner = ch.owner /\ (ch.owner = NoOne \/ ch.owner \in roll)
      <4>1. ch.flags["owner"] \subseteq n.members /\ n.flags["owner"] = ch.flags["owner"]
        <5>1. CASE ch.members = {}
          BY <2>4, <3>2, <3>3, <5>1
        <5>2. CASE ch.members # {}
          <6>1. ch.owner \in roll
            BY <3>2, <3>3, <5>2, PlayersAssumption
          <6> QED
            BY <2>4, <3>2, <3>3, <5>2, <6>1
        <5> QED
          BY <5>1, <5>2
      <4> QED
        BY <2>4, <2>5, <2>6, <3>1, <4>1, RemovesIf
    <3>4. CASE n.flags["owner"] = ch.flags["owner"] \ offline /\ n.members = {}
      <4>1. n.flags["owner"] = {}
        BY <2>4, <3>2, <3>4
      <4>2. ch.flags["owner"] \subseteq n.members => n.flags["owner"] = ch.flags["owner"]
        BY <3>4, <4>1
      <4> QED
        BY <2>4, <2>5, <2>6, <3>1, <3>4, <4>1, <4>2, RemovesIf
    <3>5. CASE /\ ch.owner # NoOne /\ ch.owner \notin roll
               /\ n.owner \in Heirs(ch, n.members)
               /\ n.flags["owner"] = (ch.flags["owner"] \ offline) \cup {n.owner}
      <4>1. n.owner \in n.members
        <5>1. ch \in ChannelRecord /\ n.members \in SUBSET Players
          BY <2>1 DEF ChatTypes, ChannelRecord
        <5> QED
          BY <3>5, <5>1, HeirsStay
      <4>2. ch.flags["owner"] = {ch.owner} /\ ch.owner \in offline /\ ch.owner \notin n.members
        BY <2>4, <3>2, <3>5, <4>1
      <4>3. ~(ch.flags["owner"] \subseteq n.members) /\ n.members # {} /\ n.flags["owner"] = {n.owner}
        BY <3>5, <4>1, <4>2
      <4>4. n.owner \in Heirs(Current, n.members)
        BY <2>5, <3>5, HeirsOf
      <4> QED
        BY <2>4, <2>5, <2>6, <3>1, <4>3, <4>4, RemovesIf
    <3> QED
      BY <2>2, <3>3, <3>4, <3>5 DEF Prunes
  <2> QED
    BY <1>1, <2>3, <2>6, BreaksIf DEF ChannelStep
<1> QED
  BY <1>2, <1>3

\* PersistPruneHeir is a stutter.
LEMMA PruneHeirStep ==
  ASSUME ChatTypes, CallTypes, Damages, ChannelInv, PersistPruneHeir
  PROVE  ChannelStep
<1>1. ChatTypes' /\ CallTypes' /\ ChannelInv' /\ active \in Objects
  BY PruneHeirKeepsChannel DEF Damages
<1>2. objects' = objects /\ active' = active /\ (damage' = damage \/ Hurts) /\ active # 0
  BY <1>1, PersistPruneHeirEffect DEF Objects
<1>3. Current'.members = Current.members /\ Current'.flags = Current.flags
  BY <1>2, CurrentNow, CurrentThen
<1>4. damage = "memory" <=> damage' = "memory"
  BY <1>2 DEF Hurts
<1> QED
  BY <1>1, <1>3, <1>4, StuttersIf DEF ChannelStep

\* Every step keeps the types and the invariant of the channel, and is a step
\* of ChannelOwnership or a stutter.
LEMMA NextChannel ==
  ASSUME ChatTypes, CallTypes, GatewayTypes, Damages, ChannelInv, Next
  PROVE  ChannelStep
<1>1. ASSUME NEW p \in Players, Requests(p) PROVE ChannelStep
  BY <1>1, QuietRequest, KeptChannel, KeptOwnership DEF ChannelStep
<1>2. ASSUME NEW p \in Players, HandleJoinChannel(p) PROVE ChannelStep
  <2>1. CASE active # 0
    BY <1>2, <2>1, QuietRequest, KeptChannel, KeptOwnership DEF ChannelStep
  <2>2. CASE active = 0
    BY <1>2, <2>2, CreateStep
  <2> QED
    BY <2>1, <2>2
<1>3. ASSUME NEW p \in Players, GatewayStep(p) PROVE ChannelStep
  BY <1>3, QuietGateway, KeptChannel, KeptOwnership DEF ChannelStep
<1>4. ASSUME NEW p \in Players, SettingsStep(p) PROVE ChannelStep
  BY <1>4, QuietSettings, KeptChannel, KeptOwnership DEF ChannelStep
<1>5. CASE Broadcast
  BY <1>5, QuietBroadcast, KeptChannel, KeptOwnership DEF ChannelStep
<1>6. CASE Listening
  BY <1>6, QuietListening, KeptChannel, KeptOwnership DEF ChannelStep
<1>7. CASE CleanOldChannels
  BY <1>7, QuietCleanOld, KeptChannel, KeptOwnership DEF ChannelStep
<1> QED
  BY <1>1, <1>2, <1>3, <1>4, <1>5, <1>6, <1>7, StepCases, JoinStep, LeaveStep, HeirStep, SetFlagStep,
     SetOwnerOldStep, SetOwnerNewStep, TransferStep, CleanupStep, CrashStep, PreloadStep, PruneStep, PruneHeirStep

\* An initial state is an initial state of ChannelOwnership.
LEMMA InitOwnership ==
  ASSUME Init
  PROVE  Ownership!Init
<1>1. ChatTypes /\ ChannelInv /\ damage = "none" /\ server = "up"
  BY InitChannel, Zenon DEF Init
<1>2. CASE active # 0
  <2>1. Current.members = objects[active].members /\ Current.flags = objects[active].flags
    BY <1>2, CurrentNow
  <2>2. active \in Objects /\ objects[active].members \in SUBSET Players
    BY <1>1, <1>2 DEF ChatTypes, ChannelRecord
  <2>3. /\ \A x \in Roles : objects[active].flags[x] \subseteq objects[active].members
        /\ objects[active].members # {} => objects[active].flags["owner"] = {objects[active].owner}
    BY <1>1, <1>2, <2>2 DEF ChannelInv, RolesInv, OwnerInv
  <2>4. /\ Current.flags["moderator"] \subseteq Current.members /\ Current.flags["owner"] \subseteq Current.members
        /\ Current.members # {} => Current.flags["owner"] = {objects[active].owner}
    BY <2>1, <2>3, RolesDistinct
  <2>5. IF Current.members = {} THEN Current.flags["owner"] = {} ELSE \E p \in Current.members : Current.flags["owner"] = {p}
    BY <2>4
  <2> QED
    BY <1>1, <2>4, <2>5 DEF Ownership!Init, Ownership!OneOwner
<1>3. CASE active = 0
  <2>1. Current.members = {} /\ Current.flags["owner"] = {} /\ Current.flags["moderator"] = {}
    BY <1>1, <1>3, CurrentNow, NoRolesFlags, RolesDistinct
  <2> QED
    BY <1>1, <2>1 DEF Ownership!Init, Ownership!OneOwner
<1> QED
  BY <1>2, <1>3

-----------------------------------------------------------------------------
(* Settings and bans                                                       *)

SettingsInv ==
  ~lagging =>
    /\ \A p, q \in Players : Pending(p) /\ Pending(q) => p = q
    /\ active # 0 => \A p \in Players : Pending(p) => call[p].on = active
    /\ active # 0 /\ row.listed =>
       LET ch == objects[active]
       IN /\ (\A p \in Players : ~Pending(p)) =>
               ch.password = row.password /\ ch.announce = row.announce /\ ch.banned = row.banned
          /\ \A p \in Players :
               /\ call[p].at = "snapshot" => ch.password = row.password /\ ch.banned = row.banned
               /\ call[p].at = "writeSettings" => call[p].with = Snapshot(ch) /\ ch.banned = row.banned
               /\ call[p].at = "writeBan" =>
                    /\ ch.password = row.password /\ ch.announce = row.announce
                    /\ ch.banned = IF call[p].op = "ban" THEN row.banned \cup {call[p].to}
                                                         ELSE row.banned \ {call[p].to}

-----------------------------------------------------------------------------
(* Sessions                                                                *)

\* The gateway shows the channel to p or is about to, and p has not left.
Showing(p) ==
  \/ call[p].at = "joined"
  \/ session[p] = "shows" /\ call[p].at # "left" /\ ~(call[p].at = "heir" /\ call[p].op = "leave")

Seen(p) ==
  /\ call[p].on # 0 => objects[call[p].on].id = row.id
  /\ Showing(p) => p \in Current.members /\ (InServer(p) => call[p].on = active)

SessionInv == damage = "none" => \A p \in Players \ expelled : Seen(p)

-----------------------------------------------------------------------------
(* Logins and logouts                                                      *)

Once(q, p) == \E i \in 1..Len(q) : \A j \in 1..Len(q) : q[j] = p <=> j = i
Never(q, p) == \A j \in 1..Len(q) : q[j] # p

\* An answer is on its way to a session only.
AnswerInv == \A p \in Players : call[p].at \in {"joined", "left"} => session[p] # "offline"

PresenceInv ==
  /\ call[Listener].at # "idle" => logouts # <<>> /\ call[Listener].to = Head(logouts)
  /\ \A p \in Players \ crossed :
       \/ Never(logins, p) /\ Never(logouts, p) /\ (p \in known <=> session[p] # "offline")
       \/ Once(logins, p) /\ Never(logouts, p) /\ p \notin known /\ session[p] # "offline"
       \/ Never(logins, p) /\ Once(logouts, p) /\ p \in known /\ session[p] = "offline"

-----------------------------------------------------------------------------
(* The gateway, the events under way and the history keep their types      *)

\* What a step does to the state outside the chat server, as far as its type goes.
Outside ==
  /\ session' \in [Players -> {"offline", "online", "shows"}]
  /\ subs' \in SUBSET Players /\ streams' \in SUBSET Players
  /\ news' \in BOOLEAN /\ sending' \in Players \cup {NoOne}
  /\ logins' \in Seq(Players) /\ logouts' \in Seq(Players)
  /\ inputs' = inputs \/ Input
  /\ faults' = faults \/ (MayFail /\ faults' = faults + 1)
  /\ damage' \in {"none", "rows", "memory"} /\ lagging' \in BOOLEAN
  /\ crossed' \in SUBSET Players /\ expelled' \in SUBSET Players

\* The shape of a step outside the chat server implies the types.
LEMMA OutsideTypes ==
  ASSUME HistoryTypes, Outside
  PROVE  GatewayTypes' /\ HistoryTypes'
<1>1. GatewayTypes'
  BY DEF GatewayTypes, Outside
<1>2. inputs' \in 0..MaxInputs
  BY BoundsAssumption DEF HistoryTypes, Outside, Input
<1>3. faults' \in 0..MaxFaults
  BY BoundsAssumption DEF HistoryTypes, Outside, MayFail
<1> QED
  BY <1>1, <1>2, <1>3 DEF HistoryTypes, Outside

\* A damaging step keeps the type of the damage.
LEMMA DamageTypes ==
  ASSUME Damages, damage' = damage \/ Hurts
  PROVE  damage' \in {"none", "rows", "memory"}
  BY DEF Damages, Hurts

\* A step of the chat server changes little outside of it.
LEMMA ChatOutside ==
  ASSUME GatewayTypes, HistoryTypes, UNCHANGED <<presence, session, subs, streams, sending, crossed>>,
         news' \in BOOLEAN, inputs' = inputs \/ Input, faults' = faults \/ (MayFail /\ faults' = faults + 1),
         damage' \in {"none", "rows", "memory"}, lagging' \in BOOLEAN, expelled' \in SUBSET Players
  PROVE  Outside
  BY DEF Outside, GatewayTypes, HistoryTypes, presence

\* Requests keep the types outside the chat server.
LEMMA RequestOutside ==
  ASSUME TypeOK, NEW p \in Players, Requests(p)
  PROVE  Outside
<1>1. UNCHANGED <<presence, gateway, faults, history>> /\ Input
  BY RequestEffect DEF TypeOK
<1> QED
  BY <1>1, ChatOutside DEF TypeOK, gateway, history, GatewayTypes, HistoryTypes

\* So do the steps of a session.
LEMMA GatewayOutside ==
  ASSUME TypeOK, NEW p \in Players, GatewayStep(p)
  PROVE  Outside
<1> USE DEF TypeOK, GatewayTypes, HistoryTypes, Outside, bounds, history, presence, chat
<1>1. CASE AddChannel(p) \/ RemoveChannel(p)
  BY <1>1 DEF AddChannel, RemoveChannel, AddPlayerToChannel, RemovePlayerFromChannel
<1>2. CASE Login(p)
  <2>1. UNCHANGED <<logouts, subs, streams, news, sending, faults, damage, lagging, expelled>> /\ Input
    BY <1>2 DEF Login
  <2>2. session' \in [Players -> {"offline", "online", "shows"}]
    BY <1>2 DEF Login
  <2>3. logins' \in Seq(Players) /\ crossed' \in SUBSET Players
    <3>1. Append(logins, p) \in Seq(Players)
      BY AppendProperties
    <3>2. (logins' = logins \/ logins' = Append(logins, p)) /\ (crossed' = crossed \/ crossed' = crossed \cup {p})
      BY <1>2 DEF Login
    <3> QED
      BY <3>1, <3>2
  <2> QED
    BY <2>1, <2>2, <2>3
<1>3. CASE Logout(p)
  <2>1. UNCHANGED <<logins, news, sending, faults, damage, lagging, expelled>> /\ Input
    BY <1>3 DEF Logout
  <2>2. session' \in [Players -> {"offline", "online", "shows"}] /\ subs' \in SUBSET Players /\ streams' \in SUBSET Players
    BY <1>3 DEF Logout, DisconnectPlayer
  <2>3. logouts' \in Seq(Players) /\ crossed' \in SUBSET Players
    <3>1. Append(logouts, p) \in Seq(Players)
      BY AppendProperties
    <3>2. (logouts' = logouts \/ logouts' = Append(logouts, p)) /\ (crossed' = crossed \/ crossed' = crossed \cup {p})
      BY <1>3 DEF Logout
    <3> QED
      BY <3>1, <3>2
  <2> QED
    BY <2>1, <2>2, <2>3
<1>4. CASE SendChannelMessageToChat(p) \/ HandleChannelInvite(p)
  BY <1>4 DEF SendChannelMessageToChat, HandleChannelInvite, PublishOnly, Publish
<1> QED
  BY <1>1, <1>2, <1>3, <1>4 DEF GatewayStep

\* So do the changes of settings and bans.
LEMMA SettingsOutside ==
  ASSUME TypeOK, NEW p \in Players, SettingsStep(p)
  PROVE  Outside
<1>1. UNCHANGED <<presence, session, subs, streams, sending, crossed, inputs, expelled, damage>>
  BY DEF SettingsStep, BanInMemory, WriteChannelBan, SetPassword, ToggleAnnouncements, SnapshotSettings, WriteSettings,
         ToggleModeration, Quiet, presence
<1>2. news' = news /\ (faults' = faults \/ (MayFail /\ faults' = faults + 1))
  BY DEF SettingsStep, BanInMemory, WriteChannelBan, SetPassword, ToggleAnnouncements, SnapshotSettings, WriteSettings,
         ToggleModeration, Failed
<1>3. lagging' \in BOOLEAN
  BY DEF SettingsStep, BanInMemory, WriteChannelBan, SetPassword, ToggleAnnouncements, SnapshotSettings, WriteSettings,
         ToggleModeration, TypeOK, HistoryTypes, WritePending, Overtaken
<1> QED
  BY <1>1, <1>2, <1>3, ChatOutside DEF TypeOK, GatewayTypes, HistoryTypes

\* So does JoinChannel.
LEMMA JoinOutside ==
  ASSUME TypeOK, NEW p \in Players, JoinChannel(p)
  PROVE  Outside
<1>1. UNCHANGED <<presence, session, subs, streams, sending, inputs, lagging, crossed>>
  BY DEF JoinChannel
<1>2. (news' = news \/ news' = TRUE) /\ (faults' = faults \/ (MayFail /\ faults' = faults + 1))
      /\ (damage' = damage \/ Hurts) /\ (expelled' = expelled \/ expelled' = expelled \ {p})
  BY DEF JoinChannel, Publish, Failed, Damaged, Hurts
<1>3. damage' \in {"none", "rows", "memory"}
  BY <1>2, DamageTypes DEF TypeOK, HistoryTypes, Damages
<1>4. news' \in BOOLEAN /\ expelled' \in SUBSET Players
  BY <1>2 DEF TypeOK, GatewayTypes, HistoryTypes
<1> QED
  BY <1>1, <1>2, <1>3, <1>4, ChatOutside DEF TypeOK, HistoryTypes

\* So does LeaveChannel.
LEMMA LeaveOutside ==
  ASSUME TypeOK, NEW t \in Players, LeaveChannel(t)
  PROVE  Outside
<1>1. UNCHANGED <<presence, session, subs, streams, sending, inputs, lagging, crossed>>
  BY Zenon DEF LeaveChannel
<1>2. (faults' = faults \/ (MayFail /\ faults' = faults + 1)) /\ damage' = damage
  BY Zenon DEF LeaveChannel, Failed
<1>3. news' \in BOOLEAN
  BY Zenon DEF LeaveChannel, Announced, TypeOK, GatewayTypes
<1>4. expelled' \in SUBSET Players
  <2>1. CASE Passes(t)
    BY <2>1 DEF Passes, TypeOK, HistoryTypes
  <2>2. CASE ~Passes(t)
    <3>1. PICK o \in Objects, n \in ChannelRecord, gone \in Players : Departs(t, o, n, gone)
      BY <2>2, LeaveEffect DEF TypeOK
    <3> QED
      BY <3>1 DEF Departs, TypeOK, HistoryTypes
  <2> QED
    BY <2>1, <2>2
<1> QED
  BY <1>1, <1>2, <1>3, <1>4, ChatOutside DEF TypeOK, HistoryTypes

\* So does PersistHeir.
LEMMA HeirOutside ==
  ASSUME TypeOK, NEW t \in Threads, PersistHeir(t)
  PROVE  Outside
<1>1. UNCHANGED <<presence, session, subs, streams, sending, inputs, lagging, crossed, expelled>>
  BY DEF PersistHeir
<1>2. (faults' = faults \/ (MayFail /\ faults' = faults + 1)) /\ (damage' = damage \/ Hurts)
  BY DEF PersistHeir, Failed, Damaged, Hurts
<1>3. news' \in BOOLEAN
  BY DEF PersistHeir, Announced, Publish, TypeOK, GatewayTypes
<1>4. damage' \in {"none", "rows", "memory"}
  BY <1>2, DamageTypes DEF TypeOK, HistoryTypes, Damages
<1> QED
  BY <1>1, <1>2, <1>3, <1>4, ChatOutside DEF TypeOK, HistoryTypes

\* So do the changes of roles.
LEMMA OwnerOutside ==
  ASSUME TypeOK,
         (\E p \in Players : SetFlag(p) \/ SetOwnerOld(p) \/ SetOwnerNew(p)) \/ TransferOwnershipOnLogout
  PROVE  Outside
<1>1. UNCHANGED <<presence, session, subs, streams, sending, inputs, lagging, crossed, expelled>>
  BY Zenon DEF SetFlag, SetOwnerOld, SetOwnerNew, TransferOwnershipOnLogout, Quiet
<1>2. (faults' = faults \/ (MayFail /\ faults' = faults + 1)) /\ (damage' = damage \/ Hurts)
  BY Zenon DEF SetFlag, SetOwnerOld, SetOwnerNew, TransferOwnershipOnLogout, Failed, Damaged, Hurts
<1>3. news' = news \/ news' = TRUE
  BY Zenon DEF SetFlag, SetOwnerOld, SetOwnerNew, TransferOwnershipOnLogout, Publish
<1>4. damage' \in {"none", "rows", "memory"}
  BY <1>2, DamageTypes DEF TypeOK, HistoryTypes, Damages
<1>5. news' \in BOOLEAN
  BY <1>3 DEF TypeOK, GatewayTypes
<1> QED
  BY <1>1, <1>2, <1>4, <1>5, ChatOutside DEF TypeOK, HistoryTypes

\* So does a join that loads or creates the channel.
LEMMA CreateOutside ==
  ASSUME TypeOK, NEW p \in Players, HandleJoinChannel(p)
  PROVE  Outside
<1>1. CASE active # 0
  <2>1. UNCHANGED <<presence, gateway, faults, history>> /\ Input
    BY <1>1, JoinExisting DEF TypeOK
  <2> QED
    BY <2>1, ChatOutside DEF TypeOK, gateway, history, GatewayTypes, HistoryTypes
<1>2. CASE active = 0
  <2>1. Input /\ UNCHANGED <<presence, gateway, faults, crossed>> /\ \E o \in Objects : Creates(p, o)
    BY <1>2, JoinNew DEF TypeOK
  <2>2. /\ damage' = IF ~row.listed THEN "none" ELSE IF damage = "rows" THEN "memory" ELSE damage
        /\ lagging' = (lagging \/ WritePending(Players))
        /\ expelled' = IF row.listed THEN expelled ELSE Players
    BY <2>1 DEF Creates
  <2>3. damage' \in {"none", "rows", "memory"} /\ expelled' \in SUBSET Players
    BY <2>2 DEF TypeOK, HistoryTypes
  <2>4. lagging' \in BOOLEAN
    BY <2>2 DEF TypeOK, HistoryTypes, WritePending
  <2> QED
    BY <2>1, <2>3, <2>4, ChatOutside DEF TypeOK, gateway, GatewayTypes
<1> QED
  BY <1>1, <1>2

\* So does the listener.
LEMMA ListeningOutside ==
  ASSUME TypeOK, PresenceInv, Listening
  PROVE  Outside
<1> USE DEF TypeOK, GatewayTypes, HistoryTypes, Outside, gateway, bounds, history, presence
<1>1. CASE CharacterLoggedIn
  <2>1. logins # <<>> /\ logins' = Tail(logins) /\ UNCHANGED <<logouts, gateway, bounds, history>>
    BY <1>1 DEF CharacterLoggedIn
  <2>2. Tail(logins) \in Seq(Players)
    BY <2>1, HeadTailProperties
  <2> QED
    BY <2>1, <2>2
<1>2. CASE CharacterLoggedOut
  BY <1>2 DEF CharacterLoggedOut
<1>3. CASE RemoveCharacter
  <2>1. call[Listener].at = "remove" /\ logouts' = Tail(logouts) /\ UNCHANGED <<logins, gateway, bounds, history>>
    BY <1>3 DEF RemoveCharacter
  <2>2. Tail(logouts) \in Seq(Players)
    BY <2>1, HeadTailProperties DEF PresenceInv
  <2> QED
    BY <2>1, <2>2
<1> QED
  BY <1>1, <1>2, <1>3 DEF Listening

\* So does the broadcaster.
LEMMA BroadcastOutside ==
  ASSUME TypeOK, Broadcast
  PROVE  Outside
<1> USE DEF TypeOK, GatewayTypes, HistoryTypes, Outside, gateway, bounds, history, presence
<1>1. CASE BroadcastToChannel
  BY <1>1 DEF BroadcastToChannel, NextEvent
<1>2. CASE SendEvent
  BY <1>2 DEF SendEvent
<1>3. CASE SendOnClosedStream
  BY <1>3 DEF SendOnClosedStream
<1> QED
  BY <1>1, <1>2, <1>3 DEF Broadcast

\* So do clean-up, crash and start.
LEMMA ServerOutside ==
  ASSUME TypeOK, StartInv,
         Preload \/ PruneOfflineMembers \/ PersistPruneHeir \/ CleanupLocalMemory \/ CleanOldChannels \/ Crash
  PROVE  Outside
<1> USE DEF TypeOK
<1>1. CASE Preload
  <2>1. UNCHANGED <<presence, gateway, inputs, history>>
    BY <1>1 DEF Preload
  <2>2. faults' = faults \/ (MayFail /\ faults' = faults + 1)
    BY <1>1 DEF Preload
  <2> QED
    BY <2>1, <2>2, ChatOutside DEF gateway, history, GatewayTypes, HistoryTypes
<1>2. CASE PruneOfflineMembers
  <2>1. UNCHANGED <<presence, gateway, inputs, lagging, crossed>>
    BY <1>2, Zenon DEF PruneOfflineMembers
  <2>2. (faults' = faults \/ (MayFail /\ faults' = faults + 1)) /\ (damage' = damage \/ Hurts)
    BY <1>2, Zenon DEF PruneOfflineMembers, Failed, Damaged, Hurts
  <2>3. expelled' \in SUBSET Players
    <3>1. \/ expelled' = expelled
          \/ \E n \in ChannelRecord, offline \in SUBSET Players : Prunes(n, offline)
      BY <1>2, PruneEffect
    <3> QED
      BY <3>1 DEF Prunes, HistoryTypes
  <2>4. damage' \in {"none", "rows", "memory"}
    BY <2>2, DamageTypes DEF HistoryTypes, Damages
  <2> QED
    BY <2>1, <2>2, <2>3, <2>4, ChatOutside DEF gateway, GatewayTypes, HistoryTypes
<1>3. CASE PersistPruneHeir
  <2>1. UNCHANGED <<presence, gateway, inputs, lagging, crossed, expelled>>
    BY <1>3 DEF PersistPruneHeir
  <2>2. (faults' = faults \/ (MayFail /\ faults' = faults + 1)) /\ (damage' = damage \/ Hurts)
    BY <1>3 DEF PersistPruneHeir, Failed, Damaged, Hurts
  <2>4. damage' \in {"none", "rows", "memory"}
    BY <2>2, DamageTypes DEF HistoryTypes, Damages
  <2> QED
    BY <2>1, <2>2, <2>4, ChatOutside DEF gateway, GatewayTypes, HistoryTypes
<1>4. CASE CleanupLocalMemory \/ CleanOldChannels
  <2>1. UNCHANGED <<presence, gateway, inputs, history>> /\ (faults' = faults \/ (MayFail /\ faults' = faults + 1))
    BY <1>4 DEF CleanupLocalMemory, CleanOldChannels, bounds, Failed
  <2> QED
    BY <2>1, ChatOutside DEF gateway, history, GatewayTypes, HistoryTypes
<1>5. CASE Crash
  <2>1. /\ UNCHANGED <<gateway, inputs>> /\ MayFail /\ faults' = faults + 1 /\ crossed' = Players
        /\ logins' = <<>> /\ logouts' = <<>>
    BY <1>5 DEF Crash, Failed
  <2>2. damage' \in {"none", "memory"} /\ expelled' \in SUBSET Players
    BY <1>5, CrashEffect DEF HistoryTypes
  <2>3. lagging' \in BOOLEAN
    BY <1>5, CrashEffect DEF HistoryTypes, WritePending
  <2> QED
    BY <2>1, <2>2, <2>3, EmptySeq DEF Outside, gateway, GatewayTypes
<1> QED
  BY <1>1, <1>2, <1>3, <1>4, <1>5

-----------------------------------------------------------------------------
(* Logins and logouts under way                                            *)

\* Membership in a queue, by position.
LEMMA RangeIs ==
  ASSUME NEW q \in Seq(Players), NEW p
  PROVE  /\ p \notin Range(q) => Never(q, p)
         /\ Once(q, p) => p \in Range(q) /\ ~Never(q, p)
<1>1. DOMAIN q = 1..Len(q)
  BY LenProperties
<1>2. p \notin Range(q) => Never(q, p)
  BY <1>1 DEF Range, Never
<1>3. ASSUME Once(q, p) PROVE p \in Range(q) /\ ~Never(q, p)
  <2>1. PICK i \in 1..Len(q) : \A j \in 1..Len(q) : q[j] = p <=> j = i
    BY <1>3 DEF Once
  <2>2. q[i] = p
    BY <2>1
  <2> QED
    BY <1>1, <2>1, <2>2 DEF Range, Never
<1> QED
  BY <1>2, <1>3

\* Appending a player who is not in the queue puts it there once, and leaves
\* the others as often as they were.
LEMMA AppendCounts ==
  ASSUME NEW q \in Seq(Players), NEW p \in Players
  PROVE  /\ Never(q, p) => Once(Append(q, p), p)
         /\ \A r \in Players : r # p => /\ Never(q, r) <=> Never(Append(q, p), r)
                                        /\ Once(q, r) => Once(Append(q, p), r)
         /\ Append(q, p) \in Seq(Players) /\ Append(q, p) # <<>>
         /\ q # <<>> => Head(Append(q, p)) = Head(q)
<1> DEFINE a == Append(q, p)
<1>1. /\ a \in Seq(Players) /\ a # <<>> /\ Len(a) = Len(q) + 1 /\ a[Len(q) + 1] = p
      /\ \A i \in 1..Len(q) : a[i] = q[i]
      /\ Len(q) \in Nat
  BY AppendProperties, LenProperties
<1> HIDE DEF a
<1>2. Never(q, p) => Once(a, p)
  <2> HAVE Never(q, p)
  <2>1. Len(q) + 1 \in 1..Len(a)
    BY <1>1
  <2>2. ASSUME NEW j \in 1..Len(a) PROVE a[j] = p <=> j = Len(q) + 1
    <3>1. CASE j = Len(q) + 1
      BY <1>1, <3>1
    <3>2. CASE j # Len(q) + 1
      <4>1. j \in 1..Len(q)
        BY <1>1, <3>2
      <4> QED
        BY <1>1, <3>2, <4>1 DEF Never
    <3> QED
      BY <3>1, <3>2
  <2> QED
    BY <2>1, <2>2 DEF Once
<1>3. ASSUME NEW r \in Players, r # p PROVE Never(q, r) <=> Never(a, r)
  <2>1. \A j \in 1..Len(a) : j \in 1..Len(q) \/ j = Len(q) + 1
    BY <1>1
  <2>2. \A j \in 1..Len(q) : j \in 1..Len(a)
    BY <1>1
  <2> QED
    BY <1>1, <1>3, <2>1, <2>2 DEF Never
<1>4. ASSUME NEW r \in Players, r # p, Once(q, r) PROVE Once(a, r)
  <2>1. PICK i \in 1..Len(q) : \A j \in 1..Len(q) : q[j] = r <=> j = i
    BY <1>4 DEF Once
  <2>2. i \in 1..Len(a) /\ i # Len(q) + 1
    BY <1>1
  <2>3. ASSUME NEW j \in 1..Len(a) PROVE a[j] = r <=> j = i
    <3>1. CASE j = Len(q) + 1
      BY <1>1, <1>4, <2>2, <3>1
    <3>2. CASE j # Len(q) + 1
      <4>1. j \in 1..Len(q)
        BY <1>1, <3>2
      <4> QED
        BY <1>1, <2>1, <4>1
    <3> QED
      BY <3>1, <3>2
  <2> QED
    BY <2>2, <2>3 DEF Once
<1>5. q # <<>> => Head(a) = Head(q)
  <2> HAVE q # <<>>
  <2>1. 1 \in 1..Len(q)
    BY <1>1, EmptySeq
  <2> QED
    BY <1>1, <2>1
<1> QED
  BY <1>1, <1>2, <1>3, <1>4, <1>5 DEF a

\* Taking the head off removes its only occurrence, and leaves the others as
\* often as they were.
LEMMA TailCounts ==
  ASSUME NEW q \in Seq(Players), q # <<>>
  PROVE  /\ Head(q) \in Players /\ Tail(q) \in Seq(Players)
         /\ ~Never(q, Head(q))
         /\ Once(q, Head(q)) => Never(Tail(q), Head(q))
         /\ \A r \in Players : /\ Never(q, r) => Never(Tail(q), r)
                               /\ r # Head(q) /\ Once(q, r) => Once(Tail(q), r)
<1> DEFINE b == Tail(q)
           h == Head(q)
<1>1. /\ h \in Players /\ b \in Seq(Players) /\ Len(b) = Len(q) - 1 /\ Len(q) \in Nat /\ Len(q) # 0
      /\ \A i \in 1..Len(b) : b[i] = q[i + 1]
      /\ h = q[1]
  BY HeadTailProperties, LenProperties, EmptySeq
<1> HIDE DEF b, h
<1>2. 1 \in 1..Len(q) /\ \A i \in 1..Len(b) : i + 1 \in 1..Len(q) /\ i + 1 # 1
  BY <1>1
<1>3. ~Never(q, h)
  BY <1>1, <1>2 DEF Never
<1>4. ASSUME Once(q, h) PROVE Never(b, h)
  <2>1. PICK i \in 1..Len(q) : \A j \in 1..Len(q) : q[j] = h <=> j = i
    BY <1>4 DEF Once
  <2>2. i = 1
    BY <1>1, <1>2, <2>1
  <2> QED
    BY <1>1, <1>2, <2>1, <2>2 DEF Never
<1>5. ASSUME NEW r \in Players, Never(q, r) PROVE Never(b, r)
  BY <1>1, <1>2, <1>5 DEF Never
<1>6. ASSUME NEW r \in Players, r # h, Once(q, r) PROVE Once(b, r)
  <2>1. PICK i \in 1..Len(q) : \A j \in 1..Len(q) : q[j] = r <=> j = i
    BY <1>6 DEF Once
  <2>2. i # 1
    BY <1>1, <1>2, <1>6, <2>1
  <2>3. i - 1 \in 1..Len(b)
    BY <1>1, <2>2
  <2>4. ASSUME NEW j \in 1..Len(b) PROVE b[j] = r <=> j = i - 1
    <3>1. b[j] = q[j + 1] /\ j + 1 \in 1..Len(q)
      BY <1>1, <1>2
    <3>2. q[j + 1] = r <=> j + 1 = i
      BY <2>1, <3>1
    <3> QED
      BY <3>1, <3>2
  <2> QED
    BY <2>3, <2>4 DEF Once
<1> QED
  BY <1>1, <1>3, <1>4, <1>5, <1>6 DEF b, h

\* Nobody is in the empty queue.
LEMMA NeverInEmpty ==
  ASSUME NEW p
  PROVE  Never(<<>>, p)
  BY EmptySeq DEF Never

PresenceStep == PresenceInv' /\ AnswerInv'

\* The listener goes on with the event it handles.
ListenerKeeps == call'[Listener].at # "idle" => call[Listener].at # "idle" /\ call'[Listener].to = call[Listener].to

\* A step without logins, logouts and their handling keeps the presence
\* invariant.
LEMMA PresenceKept ==
  ASSUME PresenceInv, UNCHANGED <<logins, logouts, known, crossed>>, ListenerKeeps,
         \A p \in Players : session'[p] = "offline" <=> session[p] = "offline"
  PROVE  PresenceInv'
<1>1. call'[Listener].at # "idle" => logouts' # <<>> /\ call'[Listener].to = Head(logouts')
  BY DEF PresenceInv, ListenerKeeps
<1>2. ASSUME NEW p \in Players \ crossed
      PROVE  \/ Never(logins', p) /\ Never(logouts', p) /\ (p \in known' <=> session'[p] # "offline")
             \/ Once(logins', p) /\ Never(logouts', p) /\ p \notin known' /\ session'[p] # "offline"
             \/ Never(logins', p) /\ Once(logouts', p) /\ p \in known' /\ session'[p] = "offline"
  BY DEF PresenceInv
<1> QED
  BY <1>1, <1>2 DEF PresenceInv

\* Where answers come from.
LEMMA AnswersToSessions ==
  ASSUME CallTypes, NEW p \in Players, JoinChannel(p) \/ LeaveChannel(p) \/ PersistHeir(p)
  PROVE  call'[p].at \in {"joined", "left"} => session[p] # "offline"
<1>1. p \in Threads /\ p # Listener /\ DOMAIN call = Threads /\ call[p] \in CallRecord
  BY ListenerIsThread DEF CallTypes
<1>2. Return(p) => call'[p].at = "idle"
  BY <1>1 DEF Return, Idle
<1>3. \A at \in {"joined", "left"} : Reply(p, at) => (call'[p].at = "idle" \/ session[p] # "offline")
  BY <1>2 DEF Reply
<1>4. GoTo(p, "banning") => call'[p].at = "banning"
  BY <1>1 DEF GoTo, CallRecord
<1>5. \A left \in BOOLEAN : AfterLeave(p, left) => call'[p].at \in {"idle", "banning"} \/ session[p] # "offline"
  BY <1>2, <1>3, <1>4 DEF AfterLeave
<1>6. CASE JoinChannel(p)
  <2>1. Return(p) \/ Reply(p, "joined")
    BY <1>6, Zenon DEF JoinChannel
  <2> QED
    BY <1>2, <1>3, <2>1
<1>7. CASE LeaveChannel(p)
  <2>1. \/ AfterLeave(p, TRUE) \/ AfterLeave(p, FALSE) \/ GoTo(p, "banning") \/ Return(p)
        \/ \E heir : call' = [call EXCEPT ![p].at = "heir", ![p].with = heir]
    BY <1>7, Zenon DEF LeaveChannel
  <2>2. ASSUME NEW heir, call' = [call EXCEPT ![p].at = "heir", ![p].with = heir] PROVE call'[p].at = "heir"
    BY <1>1, <2>2 DEF CallRecord
  <2> QED
    BY <1>2, <1>4, <1>5, <2>1, <2>2, Zenon
<1>8. CASE PersistHeir(p)
  <2>1. AfterLeave(p, TRUE)
    BY <1>1, <1>8 DEF PersistHeir
  <2> QED
    BY <1>5, <2>1
<1> QED
  BY <1>6, <1>7, <1>8

\* A step of a handler that answers live sessions only keeps the presence
\* invariant.
LEMMA PlayerPresence ==
  ASSUME PresenceInv, AnswerInv, NEW p \in Players, UNCHANGED <<logins, logouts, known, crossed, session>>,
         \A u \in Threads : u # p => call'[u] = call[u],
         call'[p].at \in {"joined", "left"} => session[p] # "offline"
  PROVE  PresenceStep
<1>1. ListenerKeeps
  BY ListenerIsThread DEF ListenerKeeps
<1>2. PresenceInv'
  BY <1>1, PresenceKept
<1>3. AnswerInv'
  BY ListenerIsThread DEF AnswerInv
<1> QED
  BY <1>2, <1>3 DEF PresenceStep

\* The handlers of a player are such steps.
LEMMA HandlerPresence ==
  ASSUME TypeOK, PresenceInv, AnswerInv, NEW p \in Players,
         \/ Requests(p) \/ HandleJoinChannel(p) \/ SettingsStep(p)
         \/ JoinChannel(p) \/ LeaveChannel(p) \/ PersistHeir(p)
         \/ SetFlag(p) \/ SetOwnerOld(p) \/ SetOwnerNew(p)
  PROVE  PresenceStep
<1> USE DEF TypeOK
<1>0. p \in Threads
  BY ListenerIsThread
<1>1. CASE Requests(p)
  <2>1. UNCHANGED <<logins, logouts, known, crossed, session>>
    BY <1>1, RequestEffect DEF chat, presence, gateway, history
  <2>2. call'[p].at \notin {"joined", "left"} /\ \A u \in Threads : u # p => call'[u] = call[u]
    BY <1>1, RequestEffect DEF OnPlayer, OfChannel
  <2> QED
    BY <2>1, <2>2, PlayerPresence
<1>2. CASE HandleJoinChannel(p)
  <2>1. CASE active # 0
    <3>1. UNCHANGED <<logins, logouts, known, crossed, session>>
      BY <1>2, <2>1, JoinExisting DEF chat, presence, gateway, history
    <3>2. call'[p].at = "join" /\ \A u \in Threads : u # p => call'[u] = call[u]
      BY <1>2, <2>1, JoinExisting
    <3> QED
      BY <3>1, <3>2, PlayerPresence
  <2>2. CASE active = 0
    <3>1. UNCHANGED <<logins, logouts, known, crossed, session>> /\ \E o \in Objects : Creates(p, o)
      BY <1>2, <2>2, JoinNew DEF presence, gateway
    <3>2. call'[p].at = "join" /\ \A u \in Threads : u # p => call'[u] = call[u]
      BY <3>1 DEF Creates
    <3> QED
      BY <3>1, <3>2, PlayerPresence
  <2> QED
    BY <2>1, <2>2
<1>3. CASE SettingsStep(p)
  <2>1. UNCHANGED <<logins, logouts, known, crossed, session>>
    BY <1>3 DEF SettingsStep, BanInMemory, WriteChannelBan, SetPassword, ToggleAnnouncements, SnapshotSettings,
                WriteSettings, ToggleModeration, Quiet, presence
  <2>2. call'[p].at \notin {"joined", "left"} /\ \A u \in Threads : u # p => call'[u] = call[u]
    <3>0. Idle.at = "idle"
      BY DEF Idle
    <3>1. CASE BanInMemory(p)
      <4>1. (call'[p] = Idle \/ call'[p].at = "writeBan") /\ \A u \in Threads : u # p => call'[u] = call[u]
        BY <3>1, BanInMemoryEffect
      <4> QED
        BY <3>0, <4>1
    <3>2. CASE WriteChannelBan(p)
      <4>1. call'[p] = Idle /\ \A u \in Threads : u # p => call'[u] = call[u]
        BY <3>2, WriteBanEffect
      <4> QED
        BY <3>0, <4>1
    <3>3. CASE SetPassword(p)
      BY <3>3, SetPasswordEffect
    <3>4. CASE ToggleAnnouncements(p)
      BY <3>4, ToggleAnnouncementsEffect
    <3>5. CASE SnapshotSettings(p)
      BY <3>5, SnapshotEffect
    <3>6. CASE WriteSettings(p)
      BY <3>6, WriteSettingsEffect DEF Idle
    <3>7. CASE ToggleModeration(p)
      BY <3>7, ToggleModerationEffect DEF Idle
    <3> QED
      BY <1>3, <3>1, <3>2, <3>3, <3>4, <3>5, <3>6, <3>7 DEF SettingsStep
  <2> QED
    BY <2>1, <2>2, PlayerPresence
<1>4. CASE JoinChannel(p) \/ LeaveChannel(p) \/ PersistHeir(p)
  <2>1. UNCHANGED <<logins, logouts, known, crossed, session>>
    BY <1>4, Zenon DEF JoinChannel, LeaveChannel, PersistHeir, presence
  <2>2. \A u \in Threads : u # p => call'[u] = call[u]
    <3>1. CASE JoinChannel(p)
      BY <3>1, JoinEffect DEF Works, Passes
    <3>2. CASE LeaveChannel(p)
      BY <3>2, LeaveEffect DEF Works, Passes, Departs
    <3>3. CASE PersistHeir(p)
      BY <1>0, <3>3, PersistHeirEffect DEF Works
    <3> QED
      BY <1>4, <3>1, <3>2, <3>3
  <2> QED
    BY <1>4, <2>1, <2>2, AnswersToSessions, PlayerPresence
<1>5. CASE SetFlag(p) \/ SetOwnerOld(p) \/ SetOwnerNew(p)
  <2>1. UNCHANGED <<logins, logouts, known, crossed, session>>
    BY <1>5, Zenon DEF SetFlag, SetOwnerOld, SetOwnerNew, Quiet, presence
  <2>2. call'[p].at \notin {"joined", "left"} /\ \A u \in Threads : u # p => call'[u] = call[u]
    <3>1. CASE SetFlag(p)
      BY <3>1, SetFlagEffect DEF Works, Passes, Idle
    <3>2. CASE SetOwnerOld(p)
      BY <3>2, SetOwnerOldEffect DEF Works, Passes, Idle
    <3>3. CASE SetOwnerNew(p)
      BY <3>3, SetOwnerNewEffect DEF Works, Idle
    <3> QED
      BY <1>5, <3>1, <3>2, <3>3
  <2> QED
    BY <2>1, <2>2, PlayerPresence
<1> QED
  BY <1>1, <1>2, <1>3, <1>4, <1>5

\* A login puts the player into the queue once, or is counted as crossed.
LEMMA LoginPresence ==
  ASSUME TypeOK, PresenceInv, AnswerInv, NEW p \in Players, Login(p)
  PROVE  PresenceStep
<1> USE DEF TypeOK
<1>1. /\ session[p] = "offline" /\ call' = call /\ logouts' = logouts /\ known' = known
      /\ \/ logins' = Append(logins, p) /\ crossed' = IF p \in Range(logouts) THEN crossed \cup {p} ELSE crossed
         \/ logins' = logins /\ crossed' = crossed \cup {p}
  BY DEF Login, chat
<1>2. session' = [session EXCEPT ![p] = "online"]
  BY DEF Login
<1>3. session'[p] = "online" /\ \A q \in Players : q # p => session'[q] = session[q]
  BY <1>2 DEF GatewayTypes
<1>4. logins \in Seq(Players) /\ logouts \in Seq(Players)
  BY DEF GatewayTypes
<1>5. AnswerInv'
  BY <1>1, <1>3 DEF AnswerInv
<1>6. ASSUME NEW q \in Players, q \notin crossed'
      PROVE  \/ Never(logins', q) /\ Never(logouts', q) /\ (q \in known' <=> session'[q] # "offline")
             \/ Once(logins', q) /\ Never(logouts', q) /\ q \notin known' /\ session'[q] # "offline"
             \/ Never(logins', q) /\ Once(logouts', q) /\ q \in known' /\ session'[q] = "offline"
  <2>0. q \notin crossed
    BY <1>1, <1>6
  <2>1. \/ Never(logins, q) /\ Never(logouts, q) /\ (q \in known <=> session[q] # "offline")
        \/ Once(logins, q) /\ Never(logouts, q) /\ q \notin known /\ session[q] # "offline"
        \/ Never(logins, q) /\ Once(logouts, q) /\ q \in known /\ session[q] = "offline"
    BY <2>0 DEF PresenceInv
  <2>2. CASE q = p
    <3>1. logins' = Append(logins, p) /\ p \notin Range(logouts)
      BY <1>1, <1>6, <2>2
    <3>2. Never(logouts, p) /\ ~Once(logouts, p)
      BY <1>4, <3>1, RangeIs
    <3>3. Never(logins, p) /\ p \notin known
      BY <1>1, <2>1, <2>2, <3>2
    <3>4. Once(logins', p)
      BY <1>4, <3>1, <3>3, AppendCounts
    <3> QED
      BY <1>1, <1>3, <2>2, <3>2, <3>3, <3>4
  <2>3. CASE q # p
    <3>1. (Never(logins, q) => Never(logins', q)) /\ (Once(logins, q) => Once(logins', q))
      BY <1>1, <1>4, <2>3, AppendCounts
    <3> QED
      BY <1>1, <1>3, <2>1, <2>3, <3>1
  <2> QED
    BY <2>2, <2>3
<1>7. PresenceInv'
  BY <1>1, <1>6 DEF PresenceInv
<1> QED
  BY <1>5, <1>7 DEF PresenceStep

\* A logout puts the player into the queue once, or is counted as crossed; no
\* answer is outstanding then.
LEMMA LogoutPresence ==
  ASSUME TypeOK, PresenceInv, AnswerInv, NEW p \in Players, Logout(p)
  PROVE  PresenceStep
<1> USE DEF TypeOK
<1>1. /\ session[p] # "offline" /\ call' = call /\ logins' = logins /\ known' = known /\ call[p] = Idle
      /\ \/ logouts' = Append(logouts, p) /\ crossed' = IF p \in Range(logins) THEN crossed \cup {p} ELSE crossed
         \/ logouts' = logouts /\ crossed' = crossed \cup {p}
  BY DEF Logout, chat
<1>2. session' = [session EXCEPT ![p] = "offline"]
  BY DEF Logout
<1>3. session'[p] = "offline" /\ \A q \in Players : q # p => session'[q] = session[q]
  BY <1>2 DEF GatewayTypes
<1>4. logins \in Seq(Players) /\ logouts \in Seq(Players)
  BY DEF GatewayTypes
<1>5. AnswerInv'
  BY <1>1, <1>3 DEF AnswerInv, Idle
<1>6. ASSUME NEW q \in Players, q \notin crossed'
      PROVE  \/ Never(logins', q) /\ Never(logouts', q) /\ (q \in known' <=> session'[q] # "offline")
             \/ Once(logins', q) /\ Never(logouts', q) /\ q \notin known' /\ session'[q] # "offline"
             \/ Never(logins', q) /\ Once(logouts', q) /\ q \in known' /\ session'[q] = "offline"
  <2>0. q \notin crossed
    BY <1>1, <1>6
  <2>1. \/ Never(logins, q) /\ Never(logouts, q) /\ (q \in known <=> session[q] # "offline")
        \/ Once(logins, q) /\ Never(logouts, q) /\ q \notin known /\ session[q] # "offline"
        \/ Never(logins, q) /\ Once(logouts, q) /\ q \in known /\ session[q] = "offline"
    BY <2>0 DEF PresenceInv
  <2>2. CASE q = p
    <3>1. logouts' = Append(logouts, p) /\ p \notin Range(logins)
      BY <1>1, <1>6, <2>2
    <3>2. Never(logins, p) /\ ~Once(logins, p)
      BY <1>4, <3>1, RangeIs
    <3>3. Never(logouts, p) /\ p \in known
      BY <1>1, <2>1, <2>2, <3>2
    <3>4. Once(logouts', p)
      BY <1>4, <3>1, <3>3, AppendCounts
    <3> QED
      BY <1>1, <1>3, <2>2, <3>2, <3>3, <3>4
  <2>3. CASE q # p
    <3>1. (Never(logouts, q) => Never(logouts', q)) /\ (Once(logouts, q) => Once(logouts', q))
      BY <1>1, <1>4, <2>3, AppendCounts
    <3> QED
      BY <1>1, <1>3, <2>1, <2>3, <3>1
  <2> QED
    BY <2>2, <2>3
<1>7. logouts # <<>> => logouts' # <<>> /\ Head(logouts') = Head(logouts)
  BY <1>1, <1>4, AppendCounts
<1>8. PresenceInv'
  BY <1>1, <1>6, <1>7 DEF PresenceInv
<1> QED
  BY <1>5, <1>8 DEF PresenceStep

\* The other steps of a session keep the presence invariant.
LEMMA GatewayPresence ==
  ASSUME TypeOK, PresenceInv, AnswerInv, NEW p \in Players, GatewayStep(p)
  PROVE  PresenceStep
<1>1. CASE SendChannelMessageToChat(p) \/ HandleChannelInvite(p)
  <2>1. UNCHANGED <<logins, logouts, known, crossed, session, call>>
    BY <1>1 DEF SendChannelMessageToChat, HandleChannelInvite, PublishOnly, chat, presence, history
  <2> QED
    BY <2>1, PlayerPresence DEF AnswerInv
<1>2. CASE AddChannel(p) \/ RemoveChannel(p)
  <2>1. /\ UNCHANGED <<logins, logouts, known, crossed>> /\ call[p].at \in {"joined", "left"} /\ Return(p)
        /\ session' = [session EXCEPT ![p] = "shows"] \/ session' = [session EXCEPT ![p] = "online"]
    BY <1>2 DEF AddChannel, RemoveChannel, chat, presence, history
  <2>2. session[p] # "offline"
    BY <2>1 DEF AnswerInv
  <2>3. session'[p] # "offline" /\ \A q \in Players : q # p => session'[q] = session[q]
    BY <2>1 DEF TypeOK, GatewayTypes
  <2>4. call'[p] = Idle /\ \A u \in Threads : u # p => call'[u] = call[u]
    BY <2>1, Returns, ListenerIsThread DEF TypeOK
  <2>5. ListenerKeeps
    BY <2>4, ListenerIsThread DEF ListenerKeeps
  <2>6. PresenceInv'
    BY <2>1, <2>2, <2>3, <2>5, PresenceKept
  <2>7. AnswerInv'
    BY <2>3, <2>4, ListenerIsThread DEF AnswerInv
  <2> QED
    BY <2>6, <2>7 DEF PresenceStep
<1> QED
  BY <1>1, <1>2, LoginPresence, LogoutPresence DEF GatewayStep

\* A login event taken off its queue makes the player known.
LEMMA LoggedInPresence ==
  ASSUME TypeOK, PresenceInv, AnswerInv, CharacterLoggedIn
  PROVE  PresenceStep
<1>1. /\ logins # <<>> /\ known' = known \cup {Head(logins)} /\ logins' = Tail(logins)
      /\ UNCHANGED <<logouts, call, session, crossed>>
  BY DEF CharacterLoggedIn, gateway, history
<1>2. logins \in Seq(Players)
  BY DEF TypeOK, GatewayTypes
<1>3. PICK h \in Players : h = Head(logins)
  BY <1>1, <1>2, TailCounts
<1>4. /\ ~Never(logins, h) /\ (Once(logins, h) => Never(logins', h))
      /\ \A r \in Players : (Never(logins, r) => Never(logins', r)) /\ (r # h /\ Once(logins, r) => Once(logins', r))
  BY <1>1, <1>2, <1>3, TailCounts
<1>5. ASSUME NEW q \in Players, q \notin crossed
      PROVE  \/ Never(logins', q) /\ Never(logouts', q) /\ (q \in known' <=> session'[q] # "offline")
             \/ Once(logins', q) /\ Never(logouts', q) /\ q \notin known' /\ session'[q] # "offline"
             \/ Never(logins', q) /\ Once(logouts', q) /\ q \in known' /\ session'[q] = "offline"
  <2>1. \/ Never(logins, q) /\ Never(logouts, q) /\ (q \in known <=> session[q] # "offline")
        \/ Once(logins, q) /\ Never(logouts, q) /\ q \notin known /\ session[q] # "offline"
        \/ Never(logins, q) /\ Once(logouts, q) /\ q \in known /\ session[q] = "offline"
    BY <1>5 DEF PresenceInv
  <2>2. CASE q = h
    BY <1>1, <1>3, <1>4, <2>1, <2>2
  <2>3. CASE q # h
    BY <1>1, <1>3, <1>4, <2>1, <2>3
  <2> QED
    BY <2>2, <2>3
<1>6. PresenceInv'
  BY <1>1, <1>5 DEF PresenceInv
<1> QED
  BY <1>1, <1>6 DEF PresenceStep, AnswerInv

\* The listener's call is for the first logout in the queue.
LEMMA LoggedOutPresence ==
  ASSUME TypeOK, PresenceInv, AnswerInv, CharacterLoggedOut
  PROVE  PresenceStep
<1>1. UNCHANGED <<logins, logouts, known, crossed, session>> /\ logouts # <<>>
  BY DEF CharacterLoggedOut, chat, presence, gateway, history
<1>2. call'[Listener].to = Head(logouts) /\ \A u \in Threads : u # Listener => call'[u] = call[u]
  BY LoggedOutEffect DEF TypeOK
<1>3. PresenceInv'
  BY <1>1, <1>2 DEF PresenceInv
<1>4. AnswerInv'
  BY <1>1, <1>2, ListenerIsThread DEF AnswerInv
<1> QED
  BY <1>3, <1>4 DEF PresenceStep

\* The logout taken off its queue is the one handled, and makes the player
\* unknown.
LEMMA RemovePresence ==
  ASSUME TypeOK, PresenceInv, AnswerInv, RemoveCharacter
  PROVE  PresenceStep
<1>1. /\ call[Listener].at = "remove" /\ known' = known \ {call[Listener].to} /\ logouts' = Tail(logouts)
      /\ UNCHANGED <<logins, session, crossed>>
  BY DEF RemoveCharacter, gateway, history
<1>2. logouts \in Seq(Players) /\ logouts # <<>> /\ call[Listener].to = Head(logouts)
  BY <1>1 DEF TypeOK, GatewayTypes, PresenceInv
<1>3. PICK h \in Players : h = Head(logouts)
  BY <1>2, TailCounts
<1>4. /\ ~Never(logouts, h) /\ (Once(logouts, h) => Never(logouts', h))
      /\ \A r \in Players : (Never(logouts, r) => Never(logouts', r)) /\ (r # h /\ Once(logouts, r) => Once(logouts', r))
  BY <1>1, <1>2, <1>3, TailCounts
<1>5. ASSUME NEW q \in Players, q \notin crossed
      PROVE  \/ Never(logins', q) /\ Never(logouts', q) /\ (q \in known' <=> session'[q] # "offline")
             \/ Once(logins', q) /\ Never(logouts', q) /\ q \notin known' /\ session'[q] # "offline"
             \/ Never(logins', q) /\ Once(logouts', q) /\ q \in known' /\ session'[q] = "offline"
  <2>1. \/ Never(logins, q) /\ Never(logouts, q) /\ (q \in known <=> session[q] # "offline")
        \/ Once(logins, q) /\ Never(logouts, q) /\ q \notin known /\ session[q] # "offline"
        \/ Never(logins, q) /\ Once(logouts, q) /\ q \in known /\ session[q] = "offline"
    BY <1>5 DEF PresenceInv
  <2>2. CASE q = h
    BY <1>1, <1>2, <1>3, <1>4, <2>1, <2>2
  <2>3. CASE q # h
    BY <1>1, <1>2, <1>3, <1>4, <2>1, <2>3
  <2> QED
    BY <2>2, <2>3
<1>6. call'[Listener] = Idle /\ \A u \in Threads : u # Listener => call'[u] = call[u]
  BY RemoveEffect DEF TypeOK
<1>7. PresenceInv'
  BY <1>1, <1>5, <1>6 DEF PresenceInv, Idle
<1>8. AnswerInv'
  BY <1>1, <1>6, ListenerIsThread DEF AnswerInv
<1> QED
  BY <1>7, <1>8 DEF PresenceStep

\* The listener's other steps stay with that logout.
LEMMA TransferPresence ==
  ASSUME TypeOK, PresenceInv, AnswerInv, TransferOwnershipOnLogout \/ PersistHeir(Listener)
  PROVE  PresenceStep
<1> USE DEF TypeOK
<1>1. UNCHANGED <<logins, logouts, known, crossed, session>>
  BY Zenon DEF TransferOwnershipOnLogout, PersistHeir, Quiet, presence
<1>2. /\ call[Listener].at # "idle" /\ call'[Listener].to = call[Listener].to
      /\ \A u \in Threads : u # Listener => call'[u] = call[u]
  <2>1. CASE TransferOwnershipOnLogout
    <3>1. /\ call[Listener].at = "logout" /\ call'[Listener].to = call[Listener].to
          /\ Passes(Listener) \/ \E o \in Objects, n \in ChannelRecord : Works(Listener, o, n)
      BY <2>1, TransferEffect DEF HandsOver
    <3>2. \A u \in Threads : u # Listener => call'[u] = call[u]
      BY <3>1 DEF Passes, Works
    <3> QED
      BY <3>1, <3>2
  <2>2. CASE PersistHeir(Listener)
    <3>1. call[Listener].at = "heir" /\ GoTo(Listener, "remove") /\ Listener \in Threads
      BY <2>2, ListenerIsThread DEF PersistHeir
    <3>2. At(call[Listener].op, "remove")
      BY <3>1 DEF CallTypes, WellFormed, At, OnPlayer, OfChannel
    <3> QED
      BY <3>1, <3>2, GoesTo
  <2> QED
    BY <2>1, <2>2
<1>3. ListenerKeeps
  BY <1>2 DEF ListenerKeeps
<1>4. PresenceInv'
  BY <1>1, <1>3, PresenceKept
<1>5. AnswerInv'
  BY <1>1, <1>2, ListenerIsThread DEF AnswerInv
<1> QED
  BY <1>4, <1>5 DEF PresenceStep

\* A panic of the gateway ends all sessions, which then count as crossed.
LEMMA BroadcastPresence ==
  ASSUME TypeOK, PresenceInv, AnswerInv, Broadcast
  PROVE  PresenceStep
<1> USE DEF TypeOK
<1>1. CASE BroadcastToChannel \/ SendEvent
  <2>1. UNCHANGED <<logins, logouts, known, crossed, session, call>>
    BY <1>1 DEF BroadcastToChannel, SendEvent, chat, presence, history
  <2>2. PresenceInv'
    BY <2>1, PresenceKept DEF ListenerKeeps
  <2> QED
    BY <2>1, <2>2 DEF PresenceStep, AnswerInv
<1>2. CASE SendOnClosedStream
  <2>1. /\ UNCHANGED <<logins, logouts, known>> /\ crossed' = Players
        /\ call' = [t \in Threads |-> IF call[t].at \in {"joined", "left"} THEN Idle ELSE call[t]]
    BY <1>2 DEF SendOnClosedStream, chat, presence
  <2>2. \A t \in Threads : call'[t] = IF call[t].at \in {"joined", "left"} THEN Idle ELSE call[t]
    BY <2>1
  <2>3. AnswerInv'
    BY <2>2, ListenerIsThread DEF AnswerInv, Idle
  <2>4. ListenerKeeps
    BY <2>2, ListenerIsThread DEF ListenerKeeps, Idle
  <2>5. PresenceInv'
    BY <2>1, <2>4 DEF PresenceInv, ListenerKeeps
  <2> QED
    BY <2>3, <2>5 DEF PresenceStep
<1> QED
  BY <1>1, <1>2 DEF Broadcast

\* Clean-up and start keep the presence invariant.
LEMMA ServerPresence ==
  ASSUME TypeOK, PresenceInv, AnswerInv,
         Preload \/ PruneOfflineMembers \/ PersistPruneHeir \/ CleanupLocalMemory \/ CleanOldChannels
  PROVE  PresenceStep
<1>1. UNCHANGED <<logins, logouts, known, crossed, session, call>>
  BY Zenon DEF Preload, PruneOfflineMembers, PersistPruneHeir, CleanupLocalMemory, CleanOldChannels, presence, gateway, history
<1>2. PresenceInv'
  BY <1>1, PresenceKept DEF ListenerKeeps
<1> QED
  BY <1>1, <1>2 DEF PresenceStep, AnswerInv

\* After a crash every player counts as crossed.
LEMMA CrashPresence ==
  ASSUME TypeOK, PresenceInv, AnswerInv, Crash
  PROVE  PresenceStep
<1> USE DEF TypeOK
<1>1. crossed' = Players /\ session' = session
  BY DEF Crash, gateway
<1>2. \A t \in Threads : IF call[t].at \in {"joined", "left"} THEN call'[t].at = call[t].at ELSE call'[t] = Idle
  BY CrashEffect
<1>3. Listener \in Threads /\ call[Listener].at \notin {"joined", "left"}
  BY ListenerIsThread DEF CallTypes, WellFormed, At, OnPlayer, OfChannel
<1>4. call'[Listener].at = "idle"
  BY <1>2, <1>3 DEF Idle
<1>5. PresenceInv'
  BY <1>1, <1>4 DEF PresenceInv
<1>6. AnswerInv'
  BY <1>1, <1>2, ListenerIsThread DEF AnswerInv, Idle
<1> QED
  BY <1>5, <1>6 DEF PresenceStep

\* Every step keeps the presence invariant.
LEMMA NextPresence ==
  ASSUME TypeOK, PresenceInv, AnswerInv, Next
  PROVE  PresenceStep
<1>1. ASSUME NEW t \in Threads, PersistHeir(t) PROVE PresenceStep
  <2>1. CASE t = Listener
    BY <1>1, <2>1, TransferPresence
  <2>2. CASE t \in Players
    BY <1>1, <2>2, HandlerPresence
  <2> QED
    BY <2>1, <2>2 DEF Threads
<1> QED
  BY <1>1, StepCases, HandlerPresence, GatewayPresence, LoggedInPresence, LoggedOutPresence, RemovePresence,
     TransferPresence, BroadcastPresence, ServerPresence, CrashPresence DEF Listening

\* The presence invariant holds at the start.
LEMMA InitPresence ==
  ASSUME Init
  PROVE  PresenceInv /\ AnswerInv
<1>1. PICK ms \in {{}, FirstMembers} :
        session = [p \in Players |-> IF p \in ms THEN "shows" ELSE "offline"] /\ known = ms
  BY Zenon DEF Init
<1>2. /\ call = [t \in Threads |-> Idle] /\ logins = <<>> /\ logouts = <<>>
  BY Zenon DEF Init
<1>3. \A t \in Threads : call[t].at = "idle"
  BY <1>2 DEF Idle
<1>4. \A p \in Players : p \in known <=> session[p] # "offline"
  BY <1>1
<1> QED
  BY <1>2, <1>3, <1>4, NeverInEmpty, ListenerIsThread DEF PresenceInv, AnswerInv

\* Every step keeps the types outside the chat server.
LEMMA NextOutside ==
  ASSUME TypeOK, ChannelInv, PresenceInv, Next
  PROVE  Outside
<1>1. StartInv
  BY DEF ChannelInv
<1>2. ASSUME NEW t \in Threads, PersistHeir(t) PROVE Outside
  BY <1>2, HeirOutside
<1> QED
  BY <1>1, <1>2, StepCases, RequestOutside, CreateOutside, GatewayOutside, SettingsOutside, JoinOutside, LeaveOutside,
     OwnerOutside, ListeningOutside, BroadcastOutside, ServerOutside

-----------------------------------------------------------------------------
(* Settings and bans in memory and in MySQL                                *)

SameSettings(a, b) == b.password = a.password /\ b.announce = a.announce /\ b.banned = a.banned

\* WritePending in the terms of the proofs.
LEMMA PendingIs ==
  ASSUME NEW ts
  PROVE  WritePending(ts) <=> \E p \in ts : Pending(p)
  BY DEF WritePending, Pending

\* What is known of the active channel when nothing is pending, and who may be pending.
LEMMA SettledNow ==
  ASSUME SettingsInv, ~lagging, active # 0, row.listed, \A p \in Players : ~Pending(p)
  PROVE  SameSettings(row, objects[active])
  BY DEF SettingsInv, SameSettings

\* With no write outstanding, the settings invariant is that memory and rows
\* agree.
LEMMA SettledThen ==
  ASSUME \A p \in Players : call'[p].at \notin {"snapshot", "writeSettings", "writeBan"},
         active' # 0 /\ row'.listed /\ ~lagging' => SameSettings(row', objects'[active'])
  PROVE  SettingsInv'
  BY DEF SettingsInv, SameSettings, Pending

\* With one write outstanding, it is what that write still has to do.
LEMMA OnePendingThen ==
  ASSUME NEW p \in Players, call'[p].on = active',
         \A q \in Players : q # p => call'[q].at \notin {"snapshot", "writeSettings", "writeBan"},
         call'[p].at \in {"snapshot", "writeSettings", "writeBan"},
         (active' # 0 /\ row'.listed) =>
            /\ call'[p].at = "snapshot" =>
                 objects'[active'].password = row'.password /\ objects'[active'].banned = row'.banned
            /\ call'[p].at = "writeSettings" =>
                 call'[p].with = Snapshot(objects'[active']) /\ objects'[active'].banned = row'.banned
            /\ call'[p].at = "writeBan" =>
                 /\ objects'[active'].password = row'.password /\ objects'[active'].announce = row'.announce
                 /\ objects'[active'].banned = IF call'[p].op = "ban" THEN row'.banned \cup {call'[p].to}
                                                                      ELSE row'.banned \ {call'[p].to}
  PROVE  SettingsInv'
<1>1. \A q \in Players : call'[q].at \in {"snapshot", "writeSettings", "writeBan"} => q = p
  OBVIOUS
<1> QED
  BY <1>1 DEF SettingsInv, Pending

\* A step that changes no settings, and no outstanding write, keeps the
\* settings invariant.
LEMMA SettingsKept ==
  ASSUME ChatTypes, SettingsInv, lagging' = lagging, active' = active,
         \A o \in Objects : SameSettings(objects[o], objects'[o]),
         row'.listed => row.listed /\ SameSettings(row, row'),
         \A p \in Players : Pending(p) \/ Pending(p)' => call'[p] = call[p]
  PROVE  SettingsInv'
<1> SUFFICES ASSUME ~lagging
             PROVE  /\ \A p, q \in Players : Pending(p)' /\ Pending(q)' => p = q
                    /\ active # 0 => \A p \in Players : Pending(p)' => call'[p].on = active
                    /\ active # 0 /\ row'.listed =>
                       LET ch == objects'[active]
                       IN /\ (\A p \in Players : ~Pending(p)') => SameSettings(row', ch)
                          /\ \A p \in Players :
                               /\ call'[p].at = "snapshot" => ch.password = row'.password /\ ch.banned = row'.banned
                               /\ call'[p].at = "writeSettings" => call'[p].with = Snapshot(ch) /\ ch.banned = row'.banned
                               /\ call'[p].at = "writeBan" =>
                                    /\ ch.password = row'.password /\ ch.announce = row'.announce
                                    /\ ch.banned = IF call'[p].op = "ban" THEN row'.banned \cup {call'[p].to}
                                                                          ELSE row'.banned \ {call'[p].to}
  BY DEF SettingsInv, SameSettings
<1>1. \A p \in Players : Pending(p) <=> Pending(p)'
  BY DEF Pending
<1>2. \A p \in Players : Pending(p) => call'[p] = call[p]
  OBVIOUS
<1>3. /\ \A p, q \in Players : Pending(p)' /\ Pending(q)' => p = q
      /\ active # 0 => \A p \in Players : Pending(p)' => call'[p].on = active
  BY <1>1, <1>2 DEF SettingsInv
<1>4. ASSUME active # 0, row'.listed
      PROVE  LET ch == objects'[active]
             IN /\ (\A p \in Players : ~Pending(p)') => SameSettings(row', ch)
                /\ \A p \in Players :
                     /\ call'[p].at = "snapshot" => ch.password = row'.password /\ ch.banned = row'.banned
                     /\ call'[p].at = "writeSettings" => call'[p].with = Snapshot(ch) /\ ch.banned = row'.banned
                     /\ call'[p].at = "writeBan" =>
                          /\ ch.password = row'.password /\ ch.announce = row'.announce
                          /\ ch.banned = IF call'[p].op = "ban" THEN row'.banned \cup {call'[p].to}
                                                                ELSE row'.banned \ {call'[p].to}
  <2>1. active \in Objects /\ SameSettings(objects[active], objects'[active]) /\ SameSettings(row, row') /\ row.listed
    BY <1>4 DEF ChatTypes
  <2>2. Snapshot(objects'[active]) = Snapshot(objects[active])
    BY <2>1 DEF Snapshot, SameSettings
  <2>3. (\A p \in Players : ~Pending(p)') => SameSettings(row', objects'[active])
    BY <1>1, <1>4, <2>1 DEF SettingsInv, SameSettings
  <2>4. ASSUME NEW p \in Players, Pending(p)'
        PROVE  /\ call'[p].at = "snapshot" => objects'[active].password = row'.password /\ objects'[active].banned = row'.banned
               /\ call'[p].at = "writeSettings" =>
                    call'[p].with = Snapshot(objects'[active]) /\ objects'[active].banned = row'.banned
               /\ call'[p].at = "writeBan" =>
                    /\ objects'[active].password = row'.password /\ objects'[active].announce = row'.announce
                    /\ objects'[active].banned = IF call'[p].op = "ban" THEN row'.banned \cup {call'[p].to}
                                                                        ELSE row'.banned \ {call'[p].to}
    <3>1. call'[p] = call[p]
      BY <2>4
    <3>2. /\ call[p].at = "snapshot" => objects[active].password = row.password /\ objects[active].banned = row.banned
          /\ call[p].at = "writeSettings" =>
               call[p].with = Snapshot(objects[active]) /\ objects[active].banned = row.banned
          /\ call[p].at = "writeBan" =>
               /\ objects[active].password = row.password /\ objects[active].announce = row.announce
               /\ objects[active].banned = IF call[p].op = "ban" THEN row.banned \cup {call[p].to}
                                                                  ELSE row.banned \ {call[p].to}
      BY <1>4, <2>1 DEF SettingsInv
    <3>3. /\ objects'[active].password = objects[active].password
          /\ objects'[active].announce = objects[active].announce
          /\ objects'[active].banned = objects[active].banned
          /\ row'.password = row.password /\ row'.announce = row.announce /\ row'.banned = row.banned
      BY <2>1 DEF SameSettings
    <3> QED
      BY <2>2, <3>1, <3>2, <3>3
  <2> QED
    BY <2>3, <2>4 DEF Pending
<1> QED
  BY <1>3, <1>4

\* A handler at work on members and roles is such a step.
LEMMA WorkKeepsSettings ==
  ASSUME ChatTypes, CallTypes, SettingsInv, NEW t \in Threads, NEW o \in Objects, NEW n \in ChannelRecord, Works(t, o, n)
  PROVE  SettingsInv'
<1>1. /\ lagging' = lagging /\ active' = active /\ row'.listed = row.listed
      /\ ~Pending(t) /\ ~Pending(t)'
      /\ \A u \in Threads : u # t => call'[u] = call[u]
  BY DEF Works, Keeps, Pending
<1>2. SameSettings(row, row') /\ \A u \in Objects : SameSettings(objects[u], objects'[u])
  BY DEF Works, Keeps, SameSettings
<1> QED
  BY <1>1, <1>2, SettingsKept, ListenerIsThread

\* So is a handler that passes.
LEMMA PassKeepsSettings ==
  ASSUME ChatTypes, CallTypes, SettingsInv, NEW t \in Threads, Passes(t)
  PROVE  SettingsInv'
<1>1. /\ lagging' = lagging /\ active' = active /\ row' = row
      /\ ~Pending(t) /\ ~Pending(t)'
      /\ \A u \in Threads : u # t => call'[u] = call[u]
  BY DEF Passes, Pending
<1>2. SameSettings(row, row') /\ \A u \in Objects : SameSettings(objects[u], objects'[u])
  BY <1>1 DEF Passes, SameSettings
<1> QED
  BY <1>1, <1>2, SettingsKept, ListenerIsThread

\* A step of one thread that is not about settings, with the channel and the rows as they were.
LEMMA QuietKeepsSettings ==
  ASSUME ChatTypes, CallTypes, SettingsInv, lagging' = lagging, UNCHANGED <<objects, active, row>>,
         \A p \in Players : Pending(p) \/ Pending(p)' => call'[p] = call[p]
  PROVE  SettingsInv'
<1>1. SameSettings(row, row') /\ \A u \in Objects : SameSettings(objects[u], objects'[u])
  BY DEF SameSettings
<1> QED
  BY <1>1, SettingsKept

\* The handlers of members and roles are such steps.
LEMMA HandlerKeepsSettings ==
  ASSUME TypeOK, SettingsInv,
         \/ \E p \in Players : JoinChannel(p) \/ LeaveChannel(p) \/ SetFlag(p) \/ SetOwnerOld(p) \/ SetOwnerNew(p)
         \/ \E t \in Threads : PersistHeir(t)
         \/ TransferOwnershipOnLogout
  PROVE  SettingsInv'
<1> USE DEF TypeOK
<1> DEFINE Moves == \E t \in Threads : Passes(t) \/ \E o \in Objects, n \in ChannelRecord : Works(t, o, n)
<1>0. \A p \in Players : p \in Threads
  BY ListenerIsThread
<1>1. ASSUME NEW p \in Players, JoinChannel(p) PROVE Moves
  BY <1>0, <1>1, JoinEffect
<1>2. ASSUME NEW p \in Players, LeaveChannel(p) PROVE Moves
  BY <1>0, <1>2, LeaveEffect DEF Departs
<1>3. ASSUME NEW p \in Players, SetFlag(p) PROVE Moves
  BY <1>0, <1>3, SetFlagEffect
<1>4. ASSUME NEW p \in Players, SetOwnerOld(p) PROVE Moves
  BY <1>0, <1>4, SetOwnerOldEffect
<1>5. ASSUME NEW p \in Players, SetOwnerNew(p) PROVE Moves
  BY <1>0, <1>5, SetOwnerNewEffect
<1>6. ASSUME NEW t \in Threads, PersistHeir(t) PROVE Moves
  BY <1>6, PersistHeirEffect
<1>7. ASSUME TransferOwnershipOnLogout PROVE Moves
  BY <1>7, TransferEffect, ListenerIsThread DEF HandsOver
<1>8. Moves
  BY <1>1, <1>2, <1>3, <1>4, <1>5, <1>6, <1>7
<1> QED
  BY <1>8, WorkKeepsSettings, PassKeepsSettings

\* A ban in memory becomes the one outstanding write, or MySQL may lag.
LEMMA BanKeepsSettings ==
  ASSUME TypeOK, ChannelInv, SettingsInv, NEW p \in Players, BanInMemory(p)
  PROVE  SettingsInv'
<1> USE DEF TypeOK
<1>1. row' = row /\ active' = active /\ call[p].at \in {"banning", "unban"} /\ \A u \in Threads : u # p => call'[u] = call[u]
  BY BanInMemoryEffect
<1>2. ~Pending(p) /\ p \in Threads /\ \A q \in Players : q \in Threads
  BY <1>1, ListenerIsThread DEF Pending
<1>3. CASE active = 0 /\ call'[p] = Idle /\ objects' = objects /\ lagging' = lagging
  <2>1. ~Pending(p)'
    BY <1>3 DEF Pending, Idle
  <2> QED
    BY <1>1, <1>2, <1>3, <2>1, QuietKeepsSettings
<1>4. CASE /\ active \in Objects
           /\ call'[p].at = "writeBan" /\ call'[p].on = active
           /\ call'[p].op = call[p].op /\ call'[p].to = call[p].to
           /\ objects'[active].password = objects[active].password
           /\ objects'[active].announce = objects[active].announce
           /\ objects'[active].banned = IF call[p].op = "ban" THEN objects[active].banned \cup {call[p].to}
                                                              ELSE objects[active].banned \ {call[p].to}
           /\ lagging' = (lagging \/ WritePending(Players \ {p}))
  <2>1. CASE lagging'
    BY <2>1 DEF SettingsInv
  <2>2. CASE ~lagging'
    <3>1. ~lagging /\ \A q \in Players : q # p => ~Pending(q)
      BY <1>4, <2>2, PendingIs
    <3>2. \A q \in Players : q # p => call'[q].at \notin {"snapshot", "writeSettings", "writeBan"}
      BY <1>1, <1>2, <3>1 DEF Pending
    <3>3. active # 0
      BY <1>4 DEF Objects
    <3>4. row.listed => SameSettings(row, objects[active])
      BY <1>2, <3>1, <3>3, SettledNow
    <3> QED
      BY <1>1, <1>4, <3>2, <3>4, OnePendingThen DEF SameSettings
  <2> QED
    BY <2>1, <2>2
<1> QED
  BY <1>3, <1>4, BanInMemoryEffect

\* The one write that is pending.
LEMMA OnlyPending ==
  ASSUME ChatTypes, SettingsInv, IdInv, ~lagging, NEW p \in Players, Pending(p)
  PROVE  /\ \A q \in Players : q # p => ~Pending(q)
         /\ active # 0 => call[p].on = active /\ objects[call[p].on].id = row.id
  BY DEF SettingsInv, IdInv

\* The outstanding write makes the rows agree again, or MySQL lags.
LEMMA WritesKeepSettings ==
  ASSUME TypeOK, ChannelInv, SettingsInv, NEW p \in Players, WriteChannelBan(p) \/ WriteSettings(p)
  PROVE  SettingsInv'
<1> USE DEF TypeOK
<1>1. CASE lagging'
  BY <1>1 DEF SettingsInv
<1>2. CASE ~lagging' /\ WriteChannelBan(p)
  <2>1. /\ UNCHANGED <<objects, active>> /\ call[p].at = "writeBan" /\ call'[p] = Idle
        /\ \A u \in Threads : u # p => call'[u] = call[u]
        /\ row'.listed = row.listed /\ lagging' = lagging /\ row'.password = row.password /\ row'.announce = row.announce
        /\ row.id = objects[call[p].on].id =>
             row'.banned = IF call[p].op = "ban" THEN row.banned \cup {call[p].to} ELSE row.banned \ {call[p].to}
    BY <1>2, WriteBanEffect
  <2>2. Pending(p)
    BY <2>1 DEF Pending
  <2>3. /\ \A q \in Players : q # p => ~Pending(q)
        /\ active # 0 => call[p].on = active /\ objects[call[p].on].id = row.id
    BY <1>2, <2>1, <2>2, OnlyPending DEF ChannelInv
  <2>4. \A q \in Players : call'[q].at \notin {"snapshot", "writeSettings", "writeBan"}
    BY <2>1, <2>3, ListenerIsThread DEF Pending, Idle
  <2>5. ASSUME active # 0, row.listed PROVE SameSettings(row', objects[active])
    <3>1. /\ objects[active].password = row.password /\ objects[active].announce = row.announce
          /\ objects[active].banned = IF call[p].op = "ban" THEN row.banned \cup {call[p].to}
                                                            ELSE row.banned \ {call[p].to}
      BY <1>2, <2>1, <2>5 DEF SettingsInv
    <3> QED
      BY <2>1, <2>3, <2>5, <3>1 DEF SameSettings
  <2> QED
    BY <2>1, <2>4, <2>5, SettledThen
<1>3. CASE ~lagging' /\ WriteSettings(p)
  <2>1. /\ UNCHANGED <<objects, active>> /\ call[p].at = "writeSettings" /\ call'[p] = Idle
        /\ \A u \in Threads : u # p => call'[u] = call[u]
        /\ row'.listed = row.listed /\ lagging' = lagging /\ row'.banned = row.banned
        /\ row.id = objects[call[p].on].id /\ row.listed =>
             row'.password = call[p].with[1] /\ row'.announce = call[p].with[2]
    BY <1>3, WriteSettingsEffect
  <2>2. Pending(p)
    BY <2>1 DEF Pending
  <2>3. /\ \A q \in Players : q # p => ~Pending(q)
        /\ active # 0 => call[p].on = active /\ objects[call[p].on].id = row.id
    BY <1>3, <2>1, <2>2, OnlyPending DEF ChannelInv
  <2>4. \A q \in Players : call'[q].at \notin {"snapshot", "writeSettings", "writeBan"}
    BY <2>1, <2>3, ListenerIsThread DEF Pending, Idle
  <2>5. ASSUME active # 0, row.listed PROVE SameSettings(row', objects[active])
    <3>1. call[p].with = Snapshot(objects[active]) /\ objects[active].banned = row.banned
      BY <1>3, <2>1, <2>5 DEF SettingsInv
    <3>2. call[p].with[1] = objects[active].password /\ call[p].with[2] = objects[active].announce
      BY <3>1 DEF Snapshot
    <3> QED
      BY <2>1, <2>3, <2>5, <3>1, <3>2 DEF SameSettings
  <2> QED
    BY <2>1, <2>4, <2>5, SettledThen
<1> QED
  BY <1>1, <1>2, <1>3

\* A change of password or announcements becomes the one outstanding write, or
\* MySQL may lag.
LEMMA ChangesKeepSettings ==
  ASSUME TypeOK, SettingsInv, NEW p \in Players, SetPassword(p) \/ ToggleAnnouncements(p)
  PROVE  SettingsInv'
<1> USE DEF TypeOK
<1>1. /\ row' = row /\ active' = active /\ call[p].on \in Objects
      /\ call[p].at \in {"setPassword", "announcements"}
      /\ \A u \in Threads : u # p => call'[u] = call[u]
      /\ call'[p].on = call[p].on
      /\ \/ call'[p].at = "writeSettings" /\ call'[p].with = Snapshot(objects'[call[p].on])
         \/ call'[p].at = "snapshot" /\ objects'[call[p].on].password = objects[call[p].on].password
      /\ objects'[call[p].on].banned = objects[call[p].on].banned
      /\ lagging' = (lagging \/ Overtaken(p))
  BY SetPasswordEffect, ToggleAnnouncementsEffect
<1>2. CASE lagging'
  BY <1>2 DEF SettingsInv
<1>3. CASE ~lagging'
  <2>1. ~lagging /\ call[p].on = active /\ \A q \in Players : q # p => ~Pending(q)
    BY <1>1, <1>3, PendingIs DEF Overtaken
  <2>2. \A q \in Players : ~Pending(q)
    BY <1>1, <2>1 DEF Pending
  <2>3. \A q \in Players : q # p => call'[q].at \notin {"snapshot", "writeSettings", "writeBan"}
    BY <1>1, <2>1, ListenerIsThread DEF Pending
  <2>4. active # 0
    BY <1>1, <2>1 DEF Objects
  <2>5. row.listed => SameSettings(row, objects[active])
    BY <2>1, <2>2, <2>4, SettledNow
  <2>6. row.listed => objects'[active].banned = row.banned
                      /\ (call'[p].at = "snapshot" => objects'[active].password = row.password)
    BY <1>1, <2>1, <2>5 DEF SameSettings
  <2> QED
    BY <1>1, <2>1, <2>3, <2>6, OnePendingThen
<1> QED
  BY <1>2, <1>3

\* The snapshot holds what the write still has to do.
LEMMA SnapshotKeepsSettings ==
  ASSUME TypeOK, ChannelInv, SettingsInv, NEW p \in Players, SnapshotSettings(p)
  PROVE  SettingsInv'
<1> USE DEF TypeOK
<1>1. /\ UNCHANGED <<objects, row, active, lagging>> /\ call[p].at = "snapshot"
      /\ \A u \in Threads : u # p => call'[u] = call[u]
      /\ call'[p].at = "writeSettings" /\ call'[p].on = call[p].on
      /\ call'[p].with = Snapshot(objects[call[p].on])
  BY SnapshotEffect
<1>2. CASE lagging
  BY <1>1, <1>2 DEF SettingsInv
<1>3. CASE ~lagging
  <2>1. Pending(p)
    BY <1>1 DEF Pending
  <2>2. /\ \A q \in Players : q # p => ~Pending(q)
        /\ active # 0 => call[p].on = active
    BY <1>3, <2>1, OnlyPending DEF ChannelInv
  <2>3. \A q \in Players : q # p => call'[q].at \notin {"snapshot", "writeSettings", "writeBan"}
    BY <1>1, <2>2, ListenerIsThread DEF Pending
  <2>4. CASE active # 0
    <3>1. row.listed => objects[active].banned = row.banned
      BY <1>1, <1>3, <2>4 DEF SettingsInv
    <3> QED
      BY <1>1, <2>2, <2>3, <2>4, <3>1, OnePendingThen
  <2>5. CASE active = 0
    <3>1. \A a, b \in Players : Pending(a)' /\ Pending(b)' => a = b
      BY <2>3 DEF Pending
    <3> QED
      BY <1>1, <2>5, <3>1 DEF SettingsInv
  <2> QED
    BY <2>4, <2>5
<1> QED
  BY <1>2, <1>3

\* Moderation is not among the settings written.
LEMMA ModerationKeepsSettings ==
  ASSUME TypeOK, SettingsInv, NEW p \in Players, ToggleModeration(p)
  PROVE  SettingsInv'
<1>1. /\ row' = row /\ active' = active /\ lagging' = lagging /\ call[p].at = "moderation" /\ call'[p] = Idle
      /\ \A u \in Threads : u # p => call'[u] = call[u]
      /\ \A o \in Objects : SameSettings(objects[o], objects'[o])
  BY ToggleModerationEffect DEF TypeOK, SameSettings
<1>2. ~Pending(p) /\ ~Pending(p)' /\ SameSettings(row, row')
  BY <1>1 DEF Pending, Idle, SameSettings
<1> QED
  BY <1>1, <1>2, SettingsKept, ListenerIsThread DEF TypeOK

\* Requests, sessions, listener and broadcaster keep the settings invariant.
LEMMA OtherKeepSettings ==
  ASSUME TypeOK, ChannelInv, SettingsInv,
         \/ \E p \in Players : Requests(p) \/ (HandleJoinChannel(p) /\ active # 0) \/ GatewayStep(p)
         \/ Listening \/ Broadcast
  PROVE  SettingsInv'
<1> USE DEF TypeOK
<1>1. ASSUME NEW p \in Players, Requests(p) \/ (HandleJoinChannel(p) /\ active # 0) PROVE SettingsInv'
  <2>1. /\ UNCHANGED <<objects, active, row, lagging>> /\ call[p] = Idle
        /\ call'[p].at \in OnPlayer \cup OfChannel \cup {"join"}
        /\ \A u \in Threads : u # p => call'[u] = call[u]
    BY <1>1, RequestEffect, JoinExisting DEF chat, history
  <2>2. ~Pending(p) /\ ~Pending(p)'
    BY <2>1 DEF Pending, Idle, OnPlayer, OfChannel
  <2> QED
    BY <2>1, <2>2, QuietKeepsSettings, ListenerIsThread
<1>2. ASSUME NEW p \in Players, GatewayStep(p) PROVE SettingsInv'
  <2>1. /\ UNCHANGED <<objects, active, row, lagging>>
        /\ \/ call' = call
           \/ /\ call[p].at \in {"joined", "left"} /\ call'[p] = Idle
              /\ \A u \in Threads : u # p => call'[u] = call[u]
    BY <1>2, GatewayEffect DEF chat
  <2>2. \A q \in Players : Pending(q) \/ Pending(q)' => call'[q] = call[q]
    BY <2>1, ListenerIsThread DEF Pending, Idle
  <2> QED
    BY <2>1, <2>2, QuietKeepsSettings
<1>3. CASE Broadcast
  <2>1. /\ UNCHANGED <<objects, active, row, lagging>>
        /\ \/ call' = call
           \/ \A t \in Threads : call'[t] = IF call[t].at \in {"joined", "left"} THEN Idle ELSE call[t]
    BY <1>3, BroadcastEffect DEF chat
  <2>2. \A q \in Players : Pending(q) \/ Pending(q)' => call'[q] = call[q]
    BY <2>1, ListenerIsThread DEF Pending, Idle
  <2> QED
    BY <2>1, <2>2, QuietKeepsSettings
<1>4. CASE Listening
  <2>1. UNCHANGED <<objects, active, row, lagging>> /\ \A u \in Players : call'[u] = call[u]
    BY <1>4, LoggedInEffect, LoggedOutEffect, RemoveEffect, ListenerIsThread DEF Listening
  <2> QED
    BY <2>1, QuietKeepsSettings
<1> QED
  BY <1>1, <1>2, <1>3, <1>4

\* Loading takes the settings of the rows; a write that is cut off by a crash
\* or a new object makes MySQL lag.
LEMMA ServerKeepsSettings ==
  ASSUME TypeOK, ChannelInv, SettingsInv,
         \/ Preload \/ PruneOfflineMembers \/ PersistPruneHeir \/ CleanupLocalMemory \/ CleanOldChannels \/ Crash
         \/ \E p \in Players : HandleJoinChannel(p) /\ active = 0
  PROVE  SettingsInv'
<1> USE DEF TypeOK
<1>0. \A p \in Players : p \in Threads
  BY ListenerIsThread
<1>1. CASE Preload
  <2>1. /\ UNCHANGED <<row, call, lagging>> /\ server = "down"
        /\ \/ row.listed /\ active' = 1 /\ objects'[1] \in Loaded(row)
           \/ ~row.listed /\ active' = active
    BY <1>1, PreloadEffect
  <2>2. \A p \in Players : call'[p].at \notin {"snapshot", "writeSettings", "writeBan"}
    BY <1>0, <2>1 DEF ChannelInv, StartInv, InServer
  <2>3. row.listed => SameSettings(row, objects'[active'])
    <3>1. row \in RowRecord
      BY DEF ChatTypes
    <3> QED
      BY <2>1, <3>1, LoadedType DEF SameSettings
  <2> QED
    BY <2>1, <2>2, <2>3, SettledThen
<1>2. CASE PruneOfflineMembers
  <2>1. UNCHANGED <<active, call, lagging>>
    BY <1>2, PruneEffect
  <2>2. row'.listed = row.listed /\ SameSettings(row, row') /\ \A u \in Objects : SameSettings(objects[u], objects'[u])
    <3>1. CASE UNCHANGED <<objects, row>>
      BY <3>1 DEF SameSettings
    <3>2. CASE ~(UNCHANGED <<objects, row>>)
      <4>1. \E n \in ChannelRecord, offline \in SUBSET Players : Prunes(n, offline)
        BY <1>2, <3>2, PruneEffect
      <4> QED
        BY <4>1 DEF Prunes, Keeps, SameSettings
    <3> QED
      BY <3>1, <3>2
  <2> QED
    BY <2>1, <2>2, SettingsKept
<1>3. CASE PersistPruneHeir
  <2>1. active \in Objects
    BY <1>3 DEF PersistPruneHeir, ChannelInv, StartInv, ChatTypes
  <2>2. UNCHANGED <<objects, active, call, lagging>> /\ Keeps(row, row')
    BY <1>3, <2>1, PersistPruneHeirEffect
  <2>3. row'.listed = row.listed /\ SameSettings(row, row') /\ \A u \in Objects : SameSettings(objects[u], objects'[u])
    BY <2>2 DEF Keeps, SameSettings
  <2> QED
    BY <2>2, <2>3, SettingsKept
<1>4. CASE CleanupLocalMemory
  <2>1. UNCHANGED <<call, lagging>> /\ active' = 0
    BY <1>4, CleanupKeepsChannel
  <2> QED
    BY <2>1 DEF SettingsInv, Pending
<1>5. CASE CleanOldChannels
  <2>1. ~row'.listed /\ UNCHANGED <<objects, active, call, lagging>>
    BY <1>5, QuietCleanOld
  <2> QED
    BY <2>1 DEF SettingsInv, Pending
<1>6. CASE Crash
  <2>1. \A t \in Threads : IF call[t].at \in {"joined", "left"} THEN call'[t].at = call[t].at ELSE call'[t] = Idle
    BY <1>6, CrashEffect
  <2>2. \A p \in Players : call'[p].at \notin {"snapshot", "writeSettings", "writeBan"}
    BY <1>0, <2>1 DEF Idle
  <2>3. active' = 0
    BY <1>6, CrashEffect
  <2> QED
    BY <2>2, <2>3, SettledThen
<1>7. CASE \E p \in Players : HandleJoinChannel(p) /\ active = 0
  <2>1. PICK p \in Players : HandleJoinChannel(p) /\ active = 0
    BY <1>7
  <2>2. ChatTypes' /\ \E o \in Objects : Creates(p, o)
    BY <2>1, JoinNew
  <2>3. PICK o \in Objects : Creates(p, o)
    BY <2>2
  <2>4. /\ lagging' = (lagging \/ WritePending(Players)) /\ active' = o /\ objects'[o] \in Loaded(row')
        /\ call'[p].at = "join" /\ \A u \in Threads : u # p => call'[u] = call[u]
    BY <2>3 DEF Creates
  <2>5. CASE lagging'
    BY <2>5 DEF SettingsInv
  <2>6. CASE ~lagging'
    <3>1. \A q \in Players : ~Pending(q)
      BY <2>4, <2>6, PendingIs
    <3>2. \A q \in Players : call'[q].at \notin {"snapshot", "writeSettings", "writeBan"}
      BY <1>0, <2>4, <3>1 DEF Pending
    <3>3. SameSettings(row', objects'[active'])
      <4>1. row' \in RowRecord
        BY <2>2 DEF ChatTypes
      <4> QED
        BY <2>4, <4>1, LoadedType DEF SameSettings
    <3> QED
      BY <3>2, <3>3, SettledThen
  <2> QED
    BY <2>5, <2>6
<1> QED
  BY <1>1, <1>2, <1>3, <1>4, <1>5, <1>6, <1>7

\* Every step keeps the settings invariant.
LEMMA NextSettings ==
  ASSUME TypeOK, ChannelInv, SettingsInv, Next
  PROVE  SettingsInv'
<1>1. ASSUME NEW p \in Players, SettingsStep(p) PROVE SettingsInv'
  BY <1>1, BanKeepsSettings, WritesKeepSettings, ChangesKeepSettings, SnapshotKeepsSettings, ModerationKeepsSettings
     DEF SettingsStep
<1> QED
  BY <1>1, StepCases, HandlerKeepsSettings, OtherKeepSettings, ServerKeepsSettings

\* The settings invariant holds at the start.
LEMMA InitSettings ==
  ASSUME Init
  PROVE  SettingsInv
<1>1. ChatTypes /\ CallTypes
  BY InitChannel
<1>2. call = [t \in Threads |-> Idle]
  BY Zenon DEF Init
<1>3. \A p \in Players : ~Pending(p)
  BY <1>2, ListenerIsThread DEF Pending, Idle
<1>4. active # 0 => objects[active] \in Loaded(row)
  <2>1. PICK ms \in {{}, FirstMembers} :
        /\ active = IF ms = {} THEN 0 ELSE 1
        /\ objects = [o \in Objects |-> IF ms # {} /\ o = 1 THEN CHOOSE ch \in Loaded(row) : TRUE ELSE Unused]
    BY Zenon DEF Init
  <2> HAVE active # 0
  <2>2. active = 1 /\ ms # {} /\ 1 \in Objects
    BY <2>1 DEF Objects
  <2>3. objects[1] = CHOOSE ch \in Loaded(row) : TRUE
    BY <2>1, <2>2
  <2>4. Loaded(row) # {}
    BY <1>1, SomeLoaded DEF ChatTypes
  <2>5. (CHOOSE ch \in Loaded(row) : TRUE) \in Loaded(row)
    BY <2>4
  <2> QED
    BY <2>2, <2>3, <2>5
<1>5. active # 0 => SameSettings(row, objects[active])
  <2>1. row \in RowRecord
    BY <1>1 DEF ChatTypes
  <2> QED
    BY <1>4, <2>1, LoadedType DEF SameSettings
<1> QED
  BY <1>3, <1>5 DEF SettingsInv, SameSettings, Pending

-----------------------------------------------------------------------------
(* Sessions that show the channel are members                              *)

\* The call of p goes on, on its object or the active one, and shows no more than before.
Moves(p) ==
  /\ call'[p].on \in {0, call[p].on, active}
  /\ Showing(p)' => Showing(p)
  /\ InServer(p)' => call'[p].on = active \/ (InServer(p) /\ call'[p].on = call[p].on)

\* A player whose call and session stay goes on.
LEMMA StaysMoves ==
  ASSUME NEW p, call'[p] = call[p], session'[p] = session[p]
  PROVE  Moves(p)
  BY DEF Moves, Showing, InServer

\* A handler that goes on without an answer to a join shows nothing new.
LEMMA ProceedsMoves ==
  ASSUME NEW p, session'[p] = session[p], call'[p].at # "joined", call[p].at \notin {"left", "heir"},
         call'[p].on \in {0, call[p].on, active},
         InServer(p)' => call'[p].on = active \/ (InServer(p) /\ call'[p].on = call[p].on)
  PROVE  Moves(p)
  BY DEF Moves, Showing

\* What a session shows stays so when the player goes on and is not taken out.
LEMMA SeenKept ==
  ASSUME ChatTypes, CallTypes, IdInv, NEW p \in Players, Seen(p), Moves(p),
         active' = active, row'.id = row.id, \A o \in Objects : objects'[o].id = objects[o].id,
         p \in Current.members => p \in Current'.members
  PROVE  Seen(p)'
<1>1. call[p].on \in {0} \cup Objects /\ active \in {0} \cup Objects
  BY ListenerIsThread DEF ChatTypes, CallTypes, CallRecord
<1>2. call'[p].on # 0 => objects'[call'[p].on].id = row'.id
  BY <1>1 DEF Moves, Seen, IdInv
<1>3. Showing(p)' => p \in Current'.members /\ (InServer(p)' => call'[p].on = active')
  BY DEF Moves, Seen
<1> QED
  BY <1>2, <1>3 DEF Seen

\* Every step but a crash, a start and a new channel: each player moves on or is seen for its own reasons.
LEMMA SessionKept ==
  ASSUME ChatTypes, CallTypes, IdInv, SessionInv, damage' = "none" => damage = "none",
         active' = active, row'.id = row.id, \A o \in Objects : objects'[o].id = objects[o].id,
         \A p \in Players \ expelled' :
            \/ p \notin expelled /\ Moves(p) /\ (p \in Current.members => p \in Current'.members)
            \/ damage' = "none" => Seen(p)'
  PROVE  SessionInv'
<1> SUFFICES ASSUME damage' = "none", NEW p \in Players, p \notin expelled' PROVE Seen(p)'
  BY DEF SessionInv
<1>1. damage = "none"
  OBVIOUS
<1>2. CASE p \notin expelled /\ Moves(p) /\ (p \in Current.members => p \in Current'.members)
  <2>1. Seen(p)
    BY <1>1, <1>2 DEF SessionInv
  <2> QED
    BY <1>2, <2>1, SeenKept
<1> QED
  BY <1>2

\* Steps that leave members and roles alone.
LEMMA QuietKeepsSessions ==
  ASSUME ChatTypes, CallTypes, ChannelInv, SessionInv, KeepsChannel, expelled' = expelled, \A p \in Players : Moves(p)
  PROVE  SessionInv'
<1>1. active' = active /\ server' = server /\ damage' = damage /\ row'.id = row.id
  BY DEF KeepsChannel
<1>2. \A o \in Objects : objects'[o].id = objects[o].id /\ objects'[o].members = objects[o].members
  BY DEF KeepsChannel, Same
<1>3. Current'.members = Current.members
  <2>1. CASE active # 0
    <3>1. active \in Objects
      BY <2>1 DEF ChatTypes
    <3> QED
      BY <1>1, <1>2, <2>1, <3>1, CurrentNow, CurrentThen
  <2>2. CASE active = 0 /\ server = "down"
    <3>1. row' = row
      BY <2>2 DEF KeepsChannel
    <3> QED
      BY <1>1, <2>2, <3>1, CurrentNow, CurrentThen
  <2>3. CASE active = 0 /\ server # "down"
    BY <1>1, <2>3, CurrentNow, CurrentThen
  <2> QED
    BY <2>1, <2>2, <2>3
<1> QED
  BY <1>1, <1>2, <1>3, SessionKept DEF ChannelInv

\* A request is made on the active channel, where a shown player is a member.
LEMMA RequestKeepsSessions ==
  ASSUME TypeOK, ChannelInv, SessionInv, NEW p \in Players, Requests(p) \/ (HandleJoinChannel(p) /\ active # 0)
  PROVE  SessionInv'
<1> USE DEF TypeOK
<1>1. KeepsChannel
  BY QuietRequest
<1>2. /\ UNCHANGED <<session, expelled>> /\ call[p] = Idle
      /\ call'[p].at \in OnPlayer \cup OfChannel \cup {"join"} /\ call'[p].on = active
      /\ \A u \in Threads : u # p => call'[u] = call[u]
  BY RequestEffect, JoinExisting DEF gateway, history
<1>3. call[p].at = "idle" /\ call'[p].at # "joined"
  BY <1>2 DEF Idle, OnPlayer, OfChannel
<1>4. Moves(p)
  BY <1>2, <1>3, ProceedsMoves
<1>5. \A q \in Players : Moves(q)
  BY <1>2, <1>4, StaysMoves, ListenerIsThread
<1> QED
  BY <1>1, <1>2, <1>5, QuietKeepsSessions

\* A session shows the channel once the join is answered, and no more after a
\* leave, a login or a logout.
LEMMA GatewayKeepsSessions ==
  ASSUME TypeOK, ChannelInv, SessionInv, NEW p \in Players, GatewayStep(p)
  PROVE  SessionInv'
<1> USE DEF TypeOK
<1>0. Idle.at = "idle" /\ Idle.on = 0 /\ DOMAIN session = Players /\ p \in Threads /\ DOMAIN call = Threads
  BY ListenerIsThread DEF Idle, GatewayTypes, CallTypes
<1>1. KeepsChannel /\ expelled' = expelled
  BY QuietGateway, GatewayEffect
<1>2. CASE AddChannel(p) \/ RemoveChannel(p)
  <2>1. /\ call' = [call EXCEPT ![p] = Idle]
        /\ \/ call[p].at = "joined"
           \/ session' = [session EXCEPT ![p] = "online"]
        /\ \A q \in Players : q # p => session'[q] = session[q]
    BY <1>0, <1>2 DEF AddChannel, RemoveChannel, Return
  <2>2. call'[p] = Idle /\ \A u \in Threads : u # p => call'[u] = call[u]
    BY <1>0, <2>1
  <2>3. call[p].at = "joined" \/ session'[p] = "online"
    BY <1>0, <2>1
  <2>4. Moves(p)
    BY <1>0, <2>2, <2>3 DEF Moves, Showing, InServer
  <2>5. \A q \in Players : Moves(q)
    BY <2>1, <2>2, <2>4, StaysMoves, ListenerIsThread
  <2> QED
    BY <1>1, <2>5, QuietKeepsSessions
<1>3. CASE Login(p) \/ Logout(p)
  <2>1. /\ call' = call /\ call[p] = Idle
        /\ session' = [session EXCEPT ![p] = "online"] \/ session' = [session EXCEPT ![p] = "offline"]
    BY <1>3 DEF Login, Logout
  <2>2. session'[p] # "shows" /\ \A q \in Players : q # p => session'[q] = session[q]
    BY <1>0, <2>1
  <2>3. Moves(p)
    BY <1>0, <2>1, <2>2 DEF Moves, Showing, InServer
  <2>4. \A q \in Players : Moves(q)
    BY <2>1, <2>2, <2>3, StaysMoves
  <2> QED
    BY <1>1, <2>4, QuietKeepsSessions
<1>4. CASE SendChannelMessageToChat(p) \/ HandleChannelInvite(p)
  <2>1. call' = call /\ session' = session
    BY <1>4 DEF SendChannelMessageToChat, HandleChannelInvite, PublishOnly
  <2>2. \A q \in Players : Moves(q)
    BY <2>1, StaysMoves
  <2> QED
    BY <1>1, <2>2, QuietKeepsSessions
<1> QED
  BY <1>2, <1>3, <1>4 DEF GatewayStep

\* A panic of the gateway ends what is shown.
LEMMA BroadcastKeepsSessions ==
  ASSUME TypeOK, ChannelInv, SessionInv, Broadcast
  PROVE  SessionInv'
<1> USE DEF TypeOK
<1>0. Idle.at = "idle" /\ Idle.on = 0
  BY DEF Idle
<1>1. KeepsChannel /\ expelled' = expelled
  BY QuietBroadcast, BroadcastEffect
<1>2. CASE BroadcastToChannel \/ SendEvent
  <2>1. call' = call /\ session' = session
    BY <1>2 DEF BroadcastToChannel, SendEvent
  <2>2. \A q \in Players : Moves(q)
    BY <2>1, StaysMoves
  <2> QED
    BY <1>1, <2>2, QuietKeepsSessions
<1>3. CASE SendOnClosedStream
  <2>1. /\ session' = [q \in Players |-> "offline"]
        /\ call' = [t \in Threads |-> IF call[t].at \in {"joined", "left"} THEN Idle ELSE call[t]]
    BY <1>3 DEF SendOnClosedStream
  <2>2. ASSUME NEW q \in Players PROVE Moves(q)
    <3>1. session'[q] = "offline" /\ (call'[q] = Idle \/ (call'[q] = call[q] /\ call[q].at # "joined"))
      BY <2>1, ListenerIsThread
    <3> QED
      BY <1>0, <3>1 DEF Moves, Showing, InServer
  <2> QED
    BY <1>1, <2>2, QuietKeepsSessions
<1> QED
  BY <1>2, <1>3 DEF Broadcast

\* The listener takes nobody out.
LEMMA ListeningKeepsSessions ==
  ASSUME TypeOK, ChannelInv, SessionInv, Listening
  PROVE  SessionInv'
<1> USE DEF TypeOK
<1>1. KeepsChannel
  BY QuietListening
<1>2. expelled' = expelled /\ \A u \in Players : call'[u] = call[u]
  BY LoggedInEffect, LoggedOutEffect, RemoveEffect, ListenerIsThread DEF Listening
<1>3. session' = session
  BY DEF Listening, CharacterLoggedIn, CharacterLoggedOut, RemoveCharacter, gateway
<1>4. \A q \in Players : Moves(q)
  BY <1>2, <1>3, StaysMoves
<1> QED
  BY <1>1, <1>2, <1>4, QuietKeepsSessions

\* Settings and bans take nobody out.
LEMMA SettingsKeepSessions ==
  ASSUME TypeOK, ChannelInv, SessionInv, NEW p \in Players, SettingsStep(p)
  PROVE  SessionInv'
<1> USE DEF TypeOK
<1>0. Idle.at = "idle" /\ Idle.on = 0
  BY DEF Idle
<1>1. KeepsChannel
  BY QuietSettings
<1>2. session' = session
  BY DEF SettingsStep, BanInMemory, WriteChannelBan, SetPassword, ToggleAnnouncements, SnapshotSettings,
         WriteSettings, ToggleModeration, Quiet
<1>3. /\ expelled' = expelled /\ \A u \in Threads : u # p => call'[u] = call[u]
      /\ call[p].at \in {"banning", "unban", "writeBan", "setPassword", "announcements", "snapshot", "writeSettings", "moderation"}
      /\ \/ call'[p] = Idle
         \/ call'[p].at \in {"writeBan", "writeSettings", "snapshot"} /\ call'[p].on \in {call[p].on, active}
  <2>1. CASE BanInMemory(p)
    BY <2>1, BanInMemoryEffect
  <2>2. CASE WriteChannelBan(p)
    BY <2>2, WriteBanEffect
  <2>3. CASE SetPassword(p)
    BY <2>3, SetPasswordEffect
  <2>4. CASE ToggleAnnouncements(p)
    BY <2>4, ToggleAnnouncementsEffect
  <2>5. CASE SnapshotSettings(p)
    BY <2>5, SnapshotEffect
  <2>6. CASE WriteSettings(p)
    BY <2>6, WriteSettingsEffect
  <2>7. CASE ToggleModeration(p)
    BY <2>7, ToggleModerationEffect
  <2> QED
    BY <2>1, <2>2, <2>3, <2>4, <2>5, <2>6, <2>7 DEF SettingsStep
<1>4. Moves(p)
  BY <1>0, <1>2, <1>3 DEF Moves, Showing, InServer
<1>5. \A q \in Players : Moves(q)
  BY <1>2, <1>3, <1>4, StaysMoves, ListenerIsThread
<1> QED
  BY <1>1, <1>3, <1>5, QuietKeepsSessions

\* A handler at work on its object.
LEMMA WorkKeepsSessions ==
  ASSUME TypeOK, ChannelInv, SessionInv, NEW t \in Threads, NEW o \in Objects, NEW n \in ChannelRecord, Works(t, o, n),
         damage' = damage \/ Hurts,
         \A q \in Players \ expelled' :
            \/ q \notin expelled /\ Moves(q) /\ (q \in objects[o].members => q \in n.members)
            \/ damage' = "none" => Seen(q)'
  PROVE  SessionInv'
<1>1. /\ server = "up" /\ server' = "up" /\ active' = active /\ row'.id = row.id /\ n.id = objects[o].id
      /\ objects'[o] = n /\ \A u \in Objects : u # o => objects'[u] = objects[u]
  BY DEF Works, Keeps
<1>2. \A u \in Objects : objects'[u].id = objects[u].id
  BY <1>1
<1>3. ASSUME NEW q, q \in objects[o].members => q \in n.members, q \in Current.members PROVE q \in Current'.members
  <2>1. CASE active = 0
    BY <1>1, <1>3, <2>1, CurrentNow
  <2>2. CASE active # 0
    <3>1. active \in Objects
      BY <2>2 DEF TypeOK, ChatTypes
    <3> QED
      BY <1>1, <1>3, <2>2, <3>1, CurrentNow, CurrentThen
  <2> QED
    BY <2>1, <2>2
<1>4. damage' = "none" => damage = "none"
  BY DEF Hurts
<1> QED
  BY <1>1, <1>2, <1>3, <1>4, SessionKept DEF TypeOK, ChannelInv

\* A step of one thread leaves the others where they are.
LEMMA OthersMove ==
  ASSUME NEW t \in Threads, \A u \in Threads : u # t => call'[u] = call[u], session' = session
  PROVE  \A q \in Players : q # t => Moves(q)
  BY StaysMoves, ListenerIsThread

\* Changes of roles take nobody out.
LEMMA RolesKeepSessions ==
  ASSUME TypeOK, ChannelInv, SessionInv, NEW p \in Players, SetFlag(p) \/ SetOwnerOld(p) \/ SetOwnerNew(p)
  PROVE  SessionInv'
<1> USE DEF TypeOK
<1>0. Idle.at = "idle" /\ Idle.on = 0 /\ p \in Threads
  BY ListenerIsThread DEF Idle
<1>1. session' = session
  BY Zenon DEF SetFlag, SetOwnerOld, SetOwnerNew, Quiet
<1>2. call[p].at \in {"mute", "unmute", "setModerator", "unsetModerator", "setOwner", "setOwnerNew"}
  BY Zenon DEF SetFlag, SetOwnerOld, SetOwnerNew, Enter
<1>3. /\ expelled' = expelled /\ CallTypes'
      /\ \/ Passes(p) /\ call'[p] = Idle
         \/ \E o \in Objects, n \in ChannelRecord :
              /\ Works(p, o, n) /\ n.members = objects[o].members
              /\ call'[p] = Idle \/ call'[p].at = "setOwnerNew"
              /\ damage' = damage \/ Hurts
  BY SetFlagEffect, SetOwnerOldEffect, SetOwnerNewEffect
<1>4. CASE Passes(p) /\ call'[p] = Idle
  <2>1. KeepsChannel
    BY <1>0, <1>3, <1>4, QuietPass
  <2>2. Moves(p)
    BY <1>0, <1>1, <1>2, <1>4 DEF Moves, Showing, InServer
  <2>3. \A q \in Players : Moves(q)
    BY <1>0, <1>1, <1>4, <2>2, OthersMove DEF Passes
  <2> QED
    BY <1>3, <2>1, <2>3, QuietKeepsSessions
<1>5. ASSUME NEW o \in Objects, NEW n \in ChannelRecord, Works(p, o, n), n.members = objects[o].members,
             call'[p] = Idle \/ call'[p].at = "setOwnerNew", damage' = damage \/ Hurts
      PROVE  SessionInv'
  <2>1. call[p].on = o /\ call'[p].on \in {0, o} /\ (InServer(p)' => call'[p].on = o) /\ InServer(p)
    BY <1>5 DEF Works
  <2>2. call'[p].at # "joined"
    BY <1>0, <1>5
  <2>3. Moves(p)
    BY <1>1, <1>2, <2>1, <2>2, ProceedsMoves
  <2>4. \A q \in Players : Moves(q)
    BY <1>0, <1>1, <1>5, <2>3, OthersMove DEF Works
  <2> QED
    BY <1>0, <1>3, <1>5, <2>4, WorkKeepsSessions
<1> QED
  BY <1>3, <1>4, <1>5

\* A leaver is answered once the heir is written, and shows nothing any more.
LEMMA HeirKeepsSessions ==
  ASSUME TypeOK, ChannelInv, SessionInv, NEW t \in Threads, PersistHeir(t)
  PROVE  SessionInv'
<1> USE DEF TypeOK
<1>1. session' = session
  BY DEF PersistHeir
<1>2. /\ call[t].at = "heir" /\ expelled' = expelled
      /\ call'[t].at \in {"idle", "left", "banning", "remove"}
      /\ call[t].op = "leave" /\ call'[t].at # "left" => session[t] = "offline"
  BY PersistHeirEffect
<1>3. PICK o \in Objects, n \in ChannelRecord :
              Works(t, o, n) /\ n.members = objects[o].members /\ (damage' = damage \/ Hurts)
  BY PersistHeirEffect
<1>4. call[t].on = o /\ call'[t].on \in {0, o} /\ (InServer(t)' => call'[t].on = o) /\ InServer(t)
  BY <1>3 DEF Works
<1>5. Showing(t)' => Showing(t)
  BY <1>1, <1>2 DEF Showing
<1>6. Moves(t)
  BY <1>4, <1>5 DEF Moves
<1>7. \A q \in Players : Moves(q)
  BY <1>1, <1>3, <1>6, OthersMove DEF Works
<1> QED
  BY <1>2, <1>3, <1>7, WorkKeepsSessions

\* A transfer on logout takes nobody out.
LEMMA TransferKeepsSessions ==
  ASSUME TypeOK, ChannelInv, SessionInv, TransferOwnershipOnLogout
  PROVE  SessionInv'
<1> USE DEF TypeOK
<1>0. Listener \in Threads
  BY ListenerIsThread
<1>1. session' = session
  BY Zenon DEF TransferOwnershipOnLogout, Quiet
<1>2. /\ expelled' = expelled /\ CallTypes'
      /\ \/ Passes(Listener)
         \/ \E o \in Objects, n \in ChannelRecord, p \in Players, heir \in Players : HandsOver(o, n, p, heir)
  BY TransferEffect
<1>3. CASE Passes(Listener)
  <2>1. KeepsChannel
    BY <1>0, <1>2, <1>3, QuietPass
  <2>2. \A q \in Players : Moves(q)
    BY <1>0, <1>1, <1>3, OthersMove, PlayersAssumption DEF Passes
  <2> QED
    BY <1>2, <2>1, <2>2, QuietKeepsSessions
<1>4. ASSUME NEW o \in Objects, NEW n \in ChannelRecord, NEW p \in Players, NEW heir \in Players, HandsOver(o, n, p, heir)
      PROVE  SessionInv'
  <2>1. Works(Listener, o, n) /\ n.members = objects[o].members /\ (damage' = damage \/ Hurts)
    BY <1>4 DEF HandsOver
  <2>2. \A q \in Players : Moves(q)
    BY <1>0, <1>1, <2>1, OthersMove, PlayersAssumption DEF Works
  <2> QED
    BY <1>0, <1>2, <2>1, <2>2, WorkKeepsSessions
<1> QED
  BY <1>2, <1>3, <1>4

\* A join that is answered is of the active channel: a dropped object of the
\* same row is empty, and a join of it damages the rows.
LEMMA JoinKeepsSessions ==
  ASSUME TypeOK, ChannelInv, SessionInv, NEW p \in Players, JoinChannel(p)
  PROVE  SessionInv'
<1> USE DEF TypeOK
<1>0. p \in Threads /\ IdInv /\ DroppedInv
  BY ListenerIsThread DEF ChannelInv
<1>1. session' = session
  BY DEF JoinChannel
<1>2. /\ CallTypes' /\ call[p].at = "join" /\ call'[p].at \in {"idle", "joined"}
      /\ \/ Passes(p) /\ (call'[p].at = "joined" => p \in objects[call[p].on].members)
         \/ \E o \in Objects, n \in ChannelRecord :
              /\ Works(p, o, n) /\ n.members = objects[o].members \cup {p}
              /\ damage' = IF o # active /\ damage = "none" THEN "rows" ELSE damage
              /\ expelled' = expelled \ {p}
  BY JoinEffect
<1>3. call[p].on \in Objects
  BY <1>0, <1>2, HandlerObject
<1>4. CASE Passes(p) /\ (call'[p].at = "joined" => p \in objects[call[p].on].members)
  <2>1. KeepsChannel /\ expelled' = expelled
    BY <1>0, <1>2, <1>4, QuietPass DEF Passes
  <2>2. /\ active' = active /\ damage' = damage /\ row' = row /\ server = "up" /\ server' = server
        /\ \A o \in Objects : objects'[o].id = objects[o].id /\ objects'[o].members = objects[o].members
        /\ call'[p].on \in {0, call[p].on}
        /\ \A u \in Threads : u # p => call'[u] = call[u]
    BY <1>4 DEF Passes, Same
  <2>3. active # 0 => active \in Objects
    BY DEF ChatTypes
  <2>4. Current'.members = Current.members
    BY <2>2, <2>3, CurrentNow, CurrentThen
  <2>5. ASSUME damage' = "none", p \notin expelled' PROVE Seen(p)'
    <3>1. Seen(p) /\ damage = "none"
      BY <2>1, <2>2, <2>5 DEF SessionInv
    <3>2. objects[call[p].on].id = row.id
      BY <1>3, <3>1 DEF Seen, Objects
    <3>3. call'[p].on # 0 => objects'[call'[p].on].id = row'.id
      BY <1>3, <2>2, <3>2
    <3>4. ~InServer(p)'
      BY <1>2 DEF InServer
    <3>5. CASE call'[p].at = "joined"
      <4>1. p \in objects[call[p].on].members
        BY <1>4, <3>5
      <4>2. call[p].on = active
        BY <1>0, <1>3, <3>1, <3>2, <4>1 DEF DroppedInv
      <4>3. p \in Current'.members
        BY <1>3, <2>4, <4>1, <4>2, CurrentNow DEF Objects
      <4> QED
        BY <3>3, <3>4, <4>3 DEF Seen
    <3>6. CASE call'[p].at = "idle"
      <4>1. Showing(p)' => Showing(p)
        BY <1>1, <1>2, <3>6 DEF Showing
      <4> QED
        BY <2>4, <3>1, <3>3, <3>4, <4>1 DEF Seen
    <3> QED
      BY <1>2, <3>5, <3>6
  <2>6. \A q \in Players : q # p => Moves(q)
    BY <1>0, <1>1, <2>2, OthersMove
  <2>7. \A q \in Players \ expelled' :
            \/ q \notin expelled /\ Moves(q) /\ (q \in Current.members => q \in Current'.members)
            \/ damage' = "none" => Seen(q)'
    BY <2>1, <2>4, <2>5, <2>6
  <2> QED
    BY <1>0, <2>2, <2>7, SessionKept
<1>5. ASSUME NEW o \in Objects, NEW n \in ChannelRecord, Works(p, o, n), n.members = objects[o].members \cup {p},
             damage' = IF o # active /\ damage = "none" THEN "rows" ELSE damage, expelled' = expelled \ {p}
      PROVE  SessionInv'
  <2>1. damage' = damage \/ Hurts
    BY <1>5 DEF Hurts
  <2>2. /\ call[p].on = o /\ call'[p].on \in {0, o} /\ active' = active /\ row'.id = row.id /\ n.id = objects[o].id
        /\ objects'[o] = n /\ \A u \in Threads : u # p => call'[u] = call[u]
    BY <1>5 DEF Works, Keeps
  <2>3. ASSUME damage' = "none" PROVE Seen(p)'
    <3>1. o = active /\ active # 0
      BY <1>5, <2>3 DEF Objects
    <3>2. call'[p].on # 0 => objects'[call'[p].on].id = row'.id
      BY <1>0, <2>2, <3>1 DEF IdInv
    <3>3. p \in Current'.members
      BY <1>5, <2>2, <3>1, CurrentThen
    <3>4. ~InServer(p)'
      BY <1>2 DEF InServer
    <3> QED
      BY <3>2, <3>3, <3>4 DEF Seen
  <2>4. \A q \in Players : q # p => Moves(q)
    BY <1>0, <1>1, <2>2, OthersMove
  <2>5. \A q \in Players \ expelled' :
            \/ q \notin expelled /\ Moves(q) /\ (q \in objects[o].members => q \in n.members)
            \/ damage' = "none" => Seen(q)'
    BY <1>5, <2>3, <2>4
  <2> QED
    BY <1>0, <1>5, <2>1, <2>5, WorkKeepsSessions
<1> QED
  BY <1>2, <1>4, <1>5

\* Who is taken out has left by itself or counts as expelled.
LEMMA LeaveKeepsSessions ==
  ASSUME TypeOK, ChannelInv, SessionInv, NEW t \in Players, LeaveChannel(t)
  PROVE  SessionInv'
<1> USE DEF TypeOK
<1>0. t \in Threads /\ IdInv
  BY ListenerIsThread DEF ChannelInv
<1>1. session' = session
  BY Zenon DEF LeaveChannel
<1>2. /\ CallTypes' /\ call[t].at \in {"leave", "kick", "ban"}
      /\ \/ Passes(t) /\ call'[t].at \in {"idle", "banning"}
         \/ \E o \in Objects, n \in ChannelRecord, gone \in Players :
              Departs(t, o, n, gone) /\ Unfollowed(t, o, n, gone)
         \/ \E o \in Objects, n \in ChannelRecord, gone \in Players, heir \in Players :
              Departs(t, o, n, gone) /\ Followed(t, o, n, gone, heir)
  BY LeaveEffect
<1>3. CASE Passes(t) /\ call'[t].at \in {"idle", "banning"}
  <2>1. KeepsChannel /\ expelled' = expelled
    BY <1>0, <1>2, <1>3, QuietPass DEF Passes
  <2>2. /\ call'[t].on \in {0, call[t].on} /\ InServer(t) /\ (InServer(t)' => call'[t].on = call[t].on)
        /\ \A u \in Threads : u # t => call'[u] = call[u]
    BY <1>3 DEF Passes
  <2>3. Moves(t)
    BY <1>1, <1>2, <1>3, <2>2, ProceedsMoves
  <2>4. \A q \in Players : Moves(q)
    BY <1>0, <1>1, <2>2, <2>3, OthersMove
  <2> QED
    BY <2>1, <2>4, QuietKeepsSessions
<1>4. ASSUME NEW o \in Objects, NEW n \in ChannelRecord, NEW gone \in Players, Departs(t, o, n, gone),
             \/ Unfollowed(t, o, n, gone)
             \/ \E heir \in Players : Followed(t, o, n, gone, heir)
      PROVE  SessionInv'
  <2>1. /\ Works(t, o, n) /\ n.members = objects[o].members \ {gone} /\ damage' = damage
        /\ gone = IF call[t].op = "leave" THEN t ELSE call[t].to
        /\ expelled' = IF call[t].op = "leave" THEN expelled ELSE expelled \cup {gone}
    BY <1>4 DEF Departs
  <2>2. /\ call[t].on = o /\ call'[t].on \in {0, o} /\ active' = active /\ row'.id = row.id /\ n.id = objects[o].id
        /\ objects'[o] = n /\ \A u \in Threads : u # t => call'[u] = call[u]
        /\ InServer(t) /\ (InServer(t)' => call'[t].on = o)
    BY <2>1 DEF Works, Keeps
  <2>3. /\ call'[t].at \in {"idle", "left", "banning", "heir"}
        /\ call[t].op = "leave" => \/ call'[t].at = "left" \/ session[t] = "offline"
                                   \/ call'[t].at = "heir" /\ call'[t].op = "leave"
    BY <1>4 DEF Unfollowed, Followed
  <2>4. Moves(t)
    BY <1>1, <1>2, <2>2, <2>3, ProceedsMoves
  <2>5. \A q \in Players : Moves(q)
    BY <1>0, <1>1, <2>2, <2>4, OthersMove
  <2>6. ASSUME gone \notin expelled', damage' = "none" PROVE Seen(gone)'
    <3>1. call[t].op = "leave" /\ gone = t /\ gone \notin expelled /\ damage = "none"
      BY <2>1, <2>6
    <3>2. ~Showing(t)'
      BY <1>1, <2>3, <3>1 DEF Showing
    <3>3. objects[o].id = row.id
      <4>1. Seen(t)
        BY <3>1 DEF SessionInv
      <4> QED
        BY <2>2, <4>1 DEF Seen, Objects
    <3> QED
      BY <2>2, <3>1, <3>2, <3>3 DEF Seen
  <2>7. \A q \in Players \ expelled' :
            \/ q \notin expelled /\ Moves(q) /\ (q \in objects[o].members => q \in n.members)
            \/ damage' = "none" => Seen(q)'
    BY <2>1, <2>5, <2>6
  <2> QED
    BY <1>0, <2>1, <2>7, WorkKeepsSessions
<1> QED
  BY <1>2, <1>3, <1>4

\* When a channel is loaded nobody shows it; when it is created anew everybody
\* counts as expelled.
LEMMA CreateKeepsSessions ==
  ASSUME TypeOK, ChannelInv, SessionInv, NEW p \in Players, HandleJoinChannel(p), active = 0
  PROVE  SessionInv'
<1> USE DEF TypeOK
<1>1. ChatTypes' /\ session' = session /\ \E o \in Objects : Creates(p, o)
  BY JoinNew DEF gateway
<1>2. PICK o \in Objects : Creates(p, o)
  BY <1>1
<1>3. /\ server = "up" /\ call[p] = Idle /\ Reusable(o) /\ active' = o
      /\ \A u \in Objects : u # o => objects'[u] = objects[u]
      /\ objects'[o] \in Loaded(row') /\ (row.listed => row' = row)
      /\ damage' = IF ~row.listed THEN "none" ELSE IF damage = "rows" THEN "memory" ELSE damage
      /\ expelled' = IF row.listed THEN expelled ELSE Players
      /\ call'[p].at = "join" /\ call'[p].on = o
      /\ \A u \in Threads : u # p => call'[u] = call[u]
  BY <1>2 DEF Creates
<1>4. objects'[o].id = row'.id
  BY <1>1, <1>3, LoadedType DEF ChatTypes
<1>5. Current.members = {}
  BY <1>3, CurrentNow
<1> SUFFICES ASSUME damage' = "none", NEW q \in Players, q \notin expelled' PROVE Seen(q)'
  BY DEF SessionInv
<1>6. row.listed /\ row' = row /\ damage = "none" /\ q \notin expelled
  BY <1>3
<1>7. Seen(q)
  BY <1>6 DEF SessionInv
<1>8. ~Showing(q)
  BY <1>5, <1>7 DEF Seen
<1>9. CASE q = p
  <2>1. ~Showing(q)'
    BY <1>1, <1>3, <1>8, <1>9 DEF Showing, Idle
  <2> QED
    BY <1>3, <1>4, <1>9, <2>1 DEF Seen
<1>10. CASE q # p
  <2>1. call'[q] = call[q] /\ call[q].on # o /\ call[q].on \in {0} \cup Objects
    BY <1>3, <1>10, ListenerIsThread DEF Reusable, CallTypes, CallRecord
  <2>2. ~Showing(q)'
    BY <1>1, <1>8, <2>1 DEF Showing
  <2>3. call'[q].on # 0 => objects'[call'[q].on].id = row'.id
    BY <1>3, <1>6, <1>7, <2>1 DEF Seen
  <2> QED
    BY <2>2, <2>3 DEF Seen
<1> QED
  BY <1>9, <1>10

\* Who is not expelled by a crash is a member in the rows.
LEMMA CrashKeepsSessions ==
  ASSUME TypeOK, Crash
  PROVE  SessionInv'
<1> SUFFICES ASSUME NEW q \in Players, q \notin expelled' PROVE Seen(q)'
  BY DEF SessionInv
<1>1. /\ active' = 0 /\ server' = "down" /\ row' = row
      /\ expelled' = expelled \cup (Players \ (IF row.listed THEN row.members ELSE {}))
      /\ call'[q].on = 0
      /\ IF call[q].at \in {"joined", "left"} THEN call'[q].at = call[q].at ELSE call'[q] = Idle
  BY CrashEffect, ListenerIsThread DEF TypeOK
<1>2. row.listed /\ q \in row.members
  BY <1>1
<1>3. q \in Current'.members
  BY <1>1, <1>2, CurrentThen
<1>4. ~InServer(q)'
  BY <1>1 DEF InServer, Idle
<1> QED
  BY <1>1, <1>3, <1>4 DEF Seen

\* An empty channel that is dropped is shown by nobody who is not expelled.
LEMMA CleaningKeepsSessions ==
  ASSUME TypeOK, ChannelInv, SessionInv, CleanupLocalMemory \/ CleanOldChannels
  PROVE  SessionInv'
<1> USE DEF TypeOK
<1>1. UNCHANGED <<session, call, expelled, damage, objects>> /\ server = "up" /\ server' = "up"
  BY DEF CleanupLocalMemory, CleanOldChannels, gateway, history
<1>2. CASE CleanOldChannels
  <2>1. KeepsChannel
    BY <1>2, QuietCleanOld
  <2>2. \A q \in Players : Moves(q)
    BY <1>1, StaysMoves
  <2> QED
    BY <1>1, <2>1, <2>2, QuietKeepsSessions
<1>3. CASE CleanupLocalMemory
  <2>1. active # 0 /\ objects[active].members = {} /\ row' = row
    BY <1>3 DEF CleanupLocalMemory
  <2>2. Current.members = {}
    BY <2>1, CurrentNow
  <2> SUFFICES ASSUME damage = "none", NEW q \in Players, q \notin expelled PROVE Seen(q)'
    BY <1>1 DEF SessionInv
  <2>3. Seen(q)
    BY DEF SessionInv
  <2>4. ~Showing(q)
    BY <2>2, <2>3 DEF Seen
  <2>5. ~Showing(q)'
    BY <1>1, <2>4 DEF Showing
  <2> QED
    BY <1>1, <2>1, <2>3, <2>5 DEF Seen
<1> QED
  BY <1>2, <1>3

\* The start loads the members the rows have.
LEMMA PreloadKeepsSessions ==
  ASSUME TypeOK, ChannelInv, SessionInv, Preload
  PROVE  SessionInv'
<1> USE DEF TypeOK
<1>1. /\ UNCHANGED <<row, call, damage, expelled>> /\ server = "down" /\ server' # "down"
      /\ \/ /\ row.listed /\ active' = 1 /\ objects'[1] \in Loaded(row)
            /\ \A u \in Objects : u # 1 => objects'[u] = objects[u]
         \/ ~row.listed /\ UNCHANGED <<active, objects>>
  BY PreloadEffect
<1>2. session' = session
  BY DEF Preload, gateway
<1>3. active = 0 /\ \A t \in Threads : ~InServer(t)
  BY <1>1 DEF ChannelInv, StartInv
<1> SUFFICES ASSUME damage = "none", NEW q \in Players, q \notin expelled PROVE Seen(q)'
  BY <1>1 DEF SessionInv
<1>4. Seen(q) /\ call[q].on \in {0} \cup Objects /\ ~InServer(q)'
  BY <1>1, <1>3, ListenerIsThread DEF SessionInv, CallTypes, CallRecord, InServer
<1>5. Showing(q)' => Showing(q)
  BY <1>1, <1>2 DEF Showing
<1>6. CASE ~row.listed
  <2>1. active' = 0 /\ objects' = objects
    BY <1>1, <1>3, <1>6
  <2>2. Current.members = {}
    BY <1>3, <1>6, CurrentNow
  <2> QED
    BY <1>1, <1>4, <1>5, <2>1, <2>2 DEF Seen
<1>7. CASE row.listed
  <2>1. active' = 1 /\ objects'[1].id = row.id /\ objects'[1].members = row.members
    BY <1>1, <1>7, LoadedType DEF ChatTypes
  <2>2. Current'.members = row.members /\ Current.members = row.members
    BY <1>1, <1>3, <1>7, <2>1, CurrentNow, CurrentThen
  <2>3. \A u \in Objects : u # 1 => objects'[u] = objects[u]
    BY <1>1, <1>7
  <2>4. call'[q].on # 0 => objects'[call'[q].on].id = row'.id
    BY <1>1, <1>4, <2>1, <2>3 DEF Seen
  <2> QED
    BY <1>4, <1>5, <2>2, <2>4 DEF Seen
<1> QED
  BY <1>6, <1>7

\* Who is pruned counts as expelled.
LEMMA PruneKeepsSessions ==
  ASSUME TypeOK, ChannelInv, SessionInv, PruneOfflineMembers \/ PersistPruneHeir
  PROVE  SessionInv'
<1> USE DEF TypeOK
<1>0. IdInv /\ StartInv
  BY DEF ChannelInv
<1>1. session' = session /\ call' = call
  BY Zenon DEF PruneOfflineMembers, PersistPruneHeir, gateway
<1>2. \A q \in Players : Moves(q)
  BY <1>1, StaysMoves
<1>3. CASE PersistPruneHeir
  <2>1. server = "heir" /\ active # 0
    BY <1>0, <1>3 DEF PersistPruneHeir, StartInv
  <2>2. active \in Objects
    BY <2>1 DEF ChatTypes
  <2>3. objects' = objects /\ active' = active /\ expelled' = expelled /\ row'.id = row.id /\ (damage' = damage \/ Hurts)
    BY <1>3, <2>2, PersistPruneHeirEffect DEF Keeps
  <2>4. Current'.members = Current.members /\ (damage' = "none" => damage = "none")
    BY <2>1, <2>3, CurrentNow, CurrentThen DEF Hurts
  <2> QED
    BY <1>0, <1>2, <2>3, <2>4, SessionKept
<1>4. CASE PruneOfflineMembers
  <2>1. active' = active /\ server = "preloaded"
    BY <1>4, PruneEffect
  <2>2. CASE active = 0 /\ server' = "up" /\ UNCHANGED <<objects, row, damage, expelled>>
    <3>1. Current'.members = Current.members
      BY <2>1, <2>2, CurrentNow, CurrentThen
    <3> QED
      BY <1>0, <1>2, <2>1, <2>2, <3>1, SessionKept
  <2>3. ASSUME active \in Objects, NEW n \in ChannelRecord, NEW offline \in SUBSET Players, Prunes(n, offline)
        PROVE  SessionInv'
    <3>1. /\ n.id = objects[active].id /\ n.members = objects[active].members \ offline
          /\ objects'[active] = n /\ \A u \in Objects : u # active => objects'[u] = objects[u]
          /\ row'.id = row.id /\ expelled' = expelled \cup offline /\ (damage' = damage \/ Hurts)
      BY <2>3 DEF Prunes, Keeps
    <3>2. active # 0 /\ \A u \in Objects : objects'[u].id = objects[u].id
      BY <2>3, <3>1 DEF Objects
    <3>3. Current.members = objects[active].members /\ Current'.members = n.members
      BY <2>1, <3>1, <3>2, CurrentNow, CurrentThen
    <3>4. damage' = "none" => damage = "none"
      BY <3>1 DEF Hurts
    <3>5. \A q \in Players \ expelled' : q \notin expelled /\ Moves(q) /\ (q \in Current.members => q \in Current'.members)
      BY <1>2, <3>1, <3>3
    <3> QED
      BY <1>0, <2>1, <3>1, <3>2, <3>4, <3>5, SessionKept
  <2> QED
    BY <1>4, <2>2, <2>3, PruneEffect
<1> QED
  BY <1>3, <1>4

\* Every step keeps the session invariant.
LEMMA NextSessions ==
  ASSUME TypeOK, ChannelInv, SessionInv, Next
  PROVE  SessionInv'
<1>1. ASSUME NEW p \in Players, HandleJoinChannel(p) PROVE SessionInv'
  BY <1>1, CreateKeepsSessions, RequestKeepsSessions
<1> QED
  BY <1>1, StepCases, RequestKeepsSessions, GatewayKeepsSessions, SettingsKeepSessions, JoinKeepsSessions,
     LeaveKeepsSessions, RolesKeepSessions, HeirKeepsSessions, ListeningKeepsSessions, TransferKeepsSessions,
     PreloadKeepsSessions, PruneKeepsSessions, BroadcastKeepsSessions, CleaningKeepsSessions, CrashKeepsSessions

\* The session invariant holds at the start.
LEMMA InitSessions ==
  ASSUME Init
  PROVE  SessionInv
<1>1. PICK ms \in {{}, FirstMembers} :
       /\ row = IF ms = {} THEN [NewRow(0, NoPassword) EXCEPT !.listed = FALSE]
                ELSE [NewRow(1, NoPassword) EXCEPT !.members = ms,
                        !.flags["owner"] = {CHOOSE p \in ms \ FirstModerators : TRUE},
                        !.flags["moderator"] = FirstModerators]
       /\ active = IF ms = {} THEN 0 ELSE 1
       /\ session = [p \in Players |-> IF p \in ms THEN "shows" ELSE "offline"]
  BY Zenon DEF Init
<1>2. ChatTypes /\ ChannelInv /\ call = [t \in Threads |-> Idle] /\ server = "up" /\ damage = "none"
  BY InitChannel, Zenon DEF Init
<1> SUFFICES ASSUME NEW q \in Players PROVE Seen(q)
  BY DEF SessionInv
<1>3. call[q].on = 0 /\ call[q].at = "idle" /\ ~InServer(q)
  BY <1>2, ListenerIsThread DEF Idle, InServer
<1>4. ASSUME session[q] = "shows" PROVE q \in Current.members
  <2>1. q \in ms /\ ms # {} /\ active = 1
    BY <1>1, <1>4
  <2>2. row.members = ms
    BY <1>1, <2>1 DEF NewRow
  <2>3. objects[active].holder = NoOne
    BY <1>2, <2>1, PlayersAssumption DEF ChannelInv, LockInv, Writes, ChatTypes, ChannelRecord, Idle, Objects
  <2>4. objects[active].members = row.members
    BY <1>2, <2>1, <2>3 DEF ChannelInv, MirrorInv
  <2> QED
    BY <2>1, <2>2, <2>4, CurrentNow
<1> QED
  BY <1>3, <1>4 DEF Seen, Showing

-----------------------------------------------------------------------------
(* The theorems                                                            *)

Inv == TypeOK /\ ChannelInv /\ SettingsInv /\ SessionInv /\ AnswerInv /\ PresenceInv

\* The types of the gateway and the history hold at the start.
LEMMA InitTypes ==
  ASSUME Init
  PROVE  GatewayTypes /\ HistoryTypes
<1>1. PICK ms \in {{}, FirstMembers} :
        session = [p \in Players |-> IF p \in ms THEN "shows" ELSE "offline"] /\ subs = ms /\ streams = ms
  BY Zenon DEF Init
<1>2. ms \subseteq Players
  BY <1>1, FirstAssumption
<1>3. session \in [Players -> {"offline", "online", "shows"}] /\ subs \in SUBSET Players /\ streams \in SUBSET Players
  BY <1>1, <1>2
<1>4. /\ logins = <<>> /\ logouts = <<>> /\ news = FALSE /\ sending = NoOne /\ inputs = 0 /\ faults = 0
      /\ damage = "none" /\ lagging = FALSE /\ crossed = {} /\ expelled = {}
  BY Zenon DEF Init
<1>5. news \in BOOLEAN /\ sending \in Players \cup {NoOne} /\ logins \in Seq(Players) /\ logouts \in Seq(Players)
  <2>1. <<>> \in Seq(Players)
    OBVIOUS
  <2>2. logins \in Seq(Players) /\ logouts \in Seq(Players)
    BY <1>4, <2>1, Zenon
  <2>3. news \in BOOLEAN
    BY <1>4, Zenon
  <2> QED
    BY <1>4, <2>2, <2>3, Zenon
<1>6. 0 \in 0..MaxInputs /\ 0 \in 0..MaxFaults
  BY BoundsAssumption
<1>7. inputs \in 0..MaxInputs /\ faults \in 0..MaxFaults
  BY <1>4, <1>6
<1> QED
  BY <1>3, <1>4, <1>5, <1>7 DEF GatewayTypes, HistoryTypes

\* The inductive invariant holds at the start.
LEMMA InvInit == Init => Inv
  BY InitTypes, InitChannel, InitSettings, InitSessions, InitPresence DEF Inv, TypeOK

\* Every step keeps it, and is a step of ChannelOwnership or a stutter.
LEMMA InvStep == Inv /\ Next => Inv' /\ OwnershipStep
<1> SUFFICES ASSUME Inv, Next PROVE Inv' /\ OwnershipStep
  OBVIOUS
<1>1. TypeOK /\ ChannelInv /\ SettingsInv /\ SessionInv /\ AnswerInv /\ PresenceInv
  BY DEF Inv
<1>2. ChannelStep
  BY <1>1, NextChannel DEF TypeOK, HistoryTypes, Damages
<1>3. GatewayTypes' /\ HistoryTypes'
  BY <1>1, NextOutside, OutsideTypes DEF TypeOK
<1>4. PresenceStep
  BY <1>1, NextPresence
<1>5. SettingsInv' /\ SessionInv'
  BY <1>1, NextSettings, NextSessions
<1> QED
  BY <1>2, <1>3, <1>4, <1>5 DEF Inv, TypeOK, ChannelStep, PresenceStep

\* So is a stuttering step.
LEMMA InvStutter == Inv /\ UNCHANGED vars => Inv' /\ OwnershipStep
<1> SUFFICES ASSUME Inv, UNCHANGED vars PROVE Inv' /\ OwnershipStep
  OBVIOUS
<1> USE DEF Inv, vars, chat, presence, gateway, bounds, history
<1>1. TypeOK'
  BY DEF TypeOK, ChatTypes, CallTypes, GatewayTypes, HistoryTypes
<1>2. StartInv' /\ LockInv' /\ HeldInv' /\ IdInv'
  BY DEF ChannelInv, StartInv, InServer, LockInv, Writes, HeldInv, IdInv
<1>3. RolesInv' /\ DroppedInv' /\ MirrorInv' /\ OwnerInv'
  BY DEF ChannelInv, RolesInv, DroppedInv, MirrorInv, SameBut, Cleared, OwnerInv
<1>4. SettingsInv' /\ SessionInv'
  BY DEF SettingsInv, Pending, SessionInv, Seen, Showing, InServer, Current
<1>5. AnswerInv' /\ PresenceInv'
  <2>1. call' = call /\ session' = session /\ logins' = logins /\ logouts' = logouts /\ known' = known /\ crossed' = crossed
    OBVIOUS
  <2>2. AnswerInv'
    BY <2>1 DEF AnswerInv
  <2>3. PresenceInv
    OBVIOUS
  <2>4. PresenceInv'
    BY ONLY <2>1, <2>3 DEF PresenceInv
  <2> QED
    BY <2>2, <2>4
<1>6. OwnershipStep
  BY DEF OwnershipStep, Ownership!vars, Current
<1> QED
  BY <1>1, <1>2, <1>3, <1>4, <1>5, <1>6 DEF ChannelInv

\* The inductive invariant holds in every state.
LEMMA InvAlways == Spec => []Inv
<1>1. Inv /\ [Next]_vars => Inv'
  BY InvStep, InvStutter
<1> QED
  BY <1>1, InvInit, PTL DEF Spec

\* Every variable has its type, and every handler is at a place of its own
\* operation with what it needs there, whatever the players, passwords and
\* bounds: no handler continues with an object, a player or a snapshot it does
\* not have.
THEOREM TypeCorrect == Spec => []TypeOK
<1>1. Inv => TypeOK
  BY DEF Inv
<1> QED
  BY <1>1, InvAlways, PTL

\* The chat server implements ChannelOwnership for any players and any number
\* of faults: joins, leaves, kicks, bans, transfers, logouts, clean-up, crashes
\* and restarts in any order are steps of it or stutters, so a channel with
\* members has one owner, and a moderator follows if there is one, until rows
\* that missed a write are loaded.
THEOREM OwnershipHolds == Spec => OwnershipSpec
<1>1. Init => Ownership!Init
  BY InitOwnership
<1>2. Inv /\ [Next]_vars => [Ownership!Next]_(Ownership!vars)
  BY InvStep, InvStutter DEF OwnershipStep
<1> QED
  BY <1>1, <1>2, InvAlways, PTL DEF Spec, OwnershipSpec, Ownership!Spec

\* MirrorsRows: while no critical section is under way the rows hold the
\* members and flags in memory, unless a write failed or hit a dropped object,
\* and the settings and bans, unless those writes failed or overlapped.
THEOREM RowsMirrored == Spec => []MirrorsRows
<1>1. Inv => MirrorsRows
  <2> SUFFICES ASSUME Inv, server = "up", active # 0, row.listed, objects[active].id = row.id
               PROVE  /\ damage = "none" /\ objects[active].holder = NoOne =>
                           objects[active].members = row.members /\ objects[active].flags = row.flags
                      /\ ~lagging /\ ~WritePending(Players) =>
                           /\ objects[active].password = row.password /\ objects[active].announce = row.announce
                           /\ objects[active].banned = row.banned
    BY DEF MirrorsRows
  <2>1. MirrorInv /\ SettingsInv
    BY DEF Inv, ChannelInv
  <2>2. damage = "none" /\ objects[active].holder = NoOne =>
          objects[active].members = row.members /\ objects[active].flags = row.flags
    BY <2>1 DEF MirrorInv
  <2>3. ASSUME ~lagging, ~WritePending(Players)
        PROVE  /\ objects[active].password = row.password /\ objects[active].announce = row.announce
               /\ objects[active].banned = row.banned
    <3>1. \A p \in Players : ~Pending(p)
      BY <2>3, PendingIs
    <3> QED
      BY <2>1, <2>3, <3>1, SettledNow DEF SameSettings
  <2> QED
    BY <2>2, <2>3
<1> QED
  BY <1>1, InvAlways, PTL

\* PresenceFollows: with no event of a player under way, the listener's
\* repository knows the player exactly if the player is online, unless a login
\* and a logout were under way together.
THEOREM PresenceIsFollowed == Spec => []PresenceFollows
<1>1. Inv => PresenceFollows
  <2> SUFFICES ASSUME Inv, NEW p \in Players \ crossed, p \notin Range(logins) \cup Range(logouts)
               PROVE  p \in known <=> session[p] # "offline"
    BY DEF PresenceFollows
  <2>1. logins \in Seq(Players) /\ logouts \in Seq(Players) /\ PresenceInv
    BY DEF Inv, TypeOK, GatewayTypes
  <2>2. ~Once(logins, p) /\ ~Once(logouts, p)
    BY <2>1, RangeIs
  <2> QED
    BY <2>1, <2>2 DEF PresenceInv
<1> QED
  BY <1>1, InvAlways, PTL

\* SessionsAreMembers: a session at rest that shows the channel is of a member,
\* unless others removed the player or MySQL missed a change of the members.
THEOREM ShownAreMembers == Spec => []SessionsAreMembers
<1>1. Inv => SessionsAreMembers
  <2> SUFFICES ASSUME Inv, damage = "none", NEW p \in Players \ expelled, session[p] = "shows", call[p] = Idle
               PROVE  p \in Current.members
    BY DEF SessionsAreMembers
  <2>1. call[p].at = "idle"
    BY DEF Idle
  <2> QED
    BY <2>1 DEF Inv, SessionInv, Seen, Showing
<1> QED
  BY <1>1, InvAlways, PTL

=============================================================================
