-------------------------- MODULE ChannelOwnership --------------------------
(***************************************************************************)
(* What a chat channel promises about its ownership, whatever the chat     *)
(* server does inside: a channel with members has exactly one owner, the   *)
(* first member to join is the owner, an owner who goes is followed by a   *)
(* moderator if there is one and else by another member, and nobody else   *)
(* gains or loses ownership.  Once the stored ownership was damaged and    *)
(* loaded (broken) the promise is void.                                    *)
(***************************************************************************)
EXTENDS Naturals, FiniteSets

CONSTANT Players

VARIABLES members, owners, moderators, broken

vars == <<members, owners, moderators, broken>>

\* Who may follow an owner among the members who stay.
Heirs(stay) == IF stay \cap moderators # {} THEN stay \cap moderators ELSE stay

OneOwner(ms, os) == IF ms = {} THEN os = {} ELSE \E p \in ms : os = {p}

Init == OneOwner(members, owners) /\ moderators \subseteq members /\ ~broken

Intact == ~broken /\ ~broken'

Join(p) ==
  /\ Intact /\ p \notin members
  /\ members' = members \cup {p}
  /\ owners' = IF members = {} THEN {p} ELSE owners
  /\ moderators' = moderators

\* Leaving, a kick, a ban, or the removal of all members found offline.
Remove(gone) ==
  /\ Intact
  /\ members' = members \ gone
  /\ IF owners \subseteq members' THEN owners' = owners
     ELSE IF members' = {} THEN owners' = {}
     ELSE \E q \in Heirs(members') : owners' = {q}
  /\ moderators' = moderators \ gone

\* The owner gives the channel away, or logs out and somebody follows.
HandOver(q) ==
  /\ Intact /\ q \in members
  /\ owners' = {q}
  /\ UNCHANGED <<members, moderators>>

Grant ==
  /\ Intact
  /\ moderators' \subseteq members
  /\ UNCHANGED <<members, owners>>

Break == broken'

\* A channel whose rows were deleted as unused is created anew.
Renew ==
  /\ broken /\ ~broken'
  /\ members' = {} /\ owners' = {} /\ moderators' = {}

Next ==
  \/ \E p \in Players : Join(p) \/ HandOver(p)
  \/ \E gone \in SUBSET Players : Remove(gone)
  \/ Grant
  \/ Break
  \/ Renew

Spec == Init /\ [][Next]_vars
=============================================================================
