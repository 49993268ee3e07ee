--------------------------- MODULE MCGroupServer ---------------------------
(* Small realms for the group service. *)
EXTENDS GroupServer, TLC
CONSTANTS a, b, c, d

OneGroup == <<<<a, b, c>>>>
NoGroups == <<>>

NoInvites == {}
FirstInvite == {[invited |-> b, inviter |-> a, gid |-> 0]}

Symmetry == Permutations(Threads)
=============================================================================
