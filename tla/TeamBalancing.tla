--------------------------- MODULE TeamBalancing ---------------------------
(***************************************************************************)
(* Which queued groups a battleground queue picks: the backtracking of     *)
(* balancedGroups for a new battleground and the greedy scan of            *)
(* findGroupsForGivenSlots for a running one.  Go iterates maps in any     *)
(* order and sort.Slice is unstable, so each operator is the set of its    *)
(* possible results.                                                       *)
(***************************************************************************)
EXTENDS Integers, Sequences, SequencesExt

Teams == {"alliance", "horde"}
Other(team) == CHOOSE x \in Teams : x # team

\* A group occupies a slot for each member and one for the leader, who is not among them.
SizeOf(g) == Cardinality(g.members) + 1
TotalMembers(S) == MapThenSumSet(SizeOf, S)
Abs(x) == IF x < 0 THEN -x ELSE x

\* The groups of S in descending order of size, ties in any order.
BySize(S) == {s \in SetToSeqs(S) : \A i \in 1..(Len(s) - 1) : SizeOf(s[i]) >= SizeOf(s[i + 1])}

\* The last complete combination with the highest total; a group is only tried while
\* that does not take the total further from maxPlayers than the best one so far.
FindBestGroups(groups, minPlayers, maxPlayers) ==
  LET Best == [groups : SUBSET ToSet(groups), total : Nat, diff : Nat]
      backtrack[i \in 1..(Len(groups) + 1), current \in SUBSET ToSet(groups), best \in Best] ==
        LET total == TotalMembers(current)
            diff == Abs(total - maxPlayers)
        IN IF i > Len(groups)
           THEN IF /\ total \in minPlayers..maxPlayers
                   /\ total > best.total \/ (total = best.total /\ diff < best.diff)
                THEN [groups |-> current, total |-> total, diff |-> diff]
                ELSE best
           ELSE LET with == current \cup {groups[i]}
                    tried == IF Abs(TotalMembers(with) - maxPlayers) <= best.diff
                             THEN backtrack[i + 1, with, best]
                             ELSE best
                IN backtrack[i + 1, current, tried]
  IN backtrack[1, {}, [groups |-> {}, total |-> 0, diff |-> maxPlayers]].groups

\* Pairs of groups for a new battleground; TeamAny is never requested by the gateway.
BalancedGroups(S, minPlayers, maxPlayers) ==
  {LET bestAlliance == FindBestGroups(alliance, minPlayers, maxPlayers)
       bestHorde == FindBestGroups(horde, minPlayers, maxPlayers)
       a == TotalMembers(bestAlliance)
       h == TotalMembers(bestHorde)
   IN CASE h > a + 1 -> [alliance |-> bestAlliance, horde |-> FindBestGroups(horde, minPlayers, a + 1)]
        [] a > h + 1 -> [alliance |-> FindBestGroups(alliance, minPlayers, h + 1), horde |-> bestHorde]
        [] OTHER -> [alliance |-> bestAlliance, horde |-> bestHorde] :
   alliance \in BySize({g \in S : g.team = "alliance"}), horde \in BySize({g \in S : g.team = "horde"})}

\* A greedy scan in any order takes a set of groups that fits and to which none can be added.
FindGroupsForGivenSlots(S, slots, team) ==
  LET fitting == {X \in SUBSET {g \in S : g.team = team} : TotalMembers(X) <= slots}
  IN {X \in fitting : \A Y \in fitting : X \subseteq Y => X = Y}
=============================================================================
