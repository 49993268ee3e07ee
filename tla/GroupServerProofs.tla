------------------------- MODULE GroupServerProofs -------------------------
(***************************************************************************)
(* Proofs about GroupServer, for any players, handlers, stored groups and  *)
(* bounds:                                                                 *)
(*   Inductive            the inductive invariant IInv;                    *)
(*   TypeCorrect          every thread has the fields its next step reads; *)
(*   HandlersHoldTheLock  a handler holds the mutex of the group it uses;  *)
(*   PlayersAreMembers    MappedPlayersAreMembers;                         *)
(*   MembersAreFound      MembersAreMapped;                                *)
(*   NothingComesBack     DisbandedStaysGone;                              *)
(*   StoreInductive       the invariant QInv, on top of IInv;              *)
(*   StoreIsMirrored      CacheMirrorsDB;                                  *)
(*   LeadersBelong        LeaderIsMember.                                  *)
(* The second half, from Quiet on, is about the cache, MySQL and leaders.  *)
(***************************************************************************)
EXTENDS GroupServer, FiniteSetTheorems, SequenceTheorems, WellFoundedInduction, TLAPS

-----------------------------------------------------------------------------
(* Types, and which fields a thread has at which step. *)

Ids == 0..MaxGroups
PlayerOrNobody == Players \cup {NoPlayer}
ColumnsType == [leader : PlayerOrNobody, raid : BOOLEAN, settings : 0..1]
MemberType == [guid : Players, online : BOOLEAN, assistant : BOOLEAN]
GroupType == [columns : ColumnsType, members : Seq(MemberType)]
RowType == [gid : Ids, assistant : BOOLEAN]
InviteType == [inviter : PlayerOrNobody, gid : Ids]
Removing == {"removeRow", "removeLookup", "removeCache"}
Deleting == {"deleteMembers", "deleteGroup", "deleteCache"}
Creating == {"createInviter", "createInvited", "createCache"}
Steps == {"idle", "lock", "resolve", "body", "addInvite", "update", "updateCache", "lockInvite", "addRow",
          "addCache", "createRow", "bind"} \cup Removing \cup Deleting \cup Creating
ThreadType == [op : AllOps \cup {"none"}, pc : Steps, player : PlayerOrNobody, target : PlayerOrNobody,
               gid : Ids, obj : Ids]
EventType == [pc : {"idle", "lookup", "read", "write"}, player : PlayerOrNobody, gid : Ids, slot : Nat,
              stale : BOOLEAN]

CacheOK ==
    /\ groups \in [GroupIds -> GroupType]
    /\ inCache \subseteq GroupIds
    /\ memberOf \in [Players -> Ids]
DBOK ==
    /\ dbGroups \subseteq GroupIds
    /\ dbColumns \in [GroupIds -> ColumnsType]
    /\ dbMember \in [Players -> RowType]
    /\ dbInvites \in [Players -> InviteType]
    /\ nextId \in 1..(MaxGroups + 1)
ThreadsOK == thread \in [Threads -> ThreadType] /\ lock \in [GroupIds -> Threads \cup {NoThread}]
EventsOK ==
    /\ connected \in [Players -> BOOLEAN]
    /\ listener \in [BOOLEAN -> EventType]
    /\ announcer \in EventType
HistoryOK ==
    /\ disbanded \subseteq GroupIds
    /\ mishaps \subseteq Mishaps

\* The fields that a handler has at each of its steps.
Shape(r) ==
    /\ r.pc # "idle" => r.op \in AllOps /\ r.player \in Players /\ r.target \in Players
    /\ r.pc \in {"lock", "body", "update", "updateCache", "lockInvite", "addRow", "addCache"} \cup Removing =>
          r.gid \in GroupIds
    /\ r.pc \in {"body", "update", "updateCache", "removeCache", "bind"} \cup Deleting \cup Creating =>
          r.obj \in GroupIds
    /\ r.pc \in Deleting /\ r.op # "AcceptInvite" => r.gid \in GroupIds
    /\ r.pc \in {"lock", "body"} => r.obj = r.gid
    /\ r.pc = "addInvite" => r.op = "Invite"
    /\ r.pc \in {"lockInvite", "addRow", "addCache", "createRow", "bind"} \cup Creating => r.op = "AcceptInvite"
    /\ r.pc \in {"lock", "resolve", "body", "addInvite", "update", "updateCache"} \cup Removing => r.op # "AcceptInvite"
    /\ r.op = "Leave" => r.target = r.player
    /\ r.op \in {"Invite", "AcceptInvite"} => r.target # r.player
Shapes == \A t \in Threads : Shape(thread[t])
InviteShape == \A p \in Players : dbInvites[p] # NoInvite => dbInvites[p].inviter \in Players \ {p}
EventShape ==
    /\ \A v \in BOOLEAN : /\ listener[v].pc # "idle" => listener[v].player \in Players
                          /\ listener[v].pc = "write" => listener[v].gid \in GroupIds
    /\ announcer.pc # "idle" => announcer.player \in Players

TypeOK == CacheOK /\ DBOK /\ ThreadsOK /\ EventsOK /\ HistoryOK /\ Shapes /\ InviteShape /\ EventShape

-----------------------------------------------------------------------------
(* The inductive invariant. *)

\* No group id is in use before AUTO_INCREMENT gives it.
IdsGiven ==
    /\ \A g \in inCache \cup dbGroups \cup disbanded : g < nextId
    /\ \A p \in Players : memberOf[p] < nextId /\ dbInvites[p].gid < nextId
    /\ \A t \in Threads : thread[t].gid < nextId /\ thread[t].obj < nextId

\* Foundations have different ids.
FoundationsDiffer ==
    \A t, u \in Threads : thread[t].pc \in Creating /\ thread[u].pc \in Creating /\ thread[t].obj = thread[u].obj => t = u

\* A group that was deleted from the cache is deleted from MySQL.
DeletedFirst ==
    /\ disbanded \cap dbGroups = {}
    /\ \A t \in Threads : thread[t].pc = "deleteCache" => thread[t].obj \notin dbGroups

\* From the check under the lock to the return, a handler holds the mutex of
\* its group; only the rollback of a foundation deletes without it.
Locking(r) ==
    \/ r.pc \in {"body", "update", "updateCache", "addRow", "addCache"} \cup Removing
    \/ r.pc \in Deleting /\ r.op # "AcceptInvite"
LocksHeld == \A t \in Threads : Locking(thread[t]) => lock[thread[t].gid] = t

\* What a handler has checked is still so at its later steps.
Stable(r, cached, map, gone) ==
    /\ r.pc = "body" => map[r.player] = r.gid
    /\ r.pc \in {"update", "updateCache"} =>
          r.obj = r.gid /\ r.gid \in cached /\ (r.op = "Leave" => map[r.target] = r.gid)
    /\ r.pc \in Removing => map[r.target] = r.gid
    /\ r.pc = "removeCache" => r.obj = r.gid
    /\ r.pc \in Deleting /\ r.op # "AcceptInvite" => r.obj = r.gid
    /\ r.pc \in {"addRow", "addCache"} => r.gid \in cached
    /\ r.pc \in Creating => r.obj \notin cached \cup gone
AllStable == \A t \in Threads : Stable(thread[t], inCache, memberOf, disbanded)

\* Lists and index agree.
In(members, p) == \E i \in DOMAIN members : members[i].guid = p
Distinct(members) == \A i, j \in DOMAIN members : members[i].guid = members[j].guid => i = j
Mapped(lists, cached, map) ==
    \A p \in Players : map[p] # 0 => map[p] \in cached /\ In(lists[map[p]].members, p)
Listed(lists, cached, map) ==
    \A g \in cached : \A p \in Players : In(lists[g].members, p) => map[p] = g
ListedOnce(lists, cached) == \A g \in cached : Distinct(lists[g].members)
Agreed ==
    /\ Mapped(groups, inCache, memberOf)
    /\ Listed(groups, inCache, memberOf)
    /\ ListedOnce(groups, inCache)
    /\ disbanded \cap inCache = {}
    /\ AllStable

IInv == TypeOK /\ IdsGiven /\ FoundationsDiffer /\ DeletedFirst /\ LocksHeld /\ (Undisturbed => Agreed)


-----------------------------------------------------------------------------
(* Lists of members. *)

\* A set of naturals with an element has a least one: the loops over the
\* members stop at the first that matches.
LEMMA LeastNat ==
  ASSUME NEW T \in SUBSET Nat, T # {}
  PROVE  \E x \in T : \A y \in T : x <= y
<1> DEFINE R == OpToRel(<, Nat)
<1>1. IsWellFoundedOn(R, Nat)
  BY NatLessThanWellFounded
<1> HIDE DEF R
<1>2. PICK x \in T : \A y \in T : ~ (<<y, x>> \in R)
  BY <1>1, WFMin
<1>3. \A y \in T : ~ (y < x)
  BY <1>2 DEF R, OpToRel
<1> QED BY <1>3

\* The loop of RemoveMember takes exactly one entry out of the list.
LEMMA WithoutFirstFacts ==
  ASSUME NEW s \in Seq(MemberType), NEW p, In(s, p)
  PROVE  \E k \in 1..Len(s) :
            /\ s[k].guid = p
            /\ WithoutFirst(s, p) \in Seq(MemberType)
            /\ Len(WithoutFirst(s, p)) = Len(s) - 1
            /\ \A i \in 1..(Len(s) - 1) : WithoutFirst(s, p)[i] = IF i < k THEN s[i] ELSE s[i + 1]
<1> DEFINE found == {i \in DOMAIN s : s[i].guid = p}
           k == CHOOSE i \in found : \A j \in found : i <= j
           a == SubSeq(s, 1, k - 1)
           b == SubSeq(s, k + 1, Len(s))
<1>1. DOMAIN s = 1..Len(s) /\ Len(s) \in Nat /\ \A i \in 1..Len(s) : s[i] \in MemberType
  BY LenProperties, ElementOfSeq
<1>2. found \in SUBSET Nat /\ found # {}
  BY <1>1 DEF In
<1>3. \E i \in found : \A j \in found : i <= j
  BY <1>2, LeastNat
<1>4. k \in found
  BY <1>3
<1>5. k \in 1..Len(s) /\ s[k].guid = p
  BY <1>1, <1>4
<1>6. WithoutFirst(s, p) = a \o b
  BY DEF WithoutFirst
<1> HIDE DEF k
<1>7. /\ k - 1 \in Int /\ k + 1 \in Int /\ Len(s) \in Int /\ 1 \in Int
      /\ \A i \in 1..(k - 1) : s[i] \in MemberType
      /\ \A i \in (k + 1)..Len(s) : s[i] \in MemberType
  BY <1>1, <1>5
<1>8. /\ a \in Seq(MemberType) /\ Len(a) = k - 1
      /\ \A i \in 1..(k - 1) : a[i] = s[i]
  <2>1. /\ a \in Seq(MemberType)
        /\ Len(a) = IF 1 <= k - 1 THEN k - 1 - 1 + 1 ELSE 0
        /\ \A i \in 1..(k - 1 - 1 + 1) : a[i] = s[1 + i - 1]
    BY <1>7, SubSeqProperties
  <2> HIDE DEF a
  <2> QED BY <2>1, <1>5, <1>1
<1>9. /\ b \in Seq(MemberType) /\ Len(b) = Len(s) - k
      /\ \A i \in 1..(Len(s) - k) : b[i] = s[k + i]
  <2>1. /\ b \in Seq(MemberType)
        /\ Len(b) = IF k + 1 <= Len(s) THEN Len(s) - (k + 1) + 1 ELSE 0
        /\ \A i \in 1..(Len(s) - (k + 1) + 1) : b[i] = s[(k + 1) + i - 1]
    BY <1>7, SubSeqProperties
  <2> HIDE DEF b
  <2>2. ASSUME NEW i \in 1..(Len(s) - k) PROVE b[i] = s[k + i]
    <3>1. i \in 1..(Len(s) - (k + 1) + 1) /\ (k + 1) + i - 1 = k + i
      BY <1>1, <1>5
    <3> QED BY <3>1, <2>1
  <2>3. Len(b) = Len(s) - k
    <3>1. Len(b) = IF k + 1 <= Len(s) THEN Len(s) - (k + 1) + 1 ELSE 0
      BY <2>1
    <3> HIDE DEF found
    <3>2. k \in Int /\ Len(s) \in Int /\ 1 <= k /\ k <= Len(s)
      BY <1>1, <1>5
    <3> QED BY <3>1, <3>2
  <2> QED BY <2>1, <2>2, <2>3
<1> HIDE DEF a, b
<1>10. /\ a \o b \in Seq(MemberType) /\ Len(a \o b) = Len(a) + Len(b)
       /\ \A i \in 1..(Len(a) + Len(b)) : (a \o b)[i] = IF i <= Len(a) THEN a[i] ELSE b[i - Len(a)]
  BY <1>8, <1>9, ConcatProperties
<1>11. \A i \in 1..(Len(s) - 1) : (a \o b)[i] = IF i < k THEN s[i] ELSE s[i + 1]
  <2> SUFFICES ASSUME NEW i \in 1..(Len(s) - 1)
               PROVE  (a \o b)[i] = IF i < k THEN s[i] ELSE s[i + 1]
    OBVIOUS
  <2>1. CASE i < k
    <3>1. i \in 1..(k - 1) /\ i <= Len(a) /\ i \in 1..(Len(a) + Len(b))
      BY <2>1, <1>1, <1>5, <1>8, <1>9
    <3> QED BY <3>1, <2>1, <1>8, <1>10
  <2>2. CASE ~(i < k)
    <3>1. i - (k - 1) \in 1..(Len(s) - k) /\ ~(i <= Len(a)) /\ i \in 1..(Len(a) + Len(b)) /\ k + (i - (k - 1)) = i + 1
      BY <2>2, <1>1, <1>5, <1>8, <1>9
    <3>2. b[i - (k - 1)] = s[i + 1]
      BY <3>1, <1>9
    <3> QED BY <3>1, <3>2, <2>2, <1>8, <1>10
  <2> QED BY <2>1, <2>2
<1>12. Len(a \o b) = Len(s) - 1
  <2>1. Len(a) + Len(b) = Len(s) - 1
    BY <1>1, <1>5, <1>8, <1>9
  <2> QED BY <2>1, <1>10
<1> DEFINE w == WithoutFirst(s, p)
<1>13. w = a \o b
  BY <1>6
<1> HIDE DEF w
<1>14. /\ s[k].guid = p /\ w \in Seq(MemberType) /\ Len(w) = Len(s) - 1
       /\ \A i \in 1..(Len(s) - 1) : w[i] = IF i < k THEN s[i] ELSE s[i + 1]
  BY <1>5, <1>10, <1>11, <1>12, <1>13
<1> QED BY <1>5, <1>14 DEF w

\* Removing the one entry of a player leaves the other players listed, once.
LEMMA WithoutFirstMembers ==
  ASSUME NEW s \in Seq(MemberType), NEW p, In(s, p), Distinct(s)
  PROVE  /\ Distinct(WithoutFirst(s, p))
         /\ \A q : In(WithoutFirst(s, p), q) <=> q # p /\ In(s, q)
<1> DEFINE w == WithoutFirst(s, p)
<1>1. PICK k \in 1..Len(s) :
         /\ s[k].guid = p
         /\ w \in Seq(MemberType)
         /\ Len(w) = Len(s) - 1
         /\ \A i \in 1..(Len(s) - 1) : w[i] = IF i < k THEN s[i] ELSE s[i + 1]
  BY WithoutFirstFacts
<1> HIDE DEF w
<1>2. DOMAIN s = 1..Len(s) /\ Len(s) \in Nat /\ DOMAIN w = 1..(Len(s) - 1)
  BY <1>1, LenProperties
<1>3. \A i \in 1..(Len(s) - 1) : \E m \in 1..Len(s) : m # k /\ w[i] = s[m] /\ m = IF i < k THEN i ELSE i + 1
  <2> TAKE i \in 1..(Len(s) - 1)
  <2>1. CASE i < k
    BY <2>1, <1>1, <1>2
  <2>2. CASE ~(i < k)
    BY <2>2, <1>1, <1>2
  <2> QED BY <2>1, <2>2
<1>4. \A m \in 1..Len(s) : m # k => \E i \in 1..(Len(s) - 1) : w[i] = s[m]
  <2> SUFFICES ASSUME NEW m \in 1..Len(s), m # k
               PROVE  \E i \in 1..(Len(s) - 1) : w[i] = s[m]
    OBVIOUS
  <2>1. CASE m < k
    <3>1. m \in 1..(Len(s) - 1)
      BY <2>1, <1>1, <1>2
    <3> QED BY <3>1, <2>1, <1>1
  <2>2. CASE m > k
    <3>1. m - 1 \in 1..(Len(s) - 1) /\ ~(m - 1 < k) /\ m - 1 + 1 = m
      BY <2>2, <1>1, <1>2
    <3> QED BY <3>1, <1>1
  <2> QED BY <2>1, <2>2, <1>2
<1>5. Distinct(w)
  <2> SUFFICES ASSUME NEW i \in 1..(Len(s) - 1), NEW j \in 1..(Len(s) - 1), w[i].guid = w[j].guid
               PROVE  i = j
    BY <1>2 DEF Distinct
  <2>1. PICK m \in 1..Len(s) : w[i] = s[m] /\ m = IF i < k THEN i ELSE i + 1
    BY <1>3
  <2>2. PICK n \in 1..Len(s) : w[j] = s[n] /\ n = IF j < k THEN j ELSE j + 1
    BY <1>3
  <2>3. m = n
    BY <2>1, <2>2, <1>2 DEF Distinct
  <2> QED BY <2>1, <2>2, <2>3, <1>1, <1>2
<1>6. ASSUME NEW q PROVE In(w, q) <=> q # p /\ In(s, q)
  <2>1. ASSUME In(w, q) PROVE q # p /\ In(s, q)
    <3>1. PICK i \in 1..(Len(s) - 1) : w[i].guid = q
      BY <2>1, <1>2 DEF In
    <3>2. PICK m \in 1..Len(s) : m # k /\ w[i] = s[m]
      BY <1>3
    <3>3. q # p
      BY <3>1, <3>2, <1>1, <1>2 DEF Distinct
    <3> QED BY <3>1, <3>2, <3>3, <1>2 DEF In
  <2>2. ASSUME q # p, In(s, q) PROVE In(w, q)
    <3>1. PICK m \in 1..Len(s) : s[m].guid = q
      BY <2>2, <1>2 DEF In
    <3>2. PICK i \in 1..(Len(s) - 1) : w[i] = s[m]
      BY <3>1, <2>2, <1>1, <1>4
    <3> QED BY <3>1, <3>2, <1>2 DEF In
  <2> QED BY <2>1, <2>2
<1> QED BY <1>5, <1>6 DEF w

\* Append lists one more player.
LEMMA AppendMembers ==
  ASSUME NEW s \in Seq(MemberType), NEW m \in MemberType
  PROVE  /\ Append(s, m) \in Seq(MemberType)
         /\ \A q : In(Append(s, m), q) <=> q = m.guid \/ In(s, q)
         /\ Distinct(s) /\ ~In(s, m.guid) => Distinct(Append(s, m))
<1> DEFINE w == Append(s, m)
<1>1. /\ w \in Seq(MemberType) /\ Len(w) = Len(s) + 1
      /\ \A i \in 1..Len(s) : w[i] = s[i]
      /\ w[Len(s) + 1] = m
  BY AppendProperties
<1> HIDE DEF w
<1>2. DOMAIN s = 1..Len(s) /\ Len(s) \in Nat /\ DOMAIN w = 1..(Len(s) + 1)
  BY <1>1, LenProperties
<1>3. ASSUME NEW q PROVE In(w, q) <=> q = m.guid \/ In(s, q)
  <2>1. ASSUME In(w, q), q # m.guid PROVE In(s, q)
    <3>1. PICK i \in 1..(Len(s) + 1) : w[i].guid = q
      BY <2>1, <1>2 DEF In
    <3>2. i \in 1..Len(s)
      BY <3>1, <2>1, <1>1, <1>2
    <3> QED BY <3>1, <3>2, <1>1, <1>2 DEF In
  <2>2. ASSUME In(s, q) PROVE In(w, q)
    <3>1. PICK i \in 1..Len(s) : s[i].guid = q
      BY <2>2, <1>2 DEF In
    <3>2. i \in 1..(Len(s) + 1) /\ w[i].guid = q
      BY <3>1, <1>1, <1>2
    <3> QED BY <3>2, <1>2 DEF In
  <2>3. In(w, m.guid)
    <3>1. Len(s) + 1 \in 1..(Len(s) + 1)
      BY <1>2
    <3> QED BY <3>1, <1>1, <1>2 DEF In
  <2> QED BY <2>1, <2>2, <2>3
<1>4. ASSUME Distinct(s), ~In(s, m.guid) PROVE Distinct(w)
  <2> SUFFICES ASSUME NEW i \in 1..(Len(s) + 1), NEW j \in 1..(Len(s) + 1), w[i].guid = w[j].guid, i < j
               PROVE  FALSE
    BY <1>2 DEF Distinct
  <2>1. i \in 1..Len(s) /\ w[i] = s[i]
    BY <1>1, <1>2
  <2>2. CASE j = Len(s) + 1
    BY <2>1, <2>2, <1>1, <1>2, <1>4 DEF In
  <2>3. CASE j # Len(s) + 1
    <3>1. j \in 1..Len(s) /\ w[j] = s[j]
      BY <2>3, <1>1, <1>2
    <3> QED BY <2>1, <3>1, <1>2, <1>4 DEF Distinct
  <2> QED BY <2>2, <2>3
<1> QED BY <1>1, <1>3, <1>4 DEF w

\* The list of a new group.
LEMMA PairMembers ==
  ASSUME NEW a \in MemberType, NEW b \in MemberType
  PROVE  /\ <<a, b>> \in Seq(MemberType)
         /\ \A q : In(<<a, b>>, q) <=> q = a.guid \/ q = b.guid
         /\ a.guid # b.guid => Distinct(<<a, b>>)
<1> DEFINE s == <<a, b>>
<1>1. s \in Seq(MemberType) /\ DOMAIN s = {1, 2} /\ s[1] = a /\ s[2] = b
  OBVIOUS
<1> HIDE DEF s
<1>2. \A q : In(s, q) <=> q = a.guid \/ q = b.guid
  BY <1>1 DEF In
<1>3. a.guid # b.guid => Distinct(s)
  BY <1>1 DEF Distinct
<1> QED BY <1>1, <1>2, <1>3 DEF s

-----------------------------------------------------------------------------
(* What a start of the process loads. *)

\* A loaded group lists the owners of the rows that name it, each once.
LEMMA LoadedGroup ==
  ASSUME DBOK, connected \in [Players -> BOOLEAN], NEW order \in RowOrders, NEW g \in dbGroups
  PROVE  /\ Loaded(g, order, dbColumns, dbMember, connected) \in GroupType
         /\ Distinct(Loaded(g, order, dbColumns, dbMember, connected).members)
         /\ \A p \in Players : In(Loaded(g, order, dbColumns, dbMember, connected).members, p) <=> dbMember[p].gid = g
<1> DEFINE S == Rows(dbMember, g)
           n == Cardinality(S)
           s == order[g]
           e(i) == [guid |-> s[i], online |-> connected[s[i]], assistant |-> dbMember[s[i]].assistant]
           m == [i \in DOMAIN s |-> e(i)]
<1>1. S \subseteq Players /\ \A p \in Players : p \in S <=> dbMember[p].gid = g
  BY DEF Rows
<1>2. n \in Nat
  BY <1>1, PlayersAssumption, FS_Subset, FS_CardinalityType
<1>3. s \in Listings(S)
  BY DEF RowOrders
<1>4. /\ s \in [1..n -> S]
      /\ \A p \in S : \E i \in DOMAIN s : \A j \in DOMAIN s : s[j] = p <=> j = i
  BY <1>3 DEF Listings
<1>5. Loaded(g, order, dbColumns, dbMember, connected) = [columns |-> dbColumns[g], members |-> m]
  BY DEF Loaded
<1> HIDE DEF S, n, s
<1>6. DOMAIN s = 1..n
  BY <1>4
<1>7. \A i \in 1..n : s[i] \in S /\ s[i] \in Players
  BY <1>1, <1>4
<1>8. \A i \in 1..n : e(i) \in MemberType /\ e(i).guid = s[i]
  <2> SUFFICES ASSUME NEW i \in 1..n PROVE e(i) \in MemberType /\ e(i).guid = s[i]
    OBVIOUS
  <2>1. s[i] \in Players
    BY <1>7
  <2>2. connected[s[i]] \in BOOLEAN
    BY <2>1
  <2>3. dbMember[s[i]] \in RowType
    BY <2>1 DEF DBOK
  <2>4. dbMember[s[i]].assistant \in BOOLEAN
    BY <2>3 DEF RowType
  <2> QED BY <2>1, <2>2, <2>4 DEF MemberType
<1> HIDE DEF e
<1>9. DOMAIN m = 1..n /\ \A i \in 1..n : m[i] = e(i)
  BY <1>6
<1>10. m \in Seq(MemberType)
  <2>1. m \in [1..n -> MemberType]
    BY <1>6, <1>8
  <2> QED BY <2>1, <1>2, SeqDef
<1> HIDE DEF m
<1>11. Distinct(m)
  <2> SUFFICES ASSUME NEW i \in 1..n, NEW j \in 1..n, m[i].guid = m[j].guid
               PROVE  i = j
    BY <1>9 DEF Distinct
  <2>1. s[i] = s[j] /\ s[i] \in S
    BY <1>7, <1>8, <1>9
  <2>2. PICK k \in 1..n : \A l \in 1..n : s[l] = s[i] <=> l = k
    BY <2>1, <1>4, <1>6
  <2> QED BY <2>1, <2>2
<1>12. ASSUME NEW p \in Players PROVE In(m, p) <=> dbMember[p].gid = g
  <2>1. ASSUME In(m, p) PROVE p \in S
    BY <2>1, <1>7, <1>8, <1>9 DEF In
  <2>2. ASSUME p \in S PROVE In(m, p)
    <3>1. PICK k \in 1..n : \A l \in 1..n : s[l] = p <=> l = k
      BY <2>2, <1>4, <1>6
    <3>2. s[k] = p
      BY <3>1
    <3> QED BY <3>2, <1>8, <1>9 DEF In
  <2> QED BY <2>1, <2>2, <1>1
<1>13. dbColumns[g] \in ColumnsType
  BY DEF DBOK
<1>14. [columns |-> dbColumns[g], members |-> m] \in GroupType
  BY <1>10, <1>13 DEF GroupType
<1> DEFINE r == [columns |-> dbColumns[g], members |-> m]
<1>15. r.members = m
  OBVIOUS
<1> HIDE DEF r
<1>16. r \in GroupType /\ Distinct(r.members) /\ \A p \in Players : In(r.members, p) <=> dbMember[p].gid = g
  BY <1>11, <1>12, <1>14, <1>15 DEF r
<1> QED BY <1>5, <1>16 DEF r

\* The groups that a start loads have their types and list the stored members.
LEMMA LoadedGroups ==
  ASSUME DBOK, connected \in [Players -> BOOLEAN], NEW order \in RowOrders, NEW lists,
         lists = [g \in GroupIds |-> IF g \in dbGroups THEN Loaded(g, order, dbColumns, dbMember, connected)
                                     ELSE NoGroup]
  PROVE  /\ lists \in [GroupIds -> GroupType]
         /\ ListedOnce(lists, dbGroups)
         /\ \A g \in dbGroups : \A p \in Players : In(lists[g].members, p) <=> dbMember[p].gid = g
<1>1. NoGroup \in GroupType
  <2>1. NoColumns \in ColumnsType
    BY DEF NoColumns, ColumnsType, PlayerOrNobody
  <2>2. <<>> \in Seq(MemberType)
    OBVIOUS
  <2> QED BY <2>1, <2>2 DEF NoGroup, GroupType
<1>2. dbGroups \subseteq GroupIds
  BY DEF DBOK
<1>3. \A g \in dbGroups : /\ lists[g] \in GroupType
                          /\ Distinct(lists[g].members)
                          /\ \A p \in Players : In(lists[g].members, p) <=> dbMember[p].gid = g
  <2> TAKE g \in dbGroups
  <2>1. lists[g] = Loaded(g, order, dbColumns, dbMember, connected)
    BY <1>2
  <2> QED BY <2>1, LoadedGroup
<1>4. \A g \in GroupIds : lists[g] \in GroupType
  <2> SUFFICES ASSUME NEW g \in GroupIds PROVE lists[g] \in GroupType
    OBVIOUS
  <2>1. CASE g \in dbGroups
    BY <2>1, <1>3
  <2>2. CASE g \notin dbGroups
    BY <2>2, <1>1
  <2> QED BY <2>1, <2>2
<1>5. lists \in [GroupIds -> GroupType]
  BY <1>4
<1> QED BY <1>3, <1>5 DEF ListedOnce

\* The values a start gives.
LEMMA FreshValues ==
  /\ Idle \in ThreadType /\ Shape(Idle) /\ Idle.pc = "idle" /\ Idle.gid = 0 /\ Idle.obj = 0 /\ ~Locking(Idle)
  /\ \A cached, map, gone : Stable(Idle, cached, map, gone)
  /\ NoEvent \in EventType /\ NoEvent.pc = "idle"
<1>1. 0 \in Ids
  BY MaxGroupsAssumption DEF Ids
<1>2. Idle \in ThreadType
  BY <1>1 DEF Idle, ThreadType, Steps, PlayerOrNobody
<1>3. Idle.pc = "idle" /\ Idle.gid = 0 /\ Idle.obj = 0 /\ Idle.op = "none"
  BY DEF Idle
<1>4. Shape(Idle) /\ ~Locking(Idle)
  BY <1>3 DEF Shape, Locking, Removing, Deleting, Creating
<1>5. \A cached, map, gone : Stable(Idle, cached, map, gone)
  BY <1>3 DEF Stable, Removing, Deleting, Creating
<1>6. NoEvent \in EventType /\ NoEvent.pc = "idle"
  BY <1>1 DEF NoEvent, EventType, PlayerOrNobody
<1> QED BY <1>2, <1>3, <1>4, <1>5, <1>6

\* A restart loads a consistent state, whatever the handlers had done.
LEMMA WarmupKeeps ==
  ASSUME IInv, NEW order \in RowOrders, Warmup(order), UNCHANGED historyVars
  PROVE  IInv'
<1> USE DEF IInv, TypeOK
<1>1. /\ groups' = [g \in GroupIds |-> IF g \in dbGroups THEN Loaded(g, order, dbColumns, dbMember, connected)
                                      ELSE NoGroup]
      /\ inCache' = dbGroups
      /\ memberOf' = [p \in Players |-> IF dbMember[p].gid \in dbGroups THEN dbMember[p].gid ELSE 0]
      /\ lock' = [g \in GroupIds |-> NoThread]
      /\ thread' = [t \in Threads |-> Idle]
      /\ listener' = [v \in BOOLEAN |-> NoEvent]
      /\ announcer' = NoEvent
  BY DEF Warmup
<1>2. UNCHANGED <<dbGroups, dbColumns, dbMember, dbInvites, nextId, connected, disbanded, mishaps>>
  BY DEF Warmup, dbVars, historyVars
<1>3. DBOK /\ connected \in [Players -> BOOLEAN]
  BY DEF EventsOK
<1>4. /\ groups' \in [GroupIds -> GroupType]
      /\ ListedOnce(groups', dbGroups)
      /\ \A g \in dbGroups : \A p \in Players : In(groups'[g].members, p) <=> dbMember[p].gid = g
  BY <1>1, <1>3, LoadedGroups
<1>5. /\ dbGroups \subseteq GroupIds /\ nextId \in 1..(MaxGroups + 1)
      /\ \A p \in Players : dbMember[p].gid \in Ids
  BY DEF DBOK, RowType
<1>6. 0 \in Ids
  BY MaxGroupsAssumption DEF Ids
<1>7. \A p \in Players : memberOf'[p] = IF dbMember[p].gid \in dbGroups THEN dbMember[p].gid ELSE 0
  BY <1>1
<1>8. CacheOK'
  <2>1. memberOf' \in [Players -> Ids]
    BY <1>1, <1>5, <1>6
  <2> QED BY <2>1, <1>1, <1>4, <1>5 DEF CacheOK
<1>9. DBOK'
  BY <1>2 DEF DBOK
<1>10. ThreadsOK'
  BY <1>1, FreshValues DEF ThreadsOK
<1>11. EventsOK'
  BY <1>1, <1>2, FreshValues DEF EventsOK
<1>12. HistoryOK'
  BY <1>2 DEF HistoryOK
<1>13. Shapes'
  BY <1>1, FreshValues DEF Shapes
<1>14. InviteShape'
  BY <1>2 DEF InviteShape
<1>15. EventShape'
  BY <1>1, FreshValues DEF EventShape
<1>16. IdsGiven'
  <2>1. \A g \in inCache' \cup dbGroups' \cup disbanded' : g < nextId'
    BY <1>1, <1>2 DEF IdsGiven
  <2>2. 0 < nextId
    BY <1>5
  <2>3. \A p \in Players : memberOf'[p] < nextId' /\ dbInvites'[p].gid < nextId'
    BY <1>2, <1>7, <2>2 DEF IdsGiven
  <2>4. \A t \in Threads : thread'[t].gid < nextId' /\ thread'[t].obj < nextId'
    BY <1>1, <1>2, <2>2, FreshValues
  <2> QED BY <2>1, <2>3, <2>4 DEF IdsGiven
<1>17. FoundationsDiffer'
  BY <1>1, FreshValues DEF FoundationsDiffer, Creating
<1>18. DeletedFirst'
  BY <1>1, <1>2, FreshValues DEF DeletedFirst
<1>19. LocksHeld'
  BY <1>1, FreshValues DEF LocksHeld
<1>20. Agreed'
  <2>1. Mapped(groups', inCache', memberOf')
    BY <1>1, <1>4, <1>5, <1>7 DEF Mapped
  <2>2. Listed(groups', inCache', memberOf')
    BY <1>1, <1>4, <1>5, <1>7 DEF Listed
  <2>3. ListedOnce(groups', inCache')
    BY <1>1, <1>4
  <2>4. disbanded' \cap inCache' = {}
    BY <1>1, <1>2 DEF DeletedFirst
  <2>5. AllStable'
    BY <1>1, FreshValues DEF AllStable
  <2> QED BY <2>1, <2>2, <2>3, <2>4, <2>5 DEF Agreed
<1> QED BY <1>8, <1>9, <1>10, <1>11, <1>12, <1>13, <1>14, <1>15, <1>16, <1>17, <1>18, <1>19, <1>20

\* The columns of a new group.
LEMMA LedByPlayer ==
  ASSUME NEW p \in Players
  PROVE  [NoColumns EXCEPT !.leader = p] \in ColumnsType
<1>1. NoColumns \in ColumnsType
  BY DEF NoColumns, ColumnsType, PlayerOrNobody
<1>2. p \in PlayerOrNobody
  BY DEF PlayerOrNobody
<1> QED BY <1>1, <1>2 DEF ColumnsType

\* The service starts in the invariant.
LEMMA InitKeeps ==
  ASSUME Init
  PROVE  IInv
<1>1. PICK order \in RowOrders :
        groups = [g \in GroupIds |-> IF g \in dbGroups THEN Loaded(g, order, dbColumns, dbMember, connected)
                                     ELSE NoGroup]
  BY DEF Init
<1>2. /\ dbGroups = DOMAIN InitialGroups
      /\ dbColumns = [g \in GroupIds |-> IF g \in dbGroups THEN [NoColumns EXCEPT !.leader = InitialGroups[g][1]]
                                         ELSE NoColumns]
      /\ dbMember = [p \in Players |->
                       IF \E g \in dbGroups : InitiallyIn(p, g)
                       THEN [gid |-> CHOOSE g \in dbGroups : InitiallyIn(p, g), assistant |-> FALSE] ELSE NoRow]
      /\ dbInvites = [p \in Players |->
                       IF \E v \in InitialInvites : v.invited = p
                       THEN LET v == CHOOSE v \in InitialInvites : v.invited = p
                            IN  [inviter |-> v.inviter, gid |-> v.gid]
                       ELSE NoInvite]
      /\ nextId = Len(InitialGroups) + 1
      /\ connected = [p \in Players |-> TRUE]
  BY DEF Init
<1>3. /\ inCache = dbGroups
      /\ memberOf = [p \in Players |-> dbMember[p].gid]
      /\ lock = [g \in GroupIds |-> NoThread]
      /\ thread = [t \in Threads |-> Idle]
      /\ listener = [v \in BOOLEAN |-> NoEvent]
      /\ announcer = NoEvent
      /\ disbanded = {} /\ mishaps = {}
  BY DEF Init
<1>4. /\ Len(InitialGroups) \in Nat /\ Len(InitialGroups) <= MaxGroups
      /\ DOMAIN InitialGroups = 1..Len(InitialGroups)
      /\ \A g \in 1..Len(InitialGroups) : InitialGroups[g] \in Seq(Players) /\ InitialGroups[g] # <<>>
  <2>1. InitialGroups \in Seq(Seq(Players))
    BY InitialGroupsAssumption
  <2> QED BY <2>1, LenProperties, ElementOfSeq, InitialGroupsAssumption
<1>5. /\ dbGroups \subseteq GroupIds /\ nextId \in 1..(MaxGroups + 1) /\ 0 \in Ids /\ GroupIds \subseteq Ids
      /\ \A g \in dbGroups : g < nextId
  BY <1>2, <1>4, MaxGroupsAssumption DEF GroupIds, Ids
<1>6. dbColumns \in [GroupIds -> ColumnsType]
  <2>1. NoColumns \in ColumnsType
    BY DEF NoColumns, ColumnsType, PlayerOrNobody
  <2>2. \A g \in dbGroups : InitialGroups[g][1] \in Players
    <3> SUFFICES ASSUME NEW g \in dbGroups PROVE InitialGroups[g][1] \in Players
      OBVIOUS
    <3>1. InitialGroups[g] \in Seq(Players) /\ InitialGroups[g] # <<>>
      BY <1>2, <1>4
    <3>2. 1 \in 1..Len(InitialGroups[g])
      BY <3>1, EmptySeq
    <3> QED BY <3>1, <3>2, ElementOfSeq
  <2>3. \A g \in dbGroups : [NoColumns EXCEPT !.leader = InitialGroups[g][1]] \in ColumnsType
    BY <2>2, LedByPlayer
  <2> QED BY <1>2, <2>1, <2>3
<1>7. ASSUME NEW p \in Players
      PROVE  /\ dbMember[p] \in RowType
             /\ dbMember[p].gid \in dbGroups \cup {0}
  <2>1. CASE \E g \in dbGroups : InitiallyIn(p, g)
    <3> DEFINE h == CHOOSE g \in dbGroups : InitiallyIn(p, g)
    <3>1. h \in dbGroups
      BY <2>1
    <3>2. dbMember[p] = [gid |-> h, assistant |-> FALSE]
      BY <2>1, <1>2
    <3> HIDE DEF h
    <3> QED BY <3>1, <3>2, <1>5 DEF RowType
  <2>2. CASE ~ \E g \in dbGroups : InitiallyIn(p, g)
    <3>1. dbMember[p] = NoRow
      BY <2>2, <1>2
    <3> QED BY <3>1, <1>5 DEF NoRow, RowType
  <2> QED BY <2>1, <2>2
<1>8. dbMember \in [Players -> RowType]
  BY <1>2, <1>7
<1>9. ASSUME NEW p \in Players
      PROVE  /\ dbInvites[p] \in InviteType
             /\ dbInvites[p].gid < nextId
             /\ dbInvites[p] # NoInvite => dbInvites[p].inviter \in Players \ {p}
  <2>1. CASE \E v \in InitialInvites : v.invited = p
    <3> DEFINE w == CHOOSE v \in InitialInvites : v.invited = p
    <3>1. w \in InitialInvites /\ w.invited = p
      BY <2>1
    <3>2. dbInvites[p] = [inviter |-> w.inviter, gid |-> w.gid]
      BY <2>1, <1>2
    <3> HIDE DEF w
    <3>3. w \in [invited : Players, inviter : Players, gid : 0..Len(InitialGroups)] /\ w.invited # w.inviter
      BY <3>1, InitialInvitesAssumption
    <3>4. w.inviter \in Players \ {p} /\ w.gid \in 0..Len(InitialGroups)
      BY <3>1, <3>3
    <3>5. w.gid \in Ids /\ w.gid < nextId
      BY <3>4, <1>2, <1>4, MaxGroupsAssumption DEF Ids
    <3> QED BY <3>2, <3>4, <3>5 DEF InviteType, PlayerOrNobody
  <2>2. CASE ~ \E v \in InitialInvites : v.invited = p
    <3>1. dbInvites[p] = NoInvite
      BY <2>2, <1>2
    <3> QED BY <3>1, <1>5 DEF NoInvite, InviteType, PlayerOrNobody
  <2> QED BY <2>1, <2>2
<1>10. dbInvites \in [Players -> InviteType]
  BY <1>2, <1>9
<1>11. DBOK
  BY <1>5, <1>6, <1>8, <1>10 DEF DBOK
<1>12. connected \in [Players -> BOOLEAN]
  BY <1>2
<1>13. /\ groups \in [GroupIds -> GroupType]
       /\ ListedOnce(groups, dbGroups)
       /\ \A g \in dbGroups : \A p \in Players : In(groups[g].members, p) <=> dbMember[p].gid = g
  BY <1>1, <1>11, <1>12, LoadedGroups
<1>14. TypeOK
  <2>1. CacheOK
    <3>1. memberOf \in [Players -> Ids]
      BY <1>3, <1>5, <1>7
    <3> QED BY <3>1, <1>3, <1>5, <1>13 DEF CacheOK
  <2>2. ThreadsOK
    BY <1>3, FreshValues DEF ThreadsOK
  <2>3. EventsOK
    BY <1>3, <1>12, FreshValues DEF EventsOK
  <2>4. HistoryOK
    BY <1>3 DEF HistoryOK
  <2>5. Shapes
    BY <1>3, FreshValues DEF Shapes
  <2>6. InviteShape
    BY <1>9 DEF InviteShape
  <2>7. EventShape
    BY <1>3, FreshValues DEF EventShape
  <2> QED BY <1>11, <2>1, <2>2, <2>3, <2>4, <2>5, <2>6, <2>7 DEF TypeOK
<1>15. IdsGiven
  <2>1. 0 < nextId
    BY <1>5
  <2>2. \A p \in Players : memberOf[p] < nextId
    BY <1>3, <1>5, <1>7, <2>1
  <2>3. \A t \in Threads : thread[t].gid < nextId /\ thread[t].obj < nextId
    BY <1>3, <2>1, FreshValues
  <2> QED BY <1>3, <1>5, <1>9, <2>2, <2>3 DEF IdsGiven
<1>16. FoundationsDiffer
  BY <1>3, FreshValues DEF FoundationsDiffer, Creating
<1>17. DeletedFirst
  BY <1>3, FreshValues DEF DeletedFirst
<1>18. LocksHeld
  BY <1>3, FreshValues DEF LocksHeld
<1>19. Agreed
  <2>1. \A p \in Players : memberOf[p] = dbMember[p].gid
    BY <1>3
  <2>2. Mapped(groups, inCache, memberOf)
    BY <1>3, <1>7, <1>13, <2>1 DEF Mapped
  <2>3. Listed(groups, inCache, memberOf)
    BY <1>3, <1>13, <2>1 DEF Listed
  <2>4. AllStable
    BY <1>3, FreshValues DEF AllStable
  <2> QED BY <1>3, <1>13, <2>2, <2>3, <2>4 DEF Agreed
<1> QED BY <1>14, <1>15, <1>16, <1>17, <1>18, <1>19 DEF IInv

-----------------------------------------------------------------------------
(* What a step of a handler has to keep, in four parts. *)

\* The handler t continues with the record r; the locks of the others stay.
Moves(t, r) ==
    /\ thread' = [thread EXCEPT ![t] = r]
    /\ r \in ThreadType /\ Shape(r)
    /\ r.gid < nextId' /\ r.obj < nextId'
    /\ r.pc \in Creating => r.obj = nextId \/ (thread[t].pc \in Creating /\ r.obj = thread[t].obj)
    /\ r.pc = "deleteCache" => r.obj \notin dbGroups'
    /\ lock' \in [GroupIds -> Threads \cup {NoThread}]
    /\ \A g \in GroupIds : \A u \in Threads \ {t} : lock[g] = u => lock'[g] = u
    /\ Locking(r) => lock'[r.gid] = t

\* MySQL gains no group but those that AUTO_INCREMENT gives in the step.
StoreStep ==
    /\ DBOK' /\ InviteShape'
    /\ \A p \in Players : dbInvites'[p].gid < nextId'
    /\ nextId <= nextId'
    /\ \A g \in dbGroups' : g \in dbGroups \/ nextId <= g
    /\ \A g \in dbGroups' : g < nextId'

CacheStep ==
    /\ CacheOK'
    /\ \A g \in inCache' \cup disbanded' : g < nextId'
    /\ \A p \in Players : memberOf'[p] < nextId'
    /\ disbanded' \cap dbGroups' = {}

HistoryStep == HistoryOK' /\ mishaps \subseteq mishaps'
EventStep == EventsOK' /\ EventShape'

\* A mishap is not forgotten.
LEMMA UndisturbedBefore ==
  ASSUME mishaps \subseteq mishaps', Undisturbed'
  PROVE  Undisturbed
BY DEF Undisturbed

\* The parts of the invariant that are about the handlers, after a step of one.
LEMMA MovesKeeps ==
  ASSUME IInv, NEW t \in Threads, NEW r, Moves(t, r), StoreStep
  PROVE  /\ ThreadsOK' /\ Shapes' /\ FoundationsDiffer' /\ LocksHeld'
         /\ \A u \in Threads : thread'[u].gid < nextId' /\ thread'[u].obj < nextId'
         /\ \A u \in Threads : thread'[u].pc = "deleteCache" => thread'[u].obj \notin dbGroups'
         /\ thread'[t] = r /\ \A u \in Threads \ {t} : thread'[u] = thread[u]
<1>1. /\ thread \in [Threads -> ThreadType] /\ Shapes /\ IdsGiven /\ FoundationsDiffer /\ DeletedFirst /\ LocksHeld
      /\ nextId \in 1..(MaxGroups + 1)
  BY DEF IInv, TypeOK, ThreadsOK, DBOK
<1>2. /\ thread' = [thread EXCEPT ![t] = r] /\ r \in ThreadType /\ Shape(r)
      /\ r.gid < nextId' /\ r.obj < nextId'
      /\ r.pc \in Creating => r.obj = nextId \/ (thread[t].pc \in Creating /\ r.obj = thread[t].obj)
      /\ r.pc = "deleteCache" => r.obj \notin dbGroups'
      /\ lock' \in [GroupIds -> Threads \cup {NoThread}]
      /\ \A g \in GroupIds : \A u \in Threads \ {t} : lock[g] = u => lock'[g] = u
      /\ Locking(r) => lock'[r.gid] = t
  BY DEF Moves
<1>3. thread'[t] = r /\ \A u \in Threads \ {t} : thread'[u] = thread[u]
  BY <1>1, <1>2
<1>4. nextId <= nextId' /\ nextId' \in Int /\ \A g \in dbGroups' : g \in dbGroups \/ nextId <= g
  BY DEF StoreStep, DBOK
<1>5. \A u \in Threads : thread[u].gid \in Int /\ thread[u].obj \in Int
  BY <1>1, MaxGroupsAssumption DEF ThreadType, Ids
<1>6. ThreadsOK'
  BY <1>1, <1>2 DEF ThreadsOK
<1>7. Shapes'
  BY <1>1, <1>2, <1>3 DEF Shapes
<1>8. \A u \in Threads : thread'[u].gid < nextId' /\ thread'[u].obj < nextId'
  <2>1. \A u \in Threads : thread[u].gid < nextId' /\ thread[u].obj < nextId'
    BY <1>1, <1>4, <1>5 DEF IdsGiven
  <2> QED BY <2>1, <1>2, <1>3
<1>9. \A u \in Threads : thread'[u].pc = "deleteCache" => thread'[u].obj \notin dbGroups'
  <2> SUFFICES ASSUME NEW u \in Threads, thread'[u].pc = "deleteCache" PROVE thread'[u].obj \notin dbGroups'
    OBVIOUS
  <2>1. CASE u = t
    BY <2>1, <1>2, <1>3
  <2>2. CASE u # t
    <3>1. thread[u].pc = "deleteCache" /\ thread'[u].obj = thread[u].obj
      BY <2>2, <1>3
    <3>2. thread[u].obj \notin dbGroups /\ ~(nextId <= thread[u].obj)
      BY <3>1, <1>1, <1>5 DEF DeletedFirst, IdsGiven
    <3> QED BY <3>1, <3>2, <1>4
  <2> QED BY <2>1, <2>2
<1>10. LocksHeld'
  <2> SUFFICES ASSUME NEW u \in Threads, Locking(thread'[u]) PROVE lock'[thread'[u].gid] = u
    BY DEF LocksHeld
  <2>1. CASE u = t
    BY <2>1, <1>2, <1>3
  <2>2. CASE u # t
    <3>1. thread'[u] = thread[u] /\ Locking(thread[u])
      BY <2>2, <1>3
    <3>2. thread[u].gid \in GroupIds
      BY <3>1, <1>1 DEF Shapes, Shape, Locking
    <3>3. lock[thread[u].gid] = u
      BY <3>1, <1>1 DEF LocksHeld
    <3> QED BY <3>1, <3>2, <3>3, <2>2, <1>2
  <2> QED BY <2>1, <2>2
<1>11. FoundationsDiffer'
  <2>1. ASSUME NEW u \in Threads \ {t}, thread[u].pc \in Creating, r.pc \in Creating
        PROVE  thread[u].obj # r.obj
    <3>1. CASE r.obj = nextId
      BY <3>1, <1>1, <1>5 DEF IdsGiven
    <3>2. CASE thread[t].pc \in Creating /\ r.obj = thread[t].obj
      BY <2>1, <3>2, <1>1 DEF FoundationsDiffer
    <3> QED BY <2>1, <3>1, <3>2, <1>2
  <2> SUFFICES ASSUME NEW u \in Threads, NEW w \in Threads, thread'[u].pc \in Creating, thread'[w].pc \in Creating,
                      thread'[u].obj = thread'[w].obj
               PROVE  u = w
    BY DEF FoundationsDiffer
  <2>2. CASE u = t \/ w = t
    BY <2>1, <2>2, <1>3
  <2>3. CASE u # t /\ w # t
    BY <2>3, <1>1, <1>3 DEF FoundationsDiffer
  <2> QED BY <2>2, <2>3
<1> QED BY <1>3, <1>6, <1>7, <1>8, <1>9, <1>10, <1>11

\* A step of a handler keeps the invariant when it keeps the agreement of the cache.
LEMMA HandlerKeeps ==
  ASSUME IInv, NEW t \in Threads, NEW r, Moves(t, r), StoreStep, CacheStep, HistoryStep, EventStep,
         Undisturbed /\ Undisturbed' /\ Agreed => Agreed'
  PROVE  IInv'
<1>1. /\ ThreadsOK' /\ Shapes' /\ FoundationsDiffer' /\ LocksHeld'
      /\ \A u \in Threads : thread'[u].gid < nextId' /\ thread'[u].obj < nextId'
      /\ \A u \in Threads : thread'[u].pc = "deleteCache" => thread'[u].obj \notin dbGroups'
  BY MovesKeeps
<1>2. TypeOK'
  BY <1>1 DEF TypeOK, StoreStep, CacheStep, HistoryStep, EventStep
<1>3. IdsGiven'
  BY <1>1 DEF IdsGiven, StoreStep, CacheStep
<1>4. DeletedFirst'
  BY <1>1 DEF DeletedFirst, CacheStep
<1>5. Undisturbed' => Agreed'
  BY UndisturbedBefore DEF IInv, HistoryStep
<1> QED BY <1>1, <1>2, <1>3, <1>4, <1>5 DEF IInv

\* A statement that is not executed changes nothing.
LEMMA StoreUnchanged ==
  ASSUME IInv, UNCHANGED dbVars
  PROVE  StoreStep
<1>1. UNCHANGED <<dbGroups, dbColumns, dbMember, dbInvites, nextId>>
  BY DEF dbVars
<1>2. DBOK /\ InviteShape /\ IdsGiven /\ nextId \in 1..(MaxGroups + 1)
  BY DEF IInv, TypeOK, DBOK
<1>3. DBOK' /\ InviteShape'
  BY <1>1, <1>2 DEF DBOK, InviteShape
<1>4. nextId <= nextId'
  BY <1>1, <1>2, MaxGroupsAssumption
<1> QED BY <1>1, <1>2, <1>3, <1>4 DEF StoreStep, IdsGiven

\* Handlers other than t keep what they have checked when the cache and its index stay.
LEMMA QuietKeeps ==
  ASSUME IInv, NEW t \in Threads, NEW r, Moves(t, r), StoreStep, HistoryStep, EventStep,
         CacheOK', \A g \in inCache' : g < nextId', Undisturbed => inCache' = inCache,
         \A g \in inCache, p \in Players : In(groups'[g].members, p) <=> In(groups[g].members, p),
         \A g \in inCache : Distinct(groups[g].members) => Distinct(groups'[g].members),
         memberOf' = memberOf, disbanded' = disbanded,
         Undisturbed /\ Agreed => Stable(r, inCache, memberOf, disbanded)
  PROVE  IInv'
<1>1. /\ IdsGiven /\ DeletedFirst /\ nextId \in 1..(MaxGroups + 1)
      /\ memberOf \in [Players -> Ids] /\ disbanded \subseteq GroupIds
  BY DEF IInv, TypeOK, DBOK, CacheOK, HistoryOK
<1>2. nextId <= nextId' /\ nextId' \in Int /\ \A g \in dbGroups' : g \in dbGroups \/ nextId <= g
  BY DEF StoreStep, DBOK
<1>3. CacheStep
  <2>1. \A g \in disbanded : g \in Int /\ g < nextId
    BY <1>1 DEF IdsGiven, GroupIds
  <2>2. \A p \in Players : memberOf[p] \in Int /\ memberOf[p] < nextId
    BY <1>1, MaxGroupsAssumption DEF IdsGiven, Ids
  <2>3. \A g \in inCache' \cup disbanded' : g < nextId'
    BY <2>1, <1>1, <1>2
  <2>4. \A p \in Players : memberOf'[p] < nextId'
    BY <2>2, <1>1, <1>2
  <2>5. disbanded' \cap dbGroups' = {}
    BY <2>1, <1>1, <1>2 DEF DeletedFirst
  <2> QED BY <2>3, <2>4, <2>5 DEF CacheStep
<1>4. ASSUME Undisturbed, Agreed PROVE Agreed'
  <2>1. inCache' = inCache /\ memberOf' = memberOf /\ disbanded' = disbanded
    BY <1>4
  <2>2. /\ Mapped(groups, inCache, memberOf) /\ Listed(groups, inCache, memberOf)
        /\ ListedOnce(groups, inCache) /\ disbanded \cap inCache = {} /\ AllStable
    BY <1>4 DEF Agreed
  <2>3. Mapped(groups', inCache', memberOf')
    BY <2>1, <2>2 DEF Mapped
  <2>4. Listed(groups', inCache', memberOf')
    BY <2>1, <2>2 DEF Listed
  <2>5. ListedOnce(groups', inCache')
    BY <2>1, <2>2 DEF ListedOnce
  <2>6. AllStable'
    <3>1. thread'[t] = r /\ \A u \in Threads \ {t} : thread'[u] = thread[u]
      BY MovesKeeps
    <3>2. Stable(r, inCache, memberOf, disbanded)
      BY <1>4
    <3>3. \A u \in Threads : Stable(thread'[u], inCache, memberOf, disbanded)
      BY <3>1, <3>2, <2>2 DEF AllStable
    <3> QED BY <3>3, <2>1 DEF AllStable
  <2> QED BY <2>1, <2>2, <2>3, <2>4, <2>5, <2>6 DEF Agreed
<1> QED BY <1>3, <1>4, HandlerKeeps

\* The same for a step that leaves the cache and the callbacks alone.
LEMMA PlainKeeps ==
  ASSUME IInv, NEW t \in Threads, NEW r, Moves(t, r), StoreStep, HistoryStep,
         UNCHANGED <<cacheVars, eventVars, disbanded>>,
         Undisturbed /\ Agreed => Stable(r, inCache, memberOf, disbanded)
  PROVE  IInv'
<1>1. UNCHANGED <<groups, inCache, memberOf, connected, listener, announcer, disbanded>>
  BY DEF cacheVars, eventVars
<1>2. CacheOK /\ EventsOK /\ EventShape /\ IdsGiven /\ nextId \in 1..(MaxGroups + 1)
  BY DEF IInv, TypeOK, DBOK
<1>3. CacheOK' /\ EventStep
  BY <1>1, <1>2 DEF CacheOK, EventStep, EventsOK, EventShape
<1>4. \A g \in inCache' : g < nextId'
  <2>1. \A g \in inCache : g \in Int /\ g < nextId
    <3>1. inCache \subseteq GroupIds
      BY <1>2 DEF CacheOK
    <3>2. \A g \in inCache : g < nextId
      BY <1>2 DEF IdsGiven
    <3> QED BY <3>1, <3>2 DEF GroupIds
  <2>2. nextId <= nextId' /\ nextId' \in Int
    BY DEF StoreStep, DBOK
  <2> QED BY <2>1, <2>2, <1>1, <1>2
<1> QED BY <1>1, <1>3, <1>4, QuietKeeps

-----------------------------------------------------------------------------
(* How a handler continues. *)

\* A thread that only changes its program counter keeps its other fields.
LEMMA WithStep ==
  ASSUME NEW x \in ThreadType, NEW pc \in Steps, NEW r, r = [x EXCEPT !.pc = pc]
  PROVE  /\ r \in ThreadType /\ r.pc = pc /\ r.op = x.op /\ r.player = x.player /\ r.target = x.target
         /\ r.gid = x.gid /\ r.obj = x.obj
BY DEF ThreadType

\* A handler that returns leaves its lock and takes no other.
LEMMA ReturnMoves ==
  ASSUME IInv, NEW t \in Threads, Return(t), StoreStep
  PROVE  Moves(t, Idle)
<1>1. lock \in [GroupIds -> Threads \cup {NoThread}] /\ nextId \in 1..(MaxGroups + 1)
  BY DEF IInv, TypeOK, ThreadsOK, DBOK
<1>2. /\ thread' = [thread EXCEPT ![t] = Idle]
      /\ lock' = [g \in GroupIds |-> IF lock[g] = t THEN NoThread ELSE lock[g]]
  BY DEF Return
<1>3. lock' \in [GroupIds -> Threads \cup {NoThread}]
  BY <1>1, <1>2
<1>4. \A g \in GroupIds : \A u \in Threads \ {t} : lock[g] = u => lock'[g] = u
  BY <1>2
<1>5. 0 < nextId'
  BY <1>1 DEF StoreStep, DBOK
<1>6. "idle" \notin Creating
  BY DEF Creating
<1> QED BY <1>2, <1>3, <1>4, <1>5, <1>6, FreshValues DEF Moves

\* A handler that continues keeps its lock.
LEMMA GotoMoves ==
  ASSUME IInv, NEW t \in Threads, NEW r,
         thread' = [thread EXCEPT ![t] = r], UNCHANGED lock, StoreStep,
         r \in ThreadType, Shape(r), r.gid < nextId', r.obj < nextId',
         r.pc \in Creating => r.obj = nextId \/ (thread[t].pc \in Creating /\ r.obj = thread[t].obj),
         r.pc = "deleteCache" => r.obj \notin dbGroups',
         Locking(r) => Locking(thread[t]) /\ r.gid = thread[t].gid
  PROVE  Moves(t, r)
<1>1. lock \in [GroupIds -> Threads \cup {NoThread}] /\ LocksHeld
  BY DEF IInv, TypeOK, ThreadsOK
<1>2. Locking(r) => lock'[r.gid] = t
  BY <1>1 DEF LocksHeld
<1> QED BY <1>1, <1>2 DEF Moves

\* Histories that a step leaves alone, or notes one mishap in.
LEMMA HistoryUnchanged ==
  ASSUME IInv, UNCHANGED historyVars
  PROVE  HistoryStep /\ disbanded' = disbanded
BY DEF IInv, TypeOK, HistoryOK, HistoryStep, historyVars

\* A mishap that is noted is one of Mishaps.
LEMMA HistoryNoted ==
  ASSUME IInv, NEW m \in Mishaps, mishaps' = mishaps \/ mishaps' = mishaps \cup {m}, UNCHANGED disbanded
  PROVE  HistoryStep
BY DEF IInv, TypeOK, HistoryOK, HistoryStep

\* The fields of a handler.
LEMMA ThreadFacts ==
  ASSUME IInv, NEW t \in Threads
  PROVE  /\ thread[t] \in ThreadType /\ Shape(thread[t])
         /\ thread[t].gid < nextId /\ thread[t].obj < nextId
         /\ thread[t].gid \in Ids /\ thread[t].obj \in Ids
         /\ thread \in [Threads -> ThreadType]
<1>1. thread \in [Threads -> ThreadType] /\ Shapes /\ IdsGiven
  BY DEF IInv, TypeOK, ThreadsOK
<1>2. thread[t] \in ThreadType
  BY <1>1
<1> QED BY <1>1, <1>2 DEF Shapes, IdsGiven, ThreadType

\* A handler that returns and has changed no more than rows keeps the invariant.
LEMMA ReturnKeeps ==
  ASSUME IInv, NEW t \in Threads, Return(t), StoreStep, HistoryStep, UNCHANGED <<cacheVars, eventVars, disbanded>>
  PROVE  IInv'
<1>1. Moves(t, Idle)
  BY ReturnMoves
<1>2. Stable(Idle, inCache, memberOf, disbanded)
  BY FreshValues
<1> QED BY <1>1, <1>2, PlainKeeps

\* A handler that continues, with the same arguments, and has changed no more than rows.
LEMMA GotoKeeps ==
  ASSUME IInv, NEW t \in Threads, NEW pc \in Steps, Goto(t, pc), StoreStep, HistoryStep,
         UNCHANGED <<cacheVars, eventVars, disbanded>>,
         NEW r, r = [thread[t] EXCEPT !.pc = pc], Shape(r),
         pc \in Creating => thread[t].pc \in Creating,
         pc = "deleteCache" => r.obj \notin dbGroups',
         Locking(r) => Locking(thread[t]),
         Undisturbed /\ Agreed => Stable(r, inCache, memberOf, disbanded)
  PROVE  IInv'
<1>1. thread[t] \in ThreadType /\ thread[t].gid < nextId /\ thread[t].obj < nextId
      /\ thread[t].gid \in Ids /\ thread[t].obj \in Ids /\ thread \in [Threads -> ThreadType]
  BY ThreadFacts
<1>2. r \in ThreadType /\ r.pc = pc /\ r.gid = thread[t].gid /\ r.obj = thread[t].obj
  BY <1>1, WithStep
<1>3. thread' = [thread EXCEPT ![t] = r] /\ UNCHANGED lock
  BY <1>1 DEF Goto
<1>4. r.gid < nextId' /\ r.obj < nextId'
  <2>1. nextId \in Int /\ nextId' \in Int /\ nextId <= nextId'
    BY DEF IInv, TypeOK, StoreStep, DBOK
  <2> QED BY <2>1, <1>1, <1>2, MaxGroupsAssumption DEF Ids
<1>5. Moves(t, r)
  BY <1>2, <1>3, <1>4, GotoMoves
<1> QED BY <1>5, PlainKeeps

-----------------------------------------------------------------------------
(* The calls, and how a handler gets its lock. *)

\* The group of a player is a group id, or 0.
LEMMA MemberOfFacts ==
  ASSUME IInv, NEW p \in Players
  PROVE  /\ memberOf[p] \in Ids /\ memberOf[p] < nextId
         /\ memberOf[p] # 0 => memberOf[p] \in GroupIds
<1>1. memberOf[p] \in Ids /\ memberOf[p] < nextId
  BY DEF IInv, TypeOK, CacheOK, IdsGiven
<1> QED BY <1>1, MaxGroupsAssumption DEF Ids, GroupIds

\* A call begins with a thread of the right shape and no lock.
LEMMA BeginKeeps ==
  ASSUME IInv, NEW t \in Threads, NEW r, Begin(t, r), Called, r \in ThreadType, Shape(r),
         r.gid < nextId, r.obj < nextId, r.pc \in {"lock", "resolve", "createRow", "lockInvite"}
  PROVE  IInv'
<1>1. StoreStep
  BY StoreUnchanged DEF Called
<1>2. HistoryStep /\ UNCHANGED <<cacheVars, eventVars, disbanded, lock, nextId>>
  BY HistoryUnchanged DEF Called, dbVars
<1>3. thread' = [thread EXCEPT ![t] = r]
  BY DEF Begin
<1>4. ~Locking(r) /\ r.pc \notin Creating /\ r.pc # "deleteCache"
  BY DEF Locking, Creating, Removing, Deleting
<1>5. Stable(r, inCache, memberOf, disbanded)
  BY DEF Stable, Removing, Deleting, Creating
<1>6. Moves(t, r)
  BY <1>1, <1>2, <1>3, <1>4, GotoMoves
<1> QED BY <1>1, <1>2, <1>5, <1>6, PlainKeeps

\* CallOnGroup: the group of the caller is looked up.
LEMMA CallOnGroupKeeps ==
  ASSUME IInv, NEW t \in Threads, NEW op \in Ops, NEW p \in Players, NEW q \in Players, CallOnGroup(t, op, p, q)
  PROVE  IInv'
<1> DEFINE r == [op |-> op, pc |-> "lock", player |-> p, target |-> q, gid |-> memberOf[p], obj |-> memberOf[p]]
<1>1. /\ op \in Ops \ {"Invite", "AcceptInvite"}
      /\ op \notin {"Uninvite", "ChangeLeader"} => q = p
      /\ memberOf[p] # 0 /\ Begin(t, r) /\ Called
  BY DEF CallOnGroup
<1>2. memberOf[p] \in Ids /\ memberOf[p] \in GroupIds /\ memberOf[p] < nextId
  BY <1>1, MemberOfFacts
<1>3. op \in AllOps /\ op \notin {"Invite", "AcceptInvite"} /\ (op = "Leave" => q = p)
  BY <1>1, OpsAssumption DEF AllOps
<1>4. r \in ThreadType
  BY <1>2, <1>3 DEF ThreadType, Steps, PlayerOrNobody
<1>5. r.op = op /\ r.pc = "lock" /\ r.player = p /\ r.target = q /\ r.gid = memberOf[p] /\ r.obj = memberOf[p]
  OBVIOUS
<1> HIDE DEF r
<1>6. Shape(r)
  BY <1>2, <1>3, <1>5 DEF Shape, Removing, Deleting, Creating
<1>7. r.gid < nextId /\ r.obj < nextId /\ r.pc \in {"lock", "resolve", "createRow", "lockInvite"}
  BY <1>2, <1>5
<1> QED BY <1>1, <1>4, <1>6, <1>7, BeginKeeps

\* CallInvite: two different players.
LEMMA CallInviteKeeps ==
  ASSUME IInv, NEW t \in Threads, NEW p \in Players, NEW q \in Players, CallInvite(t, p, q)
  PROVE  IInv'
<1> DEFINE r == [op |-> "Invite", pc |-> "resolve", player |-> p, target |-> q, gid |-> 0, obj |-> 0]
<1>1. p # q /\ Begin(t, r) /\ Called
  BY DEF CallInvite
<1>2. 0 \in Ids /\ 0 < nextId
  BY MaxGroupsAssumption DEF Ids, IInv, TypeOK, DBOK
<1>3. r \in ThreadType
  BY <1>2 DEF ThreadType, Steps, PlayerOrNobody, AllOps
<1>4. r.op = "Invite" /\ r.pc = "resolve" /\ r.player = p /\ r.target = q /\ r.gid = 0 /\ r.obj = 0
  OBVIOUS
<1> HIDE DEF r
<1>5. Shape(r)
  BY <1>1, <1>4 DEF Shape, Removing, Deleting, Creating, AllOps
<1>6. r.gid < nextId /\ r.obj < nextId /\ r.pc \in {"lock", "resolve", "createRow", "lockInvite"}
  BY <1>2, <1>4
<1> QED BY <1>1, <1>3, <1>5, <1>6, BeginKeeps

\* CallAcceptInvite: the invite names the group, or none and an inviter.
LEMMA CallAcceptInviteKeeps ==
  ASSUME IInv, NEW t \in Threads, NEW p \in Players, CallAcceptInvite(t, p)
  PROVE  IInv'
<1> DEFINE v == dbInvites[p]
           r == [op |-> "AcceptInvite", pc |-> IF v.gid = 0 THEN "createRow" ELSE "lockInvite",
                 player |-> p, target |-> v.inviter, gid |-> v.gid, obj |-> v.gid]
<1>1. v # NoInvite /\ Begin(t, r) /\ Called
  BY DEF CallAcceptInvite
<1>2. v \in InviteType /\ InviteShape /\ v.gid < nextId
  BY DEF IInv, TypeOK, DBOK, IdsGiven
<1>3. v.gid \in Ids /\ v.inviter \in Players \ {p}
  BY <1>1, <1>2 DEF InviteType, InviteShape
<1> HIDE DEF v
<1>4. r \in ThreadType
  <2>1. (IF v.gid = 0 THEN "createRow" ELSE "lockInvite") \in Steps
    BY DEF Steps
  <2> QED BY <1>3, <2>1 DEF ThreadType, PlayerOrNobody, AllOps
<1>5. /\ r.op = "AcceptInvite" /\ r.player = p /\ r.target = v.inviter /\ r.gid = v.gid /\ r.obj = v.gid
      /\ r.pc = IF v.gid = 0 THEN "createRow" ELSE "lockInvite"
  OBVIOUS
<1> HIDE DEF r
<1>6. v.gid # 0 => v.gid \in GroupIds
  BY <1>3, MaxGroupsAssumption DEF Ids, GroupIds
<1>7. Shape(r)
  <2>1. CASE v.gid = 0
    BY <2>1, <1>3, <1>5 DEF Shape, Removing, Deleting, Creating, AllOps
  <2>2. CASE v.gid # 0
    BY <2>2, <1>3, <1>5, <1>6 DEF Shape, Removing, Deleting, Creating, AllOps
  <2> QED BY <2>1, <2>2
<1>8. r.gid < nextId /\ r.obj < nextId /\ r.pc \in {"lock", "resolve", "createRow", "lockInvite"}
  BY <1>2, <1>5
<1> QED BY <1>1, <1>4, <1>7, <1>8, BeginKeeps DEF r, v

\* Resolve: the player's group of this moment.
LEMMA ResolveKeeps ==
  ASSUME IInv, NEW t \in Threads, Resolve(t)
  PROVE  IInv'
<1> DEFINE x == thread[t]
           g == memberOf[x.player]
<1>1. x \in ThreadType /\ Shape(x) /\ x.gid < nextId /\ x.obj < nextId /\ x.gid \in Ids /\ x.obj \in Ids
      /\ thread \in [Threads -> ThreadType]
  BY ThreadFacts
<1>2. x.pc = "resolve"
  BY DEF Resolve, At
<1>3. x.op \in AllOps \ {"AcceptInvite"} /\ x.player \in Players /\ x.target \in Players
      /\ (x.op = "Leave" => x.target = x.player) /\ (x.op = "Invite" => x.target # x.player)
  BY <1>1, <1>2 DEF Shape
<1>4. StoreStep
  BY StoreUnchanged DEF Resolve
<1>5. HistoryStep /\ UNCHANGED <<cacheVars, eventVars, disbanded, nextId>>
  BY HistoryUnchanged DEF Resolve, dbVars
<1>6. g \in Ids /\ g < nextId /\ (g # 0 => g \in GroupIds)
  BY <1>3, MemberOfFacts
<1>7. 0 \in Ids /\ 0 < nextId
  BY MaxGroupsAssumption DEF Ids, IInv, TypeOK, DBOK
<1>8. CASE g = 0 /\ x.op = "Invite" /\ thread' = [thread EXCEPT ![t].pc = "addInvite", ![t].gid = 0] /\ UNCHANGED lock
  <2> DEFINE r == [x EXCEPT !.pc = "addInvite", !.gid = 0]
  <2>1. thread' = [thread EXCEPT ![t] = r]
    BY <1>1, <1>8
  <2>2. /\ r \in ThreadType /\ r.pc = "addInvite" /\ r.op = x.op /\ r.player = x.player /\ r.target = x.target
        /\ r.gid = 0 /\ r.obj = x.obj
    <3> HIDE DEF x
    <3> QED BY <1>1, <1>7 DEF ThreadType, Steps
  <2> HIDE DEF r
  <2>3. Shape(r)
    BY <2>2, <1>3, <1>8 DEF Shape, Removing, Deleting, Creating
  <2>4. ~Locking(r) /\ r.pc \notin Creating /\ r.pc # "deleteCache" /\ Stable(r, inCache, memberOf, disbanded)
    BY <2>2 DEF Locking, Creating, Removing, Deleting, Stable
  <2>5. Moves(t, r)
    BY <2>1, <2>2, <2>3, <2>4, <1>1, <1>4, <1>5, <1>7, <1>8, GotoMoves
  <2> QED BY <2>4, <2>5, <1>4, <1>5, PlainKeeps
<1>9. CASE Return(t)
  BY <1>9, <1>4, <1>5, ReturnKeeps
<1>10. CASE g # 0 /\ thread' = [thread EXCEPT ![t].pc = "lock", ![t].gid = g, ![t].obj = g] /\ UNCHANGED lock
  <2> DEFINE r == [x EXCEPT !.pc = "lock", !.gid = g, !.obj = g]
  <2>1. thread' = [thread EXCEPT ![t] = r]
    BY <1>1, <1>10
  <2>2. /\ r \in ThreadType /\ r.pc = "lock" /\ r.op = x.op /\ r.player = x.player /\ r.target = x.target
        /\ r.gid = g /\ r.obj = g
    <3> HIDE DEF g, x
    <3> QED BY <1>1, <1>6 DEF ThreadType, Steps
  <2> HIDE DEF r
  <2>3. Shape(r)
    BY <2>2, <1>3, <1>6, <1>10 DEF Shape, Removing, Deleting, Creating
  <2>4. ~Locking(r) /\ r.pc \notin Creating /\ r.pc # "deleteCache" /\ Stable(r, inCache, memberOf, disbanded)
    BY <2>2 DEF Locking, Creating, Removing, Deleting, Stable
  <2>5. Moves(t, r)
    BY <2>1, <2>2, <2>3, <2>4, <1>1, <1>4, <1>5, <1>6, <1>10, GotoMoves
  <2> QED BY <2>4, <2>5, <1>4, <1>5, PlainKeeps
<1> QED BY <1>8, <1>9, <1>10 DEF Resolve

\* A free lock is taken.
LEMMA LockMoves ==
  ASSUME IInv, NEW t \in Threads, NEW r, thread' = [thread EXCEPT ![t] = r], StoreStep, UNCHANGED nextId,
         NEW g \in GroupIds, lock[g] = NoThread, lock' = [lock EXCEPT ![g] = t],
         r \in ThreadType, Shape(r), r.gid = g, r.gid < nextId, r.obj < nextId,
         r.pc \notin Creating, r.pc # "deleteCache"
  PROVE  Moves(t, r)
<1>1. lock \in [GroupIds -> Threads \cup {NoThread}]
  BY DEF IInv, TypeOK, ThreadsOK
<1>2. lock' \in [GroupIds -> Threads \cup {NoThread}] /\ lock'[g] = t
  BY <1>1
<1>3. \A h \in GroupIds : \A u \in Threads \ {t} : lock[h] = u => lock'[h] = u
  BY <1>1, NobodyAssumption
<1> QED BY <1>2, <1>3 DEF Moves

\* LockGroup: the player is looked up again under the lock.
LEMMA LockGroupKeeps ==
  ASSUME IInv, NEW t \in Threads, LockGroup(t)
  PROVE  IInv'
<1> DEFINE x == thread[t]
<1>1. x \in ThreadType /\ Shape(x) /\ x.gid < nextId /\ x.obj < nextId /\ x.gid \in Ids /\ x.obj \in Ids
      /\ thread \in [Threads -> ThreadType]
  BY ThreadFacts
<1>2. x.pc = "lock" /\ lock[x.gid] = NoThread
  BY DEF LockGroup, At
<1>3. /\ x.op \in AllOps \ {"AcceptInvite"} /\ x.player \in Players /\ x.target \in Players
      /\ (x.op = "Leave" => x.target = x.player) /\ (x.op = "Invite" => x.target # x.player)
      /\ x.gid \in GroupIds /\ x.obj = x.gid
  BY <1>1, <1>2 DEF Shape
<1>4. StoreStep
  BY StoreUnchanged DEF LockGroup
<1>5. HistoryStep /\ UNCHANGED <<cacheVars, eventVars, disbanded, nextId>>
  BY HistoryUnchanged DEF LockGroup, dbVars
<1>6. CASE memberOf[x.player] = x.gid
  <2> DEFINE r == [x EXCEPT !.pc = "body"]
  <2>1. thread' = [thread EXCEPT ![t] = r] /\ lock' = [lock EXCEPT ![x.gid] = t]
    BY <1>1, <1>6 DEF LockGroup
  <2>2. /\ r \in ThreadType /\ r.pc = "body" /\ r.op = x.op /\ r.player = x.player /\ r.target = x.target
        /\ r.gid = x.gid /\ r.obj = x.obj
    BY <1>1, WithStep DEF Steps
  <2> HIDE DEF r
  <2>3. Shape(r)
    BY <2>2, <1>3 DEF Shape, Removing, Deleting, Creating
  <2>4. r.pc \notin Creating /\ r.pc # "deleteCache"
    BY <2>2 DEF Creating
  <2>5. Stable(r, inCache, memberOf, disbanded)
    BY <2>2, <1>6 DEF Creating, Removing, Deleting, Stable
  <2>6. Moves(t, r)
    BY <2>1, <2>2, <2>3, <2>4, <1>1, <1>2, <1>3, <1>4, <1>5, LockMoves
  <2> QED BY <2>5, <2>6, <1>4, <1>5, PlainKeeps
<1>7. CASE memberOf[x.player] # x.gid
  <2>1. Goto(t, "resolve")
    BY <1>7 DEF LockGroup
  <2> DEFINE r == [x EXCEPT !.pc = "resolve"]
  <2>2. /\ r.pc = "resolve" /\ r.op = x.op /\ r.player = x.player /\ r.target = x.target
        /\ r.gid = x.gid /\ r.obj = x.obj /\ "resolve" \in Steps
    BY <1>1, WithStep DEF Steps
  <2>3. r = [thread[t] EXCEPT !.pc = "resolve"]
    OBVIOUS
  <2> HIDE DEF r
  <2>4. Shape(r)
    BY <2>2, <1>3 DEF Shape, Removing, Deleting, Creating
  <2>5. ~Locking(r) /\ "resolve" \notin Creating /\ Stable(r, inCache, memberOf, disbanded)
    BY <2>2 DEF Locking, Creating, Removing, Deleting, Stable
  <2> QED BY <2>1, <2>2, <2>3, <2>4, <2>5, <1>4, <1>5, GotoKeeps
<1> QED BY <1>6, <1>7

-----------------------------------------------------------------------------
(* The checks under the lock. *)

\* IsMember looks a player up in the list of the group.
LEMMA IsMemberIn ==
  ASSUME NEW g, NEW p
  PROVE  IsMember(g, p) <=> In(groups[g].members, p)
BY DEF IsMember, Indices, In

\* A cached member is mapped to the group.
LEMMA MemberIsMapped ==
  ASSUME Agreed, NEW g \in inCache, NEW p \in Players, IsMember(g, p)
  PROVE  memberOf[p] = g
BY IsMemberIn DEF Agreed, Listed

\* What a handler has when it has locked the player's group.
LEMMA BodyFacts ==
  ASSUME IInv, NEW t \in Threads, thread[t].pc = "body"
  PROVE  /\ thread[t].op \in AllOps \ {"AcceptInvite"}
         /\ thread[t].player \in Players /\ thread[t].target \in Players
         /\ thread[t].op = "Leave" => thread[t].target = thread[t].player
         /\ thread[t].op = "Invite" => thread[t].target # thread[t].player
         /\ thread[t].gid \in GroupIds /\ thread[t].obj = thread[t].gid
         /\ Locking(thread[t])
         /\ Agreed => memberOf[thread[t].player] = thread[t].gid
<1>1. Shape(thread[t])
  BY ThreadFacts
<1>2. Locking(thread[t])
  BY DEF Locking
<1>3. Agreed => memberOf[thread[t].player] = thread[t].gid
  BY DEF Agreed, AllStable, Stable
<1> QED BY <1>1, <1>2, <1>3 DEF Shape

\* Nothing but the cached object changes under the lock.
LEMMA UnsavedSteps ==
  ASSUME IInv, Unsaved
  PROVE  /\ StoreStep /\ HistoryStep /\ UNCHANGED <<inCache, memberOf, eventVars, disbanded, nextId>>
         /\ EventStep
<1>1. UNCHANGED dbVars /\ UNCHANGED historyVars /\ UNCHANGED <<inCache, memberOf, eventVars>>
  BY DEF Unsaved
<1>2. UNCHANGED <<connected, listener, announcer>>
  BY <1>1 DEF eventVars
<1>3. EventStep
  BY <1>2 DEF EventStep, EventsOK, EventShape, IInv, TypeOK
<1> QED BY <1>1, <1>3, StoreUnchanged, HistoryUnchanged DEF dbVars

\* The steps that may follow the checks.
LEMMA FromBody ==
  ASSUME IInv, NEW t \in Threads, thread[t].pc = "body",
         NEW pc \in {"addInvite", "deleteMembers", "removeRow", "update"}, pc = "addInvite" => thread[t].op = "Invite",
         NEW r, r = [thread[t] EXCEPT !.pc = pc]
  PROVE  /\ r \in ThreadType /\ Shape(r) /\ pc \in Steps /\ pc \notin Creating
         /\ r.pc = pc /\ r.op = thread[t].op /\ r.player = thread[t].player /\ r.target = thread[t].target
         /\ r.gid = thread[t].gid /\ r.obj = thread[t].obj
<1>1. pc \in Steps /\ pc \notin Creating
  BY DEF Steps, Removing, Deleting, Creating
<1>2. /\ r \in ThreadType /\ r.pc = pc /\ r.op = thread[t].op /\ r.player = thread[t].player
      /\ r.target = thread[t].target /\ r.gid = thread[t].gid /\ r.obj = thread[t].obj
  BY <1>1, ThreadFacts, WithStep
<1>3. Shape(r)
  BY <1>2, BodyFacts DEF Shape, Removing, Deleting, Creating
<1> QED BY <1>1, <1>2, <1>3

\* A handler that leaves the cached object as it is.
LEMMA CheckedKeeps ==
  ASSUME IInv, NEW t \in Threads, thread[t].pc = "body",
         NEW pc \in {"addInvite", "deleteMembers", "removeRow", "update"}, pc = "addInvite" => thread[t].op = "Invite",
         Goto(t, pc), StoreStep, HistoryStep, UNCHANGED <<cacheVars, eventVars, disbanded>>,
         pc = "removeRow" /\ Agreed => memberOf[thread[t].target] = thread[t].gid,
         pc = "update" => thread[t].gid \in inCache
  PROVE  IInv'
<1> DEFINE r == [thread[t] EXCEPT !.pc = pc]
<1>1. /\ r \in ThreadType /\ Shape(r) /\ pc \in Steps /\ pc \notin Creating
      /\ r.pc = pc /\ r.op = thread[t].op /\ r.player = thread[t].player /\ r.target = thread[t].target
      /\ r.gid = thread[t].gid /\ r.obj = thread[t].obj
  BY FromBody
<1>2. r = [thread[t] EXCEPT !.pc = pc]
  OBVIOUS
<1> HIDE DEF r
<1>3. Agreed => Stable(r, inCache, memberOf, disbanded)
  BY <1>1, BodyFacts DEF Stable, Removing, Deleting, Creating
<1>4. Locking(thread[t]) /\ pc # "deleteCache"
  BY BodyFacts
<1> QED BY <1>1, <1>2, <1>3, <1>4, GotoKeeps

\* The body of Invite only reads.
LEMMA InviteBodyKeeps ==
  ASSUME IInv, NEW t \in Threads, InviteBody(t)
  PROVE  IInv'
<1>1. thread[t].pc = "body" /\ thread[t].op = "Invite" /\ Unsaved /\ UNCHANGED groups
  BY DEF InviteBody, InBody, At
<1>2. StoreStep /\ HistoryStep /\ UNCHANGED <<cacheVars, eventVars, disbanded>>
  BY <1>1, UnsavedSteps DEF cacheVars
<1>3. CASE Goto(t, "addInvite")
  BY <1>1, <1>2, <1>3, CheckedKeeps
<1>4. CASE Return(t)
  BY <1>2, <1>4, ReturnKeeps
<1> QED BY <1>3, <1>4 DEF InviteBody

\* Uninvite goes on to remove a member of its own locked group, or to disband
\* it.
LEMMA UninviteBodyKeeps ==
  ASSUME IInv, NEW t \in Threads, UninviteBody(t)
  PROVE  IInv'
<1> DEFINE g == thread[t].obj
<1>1. thread[t].pc = "body" /\ UNCHANGED <<cacheVars, dbVars, eventVars, disbanded>>
  BY DEF UninviteBody, InBody, At
<1>2. StoreStep
  BY <1>1, StoreUnchanged
<1>3. HistoryStep
  <2>1. mishaps' = mishaps \/ mishaps' = mishaps \cup {"leaderRemoved"}
    BY DEF UninviteBody, NoteIf
  <2> QED BY <1>1, <2>1, HistoryNoted DEF Mishaps
<1>4. CASE Return(t)
  BY <1>1, <1>2, <1>3, <1>4, ReturnKeeps
<1>5. CASE Goto(t, "deleteMembers")
  BY <1>1, <1>2, <1>3, <1>5, CheckedKeeps
<1>6. CASE g \in inCache /\ IsMember(g, thread[t].target) /\ Goto(t, "removeRow")
  <2>1. Agreed => memberOf[thread[t].target] = thread[t].gid
    BY <1>1, <1>6, BodyFacts, MemberIsMapped
  <2> QED BY <1>1, <1>2, <1>3, <1>6, <2>1, CheckedKeeps
<1> QED BY <1>4, <1>5, <1>6 DEF UninviteBody

\* The columns of a cached group.
LEMMA ColumnsFacts ==
  ASSUME IInv, NEW g \in GroupIds
  PROVE  /\ groups[g] \in GroupType /\ groups[g].columns \in ColumnsType /\ groups[g].members \in Seq(MemberType)
         /\ \A p \in PlayerOrNobody : [groups[g].columns EXCEPT !.leader = p] \in ColumnsType
         /\ [groups[g].columns EXCEPT !.raid = TRUE] \in ColumnsType
         /\ \A s \in 0..1 : [groups[g].columns EXCEPT !.settings = s] \in ColumnsType
<1>1. groups[g] \in GroupType
  BY DEF IInv, TypeOK, CacheOK
<1> DEFINE c == groups[g].columns
<1>2. c \in ColumnsType /\ groups[g].members \in Seq(MemberType)
  BY <1>1 DEF GroupType
<1> HIDE DEF c
<1>3. /\ \A p \in PlayerOrNobody : [c EXCEPT !.leader = p] \in ColumnsType
      /\ [c EXCEPT !.raid = TRUE] \in ColumnsType
      /\ \A s \in 0..1 : [c EXCEPT !.settings = s] \in ColumnsType
  BY <1>2 DEF ColumnsType
<1> QED BY <1>1, <1>2, <1>3 DEF c

\* A change of the columns leaves the lists.
LEMMA ColumnsKeep ==
  ASSUME IInv, NEW t \in Threads, NEW r, Moves(t, r), StoreStep, HistoryStep, EventStep,
         UNCHANGED <<inCache, memberOf, disbanded, nextId>>,
         NEW g \in GroupIds, NEW c \in ColumnsType, groups' = [groups EXCEPT ![g].columns = c],
         Undisturbed /\ Agreed => Stable(r, inCache, memberOf, disbanded)
  PROVE  IInv'
<1>1. /\ groups \in [GroupIds -> GroupType] /\ inCache \subseteq GroupIds /\ memberOf \in [Players -> Ids]
      /\ IdsGiven
  BY DEF IInv, TypeOK, CacheOK
<1>2. [groups[g] EXCEPT !.columns = c] \in GroupType /\ [groups[g] EXCEPT !.columns = c].members = groups[g].members
  <2> DEFINE x == groups[g]
  <2>1. x \in GroupType
    BY <1>1
  <2> HIDE DEF x
  <2>2. [x EXCEPT !.columns = c] \in GroupType /\ [x EXCEPT !.columns = c].members = x.members
    BY <2>1 DEF GroupType
  <2> QED BY <2>2 DEF x
<1>3. groups' = [groups EXCEPT ![g] = [groups[g] EXCEPT !.columns = c]]
  OBVIOUS
<1>4. groups' \in [GroupIds -> GroupType] /\ \A h \in GroupIds : groups'[h].members = groups[h].members
  <2> DEFINE y == [groups[g] EXCEPT !.columns = c]
  <2>1. groups' = [groups EXCEPT ![g] = y] /\ y \in GroupType /\ y.members = groups[g].members
    BY <1>2, <1>3
  <2> HIDE DEF y
  <2> QED BY <1>1, <2>1
<1>5. CacheOK'
  BY <1>1, <1>4 DEF CacheOK
<1>6. \A h \in inCache' : h < nextId'
  BY <1>1 DEF IdsGiven
<1>7. \A h \in inCache : groups'[h].members = groups[h].members
  BY <1>1, <1>4
<1> QED BY <1>5, <1>6, <1>7, QuietKeeps

\* The change of a leaving leader and of an icon: the group is the one that was locked.
LEMMA ChangedKeeps ==
  ASSUME IInv, NEW t \in Threads, thread[t].pc = "body", Unsaved, Goto(t, "update"), thread[t].gid \in inCache,
         NEW c \in ColumnsType, groups' = [groups EXCEPT ![thread[t].gid].columns = c]
  PROVE  IInv'
<1> DEFINE r == [thread[t] EXCEPT !.pc = "update"]
<1>1. /\ r \in ThreadType /\ Shape(r) /\ "update" \notin Creating
      /\ r.pc = "update" /\ r.op = thread[t].op /\ r.player = thread[t].player /\ r.target = thread[t].target
      /\ r.gid = thread[t].gid /\ r.obj = thread[t].obj
  BY FromBody
<1>2. thread' = [thread EXCEPT ![t] = r] /\ UNCHANGED lock
  BY ThreadFacts DEF Goto
<1> HIDE DEF r
<1>3. StoreStep /\ HistoryStep /\ EventStep /\ UNCHANGED <<inCache, memberOf, disbanded, nextId>>
  BY UnsavedSteps
<1>4. Agreed => Stable(r, inCache, memberOf, disbanded)
  BY <1>1, BodyFacts DEF Stable, Removing, Deleting, Creating
<1>5. Locking(thread[t]) /\ thread[t].gid \in GroupIds
  BY BodyFacts
<1>6. r.gid < nextId' /\ r.obj < nextId'
  BY <1>1, <1>3, ThreadFacts
<1>7. Moves(t, r)
  BY <1>1, <1>2, <1>3, <1>5, <1>6, GotoMoves
<1> QED BY <1>3, <1>4, <1>5, <1>7, ColumnsKeep

\* The next leader is a member or nobody.
LEMMA NewLeaderType ==
  ASSUME IInv, NEW g \in GroupIds, NEW p
  PROVE  NewLeader(g, p) \in PlayerOrNobody
<1> DEFINE m == groups[g].members
           others == {i \in DOMAIN m : m[i].online /\ m[i].guid # p}
<1>1. m \in Seq(MemberType)
  BY ColumnsFacts
<1> HIDE DEF m
<1>2. DOMAIN m = 1..Len(m) /\ Len(m) \in Nat /\ \A i \in 1..Len(m) : m[i].guid \in Players
  <2>1. \A i \in 1..Len(m) : m[i] \in MemberType
    BY <1>1, ElementOfSeq
  <2> QED BY <1>1, <2>1, LenProperties DEF MemberType
<1>3. CASE others = {}
  BY <1>3 DEF NewLeader, m, PlayerOrNobody
<1>4. CASE others # {}
  <2> DEFINE k == CHOOSE i \in others : \A j \in others : i <= j
  <2>1. others \in SUBSET Nat
    BY <1>2
  <2>2. \E i \in others : \A j \in others : i <= j
    BY <1>4, <2>1, LeastNat
  <2>3. k \in others
    BY <2>2
  <2>4. NewLeader(g, p) = m[k].guid
    BY <1>4 DEF NewLeader, m
  <2> HIDE DEF k
  <2> QED BY <1>2, <2>3, <2>4 DEF PlayerOrNobody
<1> QED BY <1>3, <1>4

\* Leave goes on to remove the caller, to disband the group, or to save the new
\* leader first.
LEMMA LeaveBodyKeeps ==
  ASSUME IInv, NEW t \in Threads, LeaveBody(t)
  PROVE  IInv'
<1> DEFINE g == thread[t].obj
           p == thread[t].player
<1>1. thread[t].pc = "body" /\ thread[t].op = "Leave" /\ Unsaved /\ g \in inCache
  BY DEF LeaveBody, InBody, At
<1>2. /\ g \in GroupIds /\ g = thread[t].gid /\ thread[t].target = p
      /\ Agreed => memberOf[thread[t].target] = thread[t].gid
  BY <1>1, BodyFacts
<1>3. StoreStep /\ HistoryStep /\ UNCHANGED <<inCache, memberOf, eventVars, disbanded>>
  BY <1>1, UnsavedSteps
<1>4. CASE Return(t) /\ UNCHANGED groups
  BY <1>3, <1>4, ReturnKeeps DEF cacheVars
<1>5. CASE Goto(t, "deleteMembers") /\ UNCHANGED groups
  <2>1. UNCHANGED <<cacheVars, eventVars, disbanded>>
    BY <1>3, <1>5 DEF cacheVars
  <2> QED BY <1>1, <1>3, <1>5, <2>1, CheckedKeeps
<1>6. CASE Goto(t, "removeRow") /\ UNCHANGED groups
  <2>1. UNCHANGED <<cacheVars, eventVars, disbanded>>
    BY <1>3, <1>6 DEF cacheVars
  <2> QED BY <1>1, <1>2, <1>3, <1>6, <2>1, CheckedKeeps
<1>7. CASE Goto(t, "update") /\ groups' = [groups EXCEPT ![g].columns.leader = NewLeader(g, p)]
  <2> DEFINE c == [groups[g].columns EXCEPT !.leader = NewLeader(g, p)]
  <2>1. c \in ColumnsType
    BY <1>2, ColumnsFacts, NewLeaderType
  <2>2. groups' = [groups EXCEPT ![thread[t].gid].columns = c]
    BY <1>2, <1>7
  <2> HIDE DEF c
  <2>3. Goto(t, "update") /\ thread[t].gid \in inCache
    BY <1>1, <1>2, <1>7
  <2> QED BY <1>1, <2>1, <2>2, <2>3, ChangedKeeps
<1> QED BY <1>4, <1>5, <1>6, <1>7 DEF LeaveBody

\* SetTargetIcon changes the columns of the locked group only.
LEMMA TargetIconBodyKeeps ==
  ASSUME IInv, NEW t \in Threads, TargetIconBody(t)
  PROVE  IInv'
<1> DEFINE g == thread[t].obj
<1>1. thread[t].pc = "body" /\ Unsaved
  BY DEF TargetIconBody, InBody, At
<1>2. g \in GroupIds /\ g = thread[t].gid
  BY <1>1, BodyFacts
<1>3. StoreStep /\ HistoryStep /\ UNCHANGED <<inCache, memberOf, eventVars, disbanded>>
  BY <1>1, UnsavedSteps
<1>4. CASE Return(t) /\ UNCHANGED groups
  BY <1>3, <1>4, ReturnKeeps DEF cacheVars
<1>5. CASE g \in inCache /\ Goto(t, "update") /\ \E s \in 0..1 : groups' = [groups EXCEPT ![g].columns.settings = s]
  <2>1. PICK s \in 0..1 : groups' = [groups EXCEPT ![g].columns.settings = s]
    BY <1>5
  <2> DEFINE c == [groups[g].columns EXCEPT !.settings = s]
  <2>2. c \in ColumnsType
    BY <1>2, ColumnsFacts
  <2>3. groups' = [groups EXCEPT ![thread[t].gid].columns = c]
    BY <1>2, <2>1
  <2> HIDE DEF c
  <2> QED BY <1>1, <1>2, <1>5, <2>2, <2>3, ChangedKeeps
<1> QED BY <1>4, <1>5 DEF TargetIconBody

\* The change of a leader's group: the group is looked up a second time.
LEMMA UpdateKeeps ==
  ASSUME IInv, NEW t \in Threads, thread[t].pc = "body", thread[t].op # "Leave", Unsaved,
         NEW g, g = memberOf[thread[t].player], g \in inCache, NEW c \in ColumnsType, Update(t, g, c)
  PROVE  IInv'
<1> DEFINE r == [thread[t] EXCEPT !.pc = "update", !.obj = g]
<1>1. g \in GroupIds /\ g \in Ids /\ g < nextId
  <2>1. g \in GroupIds
    BY DEF IInv, TypeOK, CacheOK
  <2> QED BY <2>1, BodyFacts, MemberOfFacts
<1>2. thread' = [thread EXCEPT ![t] = r] /\ UNCHANGED lock /\ groups' = [groups EXCEPT ![g].columns = c]
  BY ThreadFacts DEF Update
<1>3. /\ r \in ThreadType /\ r.pc = "update" /\ r.op = thread[t].op /\ r.player = thread[t].player
      /\ r.target = thread[t].target /\ r.gid = thread[t].gid /\ r.obj = g
  <2> DEFINE x == thread[t]
  <2>1. x \in ThreadType
    BY ThreadFacts
  <2> HIDE DEF x
  <2> QED BY <1>1, <2>1 DEF ThreadType, Steps, x
<1> HIDE DEF r
<1>4. Shape(r) /\ "update" \notin Creating
  BY <1>1, <1>3, BodyFacts DEF Shape, Removing, Deleting, Creating
<1>5. StoreStep /\ HistoryStep /\ EventStep /\ UNCHANGED <<inCache, memberOf, disbanded, nextId>>
  BY UnsavedSteps
<1>6. Agreed => Stable(r, inCache, memberOf, disbanded)
  BY <1>3, BodyFacts DEF Stable, Removing, Deleting, Creating
<1>7. r.gid < nextId' /\ r.obj < nextId' /\ Locking(thread[t])
  BY <1>1, <1>3, <1>5, ThreadFacts, BodyFacts
<1>8. Moves(t, r)
  BY <1>2, <1>3, <1>4, <1>5, <1>7, GotoMoves
<1> QED BY <1>1, <1>2, <1>5, <1>6, <1>8, ColumnsKeep

\* A refused change.
LEMMA RefuseKeeps ==
  ASSUME IInv, NEW t \in Threads, Refuse(t), Unsaved
  PROVE  IInv'
<1>1. StoreStep /\ HistoryStep /\ UNCHANGED <<inCache, memberOf, eventVars, disbanded>>
  BY UnsavedSteps
<1>2. Return(t) /\ UNCHANGED <<cacheVars, eventVars, disbanded>>
  BY <1>1 DEF Refuse, cacheVars
<1> QED BY <1>1, <1>2, ReturnKeeps

\* ChangeLeader changes the columns of a group it found a second time: the
\* locked one.
LEMMA ChangeLeaderBodyKeeps ==
  ASSUME IInv, NEW t \in Threads, ChangeLeaderBody(t)
  PROVE  IInv'
<1> DEFINE g == memberOf[thread[t].player]
           c == [groups[g].columns EXCEPT !.leader = thread[t].target]
<1>1. thread[t].pc = "body" /\ thread[t].op = "ChangeLeader" /\ Unsaved
  BY DEF ChangeLeaderBody, InBody, At
<1>2. CASE g \in inCache /\ Update(t, g, c)
  <2>1. g \in GroupIds
    BY <1>2 DEF IInv, TypeOK, CacheOK
  <2>2. c \in ColumnsType
    BY <1>1, <2>1, ColumnsFacts, BodyFacts DEF PlayerOrNobody
  <2> HIDE DEF c
  <2> QED BY <1>1, <1>2, <2>2, UpdateKeeps
<1>3. CASE Refuse(t)
  BY <1>1, <1>3, RefuseKeeps
<1> QED BY <1>2, <1>3 DEF ChangeLeaderBody, GroupWithLeader

\* ConvertToRaid changes the columns of the locked group only.
LEMMA ConvertToRaidBodyKeeps ==
  ASSUME IInv, NEW t \in Threads, ConvertToRaidBody(t)
  PROVE  IInv'
<1> DEFINE g == memberOf[thread[t].player]
           c == [groups[g].columns EXCEPT !.raid = TRUE]
<1>1. thread[t].pc = "body" /\ thread[t].op = "ConvertToRaid" /\ Unsaved
  BY DEF ConvertToRaidBody, InBody, At
<1>2. CASE g \in inCache /\ Update(t, g, c)
  <2>1. g \in GroupIds
    BY <1>2 DEF IInv, TypeOK, CacheOK
  <2>2. c \in ColumnsType
    BY <2>1, ColumnsFacts
  <2> HIDE DEF c
  <2> QED BY <1>1, <1>2, <2>2, UpdateKeeps
<1>3. CASE Refuse(t)
  BY <1>1, <1>3, RefuseKeeps
<1> QED BY <1>2, <1>3 DEF ConvertToRaidBody, GroupWithLeader

\* SetLootMethod and SetDifficulty change the settings or refuse.
LEMMA SettingsKeep ==
  ASSUME IInv, NEW t \in Threads, thread[t].pc = "body", thread[t].op # "Leave", Unsaved,
         NEW g, g = memberOf[thread[t].player], g \in inCache, NEW s \in 0..1,
         Update(t, g, [groups[g].columns EXCEPT !.settings = s])
  PROVE  IInv'
<1> DEFINE c == [groups[g].columns EXCEPT !.settings = s]
<1>1. g \in GroupIds
  BY DEF IInv, TypeOK, CacheOK
<1>2. c \in ColumnsType /\ Update(t, g, c)
  BY <1>1, ColumnsFacts
<1> HIDE DEF c
<1> QED BY <1>2, UpdateKeeps

\* SetLootMethod changes the columns of the locked group only.
LEMMA SetLootMethodBodyKeeps ==
  ASSUME IInv, NEW t \in Threads, SetLootMethodBody(t)
  PROVE  IInv'
<1> DEFINE g == memberOf[thread[t].player]
<1>1. thread[t].pc = "body" /\ thread[t].op = "SetLootMethod" /\ Unsaved
  BY DEF SetLootMethodBody, InBody, At
<1>2. CASE Refuse(t)
  BY <1>1, <1>2, RefuseKeeps
<1>3. CASE \E s \in 0..1 : g \in inCache /\ Update(t, g, [groups[g].columns EXCEPT !.settings = s])
  <2>1. PICK s \in 0..1 : g \in inCache /\ Update(t, g, [groups[g].columns EXCEPT !.settings = s])
    BY <1>3
  <2> QED BY <1>1, <2>1, SettingsKeep
<1> QED BY <1>2, <1>3 DEF SetLootMethodBody, GroupWithLeader

\* SetDifficulty changes the columns of the locked group only.
LEMMA SetDifficultyBodyKeeps ==
  ASSUME IInv, NEW t \in Threads, SetDifficultyBody(t)
  PROVE  IInv'
<1> DEFINE g == memberOf[thread[t].player]
<1>1. thread[t].pc = "body" /\ thread[t].op = "SetDifficulty" /\ Unsaved
  BY DEF SetDifficultyBody, InBody, At
<1>2. CASE Refuse(t)
  BY <1>1, <1>2, RefuseKeeps
<1>3. CASE \E s \in 0..1 : g \in inCache /\ Update(t, g, [groups[g].columns EXCEPT !.settings = s])
  <2>1. PICK s \in 0..1 : g \in inCache /\ Update(t, g, [groups[g].columns EXCEPT !.settings = s])
    BY <1>3
  <2> QED BY <1>1, <2>1, SettingsKeep
<1> QED BY <1>2, <1>3 DEF SetDifficultyBody, GroupWithLeader

-----------------------------------------------------------------------------
(* The MySQL statements. *)

\* The step that follows each statement.
Follows == {<<"update", "updateCache">>, <<"removeRow", "removeLookup">>, <<"deleteMembers", "deleteGroup">>,
            <<"deleteGroup", "deleteCache">>, <<"addRow", "addCache">>, <<"createInviter", "createInvited">>,
            <<"createInvited", "createCache">>, <<"bind", "deleteMembers">>}

\* The next step of a handler has what it needs.
LEMMA FollowsFacts ==
  ASSUME IInv, NEW t \in Threads, NEW pc, <<thread[t].pc, pc>> \in Follows,
         NEW r, r = [thread[t] EXCEPT !.pc = pc]
  PROVE  /\ pc \in Steps /\ Shape(r) /\ r.obj = thread[t].obj
         /\ pc \in Creating => thread[t].pc \in Creating
         /\ Locking(r) => Locking(thread[t])
         /\ Agreed => Stable(r, inCache, memberOf, disbanded)
<1> DEFINE x == thread[t]
<1>1. \/ x.pc = "update" /\ pc = "updateCache"
      \/ x.pc = "removeRow" /\ pc = "removeLookup"
      \/ x.pc = "deleteMembers" /\ pc = "deleteGroup"
      \/ x.pc = "deleteGroup" /\ pc = "deleteCache"
      \/ x.pc = "addRow" /\ pc = "addCache"
      \/ x.pc = "createInviter" /\ pc = "createInvited"
      \/ x.pc = "createInvited" /\ pc = "createCache"
      \/ x.pc = "bind" /\ pc = "deleteMembers"
  BY DEF Follows
<1>2. x \in ThreadType /\ Shape(x) /\ (Agreed => Stable(x, inCache, memberOf, disbanded))
  BY ThreadFacts DEF Agreed, AllStable
<1> HIDE DEF x
<1>3. pc \in Steps
  BY <1>1 DEF Steps, Removing, Deleting, Creating
<1>4. r \in ThreadType /\ r.pc = pc /\ r.op = x.op /\ r.player = x.player /\ r.target = x.target
      /\ r.gid = x.gid /\ r.obj = x.obj
  BY <1>2, <1>3, WithStep DEF x
<1>5. Shape(r)
  BY <1>1, <1>2, <1>4 DEF Shape, Removing, Deleting, Creating
<1>6. pc \in Creating => x.pc \in Creating
  BY <1>1 DEF Creating
<1>7. Locking(r) => Locking(x)
  BY <1>1, <1>2, <1>4 DEF Locking, Shape, Removing, Deleting
<1>8. Agreed => Stable(r, inCache, memberOf, disbanded)
  BY <1>1, <1>2, <1>4 DEF Stable, Shape, Removing, Deleting, Creating
<1> QED BY <1>3, <1>4, <1>5, <1>6, <1>7, <1>8 DEF x

\* A MySQL statement between two steps of one handler, with the cache as it
\* was.
LEMMA FollowKeeps ==
  ASSUME IInv, NEW t \in Threads, NEW pc, <<thread[t].pc, pc>> \in Follows, Goto(t, pc), StoreStep, HistoryStep,
         UNCHANGED <<cacheVars, eventVars, disbanded>>, pc = "deleteCache" => thread[t].obj \notin dbGroups'
  PROVE  IInv'
<1> DEFINE r == [thread[t] EXCEPT !.pc = pc]
<1>1. r = [thread[t] EXCEPT !.pc = pc]
  OBVIOUS
<1> HIDE DEF r
<1>2. /\ pc \in Steps /\ Shape(r) /\ r.obj = thread[t].obj
      /\ pc \in Creating => thread[t].pc \in Creating
      /\ Locking(r) => Locking(thread[t])
      /\ Agreed => Stable(r, inCache, memberOf, disbanded)
  BY <1>1, FollowsFacts
<1> QED BY <1>1, <1>2, GotoKeeps

\* A statement on the rows of existing groups and of members.
LEMMA RowsStep ==
  ASSUME IInv, DBOK', dbInvites' = dbInvites, nextId' = nextId, dbGroups' \subseteq dbGroups
  PROVE  StoreStep
<1>1. InviteShape /\ IdsGiven /\ nextId \in 1..(MaxGroups + 1)
  BY DEF IInv, TypeOK, DBOK
<1>2. InviteShape'
  BY <1>1 DEF InviteShape
<1>3. nextId <= nextId'
  BY <1>1, MaxGroupsAssumption
<1> QED BY <1>1, <1>2, <1>3 DEF StoreStep, IdsGiven

\* A statement's step leaves the cache and the callbacks, and most leave the history.
LEMMA SavedSteps ==
  ASSUME IInv, Saved
  PROVE  /\ UNCHANGED <<cacheVars, eventVars, disbanded>>
         /\ UNCHANGED mishaps => HistoryStep
BY HistoryUnchanged DEF Saved, historyVars

\* An invite is stored for a player other than the inviter.
LEMMA AddInviteKeeps ==
  ASSUME IInv, NEW t \in Threads, AddInvite(t)
  PROVE  IInv'
<1> DEFINE x == thread[t]
           v == [inviter |-> x.player, gid |-> x.gid]
<1>1. /\ x.pc = "addInvite" /\ dbInvites' = [dbInvites EXCEPT ![x.target] = v] /\ Return(t)
      /\ Saved /\ UNCHANGED <<dbGroups, dbColumns, dbMember, nextId, mishaps>>
  BY DEF AddInvite, At
<1>2. x \in ThreadType /\ Shape(x) /\ x.gid < nextId /\ x.gid \in Ids
  BY ThreadFacts
<1>3. x.player \in Players /\ x.target \in Players /\ x.target # x.player
  BY <1>1, <1>2 DEF Shape
<1> HIDE DEF x
<1>4. v \in InviteType /\ v.gid = x.gid /\ v.inviter = x.player
  BY <1>2, <1>3 DEF InviteType, PlayerOrNobody
<1> HIDE DEF v
<1>5. DBOK /\ InviteShape /\ IdsGiven
  BY DEF IInv, TypeOK
<1>6. DBOK'
  BY <1>1, <1>3, <1>4, <1>5 DEF DBOK
<1>7. \A p \in Players : dbInvites'[p] = IF p = x.target THEN v ELSE dbInvites[p]
  BY <1>1, <1>5 DEF DBOK
<1>8. InviteShape'
  BY <1>3, <1>4, <1>5, <1>7 DEF InviteShape
<1>9. \A p \in Players : dbInvites'[p].gid < nextId'
  BY <1>1, <1>2, <1>4, <1>5, <1>7 DEF IdsGiven
<1>10. nextId <= nextId' /\ \A g \in dbGroups' : g \in dbGroups /\ g < nextId'
  <2>1. nextId \in 1..(MaxGroups + 1)
    BY <1>5 DEF DBOK
  <2> QED BY <2>1, <1>1, <1>5, MaxGroupsAssumption DEF IdsGiven
<1>11. StoreStep
  BY <1>6, <1>8, <1>9, <1>10 DEF StoreStep
<1> QED BY <1>1, <1>11, SavedSteps, ReturnKeeps

\* UPDATE of the columns of a group that may be gone.
LEMMA UpdateRowKeeps ==
  ASSUME IInv, NEW t \in Threads, UpdateRow(t)
  PROVE  IInv'
<1> DEFINE g == thread[t].obj
<1>1. /\ thread[t].pc = "update" /\ Goto(t, "updateCache")
      /\ dbColumns' = IF g \in dbGroups THEN [dbColumns EXCEPT ![g] = groups[g].columns] ELSE dbColumns
      /\ Saved /\ UNCHANGED <<dbGroups, dbMember, dbInvites, nextId, mishaps>>
  BY DEF UpdateRow, At
<1>2. DBOK
  BY DEF IInv, TypeOK
<1>3. dbColumns' \in [GroupIds -> ColumnsType]
  <2>1. CASE g \in dbGroups
    <3>1. g \in GroupIds
      BY <2>1, <1>2 DEF DBOK
    <3>2. groups[g].columns \in ColumnsType
      BY <3>1, ColumnsFacts
    <3> QED BY <2>1, <3>1, <3>2, <1>1, <1>2 DEF DBOK
  <2>2. CASE g \notin dbGroups
    BY <2>2, <1>1, <1>2 DEF DBOK
  <2> QED BY <2>1, <2>2
<1>4. DBOK'
  BY <1>1, <1>2, <1>3 DEF DBOK
<1>5. StoreStep
  BY <1>1, <1>4, RowsStep
<1>6. <<thread[t].pc, "updateCache">> \in Follows
  BY <1>1 DEF Follows
<1> QED BY <1>1, <1>5, <1>6, SavedSteps, FollowKeeps

\* DELETE of one member row.
LEMMA RemoveRowKeeps ==
  ASSUME IInv, NEW t \in Threads, RemoveRow(t)
  PROVE  IInv'
<1>1. /\ thread[t].pc = "removeRow" /\ Goto(t, "removeLookup")
      /\ dbMember' = [dbMember EXCEPT ![thread[t].target] = NoRow]
      /\ Saved /\ UNCHANGED <<dbGroups, dbColumns, dbInvites, nextId>>
      /\ mishaps' = mishaps \/ mishaps' = mishaps \cup {"rowLost"}
  BY DEF RemoveRow, At, NoteIf
<1>2. DBOK
  BY DEF IInv, TypeOK
<1>3. NoRow \in RowType
  BY MaxGroupsAssumption DEF NoRow, RowType, Ids
<1>4. DBOK'
  BY <1>1, <1>2, <1>3 DEF DBOK
<1>5. StoreStep
  BY <1>1, <1>4, RowsStep
<1>6. <<thread[t].pc, "removeLookup">> \in Follows
  BY <1>1 DEF Follows
<1>7. HistoryStep /\ UNCHANGED <<cacheVars, eventVars, disbanded>>
  BY <1>1, SavedSteps, HistoryNoted DEF Mishaps
<1> QED BY <1>1, <1>5, <1>6, <1>7, FollowKeeps

\* DELETE of the member rows of a group.
LEMMA DeleteMemberRowsKeeps ==
  ASSUME IInv, NEW t \in Threads, DeleteMemberRows(t)
  PROVE  IInv'
<1>1. /\ thread[t].pc = "deleteMembers" /\ Goto(t, "deleteGroup")
      /\ dbMember' = [p \in Players |-> IF dbMember[p].gid = thread[t].obj THEN NoRow ELSE dbMember[p]]
      /\ Saved /\ UNCHANGED <<dbGroups, dbColumns, dbInvites, nextId, mishaps>>
  BY DEF DeleteMemberRows, At
<1>2. DBOK
  BY DEF IInv, TypeOK
<1>3. NoRow \in RowType
  BY MaxGroupsAssumption DEF NoRow, RowType, Ids
<1>4. dbMember' \in [Players -> RowType]
  BY <1>1, <1>2, <1>3 DEF DBOK
<1>5. DBOK'
  BY <1>1, <1>2, <1>4 DEF DBOK
<1>6. StoreStep
  BY <1>1, <1>5, RowsStep
<1>7. <<thread[t].pc, "deleteGroup">> \in Follows
  BY <1>1 DEF Follows
<1> QED BY <1>1, <1>6, <1>7, SavedSteps, FollowKeeps

\* DELETE of the row of a group, before its cache entry goes.
LEMMA DeleteGroupRowKeeps ==
  ASSUME IInv, NEW t \in Threads, DeleteGroupRow(t)
  PROVE  IInv'
<1>1. /\ thread[t].pc = "deleteGroup" /\ Goto(t, "deleteCache")
      /\ dbGroups' = dbGroups \ {thread[t].obj}
      /\ Saved /\ UNCHANGED <<dbColumns, dbMember, dbInvites, nextId, mishaps>>
  BY DEF DeleteGroupRow, At
<1>2. DBOK
  BY DEF IInv, TypeOK
<1>3. DBOK'
  BY <1>1, <1>2 DEF DBOK
<1>4. StoreStep
  BY <1>1, <1>3, RowsStep
<1>5. <<thread[t].pc, "deleteCache">> \in Follows /\ thread[t].obj \notin dbGroups'
  BY <1>1 DEF Follows
<1> QED BY <1>1, <1>4, <1>5, SavedSteps, FollowKeeps

\* The INSERT of a member row, by a join or a foundation.
LEMMA InsertMemberKeeps ==
  ASSUME IInv, NEW t \in Threads, NEW g \in GroupIds, NEW p \in Players, NEW next \in {"addCache", "createInvited", "createCache"},
         <<thread[t].pc, next>> \in Follows, InsertMember(t, g, p, next)
  PROVE  IInv'
<1>1. Saved /\ UNCHANGED <<dbGroups, dbColumns, dbInvites, nextId>>
  BY DEF InsertMember
<1>2. UNCHANGED <<cacheVars, eventVars, disbanded>>
  BY <1>1, SavedSteps
<1>3. HistoryStep
  <2>1. mishaps' = mishaps \/ mishaps' = mishaps \cup {"leftUnfinished"}
    BY DEF InsertMember, NoteIf
  <2> QED BY <1>2, <2>1, HistoryNoted DEF Mishaps
<1>4. DBOK /\ g \in Ids
  BY MaxGroupsAssumption DEF IInv, TypeOK, Ids, GroupIds
<1>5. CASE dbMember' = [dbMember EXCEPT ![p].gid = g] /\ Goto(t, next)
  <2>1. dbMember' \in [Players -> RowType]
    <3> DEFINE y == dbMember[p]
    <3>1. y \in RowType
      BY <1>4 DEF DBOK
    <3> HIDE DEF y
    <3>2. [y EXCEPT !.gid = g] \in RowType
      BY <3>1, <1>4 DEF RowType
    <3>3. dbMember' = [dbMember EXCEPT ![p] = [y EXCEPT !.gid = g]]
      BY <1>5 DEF y
    <3> QED BY <3>2, <3>3, <1>4 DEF DBOK
  <2>2. DBOK'
    BY <2>1, <1>1, <1>4 DEF DBOK
  <2>3. StoreStep
    BY <2>2, <1>1, RowsStep
  <2>4. next # "deleteCache"
    OBVIOUS
  <2> QED BY <1>2, <1>3, <1>5, <2>3, <2>4, FollowKeeps
<1>6. CASE UNCHANGED dbMember /\ Return(t)
  <2>1. DBOK'
    BY <1>1, <1>4, <1>6 DEF DBOK
  <2>2. StoreStep
    BY <2>1, <1>1, RowsStep
  <2> QED BY <1>2, <1>3, <1>6, <2>2, ReturnKeeps
<1> QED BY <1>5, <1>6 DEF InsertMember

\* INSERT of the member row of a joining player.
LEMMA AddRowKeeps ==
  ASSUME IInv, NEW t \in Threads, AddRow(t)
  PROVE  IInv'
<1>1. thread[t].pc = "addRow" /\ InsertMember(t, thread[t].gid, thread[t].player, "addCache")
  BY DEF AddRow, At
<1>2. thread[t].gid \in GroupIds /\ thread[t].player \in Players
  BY <1>1, ThreadFacts DEF Shape
<1>3. <<thread[t].pc, "addCache">> \in Follows
  BY <1>1 DEF Follows
<1> QED BY <1>1, <1>2, <1>3, InsertMemberKeeps

\* INSERT of the member row of the founder.
LEMMA CreateInviterKeeps ==
  ASSUME IInv, NEW t \in Threads, CreateInviter(t)
  PROVE  IInv'
<1>1. thread[t].pc = "createInviter" /\ InsertMember(t, thread[t].obj, thread[t].target, "createInvited")
  BY DEF CreateInviter, At
<1>2. thread[t].obj \in GroupIds /\ thread[t].target \in Players
  BY <1>1, ThreadFacts DEF Shape, Creating
<1>3. <<thread[t].pc, "createInvited">> \in Follows
  BY <1>1 DEF Follows
<1> QED BY <1>1, <1>2, <1>3, InsertMemberKeeps

\* INSERT of the member row of the first invited player.
LEMMA CreateInvitedKeeps ==
  ASSUME IInv, NEW t \in Threads, CreateInvited(t)
  PROVE  IInv'
<1>1. thread[t].pc = "createInvited" /\ InsertMember(t, thread[t].obj, thread[t].player, "createCache")
  BY DEF CreateInvited, At
<1>2. thread[t].obj \in GroupIds /\ thread[t].player \in Players
  BY <1>1, ThreadFacts DEF Shape, Creating
<1>3. <<thread[t].pc, "createCache">> \in Follows
  BY <1>1 DEF Follows
<1> QED BY <1>1, <1>2, <1>3, InsertMemberKeeps

\* AUTO_INCREMENT gives a foundation an id that nothing knows yet.
LEMMA CreateRowKeeps ==
  ASSUME IInv, NEW t \in Threads, CreateRow(t)
  PROVE  IInv'
<1> DEFINE x == thread[t]
           r == [x EXCEPT !.pc = "createInviter", !.obj = nextId]
           c == [NoColumns EXCEPT !.leader = x.target]
<1>1. /\ x.pc = "createRow" /\ nextId <= MaxGroups
      /\ dbGroups' = dbGroups \cup {nextId} /\ dbColumns' = [dbColumns EXCEPT ![nextId] = c]
      /\ nextId' = nextId + 1
      /\ Saved /\ UNCHANGED <<dbMember, dbInvites, lock, mishaps>>
  BY DEF CreateRow, At
<1>2. x \in ThreadType /\ Shape(x) /\ x.gid < nextId /\ x.gid \in Ids /\ thread \in [Threads -> ThreadType]
  BY ThreadFacts
<1>3. x.op = "AcceptInvite" /\ x.player \in Players /\ x.target \in Players /\ x.target # x.player
  BY <1>1, <1>2 DEF Shape
<1>4. thread' = [thread EXCEPT ![t] = r]
  BY <1>2 DEF CreateRow
<1>5. c \in ColumnsType
  BY <1>3, LedByPlayer
<1> HIDE DEF c
<1>6. DBOK /\ InviteShape /\ IdsGiven
  BY DEF IInv, TypeOK
<1>7. nextId \in GroupIds /\ nextId \in Ids /\ nextId \in Int /\ nextId + 1 \in 1..(MaxGroups + 1)
  BY <1>1, <1>6, MaxGroupsAssumption DEF DBOK, GroupIds, Ids
<1>8. DBOK'
  BY <1>1, <1>5, <1>6, <1>7 DEF DBOK
<1>9. StoreStep
  <2>1. InviteShape'
    BY <1>1, <1>6 DEF InviteShape
  <2>2. \A p \in Players : dbInvites'[p].gid < nextId'
    <3>1. \A p \in Players : dbInvites[p].gid \in Int /\ dbInvites[p].gid < nextId
      <4> SUFFICES ASSUME NEW p \in Players PROVE dbInvites[p].gid \in Int /\ dbInvites[p].gid < nextId
        OBVIOUS
      <4>1. dbInvites[p] \in InviteType
        BY <1>6 DEF DBOK
      <4> QED BY <4>1, <1>6, MaxGroupsAssumption DEF InviteType, Ids, IdsGiven
    <3> QED BY <3>1, <1>1, <1>7
  <2>3. \A g \in dbGroups' : g < nextId'
    <3>1. \A g \in dbGroups : g \in Int /\ g < nextId
      BY <1>6 DEF DBOK, IdsGiven, GroupIds
    <3> QED BY <3>1, <1>1, <1>7
  <2>4. nextId <= nextId' /\ \A g \in dbGroups' : g \in dbGroups \/ nextId <= g
    BY <1>1, <1>7
  <2> QED BY <2>1, <2>2, <2>3, <2>4, <1>8 DEF StoreStep
<1>10. /\ r \in ThreadType /\ r.pc = "createInviter" /\ r.op = x.op /\ r.player = x.player /\ r.target = x.target
       /\ r.gid = x.gid /\ r.obj = nextId
  <2> HIDE DEF x
  <2> QED BY <1>2, <1>7 DEF ThreadType, Steps, Creating
<1> HIDE DEF r
<1>11. Shape(r)
  BY <1>3, <1>7, <1>10 DEF Shape, Removing, Deleting, Creating, AllOps
<1>12. ~Locking(r) /\ r.pc # "deleteCache"
  BY <1>10 DEF Locking, Removing, Deleting
<1>13. r.gid < nextId' /\ r.obj < nextId'
  BY <1>1, <1>2, <1>7, <1>10, MaxGroupsAssumption DEF Ids
<1>14. Moves(t, r)
  BY <1>1, <1>4, <1>9, <1>10, <1>11, <1>12, <1>13, GotoMoves
<1>15. Stable(r, inCache, memberOf, disbanded)
  <2>1. nextId \notin inCache \cup disbanded
    BY <1>6, <1>7 DEF IdsGiven
  <2> QED BY <2>1, <1>10 DEF Stable, Removing, Deleting, Creating
<1> QED BY <1>1, <1>9, <1>14, <1>15, SavedSteps, PlainKeeps

\* The registry binds the new group, or the rollback of the foundation begins.
LEMMA BindGroupKeeps ==
  ASSUME IInv, NEW t \in Threads, BindGroup(t)
  PROVE  IInv'
<1>1. thread[t].pc = "bind" /\ UNCHANGED <<cacheVars, dbVars, eventVars, historyVars>>
  BY DEF BindGroup, At
<1>2. StoreStep /\ HistoryStep /\ disbanded' = disbanded
  BY <1>1, StoreUnchanged, HistoryUnchanged
<1>3. CASE Return(t)
  BY <1>1, <1>2, <1>3, ReturnKeeps
<1>4. CASE Goto(t, "deleteMembers")
  <2>1. <<thread[t].pc, "deleteMembers">> \in Follows
    BY <1>1 DEF Follows
  <2> QED BY <1>1, <1>2, <1>4, <2>1, FollowKeeps
<1> QED BY <1>3, <1>4 DEF BindGroup

\* A failed statement ends its handler and gives the mutex back.
LEMMA DBErrorKeeps ==
  ASSUME IInv, NEW t \in Threads, DBError(t)
  PROVE  IInv'
<1>1. Return(t) /\ UNCHANGED <<cacheVars, dbVars, eventVars, historyVars>>
  BY DEF DBError
<1> QED BY <1>1, StoreUnchanged, HistoryUnchanged, ReturnKeeps

\* The lock of the invite's group is taken when the group is still cached.
LEMMA LockInviteKeeps ==
  ASSUME IInv, NEW t \in Threads, LockInvite(t)
  PROVE  IInv'
<1> DEFINE x == thread[t]
<1>1. /\ x.pc = "lockInvite" /\ lock[x.gid] = NoThread
      /\ UNCHANGED <<cacheVars, dbVars, eventVars, disbanded>>
  BY DEF LockInvite, At
<1>2. x \in ThreadType /\ Shape(x) /\ x.gid < nextId /\ x.obj < nextId /\ thread \in [Threads -> ThreadType]
  BY ThreadFacts
<1>3. StoreStep /\ nextId' = nextId
  BY <1>1, StoreUnchanged DEF dbVars
<1>4. HistoryStep
  <2>1. mishaps' = mishaps \/ mishaps' = mishaps \cup {"emptyJoined"}
    BY DEF LockInvite, NoteIf
  <2> QED BY <1>1, <2>1, HistoryNoted DEF Mishaps
<1>5. CASE x.gid \in inCache
  <2> DEFINE r == [x EXCEPT !.pc = "addRow"]
  <2>1. thread' = [thread EXCEPT ![t] = r] /\ lock' = [lock EXCEPT ![x.gid] = t]
    BY <1>2, <1>5 DEF LockInvite
  <2>2. /\ r \in ThreadType /\ r.pc = "addRow" /\ r.op = x.op /\ r.player = x.player /\ r.target = x.target
        /\ r.gid = x.gid /\ r.obj = x.obj
    BY <1>2, WithStep DEF Steps
  <2> HIDE DEF r
  <2>3. Shape(r) /\ x.gid \in GroupIds
    BY <2>2, <1>1, <1>2 DEF Shape, Removing, Deleting, Creating
  <2>4. r.pc \notin Creating /\ r.pc # "deleteCache"
    BY <2>2 DEF Creating
  <2>5. Stable(r, inCache, memberOf, disbanded)
    BY <2>2, <1>5 DEF Creating, Removing, Deleting, Stable
  <2>6. Moves(t, r)
    BY <2>1, <2>2, <2>3, <2>4, <1>1, <1>2, <1>3, LockMoves
  <2> QED BY <2>5, <2>6, <1>1, <1>3, <1>4, PlainKeeps
<1>6. CASE Return(t)
  BY <1>1, <1>3, <1>4, <1>6, ReturnKeeps
<1> QED BY <1>5, <1>6 DEF LockInvite

-----------------------------------------------------------------------------
(* The changes of the cache. *)

\* What a handler finds when it has done its MySQL statements.
LEMMA StableFacts ==
  ASSUME IInv, NEW t \in Threads
  PROVE  Agreed => Stable(thread[t], inCache, memberOf, disbanded)
BY DEF Agreed, AllStable

\* Nothing but the cache changes.
LEMMA CachedSteps ==
  ASSUME IInv, Cached
  PROVE  StoreStep /\ UNCHANGED <<dbGroups, nextId>>
BY StoreUnchanged DEF Cached, dbVars

\* A step of a handler leaves the event callbacks alone.
LEMMA EventUnchanged ==
  ASSUME IInv, UNCHANGED eventVars
  PROVE  EventStep
BY DEF IInv, TypeOK, EventStep, EventsOK, EventShape, eventVars

\* Update puts the object into the cache; it is there.
LEMMA UpdateCacheKeeps ==
  ASSUME IInv, NEW t \in Threads, UpdateCache(t)
  PROVE  IInv'
<1> DEFINE x == thread[t]
<1>1. /\ x.pc = "updateCache" /\ inCache' = inCache \cup {x.obj} /\ Cached
      /\ UNCHANGED <<groups, memberOf, eventVars, historyVars>>
  BY DEF UpdateCache, At
<1>2. StoreStep /\ UNCHANGED nextId /\ HistoryStep /\ EventStep /\ disbanded' = disbanded
  BY <1>1, CachedSteps, HistoryUnchanged, EventUnchanged
<1>3. /\ x \in ThreadType /\ Shape(x) /\ x.gid < nextId /\ x.obj < nextId /\ thread \in [Threads -> ThreadType]
      /\ (Agreed => Stable(x, inCache, memberOf, disbanded))
  BY ThreadFacts, StableFacts
<1>4. x.obj \in GroupIds /\ x.op \in AllOps \ {"AcceptInvite"} /\ x.player \in Players /\ x.target \in Players
      /\ x.gid \in GroupIds /\ (x.op = "Leave" => x.target = x.player) /\ (x.op = "Invite" => x.target # x.player)
  BY <1>1, <1>3 DEF Shape
<1>5. CacheOK /\ IdsGiven
  BY DEF IInv, TypeOK
<1>6. CacheOK' /\ \A g \in inCache' : g < nextId'
  BY <1>1, <1>2, <1>3, <1>4, <1>5 DEF CacheOK, IdsGiven
<1>7. Undisturbed => inCache' = inCache
  <2>1. Agreed => x.obj \in inCache
    BY <1>1, <1>3 DEF Stable
  <2> QED BY <2>1, <1>1 DEF IInv
<1>8. CASE Goto(t, "removeRow") /\ x.op = "Leave"
  <2> DEFINE r == [x EXCEPT !.pc = "removeRow"]
  <2>1. thread' = [thread EXCEPT ![t] = r] /\ UNCHANGED lock
    BY <1>3, <1>8 DEF Goto
  <2>2. /\ r \in ThreadType /\ r.pc = "removeRow" /\ r.op = x.op /\ r.player = x.player /\ r.target = x.target
        /\ r.gid = x.gid /\ r.obj = x.obj
    BY <1>3, WithStep DEF Steps, Removing
  <2> HIDE DEF r
  <2>3. Shape(r)
    BY <2>2, <1>4, <1>8 DEF Shape, Removing, Deleting, Creating
  <2>4. r.pc \notin Creating /\ r.pc # "deleteCache" /\ Locking(x)
    BY <2>2, <1>1 DEF Creating, Locking
  <2>5. Agreed => Stable(r, inCache, memberOf, disbanded)
    BY <2>2, <1>1, <1>3, <1>8 DEF Creating, Removing, Deleting, Stable
  <2>6. Moves(t, r)
    BY <2>1, <2>2, <2>3, <2>4, <1>2, <1>3, GotoMoves
  <2> QED BY <2>5, <2>6, <1>1, <1>2, <1>6, <1>7, QuietKeeps
<1>9. CASE Return(t)
  <2>1. Moves(t, Idle) /\ Stable(Idle, inCache, memberOf, disbanded)
    BY <1>2, <1>9, ReturnMoves, FreshValues
  <2> QED BY <2>1, <1>1, <1>2, <1>6, <1>7, QuietKeeps
<1> QED BY <1>8, <1>9 DEF UpdateCache

\* RemoveMember looks the group of the member up again.
LEMMA RemoveLookupKeeps ==
  ASSUME IInv, NEW t \in Threads, RemoveLookup(t)
  PROVE  IInv'
<1> DEFINE x == thread[t]
           g == memberOf[x.target]
           r == [x EXCEPT !.pc = "removeCache", !.obj = g]
<1>1. /\ x.pc = "removeLookup" /\ g \in inCache /\ Cached /\ UNCHANGED <<cacheVars, lock, eventVars, historyVars>>
  BY DEF RemoveLookup, At
<1>2. StoreStep /\ UNCHANGED nextId /\ HistoryStep /\ disbanded' = disbanded
  BY <1>1, CachedSteps, HistoryUnchanged
<1>3. /\ x \in ThreadType /\ Shape(x) /\ x.gid < nextId /\ x.obj < nextId /\ thread \in [Threads -> ThreadType]
      /\ (Agreed => Stable(x, inCache, memberOf, disbanded))
  BY ThreadFacts, StableFacts
<1>4. x.op \in AllOps \ {"AcceptInvite"} /\ x.player \in Players /\ x.target \in Players
      /\ x.gid \in GroupIds /\ (x.op = "Leave" => x.target = x.player) /\ (x.op = "Invite" => x.target # x.player)
  BY <1>1, <1>3 DEF Shape, Removing
<1>5. g \in GroupIds /\ g \in Ids /\ g < nextId
  <2>1. g \in GroupIds
    BY <1>1 DEF IInv, TypeOK, CacheOK
  <2> QED BY <2>1, <1>4, MemberOfFacts
<1>6. thread' = [thread EXCEPT ![t] = r]
  BY <1>3 DEF RemoveLookup
<1>7. /\ r \in ThreadType /\ r.pc = "removeCache" /\ r.op = x.op /\ r.player = x.player /\ r.target = x.target
      /\ r.gid = x.gid /\ r.obj = g
  <2> HIDE DEF x, g
  <2> QED BY <1>3, <1>5 DEF ThreadType, Steps, Removing
<1> HIDE DEF r
<1>8. Shape(r)
  BY <1>4, <1>5, <1>7 DEF Shape, Removing, Deleting, Creating
<1>9. r.pc \notin Creating /\ r.pc # "deleteCache" /\ Locking(x)
  BY <1>1, <1>7 DEF Creating, Locking, Removing
<1>10. Agreed => Stable(r, inCache, memberOf, disbanded)
  BY <1>1, <1>3, <1>7 DEF Creating, Removing, Deleting, Stable
<1>11. Moves(t, r)
  BY <1>1, <1>2, <1>3, <1>5, <1>6, <1>7, <1>8, <1>9, GotoMoves
<1> QED BY <1>1, <1>2, <1>10, <1>11, PlainKeeps

\* Two handlers do not hold the lock of one group.
LEMMA OneHolder ==
  ASSUME IInv, NEW t \in Threads, NEW u \in Threads, Locking(thread[t]), Locking(thread[u]),
         thread[t].gid = thread[u].gid
  PROVE  t = u
BY DEF IInv, LocksHeld

\* A lookup that the handler u relies on is not that of a member of another handler's group.
LEMMA OthersLocked ==
  ASSUME IInv, NEW u \in Threads, NEW cached, NEW map,
         Stable(thread[u], inCache, memberOf, disbanded),
         Locking(thread[u]) => (thread[u].gid \in inCache => thread[u].gid \in cached),
         Locking(thread[u]) =>
            \A p \in Players : memberOf[p] = thread[u].gid => map[p] = memberOf[p],
         NEW gone, thread[u].pc \in Creating => thread[u].obj \notin cached \cup gone
  PROVE  Stable(thread[u], cached, map, gone)
<1> DEFINE x == thread[u]
<1>1. Shape(x)
  BY ThreadFacts
<1> HIDE DEF x
<1>2. x.pc \in {"body", "update", "updateCache", "addRow", "addCache"} \cup Removing => Locking(x)
  BY DEF Locking
<1>3. x.pc # "idle" => x.player \in Players /\ x.target \in Players
  BY <1>1 DEF Shape
<1>4. /\ Stable(x, inCache, memberOf, disbanded)
      /\ Locking(x) => (x.gid \in inCache => x.gid \in cached)
      /\ Locking(x) => \A p \in Players : memberOf[p] = x.gid => map[p] = memberOf[p]
      /\ x.pc \in Creating => x.obj \notin cached \cup gone
  BY DEF x
<1>5. x.pc = "body" => map[x.player] = x.gid
  BY <1>2, <1>3, <1>4 DEF Stable
<1>6. x.pc \in {"update", "updateCache"} =>
        x.obj = x.gid /\ x.gid \in cached /\ (x.op = "Leave" => map[x.target] = x.gid)
  BY <1>2, <1>3, <1>4 DEF Stable
<1>7. x.pc \in Removing => map[x.target] = x.gid
  BY <1>2, <1>3, <1>4 DEF Stable, Removing
<1>8. x.pc \in {"addRow", "addCache"} => x.gid \in cached
  BY <1>2, <1>4 DEF Stable
<1>9. (x.pc = "removeCache" => x.obj = x.gid) /\ (x.pc \in Deleting /\ x.op # "AcceptInvite" => x.obj = x.gid)
  BY <1>4 DEF Stable
<1>10. Stable(x, cached, map, gone)
  BY <1>4, <1>5, <1>6, <1>7, <1>8, <1>9 DEF Stable
<1> QED BY <1>10 DEF x

\* AllStable after a step in which the handler t returns or goes on with the record r.
LEMMA AllStableAfter ==
  ASSUME IInv, NEW t \in Threads, NEW r, Moves(t, r), StoreStep,
         Stable(r, inCache', memberOf', disbanded'),
         \A u \in Threads \ {t} : Stable(thread[u], inCache', memberOf', disbanded')
  PROVE  AllStable'
<1>1. thread'[t] = r /\ \A u \in Threads \ {t} : thread'[u] = thread[u]
  BY MovesKeeps
<1>2. \A u \in Threads : Stable(thread'[u], inCache', memberOf', disbanded')
  BY <1>1
<1> QED BY <1>2 DEF AllStable

\* RemoveMember takes the player out of the list and of the index.
LEMMA RemoveCacheKeeps ==
  ASSUME IInv, NEW t \in Threads, RemoveCache(t)
  PROVE  IInv'
<1> DEFINE x == thread[t]
           g == x.obj
           p == x.target
           m == groups[g].members
           rest == WithoutFirst(m, p)
<1>1. x.pc = "removeCache" /\ Return(t) /\ Cached /\ UNCHANGED <<inCache, eventVars, historyVars>>
  BY DEF RemoveCache, At
<1>2. StoreStep /\ UNCHANGED <<dbGroups, nextId>> /\ HistoryStep /\ EventStep /\ disbanded' = disbanded
  BY <1>1, CachedSteps, HistoryUnchanged, EventUnchanged
<1>3. /\ x \in ThreadType /\ Shape(x) /\ x.gid < nextId /\ g < nextId
      /\ (Agreed => Stable(x, inCache, memberOf, disbanded))
  BY ThreadFacts, StableFacts
<1>4. g \in GroupIds /\ p \in Players /\ x.gid \in GroupIds /\ Locking(x)
  BY <1>1, <1>3 DEF Shape, Locking, Removing
<1>5. Moves(t, Idle) /\ \A c, d, e : Stable(Idle, c, d, e)
  BY <1>1, <1>2, ReturnMoves, FreshValues
<1>6. CASE UNCHANGED <<groups, memberOf>>
  <2>1. UNCHANGED <<cacheVars, eventVars, disbanded>>
    BY <1>1, <1>2, <1>6 DEF cacheVars
  <2> QED BY <2>1, <1>2, <1>5, PlainKeeps
<1>7. CASE /\ IsMember(g, p)
           /\ groups' = [groups EXCEPT ![g].members = rest]
           /\ memberOf' = Refreshed(g, rest, [memberOf EXCEPT ![p] = 0])
  <2>1. /\ groups \in [GroupIds -> GroupType] /\ inCache \subseteq GroupIds /\ memberOf \in [Players -> Ids]
        /\ IdsGiven /\ DeletedFirst /\ groups[g] \in GroupType /\ m \in Seq(MemberType) /\ In(m, p)
    BY <1>4, <1>7, ColumnsFacts, IsMemberIn DEF IInv, TypeOK, CacheOK
  <2>2. rest \in Seq(MemberType)
    BY <2>1, WithoutFirstFacts
  <2>3. groups' \in [GroupIds -> GroupType] /\ \A h \in GroupIds : groups'[h].members = IF h = g THEN rest ELSE groups[h].members
    <3> DEFINE y == groups[g]
    <3>1. y \in GroupType
      BY <2>1
    <3> HIDE DEF y, rest
    <3>2. [y EXCEPT !.members = rest] \in GroupType /\ [y EXCEPT !.members = rest].members = rest
      BY <2>2, <3>1 DEF GroupType
    <3>3. groups' = [groups EXCEPT ![g] = [y EXCEPT !.members = rest]]
      BY <1>7 DEF y
    <3> DEFINE z == [y EXCEPT !.members = rest]
    <3>4. groups' = [groups EXCEPT ![g] = z] /\ z \in GroupType /\ z.members = rest
      BY <3>2, <3>3
    <3> HIDE DEF z
    <3> QED BY <3>4, <2>1
  <2>4. \A q \in Players : memberOf'[q] = IF In(rest, q) THEN g ELSE IF q = p THEN 0 ELSE memberOf[q]
    BY <2>1, <1>7 DEF Refreshed, In
  <2>5. 0 \in Ids /\ g \in Ids /\ 0 < nextId
    BY <1>4, MaxGroupsAssumption DEF Ids, GroupIds, IInv, TypeOK, DBOK
  <2>6. memberOf' \in [Players -> Ids]
    <3>1. \A q \in Players : memberOf'[q] \in Ids
      BY <2>1, <2>4, <2>5
    <3>2. memberOf' = [q \in Players |-> memberOf'[q]]
      BY <1>7 DEF Refreshed
    <3> QED BY <3>1, <3>2
  <2>7. CacheStep
    <3>1. CacheOK'
      BY <2>1, <2>3, <2>6, <1>1 DEF CacheOK
    <3>2. \A q \in Players : memberOf'[q] < nextId'
      BY <2>1, <2>4, <2>5, <1>2, <1>3 DEF IdsGiven
    <3>3. \A h \in inCache' \cup disbanded' : h < nextId'
      BY <2>1, <1>1, <1>2 DEF IdsGiven
    <3>4. disbanded' \cap dbGroups' = {}
      BY <2>1, <1>2 DEF DeletedFirst
    <3> QED BY <3>1, <3>2, <3>3, <3>4 DEF CacheStep
  <2>8. ASSUME Agreed PROVE Agreed'
    <3>1. /\ Mapped(groups, inCache, memberOf) /\ Listed(groups, inCache, memberOf)
          /\ ListedOnce(groups, inCache) /\ disbanded \cap inCache = {} /\ AllStable
      BY <2>8 DEF Agreed
    <3>2. g = x.gid /\ memberOf[p] = g /\ g # 0 /\ g \in inCache
      <4>1. g = x.gid /\ memberOf[p] = g
        BY <2>8, <1>1, <1>3 DEF Stable, Removing
      <4>2. g # 0
        BY <1>4 DEF GroupIds
      <4> QED BY <4>1, <4>2, <3>1, <1>4 DEF Mapped
    <3>3. Distinct(rest) /\ \A q : In(rest, q) <=> q # p /\ In(m, q)
      <4>1. Distinct(m)
        BY <3>1, <3>2 DEF ListedOnce
      <4> QED BY <4>1, <2>1, WithoutFirstMembers
    <3>4. \A q \in Players : In(m, q) => memberOf[q] = g
      BY <3>1, <3>2 DEF Listed
    <3>5. \A q \in Players : memberOf'[q] = IF q = p THEN 0 ELSE memberOf[q]
      BY <2>4, <3>3, <3>4
    <3>6. \A h \in inCache : groups'[h].members = IF h = g THEN rest ELSE groups[h].members
      BY <2>1, <2>3
    <3> HIDE DEF rest
    <3>7. Mapped(groups', inCache', memberOf')
      <4> SUFFICES ASSUME NEW q \in Players, memberOf'[q] # 0
                   PROVE  memberOf'[q] \in inCache' /\ In(groups'[memberOf'[q]].members, q)
        BY DEF Mapped
      <4>1. q # p /\ memberOf'[q] = memberOf[q]
        BY <3>5
      <4>2. memberOf[q] \in inCache /\ In(groups[memberOf[q]].members, q)
        BY <4>1, <3>1 DEF Mapped
      <4>3. In(groups'[memberOf[q]].members, q)
        BY <4>1, <4>2, <3>3, <3>6
      <4> QED BY <4>1, <4>2, <4>3, <1>1
    <3>8. Listed(groups', inCache', memberOf')
      <4> SUFFICES ASSUME NEW h \in inCache, NEW q \in Players, In(groups'[h].members, q)
                   PROVE  memberOf'[q] = h
        BY <1>1 DEF Listed
      <4>1. CASE h = g
        BY <4>1, <3>3, <3>4, <3>5, <3>6
      <4>2. CASE h # g
        <5>1. memberOf[q] = h
          BY <4>2, <3>1, <3>6 DEF Listed
        <5> QED BY <4>2, <5>1, <3>2, <3>5
      <4> QED BY <4>1, <4>2
    <3>9. ListedOnce(groups', inCache')
      BY <1>1, <3>1, <3>3, <3>6 DEF ListedOnce
    <3>10. \A u \in Threads \ {t} : Stable(thread[u], inCache', memberOf', disbanded')
      <4> SUFFICES ASSUME NEW u \in Threads \ {t} PROVE Stable(thread[u], inCache', memberOf', disbanded')
        OBVIOUS
      <4>1. Locking(thread[u]) => thread[u].gid # g
        BY <3>2, <1>4, OneHolder
      <4>2. Locking(thread[u]) => \A q \in Players : memberOf[q] = thread[u].gid => memberOf'[q] = memberOf[q]
        BY <4>1, <3>2, <3>5
      <4>3. Stable(thread[u], inCache, memberOf, disbanded)
        BY <3>1 DEF AllStable
      <4>4. thread[u].pc \in Creating => thread[u].obj \notin inCache' \cup disbanded'
        BY <4>3, <1>1, <1>2 DEF Stable
      <4> QED BY <4>2, <4>3, <4>4, <1>1, OthersLocked
    <3>11. AllStable'
      BY <3>10, <1>2, <1>5, AllStableAfter
    <3> QED BY <3>1, <3>7, <3>8, <3>9, <3>11, <1>1, <1>2 DEF Agreed
  <2> QED BY <2>7, <2>8, <1>2, <1>5, HandlerKeeps
<1> QED BY <1>6, <1>7 DEF RemoveCache

\* A deleted group takes its members out of the index.
LEMMA DeleteCacheKeeps ==
  ASSUME IInv, NEW t \in Threads, DeleteCache(t)
  PROVE  IInv'
<1> DEFINE x == thread[t]
           g == x.obj
<1>1. /\ x.pc = "deleteCache" /\ Return(t) /\ Cached /\ UNCHANGED <<groups, eventVars>>
      /\ mishaps' = IF lock[g] \notin {t, NoThread} THEN mishaps \cup {"deletedInUse"} ELSE mishaps
  BY DEF DeleteCache, At, NoteIf
<1>2. StoreStep /\ UNCHANGED <<dbGroups, nextId>> /\ EventStep
  BY <1>1, CachedSteps, EventUnchanged
<1>3. x \in ThreadType /\ Shape(x) /\ g < nextId
  BY ThreadFacts
<1>4. g \in GroupIds
  BY <1>1, <1>3 DEF Shape, Deleting
<1>5. Moves(t, Idle) /\ \A c, d, e : Stable(Idle, c, d, e)
  BY <1>1, <1>2, ReturnMoves, FreshValues
<1>6. CASE UNCHANGED <<memberOf, inCache, disbanded>>
  <2>1. UNCHANGED <<cacheVars, eventVars, disbanded>>
    BY <1>1, <1>6 DEF cacheVars
  <2>2. mishaps' = mishaps \/ mishaps' = mishaps \cup {"deletedInUse"}
    BY <1>1
  <2>3. HistoryStep
    BY <2>2, <1>6, HistoryNoted DEF Mishaps
  <2> QED BY <2>1, <2>3, <1>2, <1>5, PlainKeeps
<1>7. CASE /\ g \in inCache
           /\ memberOf' = [q \in Players |-> IF IsMember(g, q) THEN 0 ELSE memberOf[q]]
           /\ inCache' = inCache \ {g}
           /\ disbanded' = disbanded \cup {g}
  <2>1. /\ groups \in [GroupIds -> GroupType] /\ inCache \subseteq GroupIds /\ memberOf \in [Players -> Ids]
        /\ IdsGiven /\ DeletedFirst /\ disbanded \subseteq GroupIds /\ mishaps \subseteq Mishaps
    BY DEF IInv, TypeOK, CacheOK, HistoryOK
  <2>2. HistoryStep
    BY <2>1, <1>1, <1>4, <1>7 DEF HistoryStep, HistoryOK, Mishaps
  <2>3. 0 \in Ids /\ 0 < nextId
    BY MaxGroupsAssumption DEF Ids, IInv, TypeOK, DBOK
  <2>4. \A q \in Players : memberOf'[q] = IF In(groups[g].members, q) THEN 0 ELSE memberOf[q]
    BY <1>7, IsMemberIn
  <2>5. CacheStep
    <3>1. memberOf' \in [Players -> Ids]
      BY <2>1, <2>3, <1>7
    <3>2. CacheOK'
      BY <2>1, <3>1, <1>1, <1>7 DEF CacheOK
    <3>3. \A q \in Players : memberOf'[q] < nextId'
      BY <2>1, <2>3, <2>4, <1>2 DEF IdsGiven
    <3>4. \A h \in inCache' \cup disbanded' : h < nextId'
      BY <2>1, <1>2, <1>3, <1>7 DEF IdsGiven
    <3>5. disbanded' \cap dbGroups' = {}
      BY <2>1, <1>1, <1>2, <1>7 DEF DeletedFirst
    <3> QED BY <3>2, <3>3, <3>4, <3>5 DEF CacheStep
  <2>6. ASSUME Undisturbed', Agreed PROVE Agreed'
    <3>1. /\ Mapped(groups, inCache, memberOf) /\ Listed(groups, inCache, memberOf)
          /\ ListedOnce(groups, inCache) /\ disbanded \cap inCache = {} /\ AllStable
      BY <2>6 DEF Agreed
    <3>2. lock[g] \in {t, NoThread}
      BY <2>6, <1>1 DEF Undisturbed
    <3>3. Mapped(groups', inCache', memberOf')
      <4> SUFFICES ASSUME NEW q \in Players, memberOf'[q] # 0
                   PROVE  memberOf'[q] \in inCache' /\ In(groups'[memberOf'[q]].members, q)
        BY DEF Mapped
      <4>1. ~In(groups[g].members, q) /\ memberOf'[q] = memberOf[q]
        BY <2>4
      <4>2. memberOf[q] \in inCache /\ In(groups[memberOf[q]].members, q)
        BY <4>1, <3>1 DEF Mapped
      <4>3. memberOf[q] # g
        BY <4>1, <4>2
      <4> QED BY <4>1, <4>2, <4>3, <1>1, <1>7
    <3>4. Listed(groups', inCache', memberOf')
      <4> SUFFICES ASSUME NEW h \in inCache', NEW q \in Players, In(groups[h].members, q)
                   PROVE  memberOf'[q] = h
        BY <1>1 DEF Listed
      <4>1. h \in inCache /\ h # g
        BY <1>7
      <4>2. memberOf[q] = h
        BY <4>1, <3>1 DEF Listed
      <4>3. ~In(groups[g].members, q)
        BY <4>1, <4>2, <3>1, <1>7 DEF Listed
      <4> QED BY <4>2, <4>3, <2>4
    <3>5. ListedOnce(groups', inCache')
      BY <1>1, <1>7, <3>1 DEF ListedOnce
    <3>6. disbanded' \cap inCache' = {}
      BY <1>7, <3>1
    <3>7. \A u \in Threads \ {t} : Stable(thread[u], inCache', memberOf', disbanded')
      <4> SUFFICES ASSUME NEW u \in Threads \ {t} PROVE Stable(thread[u], inCache', memberOf', disbanded')
        OBVIOUS
      <4>1. Locking(thread[u]) => thread[u].gid # g
        BY <3>2, NobodyAssumption DEF IInv, LocksHeld
      <4>2. Locking(thread[u]) => \A q \in Players : memberOf[q] = thread[u].gid => memberOf'[q] = memberOf[q]
        <5> SUFFICES ASSUME Locking(thread[u]), NEW q \in Players, memberOf[q] = thread[u].gid
                     PROVE  memberOf'[q] = memberOf[q]
          OBVIOUS
        <5>1. ~In(groups[g].members, q)
          BY <4>1, <3>1, <1>7 DEF Listed
        <5> QED BY <5>1, <2>4
      <4>3. Stable(thread[u], inCache, memberOf, disbanded)
        BY <3>1 DEF AllStable
      <4>4. thread[u].pc \in Creating => thread[u].obj \notin inCache' \cup disbanded'
        BY <4>3, <1>7 DEF Stable
      <4>5. Locking(thread[u]) => (thread[u].gid \in inCache => thread[u].gid \in inCache')
        BY <4>1, <1>7
      <4> QED BY <4>2, <4>3, <4>4, <4>5, OthersLocked
    <3>8. AllStable'
      BY <3>7, <1>2, <1>5, AllStableAfter
    <3> QED BY <3>3, <3>4, <3>5, <3>6, <3>8 DEF Agreed
  <2> QED BY <2>2, <2>5, <2>6, <1>2, <1>5, HandlerKeeps
<1> QED BY <1>6, <1>7 DEF DeleteCache

\* The member that a join or a foundation adds.
LEMMA NewMemberType ==
  ASSUME NEW p \in Players
  PROVE  NewMember(p) \in MemberType /\ NewMember(p).guid = p
BY DEF NewMember, MemberType

\* A pointer that a callback holds may get stale.
LEMMA StaleStep ==
  ASSUME IInv, NEW g, UNCHANGED <<connected, announcer>>,
         \/ UNCHANGED listener
         \/ listener' = [v \in BOOLEAN |-> IF listener[v].gid = g THEN [listener[v] EXCEPT !.stale = TRUE]
                                           ELSE listener[v]]
  PROVE  EventStep
<1>1. EventsOK /\ EventShape
  BY DEF IInv, TypeOK
<1>2. \A v \in BOOLEAN : /\ listener'[v] \in EventType
                         /\ listener'[v].pc = listener[v].pc /\ listener'[v].player = listener[v].player
                         /\ listener'[v].gid = listener[v].gid
  <2> SUFFICES ASSUME NEW v \in BOOLEAN
               PROVE  /\ listener'[v] \in EventType
                      /\ listener'[v].pc = listener[v].pc /\ listener'[v].player = listener[v].player
                      /\ listener'[v].gid = listener[v].gid
    OBVIOUS
  <2> DEFINE e == listener[v]
             z == [e EXCEPT !.stale = TRUE]
  <2>1. e \in EventType
    BY <1>1 DEF EventsOK
  <2>2. listener'[v] = e \/ listener'[v] = z
    OBVIOUS
  <2> HIDE DEF e
  <2>3. z \in EventType /\ z.pc = e.pc /\ z.player = e.player /\ z.gid = e.gid
    BY <2>1 DEF EventType
  <2> HIDE DEF z
  <2> QED BY <2>1, <2>2, <2>3 DEF e
<1>3. listener' \in [BOOLEAN -> EventType]
  <2>1. CASE UNCHANGED listener
    BY <2>1, <1>1 DEF EventsOK
  <2>2. CASE listener' = [v \in BOOLEAN |-> IF listener[v].gid = g THEN [listener[v] EXCEPT !.stale = TRUE]
                                            ELSE listener[v]]
    BY <2>2, <1>2
  <2> QED BY <2>1, <2>2
<1>4. EventsOK'
  BY <1>1, <1>3 DEF EventsOK
<1>5. EventShape'
  BY <1>1, <1>2 DEF EventShape
<1> QED BY <1>4, <1>5 DEF EventStep

\* AddMember lists a player, who is in no group unless a mishap is noted.
LEMMA AddCacheKeeps ==
  ASSUME IInv, NEW t \in Threads, AddCache(t)
  PROVE  IInv'
<1> DEFINE x == thread[t]
           g == x.gid
           p == x.player
           m == groups[g].members
           more == Append(m, NewMember(p))
<1>1. /\ x.pc = "addCache" /\ g \in inCache /\ Return(t) /\ Cached
      /\ UNCHANGED <<inCache, connected, announcer, disbanded>>
      /\ mishaps' = IF memberOf[p] # 0 THEN mishaps \cup {"joinedTwice"} ELSE mishaps
      /\ groups' = [groups EXCEPT ![g].members = more]
      /\ memberOf' = Refreshed(g, more, memberOf)
  BY DEF AddCache, At, NoteIf
<1>2. StoreStep /\ UNCHANGED <<dbGroups, nextId>>
  BY <1>1, CachedSteps
<1>3. EventStep
  <2>1. \/ UNCHANGED listener
        \/ listener' = [v \in BOOLEAN |-> IF listener[v].gid = g THEN [listener[v] EXCEPT !.stale = TRUE]
                                          ELSE listener[v]]
    BY DEF AddCache
  <2> QED BY <1>1, <2>1, StaleStep
<1>4. HistoryStep
  <2>1. mishaps' = mishaps \/ mishaps' = mishaps \cup {"joinedTwice"}
    BY <1>1
  <2> QED BY <1>1, <2>1, HistoryNoted DEF Mishaps
<1>5. x \in ThreadType /\ Shape(x) /\ g < nextId
  BY ThreadFacts
<1>6. g \in GroupIds /\ p \in Players
  BY <1>1, <1>5 DEF Shape
<1>7. Moves(t, Idle) /\ \A c, d, e : Stable(Idle, c, d, e)
  BY <1>1, <1>2, ReturnMoves, FreshValues
<1>8. /\ groups \in [GroupIds -> GroupType] /\ inCache \subseteq GroupIds /\ memberOf \in [Players -> Ids]
      /\ IdsGiven /\ DeletedFirst /\ groups[g] \in GroupType /\ m \in Seq(MemberType)
  BY <1>6, ColumnsFacts DEF IInv, TypeOK, CacheOK
<1>9. /\ more \in Seq(MemberType)
      /\ \A q : In(more, q) <=> q = p \/ In(m, q)
      /\ Distinct(m) /\ ~In(m, p) => Distinct(more)
  BY <1>6, <1>8, NewMemberType, AppendMembers
<1>10. groups' \in [GroupIds -> GroupType] /\ \A h \in GroupIds : groups'[h].members = IF h = g THEN more ELSE groups[h].members
  <2> DEFINE y == groups[g]
  <2>1. y \in GroupType
    BY <1>8
  <2> HIDE DEF y, more
  <2>2. [y EXCEPT !.members = more] \in GroupType /\ [y EXCEPT !.members = more].members = more
    BY <1>9, <2>1 DEF GroupType
  <2>3. groups' = [groups EXCEPT ![g] = [y EXCEPT !.members = more]]
    BY <1>1 DEF y
  <2> DEFINE z == [y EXCEPT !.members = more]
  <2>4. groups' = [groups EXCEPT ![g] = z] /\ z \in GroupType /\ z.members = more
    BY <2>2, <2>3
  <2> HIDE DEF z
  <2> QED BY <2>4, <1>8
<1>11. \A q \in Players : memberOf'[q] = IF In(more, q) THEN g ELSE memberOf[q]
  BY <1>1 DEF Refreshed, In
<1> HIDE DEF more
<1>12. CacheStep
  <2>1. g \in Ids
    BY <1>6, MaxGroupsAssumption DEF Ids, GroupIds
  <2>2. memberOf' \in [Players -> Ids]
    <3>1. \A q \in Players : memberOf'[q] \in Ids
      BY <2>1, <1>8, <1>11
    <3>2. memberOf' = [q \in Players |-> memberOf'[q]]
      BY <1>1 DEF Refreshed
    <3> QED BY <3>1, <3>2
  <2>3. CacheOK'
    BY <2>2, <1>1, <1>8, <1>10 DEF CacheOK
  <2>4. \A q \in Players : memberOf'[q] < nextId'
    BY <1>2, <1>5, <1>8, <1>11 DEF IdsGiven
  <2>5. \A h \in inCache' \cup disbanded' : h < nextId'
    BY <1>1, <1>2, <1>8 DEF IdsGiven
  <2>6. disbanded' \cap dbGroups' = {}
    BY <1>1, <1>2, <1>8 DEF DeletedFirst
  <2> QED BY <2>3, <2>4, <2>5, <2>6 DEF CacheStep
<1>13. ASSUME Undisturbed', Agreed PROVE Agreed'
  <2>1. /\ Mapped(groups, inCache, memberOf) /\ Listed(groups, inCache, memberOf)
        /\ ListedOnce(groups, inCache) /\ disbanded \cap inCache = {} /\ AllStable
    BY <1>13 DEF Agreed
  <2>2. memberOf[p] = 0 /\ g # 0
    BY <1>1, <1>6, <1>13 DEF Undisturbed, GroupIds
  <2>3. \A h \in inCache : h # 0 /\ ~In(groups[h].members, p)
    BY <2>1, <2>2, <1>6, <1>8 DEF Listed, GroupIds
  <2>4. \A q \in Players : memberOf'[q] = IF q = p THEN g ELSE memberOf[q]
    <3>1. \A q \in Players : In(m, q) => memberOf[q] = g
      BY <2>1, <1>1 DEF Listed
    <3> QED BY <3>1, <1>9, <1>11
  <2>5. \A h \in inCache : groups'[h].members = IF h = g THEN more ELSE groups[h].members
    BY <1>8, <1>10
  <2>6. Mapped(groups', inCache', memberOf')
    <3> SUFFICES ASSUME NEW q \in Players, memberOf'[q] # 0
                 PROVE  memberOf'[q] \in inCache' /\ In(groups'[memberOf'[q]].members, q)
      BY DEF Mapped
    <3>1. CASE q = p
      BY <3>1, <2>4, <2>5, <1>1, <1>9
    <3>2. CASE q # p
      <4>1. memberOf'[q] = memberOf[q]
        BY <3>2, <2>4
      <4>2. memberOf[q] \in inCache /\ In(groups[memberOf[q]].members, q)
        BY <4>1, <2>1 DEF Mapped
      <4>3. In(groups'[memberOf[q]].members, q)
        BY <4>2, <2>5, <1>9
      <4> QED BY <4>1, <4>2, <4>3, <1>1
    <3> QED BY <3>1, <3>2
  <2>7. Listed(groups', inCache', memberOf')
    <3> SUFFICES ASSUME NEW h \in inCache, NEW q \in Players, In(groups'[h].members, q)
                 PROVE  memberOf'[q] = h
      BY <1>1 DEF Listed
    <3>1. CASE h = g
      <4>1. In(more, q)
        BY <3>1, <2>5
      <4> QED BY <3>1, <4>1, <1>11
    <3>2. CASE h # g
      <4>1. In(groups[h].members, q)
        BY <3>2, <2>5
      <4>2. memberOf[q] = h /\ q # p
        BY <4>1, <2>1, <2>3 DEF Listed
      <4> QED BY <4>2, <2>4
    <3> QED BY <3>1, <3>2
  <2>8. ListedOnce(groups', inCache')
    <3>1. Distinct(more)
      BY <2>1, <2>3, <1>1, <1>9 DEF ListedOnce
    <3> QED BY <3>1, <2>1, <2>5, <1>1 DEF ListedOnce
  <2>9. \A u \in Threads \ {t} : Stable(thread[u], inCache', memberOf', disbanded')
    <3> SUFFICES ASSUME NEW u \in Threads \ {t} PROVE Stable(thread[u], inCache', memberOf', disbanded')
      OBVIOUS
    <3>1. Locking(thread[u]) => thread[u].gid # 0
      <4>1. Shape(thread[u])
        BY ThreadFacts
      <4> QED BY <4>1 DEF Shape, Locking, GroupIds
    <3>2. Locking(thread[u]) => \A q \in Players : memberOf[q] = thread[u].gid => memberOf'[q] = memberOf[q]
      BY <3>1, <2>2, <2>4
    <3>3. Stable(thread[u], inCache, memberOf, disbanded)
      BY <2>1 DEF AllStable
    <3>4. thread[u].pc \in Creating => thread[u].obj \notin inCache' \cup disbanded'
      BY <3>3, <1>1 DEF Stable
    <3> QED BY <3>2, <3>3, <3>4, <1>1, OthersLocked
  <2>10. AllStable'
    BY <2>9, <1>2, <1>7, AllStableAfter
  <2> QED BY <2>1, <2>6, <2>7, <2>8, <2>10, <1>1 DEF Agreed
<1> QED BY <1>2, <1>3, <1>4, <1>7, <1>12, <1>13, HandlerKeeps

\* The inviter and the invited are listed in the new group, and are in no other unless a mishap is noted.
LEMMA CreateCacheKeeps ==
  ASSUME IInv, NEW t \in Threads, CreateCache(t)
  PROVE  IInv'
<1> DEFINE x == thread[t]
           g == x.obj
           p == x.player
           b == x.target
           pair == <<NewMember(b), NewMember(p)>>
           c == [NoColumns EXCEPT !.leader = b]
           r == [x EXCEPT !.pc = "bind"]
<1>1. /\ x.pc = "createCache" /\ Goto(t, "bind") /\ Cached /\ UNCHANGED <<eventVars, disbanded>>
      /\ mishaps' = IF memberOf[b] # 0 \/ memberOf[p] # 0 THEN mishaps \cup {"joinedTwice"} ELSE mishaps
      /\ groups' = [groups EXCEPT ![g] = [columns |-> c, members |-> pair]]
      /\ inCache' = inCache \cup {g}
      /\ memberOf' = Refreshed(g, pair, memberOf)
  BY DEF CreateCache, At, NoteIf
<1>2. StoreStep /\ UNCHANGED <<dbGroups, nextId>> /\ EventStep
  BY <1>1, CachedSteps, EventUnchanged
<1>3. HistoryStep
  <2>1. mishaps' = mishaps \/ mishaps' = mishaps \cup {"joinedTwice"}
    BY <1>1
  <2> QED BY <1>1, <2>1, HistoryNoted DEF Mishaps
<1>4. x \in ThreadType /\ Shape(x) /\ x.gid < nextId /\ g < nextId /\ thread \in [Threads -> ThreadType]
  BY ThreadFacts
<1>5. g \in GroupIds /\ p \in Players /\ b \in Players /\ b # p /\ x.op = "AcceptInvite" /\ x.pc \in Creating
  BY <1>1, <1>4 DEF Shape, Creating
<1>6. Moves(t, r) /\ Stable(r, inCache', memberOf', disbanded')
  <2>1. thread' = [thread EXCEPT ![t] = r] /\ UNCHANGED lock
    BY <1>1, <1>4 DEF Goto
  <2>2. /\ r \in ThreadType /\ r.pc = "bind" /\ r.op = x.op /\ r.player = x.player /\ r.target = x.target
        /\ r.gid = x.gid /\ r.obj = x.obj
    BY <1>4, WithStep DEF Steps
  <2> HIDE DEF r
  <2>3. Shape(r)
    BY <2>2, <1>5 DEF Shape, Removing, Deleting, Creating, AllOps
  <2>4. r.pc \notin Creating /\ r.pc # "deleteCache" /\ ~Locking(r)
    BY <2>2 DEF Creating, Locking, Removing, Deleting
  <2>5. Moves(t, r)
    BY <2>1, <2>2, <2>3, <2>4, <1>2, <1>4, GotoMoves
  <2> QED BY <2>2, <2>5 DEF Stable, Removing, Deleting, Creating
<1>7. /\ groups \in [GroupIds -> GroupType] /\ inCache \subseteq GroupIds /\ memberOf \in [Players -> Ids]
      /\ IdsGiven /\ DeletedFirst /\ FoundationsDiffer
  BY DEF IInv, TypeOK, CacheOK
<1>8. /\ pair \in Seq(MemberType) /\ Distinct(pair)
      /\ \A q : In(pair, q) <=> q = p \/ q = b
  BY <1>5, NewMemberType, PairMembers
<1> HIDE DEF pair
<1>9. groups' \in [GroupIds -> GroupType] /\ \A h \in GroupIds : groups'[h].members = IF h = g THEN pair ELSE groups[h].members
  <2>1. c \in ColumnsType
    BY <1>5, LedByPlayer
  <2> HIDE DEF c
  <2> DEFINE z == [columns |-> c, members |-> pair]
  <2>2. z \in GroupType /\ z.members = pair /\ groups' = [groups EXCEPT ![g] = z]
    BY <2>1, <1>1, <1>8 DEF GroupType
  <2> HIDE DEF z
  <2> QED BY <2>2, <1>7
<1>10. \A q \in Players : memberOf'[q] = IF q = p \/ q = b THEN g ELSE memberOf[q]
  <2>1. \A q \in Players : memberOf'[q] = IF In(pair, q) THEN g ELSE memberOf[q]
    BY <1>1 DEF Refreshed, In
  <2> QED BY <2>1, <1>8
<1>11. CacheOK' /\ \A q \in Players : memberOf'[q] < nextId'
  <2>1. g \in Ids
    BY <1>5, MaxGroupsAssumption DEF Ids, GroupIds
  <2>2. memberOf' \in [Players -> Ids]
    <3>1. \A q \in Players : memberOf'[q] \in Ids
      BY <2>1, <1>7, <1>10
    <3>2. memberOf' = [q \in Players |-> memberOf'[q]]
      BY <1>1 DEF Refreshed
    <3> QED BY <3>1, <3>2
  <2>3. CacheOK'
    BY <2>2, <1>1, <1>5, <1>7, <1>9 DEF CacheOK
  <2>4. \A q \in Players : memberOf'[q] < nextId'
    BY <1>2, <1>4, <1>7, <1>10 DEF IdsGiven
  <2> QED BY <2>3, <2>4
<1>12. CacheStep
  <2>1. \A h \in inCache' \cup disbanded' : h < nextId'
    BY <1>1, <1>2, <1>4, <1>7 DEF IdsGiven
  <2>2. disbanded' \cap dbGroups' = {}
    BY <1>1, <1>2, <1>7 DEF DeletedFirst
  <2> QED BY <2>1, <2>2, <1>11 DEF CacheStep
<1>13. ASSUME Undisturbed', Agreed PROVE Agreed'
  <2>1. /\ Mapped(groups, inCache, memberOf) /\ Listed(groups, inCache, memberOf)
        /\ ListedOnce(groups, inCache) /\ disbanded \cap inCache = {} /\ AllStable
    BY <1>13 DEF Agreed
  <2>2. memberOf[p] = 0 /\ memberOf[b] = 0
    BY <1>1, <1>13 DEF Undisturbed
  <2>3. g \notin inCache \cup disbanded
    BY <1>5, <2>1 DEF AllStable, Stable
  <2>4. groups'[g].members = pair /\ \A h \in inCache : h # 0 /\ h # g /\ groups'[h].members = groups[h].members
    BY <1>5, <1>7, <1>9, <2>3 DEF GroupIds
  <2>5. Mapped(groups', inCache', memberOf')
    <3> SUFFICES ASSUME NEW q \in Players, memberOf'[q] # 0
                 PROVE  memberOf'[q] \in inCache' /\ In(groups'[memberOf'[q]].members, q)
      BY DEF Mapped
    <3>1. CASE q = p \/ q = b
      BY <3>1, <1>1, <1>8, <1>10, <2>4
    <3>2. CASE q # p /\ q # b
      <4>1. memberOf'[q] = memberOf[q]
        BY <3>2, <1>10
      <4>2. memberOf[q] \in inCache /\ In(groups[memberOf[q]].members, q)
        BY <4>1, <2>1 DEF Mapped
      <4> QED BY <4>1, <4>2, <2>4, <1>1
    <3> QED BY <3>1, <3>2
  <2>6. Listed(groups', inCache', memberOf')
    <3> SUFFICES ASSUME NEW h \in inCache', NEW q \in Players, In(groups'[h].members, q)
                 PROVE  memberOf'[q] = h
      BY DEF Listed
    <3>1. CASE h = g
      BY <3>1, <1>8, <1>10, <2>4
    <3>2. CASE h # g
      <4>1. h \in inCache /\ In(groups[h].members, q)
        BY <3>2, <1>1, <2>4
      <4>2. memberOf[q] = h /\ q # p /\ q # b
        BY <4>1, <2>1, <2>2, <2>4 DEF Listed
      <4> QED BY <4>2, <1>10
    <3> QED BY <3>1, <3>2
  <2>7. ListedOnce(groups', inCache')
    BY <1>1, <1>8, <2>1, <2>4 DEF ListedOnce
  <2>8. disbanded' \cap inCache' = {}
    BY <1>1, <2>1, <2>3
  <2>9. \A u \in Threads \ {t} : Stable(thread[u], inCache', memberOf', disbanded')
    <3> SUFFICES ASSUME NEW u \in Threads \ {t} PROVE Stable(thread[u], inCache', memberOf', disbanded')
      OBVIOUS
    <3>1. Locking(thread[u]) => thread[u].gid # 0
      <4>1. Shape(thread[u])
        BY ThreadFacts
      <4> QED BY <4>1 DEF Shape, Locking, GroupIds
    <3>2. Locking(thread[u]) => \A q \in Players : memberOf[q] = thread[u].gid => memberOf'[q] = memberOf[q]
      BY <3>1, <2>2, <1>10
    <3>3. Stable(thread[u], inCache, memberOf, disbanded)
      BY <2>1 DEF AllStable
    <3>4. thread[u].pc \in Creating => thread[u].obj \notin inCache' \cup disbanded'
      <4>1. thread[u].pc \in Creating => thread[u].obj # g
        BY <1>5, <1>7 DEF FoundationsDiffer
      <4> QED BY <4>1, <3>3, <1>1 DEF Stable
    <3>5. Locking(thread[u]) => (thread[u].gid \in inCache => thread[u].gid \in inCache')
      BY <1>1
    <3> QED BY <3>2, <3>3, <3>4, <3>5, OthersLocked
  <2>10. AllStable'
    BY <2>9, <1>2, <1>6, AllStableAfter
  <2> QED BY <2>5, <2>6, <2>7, <2>8, <2>10 DEF Agreed
<1> QED BY <1>2, <1>3, <1>6, <1>12, <1>13, HandlerKeeps

\* Every step of a handler keeps the invariant.
LEMMA HandlerStepKeeps ==
  ASSUME IInv, NEW t \in Threads, HandlerStep(t)
  PROVE  IInv'
<1>1. CASE Resolve(t) \/ LockGroup(t)
  BY <1>1, ResolveKeeps, LockGroupKeeps
<1>2. CASE InviteBody(t) \/ UninviteBody(t) \/ LeaveBody(t)
  BY <1>2, InviteBodyKeeps, UninviteBodyKeeps, LeaveBodyKeeps
<1>3. CASE \/ ChangeLeaderBody(t) \/ ConvertToRaidBody(t) \/ SetLootMethodBody(t) \/ SetDifficultyBody(t)
           \/ TargetIconBody(t)
  BY <1>3, ChangeLeaderBodyKeeps, ConvertToRaidBodyKeeps, SetLootMethodBodyKeeps, SetDifficultyBodyKeeps,
     TargetIconBodyKeeps
<1>4. CASE AddInvite(t) \/ UpdateRow(t) \/ UpdateCache(t)
  BY <1>4, AddInviteKeeps, UpdateRowKeeps, UpdateCacheKeeps
<1>5. CASE RemoveRow(t) \/ RemoveLookup(t) \/ RemoveCache(t)
  BY <1>5, RemoveRowKeeps, RemoveLookupKeeps, RemoveCacheKeeps
<1>6. CASE DeleteMemberRows(t) \/ DeleteGroupRow(t) \/ DeleteCache(t)
  BY <1>6, DeleteMemberRowsKeeps, DeleteGroupRowKeeps, DeleteCacheKeeps
<1>7. CASE LockInvite(t) \/ AddRow(t) \/ AddCache(t)
  BY <1>7, LockInviteKeeps, AddRowKeeps, AddCacheKeeps
<1>8. CASE CreateRow(t) \/ CreateInviter(t) \/ CreateInvited(t) \/ CreateCache(t) \/ BindGroup(t)
  BY <1>8, CreateRowKeeps, CreateInviterKeeps, CreateInvitedKeeps, CreateCacheKeeps, BindGroupKeeps
<1> QED BY <1>1, <1>2, <1>3, <1>4, <1>5, <1>6, <1>7, <1>8 DEF HandlerStep

-----------------------------------------------------------------------------
(* The callbacks of the login events. *)

\* A callback changes nobody's list, and nothing that a handler relies on.
LEMMA CallbackKeeps ==
  ASSUME IInv, EventStep, UNCHANGED <<inCache, memberOf, dbVars, lock, thread, historyVars>>,
         groups' \in [GroupIds -> GroupType],
         \A g \in GroupIds, p \in Players : In(groups'[g].members, p) <=> In(groups[g].members, p),
         \A g \in GroupIds : Distinct(groups[g].members) => Distinct(groups'[g].members)
  PROVE  IInv'
<1>1. UNCHANGED <<dbGroups, dbColumns, dbMember, dbInvites, nextId, disbanded, mishaps>>
  BY DEF dbVars, historyVars
<1>2. TypeOK /\ IdsGiven /\ FoundationsDiffer /\ DeletedFirst /\ LocksHeld /\ (Undisturbed => Agreed)
  BY DEF IInv
<1>3. TypeOK'
  <2>1. CacheOK' /\ DBOK' /\ ThreadsOK' /\ HistoryOK'
    BY <1>1, <1>2 DEF TypeOK, CacheOK, DBOK, ThreadsOK, HistoryOK
  <2>2. Shapes' /\ InviteShape'
    BY <1>1, <1>2 DEF TypeOK, Shapes, InviteShape
  <2> QED BY <2>1, <2>2 DEF TypeOK, EventStep
<1>4. IdsGiven'
  BY <1>1, <1>2 DEF IdsGiven
<1>5. FoundationsDiffer' /\ DeletedFirst' /\ LocksHeld'
  BY <1>1, <1>2 DEF FoundationsDiffer, DeletedFirst, LocksHeld
<1>6. Undisturbed' => Agreed
  BY <1>1, <1>2 DEF Undisturbed
<1>7. ASSUME Agreed PROVE Agreed'
  <2>1. /\ Mapped(groups, inCache, memberOf) /\ Listed(groups, inCache, memberOf)
        /\ ListedOnce(groups, inCache) /\ disbanded \cap inCache = {} /\ AllStable /\ inCache \subseteq GroupIds
    BY <1>2, <1>7 DEF Agreed, TypeOK, CacheOK
  <2>2. Mapped(groups', inCache', memberOf')
    BY <2>1 DEF Mapped
  <2>3. Listed(groups', inCache', memberOf')
    BY <2>1 DEF Listed
  <2>4. ListedOnce(groups', inCache')
    BY <2>1 DEF ListedOnce
  <2>5. AllStable'
    BY <2>1, <1>1 DEF AllStable
  <2> QED BY <2>1, <2>2, <2>3, <2>4, <2>5, <1>1 DEF Agreed
<1> QED BY <1>3, <1>4, <1>5, <1>6, <1>7 DEF IInv

\* The same when the cache is only read.
LEMMA EventKeeps ==
  ASSUME IInv, EventStep, UNCHANGED <<cacheVars, dbVars, lock, thread, historyVars>>
  PROVE  IInv'
<1>1. UNCHANGED <<groups, inCache, memberOf>>
  BY DEF cacheVars
<1>2. groups' \in [GroupIds -> GroupType]
  BY <1>1 DEF IInv, TypeOK, CacheOK
<1> QED BY <1>1, <1>2, CallbackKeeps

\* An event begins at both callbacks.
LEMMA LookupEvent ==
  ASSUME NEW p \in Players
  PROVE  LET e == [NoEvent EXCEPT !.pc = "lookup", !.player = p]
         IN  e \in EventType /\ e.pc = "lookup" /\ e.player = p
<1> DEFINE n == NoEvent
<1>1. n \in EventType
  BY FreshValues
<1> HIDE DEF n
<1>2. LET e == [n EXCEPT !.pc = "lookup", !.player = p] IN e \in EventType /\ e.pc = "lookup" /\ e.player = p
  BY <1>1 DEF EventType, PlayerOrNobody
<1> QED BY <1>2 DEF n

\* An event hands its player to both callbacks.
LEMMA PublishLoginKeeps ==
  ASSUME IInv, NEW p \in Players, NEW v \in BOOLEAN, PublishLogin(p, v)
  PROVE  IInv'
<1> DEFINE e == [NoEvent EXCEPT !.pc = "lookup", !.player = p]
<1>1. /\ connected' = [connected EXCEPT ![p] = v] /\ listener' = [listener EXCEPT ![v] = e] /\ announcer' = e
      /\ UNCHANGED <<cacheVars, dbVars, lock, thread, historyVars>>
  BY DEF PublishLogin
<1>2. e \in EventType /\ e.pc = "lookup" /\ e.player = p
  BY LookupEvent
<1> HIDE DEF e
<1>3. EventsOK /\ EventShape
  BY DEF IInv, TypeOK
<1>4. EventsOK'
  BY <1>1, <1>2, <1>3 DEF EventsOK
<1>5. EventShape'
  BY <1>1, <1>2, <1>3 DEF EventShape, EventsOK
<1> QED BY <1>1, <1>4, <1>5, EventKeeps DEF EventStep

\* The last slot of a player is one of the slots.
LEMMA LastSlotType ==
  ASSUME IInv, NEW g \in GroupIds, NEW p, IsMember(g, p)
  PROVE  LastSlot(g, p) \in Nat
<1> DEFINE k == Len(groups[g].members)
           S == Indices(g, p)
           T == {k - i : i \in S}
<1>1. k \in Nat /\ DOMAIN groups[g].members = 1..k
  BY ColumnsFacts, LenProperties
<1>2. S \subseteq 1..k /\ S # {}
  BY <1>1 DEF Indices, IsMember
<1> HIDE DEF S, k
<1>3. \A i \in S : i \in Int /\ k - i \in Nat
  BY <1>1, <1>2
<1>4. T \in SUBSET Nat /\ T # {}
  BY <1>2, <1>3
<1>5. PICK n \in T : \A j \in T : n <= j
  BY <1>4, LeastNat
<1>6. PICK i \in S : n = k - i
  BY <1>5
<1>7. \A j \in S : j <= i
  <2> TAKE j \in S
  <2>1. k - i <= k - j
    BY <1>5, <1>6
  <2> QED BY <2>1, <1>1, <1>3
<1>8. LastSlot(g, p) \in S
  BY <1>7 DEF LastSlot, S
<1>9. LastSlot(g, p) \in 1..k
  BY <1>2, <1>8
<1> QED BY <1>1, <1>9

\* The cache callback takes a slot of the group it finds the player in.
LEMMA ListenerLookupKeeps ==
  ASSUME IInv, NEW v \in BOOLEAN, ListenerLookup(v)
  PROVE  IInv'
<1> DEFINE e == listener[v]
           p == e.player
           g == memberOf[p]
           w == [e EXCEPT !.pc = "write", !.gid = g, !.slot = LastSlot(g, p)]
<1>1. e.pc = "lookup" /\ UNCHANGED <<cacheVars, dbVars, lock, thread, connected, announcer, historyVars>>
  BY DEF ListenerLookup
<1>2. EventsOK /\ EventShape /\ e \in EventType
  BY DEF IInv, TypeOK, EventsOK
<1>3. p \in Players
  BY <1>1, <1>2 DEF EventShape
<1>4. CASE listener' = [listener EXCEPT ![v] = NoEvent]
  <2>1. EventsOK'
    BY <1>1, <1>2, <1>4, FreshValues DEF EventsOK
  <2>2. EventShape'
    BY <1>1, <1>2, <1>4, FreshValues DEF EventShape, EventsOK
  <2> QED BY <2>1, <2>2, <1>1, EventKeeps DEF EventStep
<1>5. CASE g # 0 /\ IsMember(g, p) /\ listener' = [listener EXCEPT ![v] = w]
  <2>1. g \in GroupIds /\ g \in Ids /\ LastSlot(g, p) \in Nat
    BY <1>3, <1>5, MemberOfFacts, LastSlotType
  <2>2. w \in EventType /\ w.pc = "write" /\ w.player = p /\ w.gid = g
    <3> DEFINE n == LastSlot(g, p)
    <3>1. n \in Nat
      BY <2>1
    <3> HIDE DEF e, g, n
    <3> QED BY <3>1, <2>1, <1>2 DEF EventType, n
  <2> HIDE DEF w
  <2>3. EventsOK'
    BY <2>2, <1>1, <1>2, <1>5 DEF EventsOK
  <2>4. EventShape'
    BY <2>1, <2>2, <1>1, <1>2, <1>3, <1>5 DEF EventShape, EventsOK
  <2> QED BY <2>3, <2>4, <1>1, EventKeeps DEF EventStep
<1> QED BY <1>4, <1>5 DEF ListenerLookup

\* A flag of a listed member is written; the list stays.
LEMMA OnlineWritten ==
  ASSUME NEW m \in Seq(MemberType), NEW i \in DOMAIN m, NEW z \in MemberType, z.guid = m[i].guid,
         NEW w, w = [m EXCEPT ![i] = z]
  PROVE  /\ w \in Seq(MemberType)
         /\ \A p : In(w, p) <=> In(m, p)
         /\ Distinct(m) => Distinct(w)
<1>1. DOMAIN m = 1..Len(m)
  BY LenProperties
<1>2. w \in Seq(MemberType) /\ Len(w) = Len(m) /\ \A j \in 1..Len(m) : w[j] = IF j = i THEN z ELSE m[j]
  BY <1>1, ExceptSeq
<1>3. DOMAIN w = DOMAIN m /\ \A j \in DOMAIN m : w[j].guid = m[j].guid
  BY <1>1, <1>2, LenProperties
<1> QED BY <1>2, <1>3 DEF In, Distinct

\* The late write of IsOnline keeps the guids of the members.
LEMMA ListenerWriteKeeps ==
  ASSUME IInv, NEW v \in BOOLEAN, ListenerWrite(v)
  PROVE  IInv'
<1> DEFINE e == listener[v]
           g == e.gid
           m == groups[g].members
           w == [m EXCEPT ![e.slot].online = v]
<1>1. /\ e.pc = "write" /\ listener' = [listener EXCEPT ![v] = NoEvent]
      /\ UNCHANGED <<inCache, memberOf, dbVars, lock, thread, connected, announcer, historyVars>>
  BY DEF ListenerWrite
<1>2. EventsOK /\ EventShape /\ groups \in [GroupIds -> GroupType]
  BY DEF IInv, TypeOK, CacheOK
<1>3. g \in GroupIds
  BY <1>1, <1>2 DEF EventShape
<1>4. EventStep
  <2>1. EventsOK'
    BY <1>1, <1>2, FreshValues DEF EventsOK
  <2>2. EventShape'
    BY <1>1, <1>2, FreshValues DEF EventShape, EventsOK
  <2> QED BY <2>1, <2>2 DEF EventStep
<1>5. CASE UNCHANGED groups
  BY <1>1, <1>2, <1>4, <1>5, CallbackKeeps
<1>6. CASE e.slot \in DOMAIN m /\ groups' = [groups EXCEPT ![g].members[e.slot].online = v]
  <2>1. m \in Seq(MemberType) /\ groups[g] \in GroupType
    BY <1>3, ColumnsFacts
  <2>2. w \in Seq(MemberType) /\ (\A p : In(w, p) <=> In(m, p)) /\ (Distinct(m) => Distinct(w))
    <3> DEFINE i == e.slot
               x == m[i]
               o == [x EXCEPT !.online = v]
    <3>1. i \in DOMAIN m /\ w = [m EXCEPT ![i] = o]
      BY <1>6
    <3>2. x \in MemberType
      <4> HIDE DEF i
      <4> QED BY <2>1, <3>1, LenProperties, ElementOfSeq
    <3> HIDE DEF w, m, i, x
    <3>3. o \in MemberType /\ o.guid = x.guid
      BY <3>2 DEF MemberType
    <3>4. o.guid = m[i].guid
      BY <3>3 DEF x
    <3> HIDE DEF o
    <3> QED BY <3>1, <3>3, <3>4, <2>1, OnlineWritten
  <2> DEFINE y == groups[g]
             z == [y EXCEPT !.members = w]
  <2>3. groups' = [groups EXCEPT ![g] = z]
    BY <1>6
  <2> HIDE DEF w
  <2>4. z \in GroupType /\ z.members = w
    <3>1. y \in GroupType
      BY <2>1
    <3> HIDE DEF y
    <3> QED BY <3>1, <2>2 DEF GroupType
  <2> HIDE DEF z
  <2>5. groups' \in [GroupIds -> GroupType]
    BY <2>3, <2>4, <1>2
  <2>6. \A h \in GroupIds : groups'[h].members = IF h = g THEN w ELSE groups[h].members
    BY <2>3, <2>4, <1>2
  <2>7. \A h \in GroupIds, p \in Players : In(groups'[h].members, p) <=> In(groups[h].members, p)
    BY <2>2, <2>6
  <2>8. \A h \in GroupIds : Distinct(groups[h].members) => Distinct(groups'[h].members)
    BY <2>2, <2>6
  <2> QED BY <2>5, <2>7, <2>8, <1>1, <1>4, CallbackKeeps
<1> QED BY <1>5, <1>6 DEF ListenerWrite

\* The service callback reads the group id of the player.
LEMMA AnnouncerLookupKeeps ==
  ASSUME IInv, AnnouncerLookup
  PROVE  IInv'
<1> DEFINE e == announcer
           g == memberOf[e.player]
           w == [e EXCEPT !.pc = "read", !.gid = g]
<1>1. e.pc = "lookup" /\ UNCHANGED <<cacheVars, dbVars, lock, thread, connected, listener, historyVars>>
  BY DEF AnnouncerLookup
<1>2. EventsOK /\ EventShape /\ e \in EventType
  BY DEF IInv, TypeOK, EventsOK
<1>3. e.player \in Players
  BY <1>1, <1>2 DEF EventShape
<1>4. CASE announcer' = NoEvent
  <2>1. EventsOK' /\ EventShape'
    BY <1>1, <1>2, <1>4, FreshValues DEF EventsOK, EventShape
  <2> QED BY <2>1, <1>1, EventKeeps DEF EventStep
<1>5. CASE announcer' = w
  <2>1. g \in Ids
    BY <1>3, MemberOfFacts
  <2>2. w \in EventType /\ w.player = e.player
    <3> HIDE DEF e, g
    <3> QED BY <2>1, <1>2 DEF EventType
  <2> HIDE DEF w
  <2>3. EventsOK' /\ EventShape'
    BY <2>2, <1>1, <1>2, <1>3, <1>5 DEF EventsOK, EventShape
  <2> QED BY <2>3, <1>1, EventKeeps DEF EventStep
<1> QED BY <1>4, <1>5 DEF AnnouncerLookup

\* The service callback only reads the group.
LEMMA AnnouncerReadKeeps ==
  ASSUME IInv, AnnouncerRead
  PROVE  IInv'
<1>1. announcer' = NoEvent /\ UNCHANGED <<cacheVars, dbVars, lock, thread, connected, listener, historyVars>>
  BY DEF AnnouncerRead
<1>2. EventsOK /\ EventShape
  BY DEF IInv, TypeOK
<1>3. EventsOK' /\ EventShape'
  BY <1>1, <1>2, FreshValues DEF EventsOK, EventShape
<1> QED BY <1>1, <1>3, EventKeeps DEF EventStep

-----------------------------------------------------------------------------
(* The service. *)

\* Every step of the service keeps the invariant.
LEMMA NextKeeps ==
  ASSUME IInv, Next
  PROVE  IInv'
<1>1. ASSUME NEW t \in Threads, NEW op \in Ops, NEW p \in Players, NEW q \in Players, CallOnGroup(t, op, p, q)
      PROVE  IInv'
  BY <1>1, CallOnGroupKeeps
<1>2. ASSUME NEW t \in Threads, NEW p \in Players, NEW q \in Players, CallInvite(t, p, q) PROVE IInv'
  BY <1>2, CallInviteKeeps
<1>3. ASSUME NEW t \in Threads, NEW p \in Players, CallAcceptInvite(t, p) PROVE IInv'
  BY <1>3, CallAcceptInviteKeeps
<1>4. ASSUME NEW t \in Threads, HandlerStep(t) PROVE IInv'
  BY <1>4, HandlerStepKeeps
<1>5. ASSUME NEW t \in Threads, DBError(t) PROVE IInv'
  BY <1>5, DBErrorKeeps
<1>6. ASSUME NEW order \in RowOrders, Panic(order) PROVE IInv'
  BY <1>6, WarmupKeeps DEF Panic
<1>7. CASE HandlerPanic
  BY <1>6, <1>7 DEF HandlerPanic
<1>8. CASE Crash
  BY <1>8, WarmupKeeps DEF Crash
<1>9. ASSUME NEW p \in Players, NEW v \in BOOLEAN, PublishLogin(p, v) PROVE IInv'
  BY <1>9, PublishLoginKeeps
<1>10. ASSUME NEW v \in BOOLEAN, ListenerLookup(v) \/ ListenerWrite(v) PROVE IInv'
  BY <1>10, ListenerLookupKeeps, ListenerWriteKeeps
<1>11. CASE AnnouncerLookup \/ AnnouncerRead
  BY <1>11, AnnouncerLookupKeeps, AnnouncerReadKeeps
<1>12. CASE AnnouncerPanic
  BY <1>6, <1>12 DEF AnnouncerPanic
<1> QED BY <1>1, <1>2, <1>3, <1>4, <1>5, <1>7, <1>8, <1>9, <1>10, <1>11, <1>12 DEF Next

\* A step that changes nothing.
LEMMA StutterKeeps ==
  ASSUME IInv, UNCHANGED vars
  PROVE  IInv'
<1>1. UNCHANGED <<cacheVars, dbVars, lock, thread, eventVars, historyVars>>
  BY DEF vars
<1>2. EventStep
  BY <1>1, EventUnchanged
<1> QED BY <1>1, <1>2, EventKeeps

\* The inductive invariant holds in every reachable state.
THEOREM Inductive == Spec => []IInv
<1>1. Init => IInv
  BY InitKeeps
<1>2. IInv /\ [Next]_vars => IInv'
  BY NextKeeps, StutterKeeps
<1> QED BY <1>1, <1>2, PTL DEF Spec

\* Every reachable state has the types the Go declarations give it, and every
\* handler has, at each of its steps, the ids and players that the step reads.
THEOREM TypeCorrect == Spec => []TypeOK
<1>1. IInv => TypeOK
  BY DEF IInv
<1> QED BY <1>1, Inductive, PTL

\* A handler that reads or changes a cached group holds the mutex of that
\* group, from the check to the return (lockGroupOfPlayer and lock), except in
\* the rollback of a foundation.
THEOREM HandlersHoldTheLock == Spec => []LocksHeld
<1>1. IInv => LocksHeld
  BY DEF IInv
<1> QED BY <1>1, Inductive, PTL

\* A player the service finds in a group is a member of that cached group.
THEOREM PlayersAreMembers == Spec => []MappedPlayersAreMembers
<1>1. IInv => MappedPlayersAreMembers
  BY IsMemberIn DEF IInv, Agreed, Mapped, MappedPlayersAreMembers
<1> QED BY <1>1, Inductive, PTL

\* A member of a cached group is found in it, and is listed once.
THEOREM MembersAreFound == Spec => []MembersAreMapped
<1>1. IInv => MembersAreMapped
  <2> SUFFICES ASSUME IInv, Undisturbed, NEW g \in inCache, NEW i \in DOMAIN groups[g].members
               PROVE  /\ memberOf[groups[g].members[i].guid] = g
                      /\ Cardinality(Indices(g, groups[g].members[i].guid)) = 1
    BY DEF MembersAreMapped
  <2> DEFINE m == groups[g].members
             p == m[i].guid
  <2>1. Listed(groups, inCache, memberOf) /\ Distinct(m) /\ g \in GroupIds
    BY DEF IInv, Agreed, ListedOnce, TypeOK, CacheOK
  <2>2. p \in Players
    <3>1. m \in Seq(MemberType)
      BY <2>1, ColumnsFacts
    <3> HIDE DEF m
    <3>2. m[i] \in MemberType
      BY <3>1, LenProperties, ElementOfSeq DEF m
    <3> QED BY <3>2 DEF MemberType
  <2>3. memberOf[p] = g
    BY <2>1, <2>2 DEF Listed, In
  <2>4. Indices(g, p) = {i}
    BY <2>1 DEF Indices, Distinct
  <2>5. Cardinality(Indices(g, p)) = 1
    BY <2>4, FS_Singleton
  <2> QED BY <2>3, <2>5
<1> QED BY <1>1, Inductive, PTL

\* A group that was deleted from the cache stays deleted.
THEOREM NothingComesBack == Spec => []DisbandedStaysGone
<1>1. IInv => DisbandedStaysGone
  BY DEF IInv, Agreed, DisbandedStaysGone
<1> QED BY <1>1, Inductive, PTL

-----------------------------------------------------------------------------
(* The inductive invariant. *)

\* No statement has failed, and of the mishaps only a foundation was left unfinished.
Quiet == dbErrors = 0 /\ mishaps \subseteq {"leftUnfinished"}

\* Groups that are being deleted, or founded.
Doomed(g) == \E t \in Threads : thread[t].pc \in Deleting /\ thread[t].obj = g
DoomedGroups == {g \in GroupIds : Doomed(g)}
Founding(g) == \E t \in Threads : thread[t].pc \in Creating /\ thread[t].obj = g

\* No member row names a group before AUTO_INCREMENT gives its id, and a group
\* that is deleted was in the cache.
RowsGiven == \A p \in Players : dbMember[p].gid < nextId
DeletedWereCached ==
    \A t \in Threads : thread[t].pc \in Deleting \cup {"bind"} => thread[t].obj \in inCache \cup disbanded
Counted == dbErrors \in Nat /\ refusals \in Nat
Grounds == RowsGiven /\ DeletedWereCached /\ Counted

\* Where a cached group and its rows differ, the handler that made the
\* difference is between its two writes.
RowPending(g, p) ==
    \E t \in Threads : thread[t].pc \in {"removeLookup", "removeCache"} /\ thread[t].gid = g /\ thread[t].target = p
EntryPending(g, p) == \E t \in Threads : thread[t].pc = "addCache" /\ thread[t].gid = g /\ thread[t].player = p
ColumnsPending(g) == \E t \in Threads : thread[t].pc = "update" /\ thread[t].obj = g
Mirrored(g) ==
    /\ g \in dbGroups
    /\ \A p \in Players : In(groups[g].members, p) => dbMember[p].gid = g \/ RowPending(g, p)
    /\ \A p \in Players : dbMember[p].gid = g => In(groups[g].members, p) \/ EntryPending(g, p)
    /\ groups[g].columns = dbColumns[g] \/ ColumnsPending(g)
AllMirrored == \A g \in inCache : Doomed(g) \/ Mirrored(g)
AllCached == mishaps = {} => \A g \in dbGroups \ inCache : Founding(g)

\* What a handler has done to the rows and the leader of its group.
Founded(r, rows, stored, columns) ==
    /\ r.obj \in stored /\ columns[r.obj] = [NoColumns EXCEPT !.leader = r.target]
    /\ \A p \in Players :
          rows[p].gid = r.obj <=> \/ p = r.target /\ r.pc \in {"createInvited", "createCache"}
                                  \/ p = r.player /\ r.pc = "createCache"
Done(r, doomed, lists, rows, stored, columns) ==
    /\ r.pc \in {"removeLookup", "removeCache"} => rows[r.target].gid # r.gid
    /\ r.pc \in Removing \/ (r.pc \in {"update", "updateCache"} /\ r.op = "Leave") =>
          lists[r.gid].columns.leader # r.target
    /\ r.pc \in {"addRow", "addCache"} => lists[r.gid].members # <<>>
    /\ r.pc = "addCache" => rows[r.player].gid = r.gid \/ r.gid \in doomed
    /\ r.pc \in Creating => Founded(r, rows, stored, columns)
DoneNow(r) == Done(r, DoomedGroups, groups, dbMember, dbGroups, dbColumns)
DoneNext(r) == Done(r, DoomedGroups', groups', dbMember', dbGroups', dbColumns')
AllDone == \A t \in Threads : DoneNow(thread[t])
Mirrors == AllMirrored /\ AllCached /\ AllDone

\* Leaders, as long as no binding was refused.
HasLeader(g) ==
    \/ \A p \in Players : ~In(groups[g].members, p)
    \/ groups[g].columns.leader = NoPlayer
    \/ In(groups[g].members, groups[g].columns.leader)
HasStoredLeader(g) ==
    \/ \A p \in Players : dbMember[p].gid # g
    \/ dbColumns[g].leader = NoPlayer
    \/ dbMember[dbColumns[g].leader].gid = g
NoRollback == \A t \in Threads : thread[t].pc \in Deleting => thread[t].op # "AcceptInvite"
Leaders == (\A g \in inCache : HasLeader(g)) /\ (\A g \in dbGroups : HasStoredLeader(g)) /\ NoRollback

QInv ==
    /\ Grounds
    /\ Quiet => Mirrors
    /\ Quiet /\ refusals = 0 => Leaders

-----------------------------------------------------------------------------
(* What a step leaves alone. *)

\* The step changes nothing of the group g.
Same(g) ==
    /\ \A p \in Players : In(groups'[g].members, p) <=> In(groups[g].members, p)
    /\ groups'[g].members = <<>> <=> groups[g].members = <<>>
    /\ groups'[g].columns = groups[g].columns /\ dbColumns'[g] = dbColumns[g]
    /\ (g \in inCache' <=> g \in inCache) /\ (g \in dbGroups' <=> g \in dbGroups)
    /\ \A p \in Players : dbMember'[p].gid = g <=> dbMember[p].gid = g

\* Of all groups the handler t has only h in a state of its own making, and u has not.
Touches(t, h) ==
    /\ thread[t].pc \in {"removeLookup", "removeCache", "addCache"} => thread[t].gid = h
    /\ thread[t].pc \in Creating \cup Deleting \cup {"update"} => thread[t].obj = h
Apart(u, h) == (Locking(thread[u]) => thread[u].gid # h) /\ (thread[u].pc \in Creating => thread[u].obj # h)

\* A record of a thread that continues.
Becomes(t, r) == thread' = [thread EXCEPT ![t] = r]

\* A step of one handler leaves the records of the others.
LEMMA OthersStay ==
  ASSUME IInv, NEW t \in Threads, NEW r, Becomes(t, r)
  PROVE  thread'[t] = r /\ \A u \in Threads \ {t} : thread'[u] = thread[u]
BY DEF IInv, TypeOK, ThreadsOK, Becomes

\* What a handler has done to another group stays done.
LEMMA DoneApart ==
  ASSUME IInv, NEW u \in Threads, NEW h, Apart(u, h), \A g \in GroupIds \ {h} : Same(g), DoneNow(thread[u]),
         \A g \in DoomedGroups \ {h} : g \in DoomedGroups'
  PROVE  DoneNext(thread[u])
<1> DEFINE x == thread[u]
<1>1. x \in ThreadType /\ Shape(x) /\ Apart(u, h) /\ DoneNow(x)
  BY ThreadFacts
<1>2. (Locking(x) => x.gid \in GroupIds \ {h}) /\ (x.pc \in Creating => x.obj \in GroupIds \ {h})
  BY <1>1 DEF Apart, Shape, Locking
<1>3. x.pc # "idle" => x.player \in Players /\ x.target \in Players
  BY <1>1 DEF Shape
<1> HIDE DEF x
<1>4. x.pc \in {"removeLookup", "removeCache"} => dbMember'[x.target].gid # x.gid
  <2> SUFFICES ASSUME x.pc \in {"removeLookup", "removeCache"} PROVE dbMember'[x.target].gid # x.gid
    OBVIOUS
  <2>1. Locking(x) /\ dbMember[x.target].gid # x.gid /\ x.target \in Players
    BY <1>1, <1>3 DEF Locking, Removing, Done, DoneNow
  <2> QED BY <2>1, <1>2 DEF Same
<1>5. x.pc \in Removing \/ (x.pc \in {"update", "updateCache"} /\ x.op = "Leave") => groups'[x.gid].columns.leader # x.target
  <2> SUFFICES ASSUME x.pc \in Removing \/ (x.pc \in {"update", "updateCache"} /\ x.op = "Leave")
               PROVE  groups'[x.gid].columns.leader # x.target
    OBVIOUS
  <2>1. Locking(x)
    BY DEF Locking
  <2>2. groups[x.gid].columns.leader # x.target
    BY <1>1 DEF Done, DoneNow
  <2>3. groups'[x.gid].columns = groups[x.gid].columns
    BY <2>1, <1>2 DEF Same
  <2> QED BY <2>2, <2>3
<1>6. x.pc \in {"addRow", "addCache"} => groups'[x.gid].members # <<>>
  <2> SUFFICES ASSUME x.pc \in {"addRow", "addCache"} PROVE groups'[x.gid].members # <<>>
    OBVIOUS
  <2>1. Locking(x)
    BY DEF Locking
  <2>2. groups[x.gid].members # <<>>
    BY <1>1 DEF Done, DoneNow
  <2> QED BY <2>1, <2>2, <1>2 DEF Same
<1>7. x.pc = "addCache" => dbMember'[x.player].gid = x.gid \/ x.gid \in DoomedGroups'
  <2> SUFFICES ASSUME x.pc = "addCache" PROVE dbMember'[x.player].gid = x.gid \/ x.gid \in DoomedGroups'
    OBVIOUS
  <2>1. Locking(x) /\ x.player \in Players
    BY <1>3 DEF Locking
  <2>2. dbMember[x.player].gid = x.gid \/ x.gid \in DoomedGroups
    BY <1>1 DEF Done, DoneNow
  <2> QED BY <2>1, <2>2, <1>2 DEF Same
<1>8. x.pc \in Creating => Founded(x, dbMember', dbGroups', dbColumns')
  <2> SUFFICES ASSUME x.pc \in Creating PROVE Founded(x, dbMember', dbGroups', dbColumns')
    OBVIOUS
  <2>1. Founded(x, dbMember, dbGroups, dbColumns) /\ Same(x.obj)
    BY <1>1, <1>2 DEF Done, DoneNow
  <2> QED BY <2>1 DEF Founded, Same
<1>9. DoneNext(x)
  BY <1>4, <1>5, <1>6, <1>7, <1>8 DEF DoneNext, Done
<1> QED BY <1>9 DEF x

\* A step of t on the group h keeps the mirrors when it keeps that of h.
LEMMA MirrorsKeep ==
  ASSUME IInv, NEW t \in Threads, NEW r, Becomes(t, r), NEW h, Touches(t, h), Mirrors, mishaps \subseteq mishaps',
         \A g \in GroupIds \ {h} : Same(g), inCache' \subseteq GroupIds, dbGroups' \subseteq GroupIds,
         \A u \in Threads \ {t} : Apart(u, h) \/ DoneNext(thread[u]),
         DoneNext(r),
         h \in inCache' => Doomed(h)' \/ Mirrored(h)',
         mishaps' = {} /\ h \in dbGroups' \ inCache' => Founding(h)'
  PROVE  Mirrors'
<1>1. thread'[t] = r /\ \A u \in Threads \ {t} : thread'[u] = thread[u]
  BY OthersStay
<1>2. AllMirrored /\ AllCached /\ AllDone
  BY DEF Mirrors
<1>3. \A g \in GroupIds \ {h} : Doomed(g) => Doomed(g)'
  <2> SUFFICES ASSUME NEW g \in GroupIds \ {h}, NEW u \in Threads, thread[u].pc \in Deleting, thread[u].obj = g
               PROVE  \E w \in Threads : thread'[w].pc \in Deleting /\ thread'[w].obj = g
    BY DEF Doomed
  <2>1. u # t
    BY DEF Touches
  <2> QED BY <2>1, <1>1
<1>4. \A g \in DoomedGroups \ {h} : g \in DoomedGroups'
  BY <1>3 DEF DoomedGroups
<1>5. ASSUME NEW g \in GroupIds \ {h}
      PROVE  /\ \A p \in Players : RowPending(g, p) => RowPending(g, p)'
             /\ \A p \in Players : EntryPending(g, p) => EntryPending(g, p)'
             /\ ColumnsPending(g) => ColumnsPending(g)'
             /\ Founding(g) => Founding(g)'
  <2>1. ASSUME NEW p \in Players, RowPending(g, p) PROVE RowPending(g, p)'
    <3>1. PICK u \in Threads : /\ thread[u].pc \in {"removeLookup", "removeCache"}
                               /\ thread[u].gid = g /\ thread[u].target = p
      BY <2>1 DEF RowPending
    <3>2. u # t
      BY <3>1 DEF Touches
    <3>3. thread'[u] = thread[u]
      BY <3>2, <1>1
    <3> QED BY <3>1, <3>3 DEF RowPending
  <2>2. ASSUME NEW p \in Players, EntryPending(g, p) PROVE EntryPending(g, p)'
    <3>1. PICK u \in Threads : thread[u].pc = "addCache" /\ thread[u].gid = g /\ thread[u].player = p
      BY <2>2 DEF EntryPending
    <3>2. u # t
      BY <3>1 DEF Touches
    <3>3. thread'[u] = thread[u]
      BY <3>2, <1>1
    <3> QED BY <3>1, <3>3 DEF EntryPending
  <2>3. ASSUME ColumnsPending(g) PROVE ColumnsPending(g)'
    <3>1. PICK u \in Threads : thread[u].pc = "update" /\ thread[u].obj = g
      BY <2>3 DEF ColumnsPending
    <3>2. u # t
      BY <3>1 DEF Touches
    <3>3. thread'[u] = thread[u]
      BY <3>2, <1>1
    <3> QED BY <3>1, <3>3 DEF ColumnsPending
  <2>4. ASSUME Founding(g) PROVE Founding(g)'
    <3>1. PICK u \in Threads : thread[u].pc \in Creating /\ thread[u].obj = g
      BY <2>4 DEF Founding
    <3>2. u # t
      BY <3>1 DEF Touches
    <3>3. thread'[u] = thread[u]
      BY <3>2, <1>1
    <3> QED BY <3>1, <3>3 DEF Founding
  <2> QED BY <2>1, <2>2, <2>3, <2>4
<1>6. AllMirrored'
  <2> SUFFICES ASSUME NEW g \in inCache' PROVE Doomed(g)' \/ Mirrored(g)'
    BY DEF AllMirrored
  <2>1. CASE g = h
    BY <2>1
  <2>2. CASE g # h
    <3>1. g \in GroupIds \ {h} /\ Same(g)
      BY <2>2
    <3>2. Doomed(g) \/ Mirrored(g)
      BY <3>1, <1>2 DEF AllMirrored, Same
    <3>3. ASSUME Mirrored(g) PROVE Mirrored(g)'
      <4>1. g \in dbGroups'
        BY <3>1, <3>3 DEF Same, Mirrored
      <4>2. \A p \in Players : In(groups'[g].members, p) => dbMember'[p].gid = g \/ RowPending(g, p)'
        BY <3>1, <3>3, <1>5 DEF Same, Mirrored
      <4>3. \A p \in Players : dbMember'[p].gid = g => In(groups'[g].members, p) \/ EntryPending(g, p)'
        BY <3>1, <3>3, <1>5 DEF Same, Mirrored
      <4>4. groups'[g].columns = dbColumns'[g] \/ ColumnsPending(g)'
        BY <3>1, <3>3, <1>5 DEF Same, Mirrored
      <4> QED BY <4>1, <4>2, <4>3, <4>4 DEF Mirrored
    <3> QED BY <3>1, <3>2, <3>3, <1>3
  <2> QED BY <2>1, <2>2
<1>7. AllCached'
  <2> SUFFICES ASSUME mishaps' = {}, NEW g \in dbGroups', g \notin inCache' PROVE Founding(g)'
    BY DEF AllCached
  <2>1. CASE g = h
    BY <2>1
  <2>2. CASE g # h
    <3>1. g \in GroupIds \ {h} /\ g \in dbGroups \ inCache
      BY <2>2 DEF Same
    <3>2. mishaps = {}
      OBVIOUS
    <3>3. Founding(g)
      BY <3>1, <3>2, <1>2 DEF AllCached
    <3> QED BY <3>1, <3>3, <1>5
  <2> QED BY <2>1, <2>2
<1>8. AllDone'
  <2> SUFFICES ASSUME NEW u \in Threads PROVE DoneNext(thread'[u])
    BY DEF AllDone, DoneNow, DoneNext
  <2>1. CASE u = t
    BY <2>1, <1>1
  <2>2. CASE u # t
    <3>1. DoneNow(thread[u]) /\ thread'[u] = thread[u]
      BY <2>2, <1>1, <1>2 DEF AllDone
    <3>2. DoneNext(thread[u])
      BY <3>1, <2>2, <1>4, DoneApart
    <3> QED BY <3>1, <3>2
  <2> QED BY <2>1, <2>2
<1> QED BY <1>6, <1>7, <1>8 DEF Mirrors

\* The same for the leaders.
LEMMA LeadersKeep ==
  ASSUME IInv, NEW t \in Threads, NEW r, Becomes(t, r), NEW h, Leaders,
         \A g \in GroupIds \ {h} : Same(g), inCache' \subseteq GroupIds, dbGroups' \subseteq GroupIds,
         h \in inCache' => HasLeader(h)', h \in dbGroups' => HasStoredLeader(h)',
         r.pc \in Deleting => r.op # "AcceptInvite"
  PROVE  Leaders'
<1>1. thread'[t] = r /\ \A u \in Threads \ {t} : thread'[u] = thread[u]
  BY OthersStay
<1>2. \A g \in inCache' : HasLeader(g)'
  <2> SUFFICES ASSUME NEW g \in inCache', g # h PROVE HasLeader(g)'
    OBVIOUS
  <2>1. g \in GroupIds /\ g \in inCache /\ Same(g)
    BY DEF Same
  <2>2. HasLeader(g) /\ groups[g].columns \in ColumnsType
    BY <2>1, ColumnsFacts DEF Leaders
  <2>3. groups[g].columns.leader \in Players \cup {NoPlayer}
    BY <2>2 DEF ColumnsType, PlayerOrNobody
  <2>4. /\ \A p \in Players : In(groups'[g].members, p) <=> In(groups[g].members, p)
        /\ groups'[g].columns = groups[g].columns
    BY <2>1 DEF Same
  <2> QED BY <2>2, <2>3, <2>4 DEF HasLeader
<1>3. \A g \in dbGroups' : HasStoredLeader(g)'
  <2> SUFFICES ASSUME NEW g \in dbGroups', g # h PROVE HasStoredLeader(g)'
    OBVIOUS
  <2>1. g \in GroupIds /\ g \in dbGroups /\ Same(g)
    BY DEF Same
  <2>2. HasStoredLeader(g) /\ dbColumns[g] \in ColumnsType
    BY <2>1 DEF Leaders, IInv, TypeOK, DBOK
  <2>3. dbColumns[g].leader \in Players \cup {NoPlayer}
    BY <2>2 DEF ColumnsType, PlayerOrNobody
  <2>4. /\ \A p \in Players : dbMember'[p].gid = g <=> dbMember[p].gid = g
        /\ dbColumns'[g] = dbColumns[g]
    BY <2>1 DEF Same
  <2> QED BY <2>2, <2>3, <2>4 DEF HasStoredLeader
<1>4. NoRollback'
  <2>1. NoRollback
    BY DEF Leaders
  <2> QED BY <2>1, <1>1 DEF NoRollback
<1> QED BY <1>2, <1>3, <1>4 DEF Leaders

\* The same for the ids and counters.
LEMMA GroundsKeep ==
  ASSUME IInv, IInv', NEW t \in Threads, NEW r, Becomes(t, r), Grounds, nextId <= nextId',
         \A p \in Players : dbMember'[p].gid = dbMember[p].gid \/ dbMember'[p].gid < nextId',
         inCache \cup disbanded \subseteq inCache' \cup disbanded',
         r.pc \in Deleting \cup {"bind"} => r.obj \in inCache' \cup disbanded',
         dbErrors' \in {dbErrors, dbErrors + 1}, refusals' \in {refusals, refusals + 1}
  PROVE  Grounds'
<1>1. thread'[t] = r /\ \A u \in Threads \ {t} : thread'[u] = thread[u]
  BY OthersStay
<1>2. RowsGiven /\ DeletedWereCached /\ Counted
  BY DEF Grounds
<1>3. \A p \in Players : dbMember[p].gid \in Int
  BY MaxGroupsAssumption DEF IInv, TypeOK, DBOK, RowType, Ids
<1>4. nextId \in Int /\ nextId' \in Int
  BY DEF IInv, TypeOK, DBOK
<1>5. RowsGiven'
  BY <1>2, <1>3, <1>4 DEF RowsGiven
<1>6. DeletedWereCached'
  BY <1>1, <1>2 DEF DeletedWereCached
<1>7. Counted'
  BY <1>2 DEF Counted
<1> QED BY <1>5, <1>6, <1>7 DEF Grounds

\* A quiet state comes from a quiet one, without the mishaps that break the cache.
LEMMA QuietBefore ==
  ASSUME QInv, mishaps \subseteq mishaps', dbErrors' \in {dbErrors, dbErrors + 1},
         refusals' \in {refusals, refusals + 1}
  PROVE  /\ Quiet' => Quiet /\ dbErrors' = dbErrors /\ Mirrors
         /\ Quiet' /\ refusals' = 0 => Leaders /\ refusals = 0
<1>1. dbErrors \in Nat /\ refusals \in Nat
  BY DEF QInv, Grounds, Counted
<1>2. Quiet' => Quiet /\ dbErrors' = dbErrors
  BY <1>1 DEF Quiet
<1>3. refusals' = 0 => refusals = 0
  BY <1>1
<1> QED BY <1>2, <1>3 DEF QInv

\* In a quiet state the lists and the index agree.
LEMMA QuietFacts ==
  ASSUME IInv, Quiet
  PROVE  Undisturbed /\ Agreed
<1>1. Undisturbed
  BY DEF Undisturbed, Quiet
<1> QED BY <1>1 DEF IInv

-----------------------------------------------------------------------------
(* Steps that change neither MySQL nor a cached group. *)

NoClaims == {"idle", "lock", "resolve", "body", "addInvite", "lockInvite", "createRow", "bind"} \cup Deleting

\* At most steps a handler claims nothing about rows and leaders.
LEMMA ClaimsNothing ==
  ASSUME NEW r, r.pc \in NoClaims
  PROVE  \A doomed, lists, rows, stored, columns : Done(r, doomed, lists, rows, stored, columns)
<1>1. /\ r.pc \notin Removing \cup Creating
      /\ r.pc \notin {"update", "updateCache", "addRow", "addCache", "removeLookup", "removeCache"}
  BY DEF NoClaims, Deleting, Removing, Creating
<1> QED BY <1>1 DEF Done

\* A step that changes neither MySQL nor a cached group keeps QInv, when its
\* handler had no change under way and claims at its next step only what is so.
LEMMA PlainStays ==
  ASSUME IInv, IInv', QInv, NEW t \in Threads, NEW r, Becomes(t, r),
         UNCHANGED <<groups, inCache, disbanded, dbGroups, dbColumns, dbMember, dbErrors>>, nextId' = nextId,
         mishaps \subseteq mishaps', refusals' \in {refusals, refusals + 1},
         thread[t].pc \notin Creating \cup Deleting \cup {"update", "removeLookup", "removeCache", "addCache"},
         r.pc \in Deleting \cup {"bind"} => r.obj \in inCache \cup disbanded,
         Quiet' /\ Quiet /\ Mirrors => DoneNext(r),
         refusals' = 0 /\ r.pc \in Deleting => r.op # "AcceptInvite"
  PROVE  QInv'
<1>1. CacheOK /\ DBOK
  BY DEF IInv, TypeOK
<1>2. nextId <= nextId'
  BY <1>1, MaxGroupsAssumption DEF DBOK
<1>3. Grounds'
  BY <1>2, GroundsKeep DEF QInv
<1>4. inCache' \subseteq GroupIds /\ dbGroups' \subseteq GroupIds
  BY <1>1 DEF CacheOK, DBOK
<1>5. \A g \in GroupIds : Same(g)
  BY DEF Same
<1>6. 0 \notin GroupIds
  BY DEF GroupIds
<1>7. Touches(t, 0)
  BY DEF Touches
<1>8. \A u \in Threads : Apart(u, 0)
  <2> SUFFICES ASSUME NEW u \in Threads PROVE Apart(u, 0)
    OBVIOUS
  <2>1. Shape(thread[u])
    BY ThreadFacts
  <2> QED BY <2>1, <1>6 DEF Shape, Apart, Locking
<1>9. ASSUME Quiet' PROVE Mirrors'
  <2>1. Quiet /\ Mirrors
    BY <1>9, QuietBefore
  <2>2. DoneNext(r)
    BY <2>1, <1>9
  <2> QED BY <2>1, <2>2, <1>4, <1>5, <1>6, <1>7, <1>8, MirrorsKeep
<1>10. ASSUME Quiet', refusals' = 0 PROVE Leaders'
  <2>1. Leaders
    BY <1>10, QuietBefore
  <2> QED BY <2>1, <1>10, <1>4, <1>5, <1>6, LeadersKeep
<1> QED BY <1>3, <1>9, <1>10 DEF QInv

\* Such a step to a place where the handler claims nothing and deletes nothing.
LEMMA WaitsStay ==
  ASSUME IInv, IInv', QInv, NEW t \in Threads, NEW r, Becomes(t, r), r.pc \in NoClaims \ (Deleting \cup {"bind"}),
         UNCHANGED <<groups, inCache, disbanded, dbGroups, dbColumns, dbMember, dbErrors, nextId, refusals>>,
         mishaps \subseteq mishaps',
         thread[t].pc \notin Creating \cup Deleting \cup {"update", "removeLookup", "removeCache", "addCache"}
  PROVE  QInv'
<1>1. DoneNext(r)
  BY ClaimsNothing DEF DoneNext
<1> QED BY <1>1, PlainStays

\* So does a handler that returns.
LEMMA ReturnsStay ==
  ASSUME IInv, IInv', QInv, NEW t \in Threads, Return(t),
         UNCHANGED <<groups, inCache, disbanded, dbGroups, dbColumns, dbMember, dbErrors, nextId, refusals>>,
         mishaps \subseteq mishaps',
         thread[t].pc \notin Creating \cup Deleting \cup {"update", "removeLookup", "removeCache", "addCache"}
  PROVE  QInv'
<1>1. Becomes(t, Idle)
  BY DEF Return, Becomes
<1>2. Idle.pc \in NoClaims \ (Deleting \cup {"bind"})
  BY FreshValues DEF NoClaims, Deleting
<1> QED BY <1>1, <1>2, WaitsStay

\* A handler that goes on keeps its other fields.
LEMMA GotoBecomes ==
  ASSUME IInv, NEW t \in Threads, NEW pc \in Steps, Goto(t, pc), NEW r, r = [thread[t] EXCEPT !.pc = pc]
  PROVE  /\ Becomes(t, r)
         /\ r.pc = pc /\ r.op = thread[t].op /\ r.player = thread[t].player /\ r.target = thread[t].target
         /\ r.gid = thread[t].gid /\ r.obj = thread[t].obj
<1>1. thread[t] \in ThreadType /\ thread \in [Threads -> ThreadType]
  BY ThreadFacts
<1>2. thread' = [thread EXCEPT ![t] = r]
  BY <1>1 DEF Goto
<1> QED BY <1>1, <1>2, WithStep DEF Becomes

\* The variables in the tuples.
LEMMA Tuples ==
  /\ UNCHANGED cacheVars => UNCHANGED <<groups, inCache, memberOf>>
  /\ UNCHANGED dbVars => UNCHANGED <<dbGroups, dbColumns, dbMember, dbInvites, nextId>>
  /\ UNCHANGED boundVars => UNCHANGED <<calls, refusals, loginEvents, dbErrors, crashes>>
  /\ UNCHANGED historyVars => UNCHANGED <<disbanded, mishaps>>
BY DEF cacheVars, dbVars, boundVars, historyVars

-----------------------------------------------------------------------------
(* The calls, the locks and the bodies. *)

\* So does the start of a call.
LEMMA CallsStay ==
  ASSUME IInv, IInv', QInv, NEW t \in Threads, NEW r, Begin(t, r), Called, r.pc \in NoClaims \ (Deleting \cup {"bind"})
  PROVE  QInv'
<1>1. Becomes(t, r) /\ thread[t].pc = "idle"
  BY DEF Begin, Becomes, At
<1>2. UNCHANGED <<groups, inCache, disbanded, dbGroups, dbColumns, dbMember, dbErrors, nextId, refusals, mishaps>>
  BY Tuples DEF Called
<1>3. thread[t].pc \notin Creating \cup Deleting \cup {"update", "removeLookup", "removeCache", "addCache"}
  BY <1>1 DEF Creating, Deleting
<1> QED BY <1>1, <1>2, <1>3, WaitsStay

\* The calls begin at a place where nothing is claimed.
LEMMA CallOnGroupStays ==
  ASSUME IInv, QInv, NEW t \in Threads, NEW op \in Ops, NEW p \in Players, NEW q \in Players, CallOnGroup(t, op, p, q)
  PROVE  QInv'
<1> DEFINE r == [op |-> op, pc |-> "lock", player |-> p, target |-> q, gid |-> memberOf[p], obj |-> memberOf[p]]
<1>1. Begin(t, r) /\ Called /\ IInv'
  BY CallOnGroupKeeps DEF CallOnGroup
<1>2. r.pc \in NoClaims \ (Deleting \cup {"bind"})
  BY DEF NoClaims, Deleting
<1> HIDE DEF r
<1> QED BY <1>1, <1>2, CallsStay

\* Invite begins at its lookup.
LEMMA CallInviteStays ==
  ASSUME IInv, QInv, NEW t \in Threads, NEW p \in Players, NEW q \in Players, CallInvite(t, p, q)
  PROVE  QInv'
<1> DEFINE r == [op |-> "Invite", pc |-> "resolve", player |-> p, target |-> q, gid |-> 0, obj |-> 0]
<1>1. Begin(t, r) /\ Called /\ IInv'
  BY CallInviteKeeps DEF CallInvite
<1>2. r.pc \in NoClaims \ (Deleting \cup {"bind"})
  BY DEF NoClaims, Deleting
<1> HIDE DEF r
<1> QED BY <1>1, <1>2, CallsStay

\* AcceptInvite begins at the foundation or at the lock of the invite's group.
LEMMA CallAcceptInviteStays ==
  ASSUME IInv, QInv, NEW t \in Threads, NEW p \in Players, CallAcceptInvite(t, p)
  PROVE  QInv'
<1> DEFINE v == dbInvites[p]
           r == [op |-> "AcceptInvite", pc |-> IF v.gid = 0 THEN "createRow" ELSE "lockInvite",
                 player |-> p, target |-> v.inviter, gid |-> v.gid, obj |-> v.gid]
<1>1. Begin(t, r) /\ Called /\ IInv'
  BY CallAcceptInviteKeeps DEF CallAcceptInvite
<1>2. r.pc \in NoClaims \ (Deleting \cup {"bind"})
  BY DEF NoClaims, Deleting
<1> HIDE DEF r
<1> QED BY <1>1, <1>2, CallsStay

\* lockGroupOfPlayer resolves the group of the player.
LEMMA ResolveStays ==
  ASSUME IInv, QInv, NEW t \in Threads, Resolve(t)
  PROVE  QInv'
<1> DEFINE x == thread[t]
           g == memberOf[x.player]
           s == [x EXCEPT !.pc = "addInvite", !.gid = 0]
           r == [x EXCEPT !.pc = "lock", !.gid = g, !.obj = g]
<1>1. IInv' /\ x.pc = "resolve" /\ x \in ThreadType /\ thread \in [Threads -> ThreadType]
  BY ResolveKeeps, ThreadFacts DEF Resolve, At
<1>2. UNCHANGED <<groups, inCache, disbanded, dbGroups, dbColumns, dbMember, dbErrors, nextId, refusals, mishaps>>
  BY Tuples DEF Resolve
<1>3. x.pc \notin Creating \cup Deleting \cup {"update", "removeLookup", "removeCache", "addCache"}
  BY <1>1 DEF Creating, Deleting
<1>4. s.pc = "addInvite" /\ r.pc = "lock"
  BY <1>1 DEF ThreadType
<1>5. s.pc \in NoClaims \ (Deleting \cup {"bind"}) /\ r.pc \in NoClaims \ (Deleting \cup {"bind"})
  BY <1>4 DEF NoClaims, Deleting
<1>6. thread' = [thread EXCEPT ![t] = s] \/ Return(t) \/ thread' = [thread EXCEPT ![t] = r]
  BY <1>1 DEF Resolve
<1> HIDE DEF s, r
<1>7. CASE Return(t)
  BY <1>1, <1>2, <1>3, <1>7, ReturnsStay
<1>8. CASE thread' = [thread EXCEPT ![t] = s]
  BY <1>1, <1>2, <1>3, <1>5, <1>8, WaitsStay DEF Becomes
<1>9. CASE thread' = [thread EXCEPT ![t] = r]
  BY <1>1, <1>2, <1>3, <1>5, <1>9, WaitsStay DEF Becomes
<1> QED BY <1>6, <1>7, <1>8, <1>9

\* lockGroupOfPlayer takes the lock, or resolves again.
LEMMA LockGroupStays ==
  ASSUME IInv, QInv, NEW t \in Threads, LockGroup(t)
  PROVE  QInv'
<1>1. IInv' /\ thread[t].pc = "lock" /\ thread[t] \in ThreadType /\ thread \in [Threads -> ThreadType]
  BY LockGroupKeeps, ThreadFacts DEF LockGroup, At
<1>2. UNCHANGED <<groups, inCache, disbanded, dbGroups, dbColumns, dbMember, dbErrors, nextId, refusals, mishaps>>
  BY Tuples DEF LockGroup
<1>3. thread[t].pc \notin Creating \cup Deleting \cup {"update", "removeLookup", "removeCache", "addCache"}
  BY <1>1 DEF Creating, Deleting
<1>4. PICK pc \in {"body", "resolve"} : thread' = [thread EXCEPT ![t] = [thread[t] EXCEPT !.pc = pc]]
  BY <1>1 DEF LockGroup, Goto
<1> DEFINE r == [thread[t] EXCEPT !.pc = pc]
<1>5. r.pc = pc /\ Becomes(t, r)
  BY <1>1, <1>4 DEF ThreadType, Becomes
<1>6. r.pc \in NoClaims \ (Deleting \cup {"bind"})
  BY <1>5 DEF NoClaims, Deleting
<1> HIDE DEF r
<1> QED BY <1>1, <1>2, <1>3, <1>5, <1>6, WaitsStay

\* From the body a handler goes on with its own cached group.
LEMMA ChecksStay ==
  ASSUME IInv, IInv', QInv, NEW t \in Threads, thread[t].pc = "body",
         NEW pc \in {"addInvite", "deleteMembers", "removeRow"}, Goto(t, pc),
         UNCHANGED <<groups, inCache, disbanded, dbGroups, dbColumns, dbMember, dbErrors, nextId, refusals>>,
         mishaps \subseteq mishaps', thread[t].obj \in inCache,
         Quiet' /\ pc = "removeRow" => groups[thread[t].gid].columns.leader # thread[t].target
  PROVE  QInv'
<1> DEFINE r == [thread[t] EXCEPT !.pc = pc]
<1>1. pc \in Steps
  BY DEF Steps, Deleting, Removing
<1>2. /\ Becomes(t, r) /\ r.pc = pc /\ r.op = thread[t].op /\ r.target = thread[t].target
      /\ r.gid = thread[t].gid /\ r.obj = thread[t].obj
  BY <1>1, GotoBecomes
<1>3. thread[t].op # "AcceptInvite"
  BY BodyFacts
<1> HIDE DEF r
<1>4. thread[t].pc \notin Creating \cup Deleting \cup {"update", "removeLookup", "removeCache", "addCache"}
  BY DEF Creating, Deleting
<1>5. ASSUME Quiet' PROVE DoneNext(r)
  <2>1. CASE pc = "removeRow"
    <3>1. pc \notin {"removeLookup", "removeCache", "update", "updateCache", "addRow", "addCache"} \cup Creating
      BY <2>1 DEF Creating
    <3>2. groups'[r.gid].columns.leader # r.target
      BY <2>1, <1>2, <1>5
    <3> QED BY <3>1, <3>2, <1>2 DEF DoneNext, Done
  <2>2. CASE pc # "removeRow"
    <3>1. r.pc \in NoClaims
      BY <2>2, <1>2 DEF NoClaims, Deleting
    <3> QED BY <3>1, ClaimsNothing DEF DoneNext
  <2> QED BY <2>1, <2>2
<1> QED BY <1>2, <1>3, <1>4, <1>5, PlainStays

\* Invite only checks the group.
LEMMA InviteBodyStays ==
  ASSUME IInv, QInv, NEW t \in Threads, InviteBody(t)
  PROVE  QInv'
<1>1. /\ IInv' /\ thread[t].pc = "body" /\ thread[t].obj \in inCache
      /\ UNCHANGED <<groups, inCache, disbanded, dbGroups, dbColumns, dbMember, dbErrors, nextId, refusals, mishaps>>
  BY InviteBodyKeeps, Tuples DEF InviteBody, InBody, At, Unsaved
<1>2. thread[t].pc \notin Creating \cup Deleting \cup {"update", "removeLookup", "removeCache", "addCache"}
  BY <1>1 DEF Creating, Deleting
<1>3. CASE Goto(t, "addInvite")
  BY <1>1, <1>3, ChecksStay
<1>4. CASE Return(t)
  BY <1>1, <1>2, <1>4, ReturnsStay
<1> QED BY <1>3, <1>4 DEF InviteBody

\* Uninvite removes a member other than the leader, who is the caller; else the mishap is noted.
LEMMA UninviteBodyStays ==
  ASSUME IInv, QInv, NEW t \in Threads, UninviteBody(t)
  PROVE  QInv'
<1> DEFINE g == thread[t].obj
<1>1. /\ IInv' /\ thread[t].pc = "body" /\ thread[t].gid = g
      /\ UNCHANGED <<groups, inCache, disbanded, dbGroups, dbColumns, dbMember, dbErrors, nextId, refusals>>
      /\ mishaps \subseteq mishaps' /\ thread \in [Threads -> ThreadType] /\ thread[t] \in ThreadType
  BY UninviteBodyKeeps, Tuples, BodyFacts, ThreadFacts DEF UninviteBody, InBody, At, NoteIf
<1>2. thread[t].pc \notin Creating \cup Deleting \cup {"update", "removeLookup", "removeCache", "addCache"}
  BY <1>1 DEF Creating, Deleting
<1>3. CASE Return(t)
  BY <1>1, <1>2, <1>3, ReturnsStay
<1>4. CASE /\ g \in inCache /\ IsLeader(g, thread[t].player)
           /\ Goto(t, IF Len(groups[g].members) <= 2 THEN "deleteMembers" ELSE "removeRow")
  <2> DEFINE pc == IF Len(groups[g].members) <= 2 THEN "deleteMembers" ELSE "removeRow"
  <2>1. pc \in {"addInvite", "deleteMembers", "removeRow"}
    OBVIOUS
  <2>2. thread'[t].pc = pc
    BY <1>1, <1>4 DEF Goto, ThreadType
  <2> HIDE DEF pc
  <2>3. ASSUME Quiet', pc = "removeRow" PROVE groups[thread[t].gid].columns.leader # thread[t].target
    <3>1. thread[t].target # thread[t].player
      <4>1. "leaderRemoved" \notin mishaps'
        BY <2>3 DEF Quiet
      <4> QED BY <4>1, <2>2, <2>3 DEF UninviteBody, NoteIf
    <3> QED BY <3>1, <1>1, <1>4 DEF IsLeader
  <2> QED BY <2>1, <2>3, <1>1, <1>4, ChecksStay DEF pc
<1> QED BY <1>3, <1>4 DEF UninviteBody

\* The row of an invite is no part of the group.
LEMMA AddInviteStays ==
  ASSUME IInv, QInv, NEW t \in Threads, AddInvite(t)
  PROVE  QInv'
<1>1. /\ IInv' /\ thread[t].pc = "addInvite" /\ Return(t)
      /\ UNCHANGED <<groups, inCache, disbanded, dbGroups, dbColumns, dbMember, dbErrors, nextId, refusals, mishaps>>
  BY AddInviteKeeps, Tuples DEF AddInvite, At, Saved
<1>2. thread[t].pc \notin Creating \cup Deleting \cup {"update", "removeLookup", "removeCache", "addCache"}
  BY <1>1 DEF Creating, Deleting
<1> QED BY <1>1, <1>2, ReturnsStay

\* Update finds the group in the cache; a leaving leader has been replaced.
LEMMA UpdateCacheStays ==
  ASSUME IInv, QInv, NEW t \in Threads, UpdateCache(t)
  PROVE  QInv'
<1> DEFINE x == thread[t]
           r == [x EXCEPT !.pc = "removeRow"]
<1>1. /\ IInv' /\ x.pc = "updateCache" /\ inCache' = inCache \cup {x.obj}
      /\ UNCHANGED <<groups, disbanded, dbGroups, dbColumns, dbMember, dbErrors, nextId, refusals, mishaps>>
  BY UpdateCacheKeeps, Tuples DEF UpdateCache, At, Cached
<1>2. x.pc \notin Creating \cup Deleting \cup {"update", "removeLookup", "removeCache", "addCache"}
  BY <1>1 DEF Creating, Deleting
<1>3. CASE Undisturbed
  <2>1. inCache' = inCache
    BY <1>1, <1>3 DEF IInv, Agreed, AllStable, Stable
  <2>2. CASE Return(t)
    BY <2>1, <2>2, <1>1, <1>2, ReturnsStay
  <2>3. CASE x.op = "Leave" /\ Goto(t, "removeRow")
    <3>1. "removeRow" \in Steps
      BY DEF Steps, Removing
    <3>2. /\ Becomes(t, r) /\ r.pc = "removeRow" /\ r.op = x.op /\ r.target = x.target
          /\ r.gid = x.gid /\ r.obj = x.obj
      BY <3>1, <2>3, GotoBecomes
    <3> HIDE DEF r
    <3>3. r.pc \notin {"removeLookup", "removeCache", "update", "updateCache", "addRow", "addCache"} \cup Creating
          /\ r.pc \notin Deleting \cup {"bind"}
      BY <3>2 DEF Creating, Deleting
    <3>4. ASSUME Mirrors PROVE DoneNext(r)
      <4>1. groups[x.gid].columns.leader # x.target
        BY <3>4, <2>3, <1>1 DEF Mirrors, AllDone, DoneNow, Done
      <4> QED BY <4>1, <3>2, <3>3, <1>1 DEF DoneNext, Done
    <3> QED BY <3>2, <3>3, <3>4, <2>1, <1>1, <1>2, PlainStays
  <2> QED BY <2>2, <2>3 DEF UpdateCache
<1>4. CASE ~Undisturbed
  <2>1. ~Quiet'
    BY <1>1, <1>4 DEF Quiet, Undisturbed
  <2>2. "removeRow" \in Steps /\ Idle.pc = "idle"
    BY FreshValues DEF Steps, Removing
  <2>3. PICK s : Becomes(t, s) /\ s.pc \in {"removeRow", "idle"}
    <3>1. CASE Return(t)
      BY <3>1, <2>2 DEF Return, Becomes
    <3>2. CASE Goto(t, "removeRow")
      <4>1. Becomes(t, r) /\ r.pc = "removeRow"
        BY <3>2, <2>2, GotoBecomes
      <4> QED BY <4>1
    <3> QED BY <3>1, <3>2 DEF UpdateCache
  <2>4. s.pc \notin Deleting \cup {"bind"}
    BY <2>3 DEF Deleting
  <2>5. nextId <= nextId'
    BY <1>1, MaxGroupsAssumption DEF IInv, TypeOK, DBOK
  <2>6. Grounds'
    BY <1>1, <2>3, <2>4, <2>5, GroundsKeep DEF QInv
  <2> QED BY <2>1, <2>6 DEF QInv
<1> QED BY <1>3, <1>4

-----------------------------------------------------------------------------
(* The columns of a group. *)

\* The handler that holds the lock of a cached group is the only one at work on it.
LEMMA HolderIsAlone ==
  ASSUME IInv, Agreed, NEW t \in Threads, Locking(thread[t]), thread[t].gid \in inCache
  PROVE  \A u \in Threads \ {t} : Apart(u, thread[t].gid)
<1> SUFFICES ASSUME NEW u \in Threads \ {t} PROVE Apart(u, thread[t].gid)
  OBVIOUS
<1>1. Locking(thread[u]) => thread[u].gid # thread[t].gid
  BY OneHolder
<1>2. thread[u].pc \in Creating => thread[u].obj # thread[t].gid
  BY DEF Agreed, AllStable, Stable
<1> QED BY <1>1, <1>2 DEF Apart

\* So a difference between its list and its rows is of its own making.
LEMMA HolderIsPending ==
  ASSUME IInv, Agreed, NEW t \in Threads, Locking(thread[t])
  PROVE  /\ \A p : RowPending(thread[t].gid, p) => thread[t].pc \in {"removeLookup", "removeCache"} /\ thread[t].target = p
         /\ \A p : EntryPending(thread[t].gid, p) => thread[t].pc = "addCache" /\ thread[t].player = p
         /\ ColumnsPending(thread[t].gid) => thread[t].pc = "update"
<1> DEFINE g == thread[t].gid
<1>1. ASSUME NEW p, RowPending(g, p) PROVE thread[t].pc \in {"removeLookup", "removeCache"} /\ thread[t].target = p
  <2>1. PICK u \in Threads : /\ thread[u].pc \in {"removeLookup", "removeCache"}
                             /\ thread[u].gid = g /\ thread[u].target = p
    BY <1>1 DEF RowPending
  <2>2. Locking(thread[u])
    BY <2>1 DEF Locking, Removing
  <2>3. u = t
    BY <2>1, <2>2, OneHolder
  <2> QED BY <2>1, <2>3
<1>2. ASSUME NEW p, EntryPending(g, p) PROVE thread[t].pc = "addCache" /\ thread[t].player = p
  <2>1. PICK u \in Threads : thread[u].pc = "addCache" /\ thread[u].gid = g /\ thread[u].player = p
    BY <1>2 DEF EntryPending
  <2>2. Locking(thread[u])
    BY <2>1 DEF Locking
  <2>3. u = t
    BY <2>1, <2>2, OneHolder
  <2> QED BY <2>1, <2>3
<1>3. ASSUME ColumnsPending(g) PROVE thread[t].pc = "update"
  <2>1. PICK u \in Threads : thread[u].pc = "update" /\ thread[u].obj = g
    BY <1>3 DEF ColumnsPending
  <2>2. Locking(thread[u]) /\ thread[u].gid = g
    BY <2>1 DEF Locking, Agreed, AllStable, Stable
  <2>3. u = t
    BY <2>1, <2>2, OneHolder
  <2> QED BY <2>1, <2>3
<1> QED BY <1>1, <1>2, <1>3

\* Without rollbacks a group is deleted by the holder of its lock.
LEMMA HolderDeletes ==
  ASSUME IInv, Agreed, NoRollback, NEW t \in Threads, Locking(thread[t]), Doomed(thread[t].gid)
  PROVE  thread[t].pc \in Deleting
<1>1. PICK u \in Threads : thread[u].pc \in Deleting /\ thread[u].obj = thread[t].gid
  BY DEF Doomed
<1>2. thread[u].op # "AcceptInvite"
  BY <1>1 DEF NoRollback
<1>3. Locking(thread[u]) /\ thread[u].gid = thread[t].gid
  BY <1>1, <1>2 DEF Locking, Agreed, AllStable, Stable
<1> QED BY <1>1, <1>3, OneHolder

\* A handler changes the columns of its cached group and goes on to save them.
LEMMA ColumnsStay ==
  ASSUME IInv, IInv', QInv, NEW t \in Threads, thread[t].pc = "body", Unsaved,
         NEW g \in inCache, Agreed => g = thread[t].gid,
         NEW c \in ColumnsType, groups' = [groups EXCEPT ![g].columns = c],
         NEW r, Becomes(t, r), r.pc = "update", r.op = thread[t].op, r.target = thread[t].target,
         r.gid = thread[t].gid, r.obj = g,
         Quiet /\ thread[t].op = "Leave" => c.leader # thread[t].target,
         c.leader = groups[g].columns.leader \/ c.leader = NoPlayer \/ In(groups[g].members, c.leader)
  PROVE  QInv'
<1>1. UNCHANGED <<inCache, disbanded, dbGroups, dbColumns, dbMember, dbErrors, nextId, refusals, mishaps>>
  BY Tuples DEF Unsaved
<1>2. CacheOK /\ DBOK
  BY DEF IInv, TypeOK
<1>3. g \in GroupIds /\ inCache' \subseteq GroupIds /\ dbGroups' \subseteq GroupIds
  BY <1>1, <1>2 DEF CacheOK, DBOK
<1>4. nextId <= nextId'
  BY <1>1, <1>2, MaxGroupsAssumption DEF DBOK
<1>5. r.pc \notin Deleting \cup {"bind"}
  BY DEF Deleting
<1>6. Grounds'
  BY <1>1, <1>4, <1>5, GroundsKeep DEF QInv
<1>7. /\ groups'[g].columns = c /\ \A h \in GroupIds : groups'[h].members = groups[h].members
      /\ \A h \in GroupIds \ {g} : groups'[h] = groups[h]
  <2>1. groups[g] \in GroupType /\ groups \in [GroupIds -> GroupType]
    BY <1>2, <1>3 DEF CacheOK
  <2> DEFINE x == groups[g]
             y == [x EXCEPT !.columns = c]
  <2>2. groups' = [groups EXCEPT ![g] = y]
    OBVIOUS
  <2>3. y.columns = c /\ y.members = x.members
    <3>1. x \in GroupType
      BY <2>1
    <3> HIDE DEF x
    <3> QED BY <3>1 DEF GroupType
  <2> HIDE DEF y
  <2> QED BY <2>1, <2>2, <2>3, <1>3
<1>8. \A h \in GroupIds \ {g} : Same(h)
  BY <1>1, <1>7 DEF Same
<1>9. Touches(t, g)
  BY DEF Touches, Creating, Deleting
<1>10. thread'[t] = r /\ \A u \in Threads \ {t} : thread'[u] = thread[u]
  BY OthersStay
<1>11. ASSUME Quiet' PROVE Mirrors'
  <2>1. Quiet /\ Mirrors /\ Agreed
    BY <1>1, <1>11, QuietBefore, QuietFacts
  <2>2. Locking(thread[t]) /\ thread[t].gid = g
    BY <2>1, BodyFacts
  <2>3. \A u \in Threads \ {t} : Apart(u, g)
    BY <2>1, <2>2, HolderIsAlone
  <2>4. DoneNext(r)
    <3>1. r.pc \notin {"removeLookup", "removeCache", "addRow", "addCache"} \cup Removing \cup Creating
      BY DEF Removing, Creating
    <3>2. r.op = "Leave" => groups'[r.gid].columns.leader # r.target
      BY <2>1, <2>2, <1>7
    <3> QED BY <3>1, <3>2 DEF DoneNext, Done
  <2>5. Doomed(g)' \/ Mirrored(g)'
    <3>1. Doomed(g) \/ Mirrored(g)
      BY <2>1 DEF Mirrors, AllMirrored
    <3>2. ASSUME Doomed(g) PROVE Doomed(g)'
      <4>1. PICK u \in Threads : thread[u].pc \in Deleting /\ thread[u].obj = g
        BY <3>2 DEF Doomed
      <4>2. u # t
        BY <4>1 DEF Deleting
      <4>3. thread'[u] = thread[u]
        BY <4>2, <1>10
      <4> QED BY <4>1, <4>3 DEF Doomed
    <3>3. ASSUME Mirrored(g) PROVE Mirrored(g)'
      <4>1. \A p : ~RowPending(g, p) /\ ~EntryPending(g, p)
        BY <2>1, <2>2, HolderIsPending
      <4>2. g \in dbGroups' /\ \A p \in Players : In(groups'[g].members, p) <=> dbMember'[p].gid = g
        BY <3>3, <4>1, <1>1, <1>3, <1>7 DEF Mirrored
      <4>3. ColumnsPending(g)'
        BY <1>10 DEF ColumnsPending
      <4> QED BY <4>2, <4>3 DEF Mirrored
    <3> QED BY <3>1, <3>2, <3>3
  <2>6. g \in inCache'
    BY <1>1
  <2> QED BY <2>1, <2>3, <2>4, <2>5, <2>6, <1>1, <1>3, <1>8, <1>9, MirrorsKeep
<1>12. ASSUME Quiet', refusals' = 0 PROVE Leaders'
  <2>1. Leaders
    BY <1>1, <1>12, QuietBefore
  <2>2. HasLeader(g)'
    <3>1. HasLeader(g)
      BY <2>1 DEF Leaders
    <3>2. groups'[g].members = groups[g].members
      BY <1>3, <1>7
    <3> QED BY <3>1, <3>2, <1>7 DEF HasLeader
  <2>3. g \in dbGroups' => HasStoredLeader(g)'
    BY <1>1, <2>1 DEF Leaders, HasStoredLeader
  <2>4. r.pc \in Deleting => r.op # "AcceptInvite"
    BY <1>5
  <2> QED BY <2>1, <2>2, <2>3, <2>4, <1>3, <1>8, LeadersKeep
<1> QED BY <1>6, <1>11, <1>12 DEF QInv

\* The next leader is another member of the list, or nobody.
LEMMA NewLeaderIsMember ==
  ASSUME IInv, NEW g \in GroupIds, NEW p \in Players
  PROVE  /\ NewLeader(g, p) = NoPlayer \/ In(groups[g].members, NewLeader(g, p))
         /\ NewLeader(g, p) # p
<1> DEFINE m == groups[g].members
           others == {i \in DOMAIN m : m[i].online /\ m[i].guid # p}
<1>1. m \in Seq(MemberType)
  BY ColumnsFacts
<1> HIDE DEF m
<1>2. DOMAIN m = 1..Len(m) /\ Len(m) \in Nat
  BY <1>1, LenProperties
<1>3. CASE others = {}
  BY <1>3, NobodyAssumption DEF NewLeader, m
<1>4. CASE others # {}
  <2> DEFINE k == CHOOSE i \in others : \A j \in others : i <= j
  <2>1. others \in SUBSET Nat
    BY <1>2
  <2>2. \E i \in others : \A j \in others : i <= j
    BY <1>4, <2>1, LeastNat
  <2>3. k \in others
    BY <2>2
  <2>4. NewLeader(g, p) = m[k].guid
    BY <1>4 DEF NewLeader, m
  <2> HIDE DEF k
  <2> QED BY <2>3, <2>4 DEF In, m
<1> QED BY <1>3, <1>4

\* A leader that leaves is replaced first; another member is removed at once.
LEMMA LeaveBodyStays ==
  ASSUME IInv, QInv, NEW t \in Threads, LeaveBody(t)
  PROVE  QInv'
<1> DEFINE g == thread[t].obj
           p == thread[t].player
           c == [groups[g].columns EXCEPT !.leader = NewLeader(g, p)]
           r == [thread[t] EXCEPT !.pc = "update"]
<1>1. /\ IInv' /\ thread[t].pc = "body" /\ thread[t].op = "Leave" /\ Unsaved /\ g \in inCache
      /\ UNCHANGED <<inCache, disbanded, dbGroups, dbColumns, dbMember, dbErrors, nextId, refusals, mishaps>>
  BY LeaveBodyKeeps, Tuples DEF LeaveBody, InBody, At, Unsaved
<1>2. thread[t].gid = g /\ g \in GroupIds /\ p \in Players /\ thread[t].target = p
  BY <1>1, BodyFacts
<1>3. thread[t].pc \notin Creating \cup Deleting \cup {"update", "removeLookup", "removeCache", "addCache"}
  BY <1>1 DEF Creating, Deleting
<1>4. CASE Return(t) /\ UNCHANGED groups
  BY <1>1, <1>3, <1>4, ReturnsStay
<1>5. CASE Goto(t, "deleteMembers") /\ UNCHANGED groups
  BY <1>1, <1>5, ChecksStay
<1>6. CASE Goto(t, "removeRow") /\ UNCHANGED groups /\ ~IsLeader(g, p)
  <2>1. groups[thread[t].gid].columns.leader # thread[t].target
    BY <1>2, <1>6 DEF IsLeader
  <2> QED BY <2>1, <1>1, <1>6, ChecksStay
<1>7. CASE Goto(t, "update") /\ groups' = [groups EXCEPT ![g].columns.leader = NewLeader(g, p)]
  <2>1. c \in ColumnsType /\ c.leader = NewLeader(g, p)
    <3>1. c \in ColumnsType
      BY <1>2, NewLeaderType, ColumnsFacts
    <3>2. groups[g].columns \in ColumnsType
      BY <1>2, ColumnsFacts
    <3> QED BY <3>1, <3>2 DEF ColumnsType
  <2>2. "update" \in Steps
    BY DEF Steps
  <2>3. /\ Becomes(t, r) /\ r.pc = "update" /\ r.op = thread[t].op /\ r.target = thread[t].target
        /\ r.gid = thread[t].gid /\ r.obj = g
    BY <2>2, <1>7, GotoBecomes
  <2>4. groups' = [groups EXCEPT ![g].columns = c]
    BY <1>7
  <2> HIDE DEF r, c
  <2>5. c.leader # p /\ (c.leader = NoPlayer \/ In(groups[g].members, c.leader))
    BY <2>1, <1>2, NewLeaderIsMember
  <2> QED BY <2>1, <2>3, <2>4, <2>5, <1>1, <1>2, ColumnsStay
<1> QED BY <1>4, <1>5, <1>6, <1>7 DEF LeaveBody

\* Update changes the columns of the group it finds: the locked one.
LEMMA UpdateStays ==
  ASSUME IInv, IInv', QInv, NEW t \in Threads, thread[t].pc = "body", thread[t].op # "Leave", Unsaved,
         NEW g, g = memberOf[thread[t].player], g \in inCache, NEW c \in ColumnsType, Update(t, g, c),
         c.leader = groups[g].columns.leader \/ In(groups[g].members, c.leader)
  PROVE  QInv'
<1> DEFINE x == thread[t]
           r == [x EXCEPT !.pc = "update", !.obj = g]
<1>1. x \in ThreadType /\ thread \in [Threads -> ThreadType]
  BY ThreadFacts
<1>2. Becomes(t, r) /\ groups' = [groups EXCEPT ![g].columns = c]
  BY <1>1 DEF Update, Becomes
<1>3. r.pc = "update" /\ r.op = x.op /\ r.target = x.target /\ r.gid = x.gid /\ r.obj = g
  <2> HIDE DEF x
  <2> QED BY <1>1 DEF ThreadType
<1>4. Agreed => g = x.gid
  BY BodyFacts
<1> HIDE DEF r
<1> QED BY <1>2, <1>3, <1>4, ColumnsStay

\* A refused request changes nothing.
LEMMA RefuseStays ==
  ASSUME IInv, IInv', QInv, NEW t \in Threads, thread[t].pc = "body", Refuse(t), Unsaved
  PROVE  QInv'
<1>1. Return(t)
      /\ UNCHANGED <<groups, inCache, disbanded, dbGroups, dbColumns, dbMember, dbErrors, nextId, refusals, mishaps>>
  BY Tuples DEF Refuse, Unsaved
<1>2. thread[t].pc \notin Creating \cup Deleting \cup {"update", "removeLookup", "removeCache", "addCache"}
  BY DEF Creating, Deleting
<1> QED BY <1>1, <1>2, ReturnsStay

\* The new leader is a member.
LEMMA ChangeLeaderBodyStays ==
  ASSUME IInv, QInv, NEW t \in Threads, ChangeLeaderBody(t)
  PROVE  QInv'
<1> DEFINE g == memberOf[thread[t].player]
           c == [groups[g].columns EXCEPT !.leader = thread[t].target]
<1>1. IInv' /\ thread[t].pc = "body" /\ thread[t].op = "ChangeLeader" /\ Unsaved
  BY ChangeLeaderBodyKeeps DEF ChangeLeaderBody, InBody, At
<1>2. CASE g \in inCache /\ IsMember(g, thread[t].target) /\ Update(t, g, c)
  <2>1. g \in GroupIds
    BY <1>2 DEF IInv, TypeOK, CacheOK
  <2>2. c \in ColumnsType
    BY <1>1, <2>1, ColumnsFacts, BodyFacts DEF PlayerOrNobody
  <2>3. c.leader = thread[t].target
    BY <2>1, ColumnsFacts DEF ColumnsType
  <2> HIDE DEF c
  <2> QED BY <1>1, <1>2, <2>2, <2>3, IsMemberIn, UpdateStays
<1>3. CASE Refuse(t)
  BY <1>1, <1>3, RefuseStays
<1> QED BY <1>2, <1>3 DEF ChangeLeaderBody, GroupWithLeader

\* Converting to a raid leaves the leader.
LEMMA ConvertToRaidBodyStays ==
  ASSUME IInv, QInv, NEW t \in Threads, ConvertToRaidBody(t)
  PROVE  QInv'
<1> DEFINE g == memberOf[thread[t].player]
           c == [groups[g].columns EXCEPT !.raid = TRUE]
<1>1. IInv' /\ thread[t].pc = "body" /\ thread[t].op = "ConvertToRaid" /\ Unsaved
  BY ConvertToRaidBodyKeeps DEF ConvertToRaidBody, InBody, At
<1>2. CASE g \in inCache /\ Update(t, g, c)
  <2>1. g \in GroupIds
    BY <1>2 DEF IInv, TypeOK, CacheOK
  <2>2. c \in ColumnsType /\ c.leader = groups[g].columns.leader
    BY <2>1, ColumnsFacts DEF ColumnsType
  <2> HIDE DEF c
  <2> QED BY <1>1, <1>2, <2>2, UpdateStays
<1>3. CASE Refuse(t)
  BY <1>1, <1>3, RefuseStays
<1> QED BY <1>2, <1>3 DEF ConvertToRaidBody, GroupWithLeader

\* So does a change of the settings.
LEMMA SettingsStay ==
  ASSUME IInv, IInv', QInv, NEW t \in Threads, thread[t].pc = "body", thread[t].op # "Leave", Unsaved,
         NEW g, g = memberOf[thread[t].player], g \in inCache, NEW s \in 0..1,
         Update(t, g, [groups[g].columns EXCEPT !.settings = s])
  PROVE  QInv'
<1> DEFINE c == [groups[g].columns EXCEPT !.settings = s]
<1>1. g \in GroupIds
  BY DEF IInv, TypeOK, CacheOK
<1>2. c \in ColumnsType /\ Update(t, g, c) /\ c.leader = groups[g].columns.leader
  BY <1>1, ColumnsFacts DEF ColumnsType
<1> HIDE DEF c
<1> QED BY <1>2, UpdateStays

\* The loot method is a setting.
LEMMA SetLootMethodBodyStays ==
  ASSUME IInv, QInv, NEW t \in Threads, SetLootMethodBody(t)
  PROVE  QInv'
<1> DEFINE g == memberOf[thread[t].player]
<1>1. IInv' /\ thread[t].pc = "body" /\ thread[t].op = "SetLootMethod" /\ Unsaved
  BY SetLootMethodBodyKeeps DEF SetLootMethodBody, InBody, At
<1>2. CASE Refuse(t)
  BY <1>1, <1>2, RefuseStays
<1>3. CASE \E s \in 0..1 : g \in inCache /\ Update(t, g, [groups[g].columns EXCEPT !.settings = s])
  <2>1. PICK s \in 0..1 : g \in inCache /\ Update(t, g, [groups[g].columns EXCEPT !.settings = s])
    BY <1>3
  <2> QED BY <1>1, <2>1, SettingsStay
<1> QED BY <1>2, <1>3 DEF SetLootMethodBody, GroupWithLeader

\* So is the difficulty.
LEMMA SetDifficultyBodyStays ==
  ASSUME IInv, QInv, NEW t \in Threads, SetDifficultyBody(t)
  PROVE  QInv'
<1> DEFINE g == memberOf[thread[t].player]
<1>1. IInv' /\ thread[t].pc = "body" /\ thread[t].op = "SetDifficulty" /\ Unsaved
  BY SetDifficultyBodyKeeps DEF SetDifficultyBody, InBody, At
<1>2. CASE Refuse(t)
  BY <1>1, <1>2, RefuseStays
<1>3. CASE \E s \in 0..1 : g \in inCache /\ Update(t, g, [groups[g].columns EXCEPT !.settings = s])
  <2>1. PICK s \in 0..1 : g \in inCache /\ Update(t, g, [groups[g].columns EXCEPT !.settings = s])
    BY <1>3
  <2> QED BY <1>1, <2>1, SettingsStay
<1> QED BY <1>2, <1>3 DEF SetDifficultyBody, GroupWithLeader

\* So is a target icon, which a handler sets in the group it locked.
LEMMA TargetIconBodyStays ==
  ASSUME IInv, QInv, NEW t \in Threads, TargetIconBody(t)
  PROVE  QInv'
<1> DEFINE g == thread[t].obj
           r == [thread[t] EXCEPT !.pc = "update"]
<1>1. /\ IInv' /\ thread[t].pc = "body" /\ thread[t].op = "SetTargetIcon" /\ Unsaved
      /\ UNCHANGED <<inCache, disbanded, dbGroups, dbColumns, dbMember, dbErrors, nextId, refusals, mishaps>>
  BY TargetIconBodyKeeps, Tuples DEF TargetIconBody, InBody, At, Unsaved
<1>2. thread[t].gid = g /\ g \in GroupIds
  BY <1>1, BodyFacts
<1>3. thread[t].pc \notin Creating \cup Deleting \cup {"update", "removeLookup", "removeCache", "addCache"}
  BY <1>1 DEF Creating, Deleting
<1>4. CASE Return(t) /\ UNCHANGED groups
  BY <1>1, <1>3, <1>4, ReturnsStay
<1>5. CASE g \in inCache /\ Goto(t, "update") /\ \E s \in 0..1 : groups' = [groups EXCEPT ![g].columns.settings = s]
  <2>1. PICK s \in 0..1 : groups' = [groups EXCEPT ![g].columns.settings = s]
    BY <1>5
  <2> DEFINE c == [groups[g].columns EXCEPT !.settings = s]
  <2>2. c \in ColumnsType /\ c.leader = groups[g].columns.leader
    BY <1>2, ColumnsFacts DEF ColumnsType
  <2>3. "update" \in Steps
    BY DEF Steps
  <2>4. /\ Becomes(t, r) /\ r.pc = "update" /\ r.op = thread[t].op /\ r.target = thread[t].target
        /\ r.gid = thread[t].gid /\ r.obj = g
    BY <2>3, <1>5, GotoBecomes
  <2>5. groups' = [groups EXCEPT ![g].columns = c]
    BY <2>1
  <2> HIDE DEF r, c
  <2> QED BY <2>2, <2>4, <2>5, <1>1, <1>2, <1>5, ColumnsStay
<1> QED BY <1>4, <1>5 DEF TargetIconBody

-----------------------------------------------------------------------------
(* The statements and the changes of the cache. *)

\* A step of t on the group h, whatever it is, must leave the group mirrored and led.
LEMMA WriteStays ==
  ASSUME IInv, IInv', QInv, NEW t \in Threads, NEW r, Becomes(t, r), NEW h, nextId <= nextId',
         \A p \in Players : dbMember'[p].gid = dbMember[p].gid \/ dbMember'[p].gid < nextId',
         inCache \cup disbanded \subseteq inCache' \cup disbanded',
         r.pc \in Deleting \cup {"bind"} => r.obj \in inCache' \cup disbanded',
         dbErrors' = dbErrors, refusals' = refusals, mishaps \subseteq mishaps',
         Quiet' /\ Mirrors /\ Agreed =>
            /\ \A g \in GroupIds \ {h} : Same(g)
            /\ Touches(t, h)
            /\ \A u \in Threads \ {t} : Apart(u, h) \/ DoneNext(thread[u])
            /\ DoneNext(r)
            /\ h \in inCache' => Doomed(h)' \/ Mirrored(h)'
            /\ mishaps' = {} /\ h \in dbGroups' \ inCache' => Founding(h)',
         Quiet' /\ Mirrors /\ Agreed /\ Leaders =>
            /\ h \in inCache' => HasLeader(h)'
            /\ h \in dbGroups' => HasStoredLeader(h)'
            /\ r.pc \in Deleting => r.op # "AcceptInvite"
  PROVE  QInv'
<1>1. Grounds'
  BY GroundsKeep DEF QInv
<1>2. inCache' \subseteq GroupIds /\ dbGroups' \subseteq GroupIds
  BY DEF IInv, TypeOK, CacheOK, DBOK
<1>3. ASSUME Quiet' PROVE Mirrors /\ Agreed
  <2>1. Quiet /\ Mirrors
    BY <1>3, QuietBefore
  <2> QED BY <2>1, QuietFacts
<1>4. ASSUME Quiet' PROVE Mirrors'
  BY <1>2, <1>3, <1>4, MirrorsKeep
<1>5. ASSUME Quiet', refusals' = 0 PROVE Leaders'
  <2>1. Leaders
    BY <1>5, QuietBefore
  <2> QED BY <2>1, <1>2, <1>3, <1>5, LeadersKeep
<1> QED BY <1>1, <1>4, <1>5 DEF QInv

\* A group stays doomed while others work.
LEMMA DoomedStays ==
  ASSUME IInv, NEW t \in Threads, NEW r, Becomes(t, r), thread[t].pc \notin Deleting, NEW g, Doomed(g)
  PROVE  Doomed(g)'
<1>1. PICK u \in Threads : thread[u].pc \in Deleting /\ thread[u].obj = g
  BY DEF Doomed
<1>2. u # t
  BY <1>1
<1>3. thread'[u] = thread[u]
  BY <1>2, OthersStay
<1> QED BY <1>1, <1>3 DEF Doomed

\* The bounds that the statements and the cache updates leave alone.
LEMMA SavedStays ==
  ASSUME IInv, Saved
  PROVE  /\ UNCHANGED <<groups, inCache, memberOf, disbanded, dbErrors, refusals>>
         /\ nextId \in Int /\ 0 < nextId
BY Tuples, MaxGroupsAssumption DEF Saved, IInv, TypeOK, DBOK

\* A step that writes the cache leaves MySQL.
LEMMA CachedStays ==
  ASSUME IInv, Cached
  PROVE  /\ UNCHANGED <<dbGroups, dbColumns, dbMember, dbInvites, nextId, dbErrors, refusals>>
         /\ nextId <= nextId'
BY Tuples, MaxGroupsAssumption DEF Cached, IInv, TypeOK, DBOK

\* What the holder of the lock of a cached group finds, when the group is not doomed.
LEMMA HolderMirrors ==
  ASSUME IInv, Agreed, Mirrors, NEW t \in Threads, Locking(thread[t]), thread[t].gid \in inCache, ~Doomed(thread[t].gid)
  PROVE  /\ thread[t].gid \in dbGroups
         /\ \A p \in Players : In(groups[thread[t].gid].members, p) =>
               \/ dbMember[p].gid = thread[t].gid
               \/ thread[t].pc \in {"removeLookup", "removeCache"} /\ thread[t].target = p
         /\ \A p \in Players : dbMember[p].gid = thread[t].gid =>
               \/ In(groups[thread[t].gid].members, p)
               \/ thread[t].pc = "addCache" /\ thread[t].player = p
         /\ thread[t].pc # "update" => groups[thread[t].gid].columns = dbColumns[thread[t].gid]
<1>1. Mirrored(thread[t].gid)
  BY DEF Mirrors, AllMirrored
<1> QED BY <1>1, HolderIsPending DEF Mirrored

\* A leader is a player or nobody.
LEMMA LeaderType ==
  ASSUME IInv, NEW g \in GroupIds
  PROVE  /\ groups[g].columns.leader \in Players \cup {NoPlayer}
         /\ dbColumns[g].leader \in Players \cup {NoPlayer}
<1> DEFINE c == groups[g].columns
           d == dbColumns[g]
<1>1. c \in ColumnsType /\ d \in ColumnsType
  BY ColumnsFacts DEF IInv, TypeOK, DBOK
<1> HIDE DEF c, d
<1>2. c.leader \in PlayerOrNobody /\ d.leader \in PlayerOrNobody
  BY <1>1 DEF ColumnsType
<1> QED BY <1>2 DEF PlayerOrNobody, c, d

\* Update writes the columns of the locked group.
LEMMA UpdateRowStays ==
  ASSUME IInv, QInv, NEW t \in Threads, UpdateRow(t)
  PROVE  QInv'
<1> DEFINE x == thread[t]
           r == [x EXCEPT !.pc = "updateCache"]
<1>0. PICK g : g = x.obj
  OBVIOUS
<1> USE <1>0
<1>1. /\ IInv' /\ x.pc = "update" /\ Goto(t, "updateCache") /\ Saved
      /\ dbColumns' = IF g \in dbGroups THEN [dbColumns EXCEPT ![g] = groups[g].columns] ELSE dbColumns
      /\ UNCHANGED <<dbGroups, dbMember, nextId, mishaps>>
  BY UpdateRowKeeps DEF UpdateRow, At
<1>2. UNCHANGED <<groups, inCache, memberOf, disbanded, dbErrors, refusals>> /\ nextId \in Int
  BY <1>1, SavedStays
<1>3. "updateCache" \in Steps
  BY DEF Steps
<1>4. /\ Becomes(t, r) /\ r.pc = "updateCache" /\ r.op = x.op /\ r.target = x.target /\ r.gid = x.gid /\ r.obj = g
  BY <1>1, <1>3, GotoBecomes
<1> HIDE DEF r
<1>5. Locking(x) /\ dbColumns \in [GroupIds -> ColumnsType] /\ dbGroups \subseteq GroupIds
  BY <1>1 DEF Locking, IInv, TypeOK, DBOK
<1>6. r.pc \notin Deleting \cup {"bind"} /\ x.pc \notin Deleting \cup Creating
  BY <1>1, <1>4 DEF Deleting, Creating
<1>7. ASSUME Agreed PROVE x.gid = g /\ g \in inCache /\ g \in GroupIds
  <2>1. Stable(x, inCache, memberOf, disbanded)
    BY <1>7, StableFacts
  <2> QED BY <2>1, <1>1 DEF Stable, IInv, TypeOK, CacheOK
<1>8. ASSUME Agreed, Mirrors
      PROVE  /\ \A k \in GroupIds \ {g} : Same(k)
             /\ Touches(t, g)
             /\ \A u \in Threads \ {t} : Apart(u, g) \/ DoneNext(thread[u])
             /\ DoneNext(r)
             /\ g \in inCache' => Doomed(g)' \/ Mirrored(g)'
             /\ mishaps' = {} /\ g \in dbGroups' \ inCache' => Founding(g)'
  <2>1. x.gid = g /\ g \in inCache /\ g \in GroupIds
    BY <1>7, <1>8
  <2>2. \A k \in GroupIds \ {g} : Same(k)
    BY <1>1, <1>2, <1>5 DEF Same
  <2>3. Touches(t, g)
    BY <1>1 DEF Touches
  <2>4. \A u \in Threads \ {t} : Apart(u, g)
    BY <2>1, <1>5, <1>8, HolderIsAlone
  <2>5. DoneNext(r)
    <3>1. r.pc \notin {"removeLookup", "removeCache", "addRow", "addCache"} \cup Removing \cup Creating
      BY <1>4 DEF Removing, Creating
    <3>2. x.op = "Leave" => groups[x.gid].columns.leader # x.target
      BY <1>1, <1>8 DEF Mirrors, AllDone, DoneNow, Done
    <3> QED BY <3>1, <3>2, <1>2, <1>4 DEF DoneNext, Done
  <2>6. Doomed(g) => Doomed(g)'
    BY <1>4, <1>6, DoomedStays
  <2>7. ASSUME ~Doomed(g) PROVE Mirrored(g)'
    <3>1. /\ g \in dbGroups
          /\ \A p \in Players : In(groups[g].members, p) <=> dbMember[p].gid = g
      BY <2>1, <2>7, <1>1, <1>5, <1>8, HolderMirrors
    <3> QED BY <3>1, <2>1, <1>1, <1>2, <1>5 DEF Mirrored
  <2> QED BY <2>1, <2>2, <2>3, <2>4, <2>5, <2>6, <2>7, <1>2
<1>9. ASSUME Agreed, Mirrors, Leaders
      PROVE  /\ g \in inCache' => HasLeader(g)'
             /\ g \in dbGroups' => HasStoredLeader(g)'
  <2>1. x.gid = g /\ g \in inCache /\ g \in GroupIds
    BY <1>7, <1>9
  <2>2. ~Doomed(g)
    BY <2>1, <1>5, <1>6, <1>9, HolderDeletes DEF Leaders
  <2>3. /\ g \in dbGroups
        /\ \A p \in Players : In(groups[g].members, p) <=> dbMember[p].gid = g
    BY <2>1, <2>2, <1>1, <1>5, <1>9, HolderMirrors
  <2>4. HasLeader(g)
    BY <2>1, <1>9 DEF Leaders
  <2>5. HasLeader(g)'
    BY <2>4, <1>2 DEF HasLeader
  <2>6. dbColumns'[g] = groups[g].columns
    BY <2>1, <2>3, <1>1, <1>5
  <2>7. HasStoredLeader(g)'
    BY <2>1, <2>3, <2>4, <2>6, <1>1, LeaderType DEF HasLeader, HasStoredLeader
  <2> QED BY <2>5, <2>7
<1>10. nextId <= nextId' /\ mishaps \subseteq mishaps' /\ inCache \cup disbanded \subseteq inCache' \cup disbanded'
  BY <1>1, <1>2
<1> QED BY <1>1, <1>2, <1>4, <1>6, <1>8, <1>9, <1>10, WriteStays

\* The row of a departing member is deleted before his entry in the list.
LEMMA RemoveRowStays ==
  ASSUME IInv, QInv, NEW t \in Threads, RemoveRow(t)
  PROVE  QInv'
<1> DEFINE x == thread[t]
           r == [x EXCEPT !.pc = "removeLookup"]
<1>0. PICK g, p : g = x.gid /\ p = x.target
  OBVIOUS
<1> USE <1>0
<1>1. /\ IInv' /\ x.pc = "removeRow" /\ Goto(t, "removeLookup") /\ Saved
      /\ dbMember' = [dbMember EXCEPT ![p] = NoRow]
      /\ UNCHANGED <<dbGroups, dbColumns, nextId>>
      /\ mishaps' = IF dbMember[p].gid \notin {0, g} THEN mishaps \cup {"rowLost"} ELSE mishaps
  BY RemoveRowKeeps DEF RemoveRow, At, NoteIf
<1>2. UNCHANGED <<groups, inCache, memberOf, disbanded, dbErrors, refusals>> /\ nextId \in Int /\ 0 < nextId
  BY <1>1, SavedStays
<1>3. "removeLookup" \in Steps
  BY DEF Steps, Removing
<1>4. /\ Becomes(t, r) /\ r.pc = "removeLookup" /\ r.op = x.op /\ r.target = p /\ r.gid = g
  BY <1>1, <1>3, GotoBecomes
<1> HIDE DEF r
<1>5. Locking(x) /\ dbMember \in [Players -> RowType] /\ p \in Players /\ g \in GroupIds /\ g # 0
  <2>1. Shape(x)
    BY ThreadFacts
  <2> QED BY <2>1, <1>1 DEF Locking, Removing, Shape, GroupIds, IInv, TypeOK, DBOK
<1>6. r.pc \notin Deleting \cup {"bind"} /\ x.pc \notin Deleting \cup Creating
  BY <1>1, <1>4 DEF Deleting, Creating
<1>7. \A q \in Players : dbMember'[q].gid = IF q = p THEN 0 ELSE dbMember[q].gid
  BY <1>1, <1>5 DEF NoRow
<1>8. ASSUME Agreed PROVE g \in inCache
  <2>1. memberOf[p] = g
    BY <1>1, <1>8, StableFacts DEF Stable, Removing
  <2> QED BY <2>1, <1>5, <1>8 DEF Agreed, Mapped
<1>9. ASSUME Quiet', Agreed, Mirrors
      PROVE  /\ \A k \in GroupIds \ {g} : Same(k)
             /\ Touches(t, g)
             /\ \A u \in Threads \ {t} : Apart(u, g) \/ DoneNext(thread[u])
             /\ DoneNext(r)
             /\ g \in inCache' => Doomed(g)' \/ Mirrored(g)'
             /\ mishaps' = {} /\ g \in dbGroups' \ inCache' => Founding(g)'
  <2>1. g \in inCache /\ dbMember[p].gid \in {0, g}
    BY <1>1, <1>8, <1>9 DEF Quiet
  <2>2. \A k \in GroupIds \ {g} : Same(k)
    <3>1. \A k \in GroupIds : k # 0
      BY DEF GroupIds
    <3> QED BY <3>1, <2>1, <1>1, <1>2, <1>7 DEF Same
  <2>3. Touches(t, g)
    BY <1>1 DEF Touches, Creating, Deleting
  <2>4. \A u \in Threads \ {t} : Apart(u, g)
    BY <2>1, <1>5, <1>9, HolderIsAlone
  <2>5. DoneNext(r)
    <3>1. r.pc \notin {"update", "updateCache", "addRow", "addCache"} \cup Creating
      BY <1>4 DEF Creating
    <3>2. groups[g].columns.leader # p
      BY <1>1, <1>9 DEF Mirrors, AllDone, DoneNow, Done, Removing
    <3>3. dbMember'[p].gid # g
      BY <1>5, <1>7
    <3> QED BY <3>1, <3>2, <3>3, <1>2, <1>4 DEF DoneNext, Done
  <2>6. Doomed(g) => Doomed(g)'
    BY <1>4, <1>6, DoomedStays
  <2>7. ASSUME ~Doomed(g) PROVE Mirrored(g)'
    <3>1. /\ g \in dbGroups /\ groups[g].columns = dbColumns[g]
          /\ \A q \in Players : In(groups[g].members, q) <=> dbMember[q].gid = g
      BY <2>1, <2>7, <1>1, <1>5, <1>9, HolderMirrors
    <3>2. RowPending(g, p)'
      <4>1. thread'[t] = r
        BY <1>4, OthersStay
      <4> QED BY <4>1, <1>4 DEF RowPending
    <3>3. \A q \in Players : In(groups'[g].members, q) => dbMember'[q].gid = g \/ RowPending(g, q)'
      BY <3>1, <3>2, <1>2, <1>7
    <3>4. \A q \in Players : dbMember'[q].gid = g => In(groups'[g].members, q) \/ EntryPending(g, q)'
      BY <3>1, <1>2, <1>5, <1>7
    <3> QED BY <3>1, <3>3, <3>4, <1>1, <1>2 DEF Mirrored
  <2> QED BY <2>1, <2>2, <2>3, <2>4, <2>5, <2>6, <2>7, <1>2
<1>10. ASSUME Agreed, Mirrors, Leaders
      PROVE  /\ g \in inCache' => HasLeader(g)'
             /\ g \in dbGroups' => HasStoredLeader(g)'
  <2>1. g \in inCache
    BY <1>8, <1>10
  <2>2. ~Doomed(g)
    BY <2>1, <1>5, <1>6, <1>10, HolderDeletes DEF Leaders
  <2>3. g \in dbGroups /\ groups[g].columns = dbColumns[g]
    BY <2>1, <2>2, <1>1, <1>5, <1>10, HolderMirrors
  <2>4. groups[g].columns.leader # p
    BY <1>1, <1>10 DEF Mirrors, AllDone, DoneNow, Done, Removing
  <2>5. HasLeader(g) /\ HasStoredLeader(g)
    BY <2>1, <2>3, <1>10 DEF Leaders
  <2>6. HasLeader(g)'
    BY <2>5, <1>2 DEF HasLeader
  <2>7. HasStoredLeader(g)'
    BY <2>3, <2>4, <2>5, <1>1, <1>5, <1>7, LeaderType DEF HasStoredLeader
  <2> QED BY <2>6, <2>7
<1>11. nextId <= nextId' /\ mishaps \subseteq mishaps' /\ inCache \cup disbanded \subseteq inCache' \cup disbanded'
       /\ \A q \in Players : dbMember'[q].gid = dbMember[q].gid \/ dbMember'[q].gid < nextId'
  BY <1>1, <1>2, <1>7
<1> QED BY <1>2, <1>1, <1>4, <1>6, <1>9, <1>10, <1>11, WriteStays

\* RemoveMember finds the locked group.
LEMMA RemoveLookupStays ==
  ASSUME IInv, QInv, NEW t \in Threads, RemoveLookup(t)
  PROVE  QInv'
<1> DEFINE x == thread[t]
           r == [x EXCEPT !.pc = "removeCache", !.obj = memberOf[x.target]]
<1>0. PICK g, p : g = x.gid /\ p = x.target
  OBVIOUS
<1> USE <1>0
<1>1. /\ IInv' /\ x.pc = "removeLookup" /\ Cached /\ thread' = [thread EXCEPT ![t] = r]
      /\ UNCHANGED <<groups, inCache, memberOf, disbanded, mishaps>>
      /\ x \in ThreadType /\ thread \in [Threads -> ThreadType]
  BY RemoveLookupKeeps, ThreadFacts, Tuples DEF RemoveLookup, At
<1>2. UNCHANGED <<dbGroups, dbColumns, dbMember, nextId, dbErrors, refusals>> /\ nextId <= nextId'
  BY <1>1, CachedStays
<1>3. /\ Becomes(t, r) /\ r.pc = "removeCache" /\ r.op = x.op /\ r.target = p /\ r.gid = g
  <2>1. Becomes(t, r)
    BY <1>1 DEF Becomes
  <2> HIDE DEF x
  <2> QED BY <2>1, <1>1 DEF ThreadType
<1> HIDE DEF r
<1>4. Locking(x) /\ g \in GroupIds /\ g # 0 /\ p \in Players
  <2>1. Shape(x)
    BY ThreadFacts
  <2> QED BY <2>1, <1>1 DEF Locking, Removing, Shape, GroupIds
<1>5. r.pc \notin Deleting \cup {"bind"} /\ x.pc \notin Deleting \cup Creating
  BY <1>1, <1>3 DEF Deleting, Creating
<1>6. ASSUME Agreed PROVE g \in inCache
  <2>1. memberOf[p] = g
    BY <1>1, <1>6, StableFacts DEF Stable, Removing
  <2> QED BY <2>1, <1>4, <1>6 DEF Agreed, Mapped
<1>7. \A k \in GroupIds : Same(k)
  BY <1>1, <1>2 DEF Same
<1>8. ASSUME Agreed, Mirrors
      PROVE  /\ Touches(t, g)
             /\ \A u \in Threads \ {t} : Apart(u, g) \/ DoneNext(thread[u])
             /\ DoneNext(r)
             /\ g \in inCache' => Doomed(g)' \/ Mirrored(g)'
             /\ mishaps' = {} /\ g \in dbGroups' \ inCache' => Founding(g)'
  <2>1. g \in inCache
    BY <1>6, <1>8
  <2>2. Touches(t, g)
    BY <1>1 DEF Touches, Creating, Deleting
  <2>3. \A u \in Threads \ {t} : Apart(u, g)
    BY <2>1, <1>4, <1>8, HolderIsAlone
  <2>4. groups[g].columns.leader # p /\ dbMember[p].gid # g
    BY <1>1, <1>8 DEF Mirrors, AllDone, DoneNow, Done, Removing
  <2>5. DoneNext(r)
    <3>1. r.pc \notin {"update", "updateCache", "addRow", "addCache"} \cup Creating
      BY <1>3 DEF Creating
    <3> QED BY <3>1, <2>4, <1>1, <1>2, <1>3 DEF DoneNext, Done
  <2>6. Doomed(g) => Doomed(g)'
    BY <1>3, <1>5, DoomedStays
  <2>7. ASSUME ~Doomed(g) PROVE Mirrored(g)'
    <3>1. /\ g \in dbGroups /\ groups[g].columns = dbColumns[g]
          /\ \A q \in Players : In(groups[g].members, q) => dbMember[q].gid = g \/ q = p
          /\ \A q \in Players : dbMember[q].gid = g => In(groups[g].members, q)
      BY <2>1, <2>7, <1>1, <1>4, <1>8, HolderMirrors
    <3>2. RowPending(g, p)'
      <4>1. thread'[t] = r
        BY <1>3, OthersStay
      <4> QED BY <4>1, <1>3 DEF RowPending
    <3> QED BY <3>1, <3>2, <1>1, <1>2 DEF Mirrored
  <2> QED BY <2>1, <2>2, <2>3, <2>5, <2>6, <2>7, <1>1
<1>9. ASSUME Leaders
      PROVE  /\ g \in inCache' => HasLeader(g)'
             /\ g \in dbGroups' => HasStoredLeader(g)'
  BY <1>1, <1>2, <1>9 DEF Leaders, HasLeader, HasStoredLeader
<1> QED BY <1>1, <1>2, <1>3, <1>5, <1>7, <1>8, <1>9, WriteStays

\* A list that changes, and what does not.
LEMMA ListChange ==
  ASSUME IInv, NEW g \in GroupIds, NEW s, groups' = [groups EXCEPT ![g].members = s]
  PROVE  /\ groups'[g].members = s /\ groups'[g].columns = groups[g].columns
         /\ \A h \in GroupIds \ {g} : groups'[h] = groups[h]
<1> DEFINE y == groups[g]
           z == [y EXCEPT !.members = s]
<1>1. y \in GroupType /\ groups \in [GroupIds -> GroupType]
  BY ColumnsFacts DEF IInv, TypeOK, CacheOK
<1>2. groups' = [groups EXCEPT ![g] = z]
  OBVIOUS
<1> HIDE DEF y
<1>3. z.members = s /\ z.columns = y.columns
  BY <1>1 DEF GroupType
<1> HIDE DEF z
<1> QED BY <1>1, <1>2, <1>3 DEF y

\* The entry of a departing member follows his row.
LEMMA RemoveCacheStays ==
  ASSUME IInv, QInv, NEW t \in Threads, RemoveCache(t)
  PROVE  QInv'
<1> DEFINE x == thread[t]
<1>0. PICK g, p : g = x.gid /\ p = x.target
  OBVIOUS
<1> USE <1>0
<1> DEFINE m == groups[g].members
           rest == WithoutFirst(m, p)
<1>1. /\ IInv' /\ x.pc = "removeCache" /\ Return(t) /\ Cached
      /\ UNCHANGED <<inCache, disbanded, mishaps>>
  BY RemoveCacheKeeps, Tuples DEF RemoveCache, At
<1>2. UNCHANGED <<dbGroups, dbColumns, dbMember, nextId, dbErrors, refusals>> /\ nextId <= nextId'
  BY <1>1, CachedStays
<1>3. Becomes(t, Idle) /\ Idle.pc = "idle"
  BY <1>1, FreshValues DEF Return, Becomes
<1>4. Locking(x) /\ g \in GroupIds /\ g # 0 /\ p \in Players
  <2>1. Shape(x)
    BY ThreadFacts
  <2> QED BY <2>1, <1>1 DEF Locking, Removing, Shape, GroupIds
<1>5. Idle.pc \notin Deleting \cup {"bind"} /\ x.pc \notin Deleting \cup Creating
  BY <1>1, <1>3 DEF Deleting, Creating
<1>6. ASSUME Agreed
      PROVE  /\ g \in inCache
             /\ groups'[g].columns = groups[g].columns /\ \A h \in GroupIds \ {g} : groups'[h] = groups[h]
             /\ \A q \in Players : In(groups'[g].members, q) <=> q # p /\ In(m, q)
  <2>1. memberOf[p] = g /\ x.obj = g
    BY <1>1, <1>6, StableFacts DEF Stable, Removing
  <2>2. g \in inCache /\ In(m, p) /\ Distinct(m)
    BY <2>1, <1>4, <1>6 DEF Agreed, Mapped, ListedOnce
  <2>3. IsMember(g, p)
    BY <2>2, IsMemberIn
  <2>4. groups' = [groups EXCEPT ![g].members = rest]
    BY <2>1, <2>3 DEF RemoveCache
  <2>5. m \in Seq(MemberType)
    BY <1>4, ColumnsFacts
  <2>6. \A q : In(rest, q) <=> q # p /\ In(m, q)
    BY <2>2, <2>5, WithoutFirstMembers
  <2> HIDE DEF rest
  <2>7. groups'[g].members = rest /\ groups'[g].columns = groups[g].columns
        /\ \A h \in GroupIds \ {g} : groups'[h] = groups[h]
    BY <2>4, <1>4, ListChange
  <2> QED BY <2>2, <2>6, <2>7
<1>7. ASSUME Agreed, Mirrors
      PROVE  /\ \A k \in GroupIds \ {g} : Same(k)
             /\ Touches(t, g)
             /\ \A u \in Threads \ {t} : Apart(u, g) \/ DoneNext(thread[u])
             /\ DoneNext(Idle)
             /\ g \in inCache' => Doomed(g)' \/ Mirrored(g)'
             /\ mishaps' = {} /\ g \in dbGroups' \ inCache' => Founding(g)'
  <2>1. g \in inCache
    BY <1>6, <1>7
  <2>2. \A k \in GroupIds \ {g} : Same(k)
    BY <1>1, <1>2, <1>6, <1>7 DEF Same
  <2>3. Touches(t, g)
    BY <1>1 DEF Touches, Creating, Deleting
  <2>4. \A u \in Threads \ {t} : Apart(u, g)
    BY <2>1, <1>4, <1>7, HolderIsAlone
  <2>5. DoneNext(Idle)
    BY <1>3, ClaimsNothing DEF DoneNext, NoClaims
  <2>6. Doomed(g) => Doomed(g)'
    BY <1>3, <1>5, DoomedStays
  <2>7. ASSUME ~Doomed(g) PROVE Mirrored(g)'
    <3>1. /\ g \in dbGroups /\ groups[g].columns = dbColumns[g]
          /\ \A q \in Players : In(m, q) => dbMember[q].gid = g \/ q = p
          /\ \A q \in Players : dbMember[q].gid = g => In(m, q)
      BY <2>1, <2>7, <1>1, <1>4, <1>7, HolderMirrors
    <3>2. dbMember[p].gid # g
      BY <1>1, <1>7 DEF Mirrors, AllDone, DoneNow, Done
    <3>3. \A q \in Players : In(groups'[g].members, q) <=> dbMember'[q].gid = g
      BY <3>1, <3>2, <1>2, <1>6, <1>7
    <3> QED BY <3>1, <3>3, <1>2, <1>6, <1>7 DEF Mirrored
  <2> QED BY <2>1, <2>2, <2>3, <2>4, <2>5, <2>6, <2>7, <1>1
<1>8. ASSUME Agreed, Mirrors, Leaders
      PROVE  /\ g \in inCache' => HasLeader(g)'
             /\ g \in dbGroups' => HasStoredLeader(g)'
  <2>1. groups[g].columns.leader # p
    BY <1>1, <1>8 DEF Mirrors, AllDone, DoneNow, Done, Removing
  <2>2. g \in inCache /\ HasLeader(g)
    BY <1>6, <1>8 DEF Leaders
  <2>3. HasLeader(g)'
    BY <2>1, <2>2, <1>4, <1>6, <1>8, LeaderType DEF HasLeader
  <2>4. g \in dbGroups' => HasStoredLeader(g)'
    BY <1>2, <1>8 DEF Leaders, HasStoredLeader
  <2> QED BY <2>3, <2>4
<1>9. mishaps \subseteq mishaps' /\ inCache \cup disbanded \subseteq inCache' \cup disbanded'
  BY <1>1
<1> QED BY <1>1, <1>2, <1>3, <1>5, <1>7, <1>8, <1>9, WriteStays

-----------------------------------------------------------------------------
(* The deletion of a group. *)

\* A foundation is not at work on a group that is deleted, which was in the cache.
LEMMA DeletedIsNoFoundation ==
  ASSUME IInv, Agreed, QInv, NEW t \in Threads, thread[t].pc \in Deleting \cup {"bind"},
         NEW u \in Threads, thread[u].pc \in Creating
  PROVE  thread[u].obj # thread[t].obj
<1>1. thread[t].obj \in inCache \cup disbanded
  BY DEF QInv, Grounds, DeletedWereCached
<1>2. thread[u].obj \notin inCache \cup disbanded
  BY DEF Agreed, AllStable, Stable
<1> QED BY <1>1, <1>2

\* DELETE of the rows of a group leaves what the other handlers have done, or their group doomed.
LEMMA DeletingKeepsDone ==
  ASSUME IInv, Agreed, QInv, NEW t \in Threads, NEW r, Becomes(t, r), thread[t].pc \in Deleting, r.pc \in Deleting,
         NEW g, g = thread[t].obj, g = r.obj, groups' = groups, dbColumns' = dbColumns,
         \A p \in Players : dbMember'[p].gid = dbMember[p].gid \/ (dbMember[p].gid = g /\ dbMember'[p].gid = 0),
         \A k : k # g => (k \in dbGroups' <=> k \in dbGroups),
         NEW u \in Threads \ {t}, DoneNow(thread[u])
  PROVE  DoneNext(thread[u])
<1> DEFINE y == thread[u]
<1>1. Shape(y) /\ DoneNow(y)
  BY ThreadFacts
<1>2. \A k \in GroupIds : Doomed(k) => Doomed(k)'
  <2> SUFFICES ASSUME NEW k \in GroupIds, NEW w \in Threads, thread[w].pc \in Deleting, thread[w].obj = k
               PROVE  Doomed(k)'
    BY DEF Doomed
  <2>1. CASE w = t
    <3>1. thread'[t] = r
      BY OthersStay
    <3> QED BY <2>1, <3>1 DEF Doomed
  <2>2. CASE w # t
    <3>1. thread'[w] = thread[w]
      BY <2>2, OthersStay
    <3> QED BY <3>1 DEF Doomed
  <2> QED BY <2>1, <2>2
<1>3. g \in GroupIds => g \in DoomedGroups'
  <2>1. thread'[t] = r
    BY OthersStay
  <2> QED BY <2>1 DEF DoomedGroups, Doomed
<1>4. \A k \in DoomedGroups : k \in DoomedGroups'
  BY <1>2 DEF DoomedGroups
<1>5. y.pc \in Creating => y.obj # g
  BY DeletedIsNoFoundation
<1> HIDE DEF y
<1>6. 0 \notin GroupIds
  BY DEF GroupIds
<1>7. y.pc \in {"removeLookup", "removeCache"} => dbMember'[y.target].gid # y.gid
  BY <1>1, <1>6 DEF Shape, Removing, DoneNow, Done
<1>8. y.pc = "addCache" => dbMember'[y.player].gid = y.gid \/ y.gid \in DoomedGroups'
  <2> SUFFICES ASSUME y.pc = "addCache" PROVE dbMember'[y.player].gid = y.gid \/ y.gid \in DoomedGroups'
    OBVIOUS
  <2>1. y.gid \in GroupIds /\ y.player \in Players /\ (dbMember[y.player].gid = y.gid \/ y.gid \in DoomedGroups)
    BY <1>1 DEF Shape, DoneNow, Done
  <2> QED BY <2>1, <1>3, <1>4
<1>9. y.pc \in Creating => Founded(y, dbMember', dbGroups', dbColumns')
  <2> SUFFICES ASSUME y.pc \in Creating PROVE Founded(y, dbMember', dbGroups', dbColumns')
    OBVIOUS
  <2>1. Founded(y, dbMember, dbGroups, dbColumns) /\ y.obj # g /\ y.obj # 0
    BY <1>1, <1>5, <1>6 DEF Shape, DoneNow, Done
  <2>2. \A p \in Players : dbMember'[p].gid = y.obj <=> dbMember[p].gid = y.obj
    BY <2>1
  <2> QED BY <2>1, <2>2 DEF Founded
<1>10. DoneNext(y)
  BY <1>1, <1>7, <1>8, <1>9 DEF DoneNext, DoneNow, Done
<1> QED BY <1>10 DEF y

\* DELETE of the rows of a group, by its last member or by a rollback.
LEMMA DeletingStays ==
  ASSUME IInv, IInv', QInv, NEW t \in Threads, thread[t].pc \in Deleting, NEW pc \in {"deleteGroup", "deleteCache"},
         Goto(t, pc), Saved, UNCHANGED <<dbColumns, nextId, mishaps>>,
         NEW g, g = thread[t].obj, g \in GroupIds,
         \A p \in Players : \/ dbMember'[p].gid = dbMember[p].gid
                            \/ dbMember[p].gid = g /\ dbMember'[p].gid = 0,
         dbGroups' = dbGroups \/ dbGroups' = dbGroups \ {g},
         g \in dbGroups' => \A p \in Players : dbMember'[p].gid # g
  PROVE  QInv'
<1> DEFINE r == [thread[t] EXCEPT !.pc = pc]
<1>1. UNCHANGED <<groups, inCache, memberOf, disbanded, dbErrors, refusals>> /\ nextId \in Int /\ 0 < nextId
  BY SavedStays
<1>2. pc \in Steps /\ pc \in Deleting
  BY DEF Steps, Deleting
<1>3. Becomes(t, r) /\ r.pc = pc /\ r.op = thread[t].op /\ r.obj = g
  BY <1>2, GotoBecomes
<1> HIDE DEF r
<1>4. g \in inCache \cup disbanded /\ disbanded \cap dbGroups = {}
  BY DEF QInv, Grounds, DeletedWereCached, IInv, DeletedFirst
<1>5. \A k \in GroupIds \ {g} : Same(k)
  <2>1. \A k \in GroupIds : k # 0
    BY DEF GroupIds
  <2> QED BY <2>1, <1>1 DEF Same
<1>6. ASSUME Mirrors, Agreed
      PROVE  /\ Touches(t, g)
             /\ \A u \in Threads \ {t} : Apart(u, g) \/ DoneNext(thread[u])
             /\ DoneNext(r)
             /\ g \in inCache' => Doomed(g)' \/ Mirrored(g)'
             /\ mishaps' = {} /\ g \in dbGroups' \ inCache' => Founding(g)'
  <2>1. Touches(t, g)
    BY DEF Touches, Deleting
  <2>2. ASSUME NEW u \in Threads \ {t} PROVE DoneNext(thread[u])
    <3>1. DoneNow(thread[u])
      BY <1>6 DEF Mirrors, AllDone
    <3>2. \A k : k # g => (k \in dbGroups' <=> k \in dbGroups)
      OBVIOUS
    <3> QED BY <3>1, <3>2, <1>1, <1>2, <1>3, <1>6, DeletingKeepsDone
  <2>3. DoneNext(r)
    BY <1>2, <1>3, ClaimsNothing DEF DoneNext, NoClaims
  <2>4. Doomed(g)'
    <3>1. thread'[t] = r
      BY <1>3, OthersStay
    <3> QED BY <3>1, <1>2, <1>3 DEF Doomed
  <2>5. g \notin dbGroups' \ inCache'
    BY <1>1, <1>4
  <2> QED BY <2>1, <2>2, <2>3, <2>4, <2>5
<1>7. ASSUME Leaders
      PROVE  /\ g \in inCache' => HasLeader(g)'
             /\ g \in dbGroups' => HasStoredLeader(g)'
             /\ r.pc \in Deleting => r.op # "AcceptInvite"
  <2>1. r.op # "AcceptInvite"
    BY <1>3, <1>7 DEF Leaders, NoRollback
  <2>2. g \in inCache' => HasLeader(g)'
    BY <1>1, <1>7 DEF Leaders, HasLeader
  <2>3. g \in dbGroups' => HasStoredLeader(g)'
    BY DEF HasStoredLeader
  <2> QED BY <2>1, <2>2, <2>3
<1>8. nextId <= nextId' /\ mishaps \subseteq mishaps' /\ inCache \cup disbanded \subseteq inCache' \cup disbanded'
      /\ \A q \in Players : dbMember'[q].gid = dbMember[q].gid \/ dbMember'[q].gid < nextId'
  BY <1>1
<1>9. r.pc \in Deleting \cup {"bind"} => r.obj \in inCache' \cup disbanded'
  BY <1>1, <1>3, <1>4
<1> QED BY <1>1, <1>3, <1>5, <1>6, <1>7, <1>8, <1>9, WriteStays

\* The first DELETE takes away the member rows.
LEMMA DeleteMemberRowsStays ==
  ASSUME IInv, QInv, NEW t \in Threads, DeleteMemberRows(t)
  PROVE  QInv'
<1>0. PICK g : g = thread[t].obj
  OBVIOUS
<1>1. /\ IInv' /\ thread[t].pc = "deleteMembers" /\ Goto(t, "deleteGroup") /\ Saved
      /\ dbMember' = [p \in Players |-> IF dbMember[p].gid = g THEN NoRow ELSE dbMember[p]]
      /\ UNCHANGED <<dbGroups, dbColumns, nextId, mishaps>>
  BY <1>0, DeleteMemberRowsKeeps DEF DeleteMemberRows, At
<1>2. thread[t].pc \in Deleting
  BY <1>1 DEF Deleting
<1>3. g \in GroupIds /\ g # 0
  <2>1. Shape(thread[t])
    BY ThreadFacts
  <2> QED BY <2>1, <1>0, <1>2 DEF Shape, GroupIds
<1>4. \A p \in Players : \/ dbMember'[p].gid = dbMember[p].gid /\ dbMember'[p].gid # g
                         \/ dbMember[p].gid = g /\ dbMember'[p].gid = 0
  BY <1>1, <1>3 DEF NoRow
<1>5. \A p \in Players : dbMember'[p].gid # g
  BY <1>3, <1>4
<1> QED BY <1>0, <1>1, <1>2, <1>3, <1>4, <1>5, DeletingStays

\* The second DELETE takes away the row of the group.
LEMMA DeleteGroupRowStays ==
  ASSUME IInv, QInv, NEW t \in Threads, DeleteGroupRow(t)
  PROVE  QInv'
<1>0. PICK g : g = thread[t].obj
  OBVIOUS
<1>1. /\ IInv' /\ thread[t].pc = "deleteGroup" /\ Goto(t, "deleteCache") /\ Saved
      /\ dbGroups' = dbGroups \ {g}
      /\ UNCHANGED <<dbColumns, dbMember, nextId, mishaps>>
  BY <1>0, DeleteGroupRowKeeps DEF DeleteGroupRow, At
<1>2. thread[t].pc \in Deleting
  BY <1>1 DEF Deleting
<1>3. g \in GroupIds
  <2>1. Shape(thread[t])
    BY ThreadFacts
  <2> QED BY <2>1, <1>0, <1>2 DEF Shape
<1> QED BY <1>0, <1>1, <1>2, <1>3, DeletingStays

\* The cache entry goes last; a handler that holds the lock then is noted.
LEMMA DeleteCacheStays ==
  ASSUME IInv, QInv, NEW t \in Threads, DeleteCache(t)
  PROVE  QInv'
<1>0. PICK g : g = thread[t].obj
  OBVIOUS
<1>1. /\ IInv' /\ thread[t].pc = "deleteCache" /\ Return(t) /\ Cached /\ groups' = groups
      /\ mishaps' = IF lock[g] \notin {t, NoThread} THEN mishaps \cup {"deletedInUse"} ELSE mishaps
      /\ inCache' = inCache \ {g}
      /\ disbanded' = IF g \in inCache THEN disbanded \cup {g} ELSE disbanded
  BY <1>0, DeleteCacheKeeps DEF DeleteCache, At, NoteIf
<1>2. UNCHANGED <<dbGroups, dbColumns, dbMember, nextId, dbErrors, refusals>> /\ nextId <= nextId'
  BY <1>1, CachedStays
<1>3. Becomes(t, Idle) /\ Idle.pc = "idle"
  BY <1>1, FreshValues DEF Return, Becomes
<1>4. Idle.pc \notin Deleting \cup {"bind"} /\ thread[t].pc \in Deleting
  BY <1>1, <1>3 DEF Deleting
<1>5. \A k \in GroupIds \ {g} : Same(k)
  BY <1>1, <1>2 DEF Same
<1>6. ASSUME Quiet', Mirrors, Agreed
      PROVE  /\ Touches(t, g)
             /\ \A u \in Threads \ {t} : Apart(u, g) \/ DoneNext(thread[u])
             /\ DoneNext(Idle)
             /\ g \in inCache' => Doomed(g)' \/ Mirrored(g)'
             /\ mishaps' = {} /\ g \in dbGroups' \ inCache' => Founding(g)'
  <2>1. Touches(t, g)
    BY <1>0, <1>1 DEF Touches, Creating, Deleting
  <2>2. ASSUME NEW u \in Threads \ {t} PROVE Apart(u, g)
    <3>1. lock[g] \in {t, NoThread}
      BY <1>1, <1>6 DEF Quiet
    <3>2. Locking(thread[u]) => thread[u].gid # g
      BY <3>1, NobodyAssumption DEF IInv, LocksHeld
    <3>3. thread[u].pc \in Creating => thread[u].obj # g
      BY <1>0, <1>4, <1>6, DeletedIsNoFoundation
    <3> QED BY <3>2, <3>3 DEF Apart
  <2>3. DoneNext(Idle)
    BY <1>3, ClaimsNothing DEF DoneNext, NoClaims
  <2>4. g \notin inCache' /\ g \notin dbGroups'
    BY <1>0, <1>1, <1>2 DEF IInv, DeletedFirst
  <2> QED BY <2>1, <2>2, <2>3, <2>4
<1>7. g \notin inCache' /\ g \notin dbGroups'
  BY <1>0, <1>1, <1>2 DEF IInv, DeletedFirst
<1>8. mishaps \subseteq mishaps' /\ inCache \cup disbanded \subseteq inCache' \cup disbanded'
  BY <1>1
<1> QED BY <1>1, <1>2, <1>3, <1>4, <1>5, <1>6, <1>7, <1>8, WriteStays

-----------------------------------------------------------------------------
(* Joining a group. *)

\* A join of a group without members is noted.
LEMMA LockInviteStays ==
  ASSUME IInv, QInv, NEW t \in Threads, LockInvite(t)
  PROVE  QInv'
<1> DEFINE x == thread[t]
           r == [x EXCEPT !.pc = "addRow"]
<1>1. /\ IInv' /\ x.pc = "lockInvite" /\ x \in ThreadType /\ thread \in [Threads -> ThreadType]
      /\ UNCHANGED <<groups, inCache, disbanded, dbGroups, dbColumns, dbMember, dbErrors, nextId, refusals>>
      /\ mishaps' = IF x.gid \in inCache /\ groups[x.gid].members = <<>> THEN mishaps \cup {"emptyJoined"} ELSE mishaps
  BY LockInviteKeeps, ThreadFacts, Tuples DEF LockInvite, At, NoteIf
<1>2. x.pc \notin Creating \cup Deleting \cup {"update", "removeLookup", "removeCache", "addCache"}
      /\ mishaps \subseteq mishaps'
  BY <1>1 DEF Creating, Deleting
<1>3. CASE Return(t)
  BY <1>1, <1>2, <1>3, ReturnsStay
<1>4. CASE x.gid \in inCache /\ thread' = [thread EXCEPT ![t].pc = "addRow"]
  <2>1. Becomes(t, r)
    BY <1>1, <1>4 DEF Becomes
  <2>2. r.pc = "addRow" /\ r.gid = x.gid
    <3> HIDE DEF x
    <3> QED BY <1>1 DEF ThreadType
  <2> HIDE DEF r
  <2>3. r.pc \notin Deleting \cup {"bind"}
    BY <2>2 DEF Deleting
  <2>4. ASSUME Quiet' PROVE DoneNext(r)
    <3>1. groups'[r.gid].members # <<>>
      BY <2>2, <2>4, <1>1, <1>4 DEF Quiet
    <3>2. r.pc \notin {"removeLookup", "removeCache", "update", "updateCache", "addCache"} \cup Removing \cup Creating
      BY <2>2 DEF Removing, Creating
    <3> QED BY <3>1, <3>2 DEF DoneNext, Done
  <2> QED BY <2>1, <2>3, <2>4, <1>1, <1>2, PlainStays
<1> QED BY <1>3, <1>4 DEF LockInvite

\* A list that is not empty lists a player.
LEMMA SomeMember ==
  ASSUME IInv, NEW g \in GroupIds, groups[g].members # <<>>
  PROVE  \E q \in Players : In(groups[g].members, q)
<1> DEFINE m == groups[g].members
<1>1. m \in Seq(MemberType) /\ m # <<>>
  BY ColumnsFacts
<1> HIDE DEF m
<1>2. Len(m) \in Nat /\ Len(m) # 0 /\ DOMAIN m = 1..Len(m)
  BY <1>1, LenProperties, EmptySeq
<1>3. 1 \in DOMAIN m /\ m[1] \in MemberType
  BY <1>1, <1>2, ElementOfSeq
<1>4. m[1].guid \in Players /\ In(m, m[1].guid)
  BY <1>3 DEF MemberType, In
<1> QED BY <1>4 DEF m

\* The row of a joining player comes before his entry in the list.
LEMMA AddRowStays ==
  ASSUME IInv, QInv, NEW t \in Threads, AddRow(t)
  PROVE  QInv'
<1> DEFINE x == thread[t]
           r == [x EXCEPT !.pc = "addCache"]
<1>0. PICK g, p : g = x.gid /\ p = x.player
  OBVIOUS
<1> USE <1>0
<1>1. /\ IInv' /\ x.pc = "addRow" /\ Saved /\ UNCHANGED <<dbGroups, dbColumns, nextId, mishaps>>
      /\ InsertMember(t, g, p, "addCache")
  BY AddRowKeeps DEF AddRow, InsertMember, At, NoteIf
<1>2. UNCHANGED <<groups, inCache, memberOf, disbanded, dbErrors, refusals>> /\ nextId \in Int
  BY <1>1, SavedStays
<1>3. Locking(x) /\ dbMember \in [Players -> RowType] /\ p \in Players /\ g \in GroupIds /\ g < nextId
  <2>1. Shape(x) /\ x.gid < nextId
    BY ThreadFacts
  <2> QED BY <2>1, <1>1 DEF Locking, Shape, IInv, TypeOK, DBOK
<1>4. x.pc \notin Deleting \cup Creating \cup {"update", "removeLookup", "removeCache", "addCache"}
  BY <1>1 DEF Deleting, Creating
<1>5. CASE UNCHANGED dbMember /\ Return(t)
  BY <1>1, <1>2, <1>4, <1>5, ReturnsStay
<1>6. CASE dbMember[p] = NoRow /\ dbMember' = [dbMember EXCEPT ![p].gid = g] /\ Goto(t, "addCache")
  <2>1. "addCache" \in Steps
    BY DEF Steps
  <2>2. Becomes(t, r) /\ r.pc = "addCache" /\ r.player = p /\ r.gid = g
    BY <2>1, <1>6, GotoBecomes
  <2> HIDE DEF r
  <2>3. r.pc \notin Deleting \cup {"bind"}
    BY <2>2 DEF Deleting
  <2>4. dbMember[p].gid = 0 /\ \A q \in Players : dbMember'[q].gid = IF q = p THEN g ELSE dbMember[q].gid
    BY <1>3, <1>6 DEF NoRow
  <2>5. \A k \in GroupIds \ {g} : Same(k)
    <3>1. \A k \in GroupIds : k # 0
      BY DEF GroupIds
    <3> QED BY <3>1, <2>4, <1>1, <1>2 DEF Same
  <2>6. ASSUME Agreed, Mirrors
        PROVE  /\ Touches(t, g)
               /\ \A u \in Threads \ {t} : Apart(u, g) \/ DoneNext(thread[u])
               /\ DoneNext(r)
               /\ g \in inCache' => Doomed(g)' \/ Mirrored(g)'
               /\ mishaps' = {} /\ g \in dbGroups' \ inCache' => Founding(g)'
    <3>1. g \in inCache
      BY <2>6, <1>1, StableFacts DEF Stable
    <3>2. Touches(t, g)
      BY <1>4 DEF Touches
    <3>3. \A u \in Threads \ {t} : Apart(u, g)
      BY <3>1, <2>6, <1>3, HolderIsAlone
    <3>4. DoneNext(r)
      <4>1. r.pc \notin {"removeLookup", "removeCache", "update", "updateCache"} \cup Removing \cup Creating
        BY <2>2 DEF Removing, Creating
      <4>2. groups[g].members # <<>>
        BY <2>6, <1>1 DEF Mirrors, AllDone, DoneNow, Done
      <4> QED BY <4>1, <4>2, <2>2, <2>4, <1>2, <1>3 DEF DoneNext, Done
    <3>5. Doomed(g) => Doomed(g)'
      BY <2>2, <1>4, DoomedStays
    <3>6. ASSUME ~Doomed(g) PROVE Mirrored(g)'
      <4>1. /\ g \in dbGroups /\ groups[g].columns = dbColumns[g]
            /\ \A q \in Players : In(groups[g].members, q) <=> dbMember[q].gid = g
        BY <3>1, <3>6, <2>6, <1>1, <1>3, HolderMirrors
      <4>2. EntryPending(g, p)'
        <5>1. thread'[t] = r
          BY <2>2, OthersStay
        <5> QED BY <5>1, <2>2 DEF EntryPending
      <4>3. \A q \in Players : In(groups'[g].members, q) => dbMember'[q].gid = g
        BY <4>1, <2>4, <1>2
      <4>4. \A q \in Players : dbMember'[q].gid = g => In(groups'[g].members, q) \/ EntryPending(g, q)'
        BY <4>1, <4>2, <2>4, <1>2
      <4> QED BY <4>1, <4>3, <4>4, <1>1, <1>2 DEF Mirrored
    <3> QED BY <3>1, <3>2, <3>3, <3>4, <3>5, <3>6, <1>2
  <2>7. ASSUME Agreed, Mirrors, Leaders
        PROVE  /\ g \in inCache' => HasLeader(g)'
               /\ g \in dbGroups' => HasStoredLeader(g)'
    <3>1. g \in inCache
      BY <2>7, <1>1, StableFacts DEF Stable
    <3>2. ~Doomed(g)
      BY <3>1, <2>7, <1>3, <1>4, HolderDeletes DEF Leaders
    <3>3. /\ groups[g].columns = dbColumns[g]
          /\ \A q \in Players : In(groups[g].members, q) <=> dbMember[q].gid = g
      BY <3>1, <3>2, <2>7, <1>1, <1>3, HolderMirrors
    <3>4. HasLeader(g)
      BY <3>1, <2>7 DEF Leaders
    <3>5. \E q \in Players : In(groups[g].members, q)
      <4>1. groups[g].members # <<>>
        BY <2>7, <1>1 DEF Mirrors, AllDone, DoneNow, Done
      <4> QED BY <4>1, <1>3, SomeMember
    <3>6. dbColumns[g].leader = NoPlayer \/ (dbColumns[g].leader \in Players /\ dbMember[dbColumns[g].leader].gid = g)
      BY <3>3, <3>4, <3>5, <1>3, LeaderType DEF HasLeader
    <3>7. HasStoredLeader(g)'
      BY <3>6, <2>4, <1>1 DEF HasStoredLeader
    <3>8. HasLeader(g)'
      BY <3>4, <1>2 DEF HasLeader
    <3> QED BY <3>7, <3>8
  <2>8. nextId <= nextId' /\ mishaps \subseteq mishaps' /\ inCache \cup disbanded \subseteq inCache' \cup disbanded'
        /\ \A q \in Players : dbMember'[q].gid = dbMember[q].gid \/ dbMember'[q].gid < nextId'
    BY <2>4, <1>1, <1>2, <1>3
  <2> QED BY <2>2, <2>3, <2>5, <2>6, <2>7, <2>8, <1>1, <1>2, WriteStays
<1> QED BY <1>1, <1>5, <1>6 DEF InsertMember

\* The entry of a joining player follows his row, unless the group is being deleted.
LEMMA AddCacheStays ==
  ASSUME IInv, QInv, NEW t \in Threads, AddCache(t)
  PROVE  QInv'
<1> DEFINE x == thread[t]
<1>0. PICK g, p : g = x.gid /\ p = x.player
  OBVIOUS
<1> USE <1>0
<1> DEFINE m == groups[g].members
           more == Append(m, NewMember(p))
<1>1. /\ IInv' /\ x.pc = "addCache" /\ g \in inCache /\ Return(t) /\ Cached /\ UNCHANGED <<inCache, disbanded>>
      /\ mishaps' = IF memberOf[p] # 0 THEN mishaps \cup {"joinedTwice"} ELSE mishaps
      /\ groups' = [groups EXCEPT ![g].members = more]
  BY AddCacheKeeps DEF AddCache, At, NoteIf
<1>2. UNCHANGED <<dbGroups, dbColumns, dbMember, nextId, dbErrors, refusals>> /\ nextId <= nextId'
  BY <1>1, CachedStays
<1>3. Becomes(t, Idle) /\ Idle.pc = "idle"
  BY <1>1, FreshValues DEF Return, Becomes
<1>4. Locking(x) /\ g \in GroupIds /\ p \in Players
  <2>1. Shape(x)
    BY ThreadFacts
  <2> QED BY <2>1, <1>1 DEF Locking, Shape
<1>5. Idle.pc \notin Deleting \cup {"bind"} /\ x.pc \notin Deleting \cup Creating
  BY <1>1, <1>3 DEF Deleting, Creating
<1>6. \A q \in Players : In(more, q) <=> q = p \/ In(m, q)
  <2>1. m \in Seq(MemberType)
    BY <1>4, ColumnsFacts
  <2> QED BY <2>1, <1>4, NewMemberType, AppendMembers
<1> HIDE DEF more
<1>7. /\ groups'[g].members = more /\ groups'[g].columns = groups[g].columns
      /\ \A h \in GroupIds \ {g} : groups'[h] = groups[h]
  BY <1>1, <1>4, ListChange
<1>8. \A k \in GroupIds \ {g} : Same(k)
  BY <1>1, <1>2, <1>7 DEF Same
<1>9. ASSUME Agreed, Mirrors
      PROVE  /\ Touches(t, g)
             /\ \A u \in Threads \ {t} : Apart(u, g) \/ DoneNext(thread[u])
             /\ DoneNext(Idle)
             /\ g \in inCache' => Doomed(g)' \/ Mirrored(g)'
             /\ mishaps' = {} /\ g \in dbGroups' \ inCache' => Founding(g)'
  <2>1. Touches(t, g)
    BY <1>1, <1>5 DEF Touches
  <2>2. \A u \in Threads \ {t} : Apart(u, g)
    BY <1>1, <1>4, <1>9, HolderIsAlone
  <2>3. DoneNext(Idle)
    BY <1>3, ClaimsNothing DEF DoneNext, NoClaims
  <2>4. Doomed(g) => Doomed(g)'
    BY <1>3, <1>5, DoomedStays
  <2>5. ASSUME ~Doomed(g) PROVE Mirrored(g)'
    <3>1. /\ g \in dbGroups /\ groups[g].columns = dbColumns[g]
          /\ \A q \in Players : In(m, q) => dbMember[q].gid = g
          /\ \A q \in Players : dbMember[q].gid = g => In(m, q) \/ q = p
      BY <2>5, <1>1, <1>4, <1>9, HolderMirrors
    <3>2. dbMember[p].gid = g
      BY <2>5, <1>1, <1>9 DEF Mirrors, AllDone, DoneNow, Done, DoomedGroups
    <3>3. \A q \in Players : In(groups'[g].members, q) <=> dbMember'[q].gid = g
      BY <3>1, <3>2, <1>2, <1>6, <1>7
    <3> QED BY <3>1, <3>3, <1>2, <1>7 DEF Mirrored
  <2> QED BY <2>1, <2>2, <2>3, <2>4, <2>5, <1>1
<1>10. ASSUME Agreed, Mirrors, Leaders
       PROVE  /\ g \in inCache' => HasLeader(g)'
              /\ g \in dbGroups' => HasStoredLeader(g)'
  <2>1. \E q \in Players : In(m, q)
    <3>1. m # <<>>
      BY <1>1, <1>10 DEF Mirrors, AllDone, DoneNow, Done
    <3> QED BY <3>1, <1>4, SomeMember
  <2>2. HasLeader(g)
    BY <1>1, <1>10 DEF Leaders
  <2>3. HasLeader(g)'
    BY <2>1, <2>2, <1>4, <1>6, <1>7, LeaderType DEF HasLeader
  <2>4. g \in dbGroups' => HasStoredLeader(g)'
    BY <1>2, <1>10 DEF Leaders, HasStoredLeader
  <2> QED BY <2>3, <2>4
<1>11. mishaps \subseteq mishaps' /\ inCache \cup disbanded \subseteq inCache' \cup disbanded'
  BY <1>1
<1> QED BY <1>1, <1>2, <1>3, <1>5, <1>8, <1>9, <1>10, <1>11, WriteStays

-----------------------------------------------------------------------------
(* Founding a group. *)

\* A handler that holds a lock holds that of a group that is or was cached.
LEMMA LockedWasCached ==
  ASSUME IInv, Agreed, QInv, NEW u \in Threads, Locking(thread[u])
  PROVE  thread[u].gid \in inCache \cup disbanded
<1> DEFINE y == thread[u]
<1>1. Shape(y) /\ Stable(y, inCache, memberOf, disbanded)
  BY ThreadFacts, StableFacts
<1>2. y.pc \in Deleting => y.obj \in inCache \cup disbanded
  BY DEF QInv, Grounds, DeletedWereCached
<1>3. Locking(y)
  OBVIOUS
<1> HIDE DEF y
<1>4. y.gid \in GroupIds /\ y.gid # 0 /\ y.player \in Players /\ y.target \in Players
  BY <1>1, <1>3 DEF Shape, Locking, Removing, Deleting, GroupIds
<1>5. y.pc \in Deleting /\ y.op # "AcceptInvite" => y.gid \in inCache \cup disbanded
  BY <1>1, <1>2 DEF Stable
<1>6. y.pc = "body" \/ y.pc \in Removing => y.gid \in inCache
  <2> SUFFICES ASSUME y.pc = "body" \/ y.pc \in Removing PROVE y.gid \in inCache
    OBVIOUS
  <2>1. \E p \in Players : memberOf[p] = y.gid
    BY <1>1, <1>4 DEF Stable
  <2> QED BY <2>1, <1>4 DEF Agreed, Mapped
<1>7. y.pc \in {"update", "updateCache", "addRow", "addCache"} => y.gid \in inCache
  BY <1>1 DEF Stable
<1>8. y.gid \in inCache \cup disbanded
  BY <1>3, <1>5, <1>6, <1>7 DEF Locking
<1> QED BY <1>8 DEF y

\* Nobody else is at work on a group that is being founded.
LEMMA FounderIsAlone ==
  ASSUME IInv, Agreed, QInv, NEW t \in Threads, thread[t].pc \in Creating
  PROVE  /\ thread[t].obj \notin inCache \cup disbanded
         /\ \A u \in Threads \ {t} : Apart(u, thread[t].obj)
<1>1. thread[t].obj \notin inCache \cup disbanded
  BY DEF Agreed, AllStable, Stable
<1>2. ASSUME NEW u \in Threads \ {t} PROVE Apart(u, thread[t].obj)
  <2>1. Locking(thread[u]) => thread[u].gid # thread[t].obj
    BY <1>1, LockedWasCached
  <2>2. thread[u].pc \in Creating => thread[u].obj # thread[t].obj
    BY DEF IInv, FoundationsDiffer
  <2> QED BY <2>1, <2>2 DEF Apart
<1> QED BY <1>1, <1>2

\* A foundation begins with the row of a group that nothing names.
LEMMA CreateRowStays ==
  ASSUME IInv, QInv, NEW t \in Threads, CreateRow(t)
  PROVE  QInv'
<1> DEFINE x == thread[t]
           r == [x EXCEPT !.pc = "createInviter", !.obj = nextId]
<1>0. PICK g : g = nextId
  OBVIOUS
<1>1. /\ IInv' /\ x.pc = "createRow" /\ g <= MaxGroups /\ Saved /\ UNCHANGED <<dbMember, mishaps>>
      /\ dbGroups' = dbGroups \cup {g}
      /\ dbColumns' = [dbColumns EXCEPT ![g] = [NoColumns EXCEPT !.leader = x.target]]
      /\ nextId' = nextId + 1 /\ thread' = [thread EXCEPT ![t] = r]
      /\ x \in ThreadType /\ thread \in [Threads -> ThreadType]
  BY <1>0, CreateRowKeeps, ThreadFacts DEF CreateRow, At
<1>2. UNCHANGED <<groups, inCache, memberOf, disbanded, dbErrors, refusals>> /\ nextId \in Int /\ 0 < nextId
  BY <1>1, SavedStays
<1>3. Becomes(t, r) /\ r.pc = "createInviter" /\ r.target = x.target /\ r.obj = g
  <2>1. Becomes(t, r)
    BY <1>1 DEF Becomes
  <2> HIDE DEF x
  <2> QED BY <2>1, <1>0, <1>1 DEF ThreadType
<1> HIDE DEF r
<1>4. IdsGiven /\ RowsGiven /\ dbColumns \in [GroupIds -> ColumnsType] /\ g \in GroupIds
  BY <1>0, <1>1, <1>2, MaxGroupsAssumption DEF IInv, TypeOK, DBOK, QInv, Grounds, GroupIds
<1>5. g \notin inCache /\ \A p \in Players : dbMember[p].gid # g
  BY <1>0, <1>2, <1>4 DEF IdsGiven, RowsGiven
<1>6. r.pc \in Creating /\ r.pc \notin Deleting \cup {"bind"}
  BY <1>3 DEF Creating, Deleting
<1>7. \A k \in GroupIds \ {g} : Same(k)
  BY <1>1, <1>2, <1>4 DEF Same
<1>8. Touches(t, g)
  BY <1>1 DEF Touches, Creating, Deleting
<1>9. \A u \in Threads : Apart(u, g)
  BY <1>0, <1>2, <1>4 DEF IdsGiven, Apart
<1>10. DoneNext(r)
  <2>1. r.pc \notin {"removeLookup", "removeCache", "update", "updateCache", "addRow", "addCache"} \cup Removing
    BY <1>3 DEF Removing
  <2>2. dbColumns'[g] = [NoColumns EXCEPT !.leader = x.target]
    BY <1>1, <1>4
  <2>3. Founded(r, dbMember', dbGroups', dbColumns')
    BY <2>2, <1>1, <1>3, <1>5 DEF Founded
  <2> QED BY <2>1, <2>3 DEF DoneNext, Done
<1>11. Founding(g)'
  <2>1. thread'[t] = r
    BY <1>3, OthersStay
  <2> QED BY <2>1, <1>3, <1>6 DEF Founding
<1>12. g \notin inCache' /\ HasStoredLeader(g)'
  BY <1>1, <1>2, <1>5 DEF HasStoredLeader
<1>13. nextId <= nextId' /\ mishaps \subseteq mishaps' /\ inCache \cup disbanded \subseteq inCache' \cup disbanded'
  BY <1>1, <1>2
<1> QED BY <1>1, <1>2, <1>3, <1>6, <1>7, <1>8, <1>9, <1>10, <1>11, <1>12, <1>13, WriteStays

\* The two member rows of a foundation; a row that cannot be inserted leaves the foundation unfinished.
LEMMA FoundStays ==
  ASSUME IInv, IInv', QInv, NEW t \in Threads, NEW g, g = thread[t].obj, NEW p, NEW pc, InsertMember(t, g, p, pc),
         \/ thread[t].pc = "createInviter" /\ p = thread[t].target /\ pc = "createInvited"
         \/ thread[t].pc = "createInvited" /\ p = thread[t].player /\ pc = "createCache"
  PROVE  QInv'
<1> DEFINE x == thread[t]
           r == [x EXCEPT !.pc = pc]
<1>1. /\ Saved /\ UNCHANGED <<dbGroups, dbColumns, nextId>> /\ mishaps \subseteq mishaps'
      /\ dbMember[p] # NoRow => mishaps' # {}
  BY DEF InsertMember, NoteIf, At
<1>2. UNCHANGED <<groups, inCache, memberOf, disbanded, dbErrors, refusals>> /\ nextId \in Int /\ 0 < nextId
  BY <1>1, SavedStays
<1>3. x.pc \in Creating /\ pc \in Steps /\ pc \in {"createInvited", "createCache"}
  BY DEF Creating, Steps
<1>4. x.pc \notin Deleting \cup {"update", "removeLookup", "removeCache", "addCache"}
  BY DEF Deleting
<1>5. dbMember \in [Players -> RowType] /\ x.player \in Players /\ x.target \in Players /\ x.target # x.player
      /\ g \in GroupIds /\ g < nextId /\ dbGroups \subseteq GroupIds
  <2>1. Shape(x) /\ x.obj < nextId
    BY ThreadFacts
  <2>2. x.op = "AcceptInvite"
    BY <2>1, <1>3 DEF Shape
  <2> QED BY <2>1, <2>2, <1>3 DEF Shape, Creating, IInv, TypeOK, DBOK
<1>6. Touches(t, g)
  BY <1>4 DEF Touches
<1>7. ASSUME Agreed PROVE g \notin inCache' /\ \A u \in Threads \ {t} : Apart(u, g)
  BY <1>2, <1>3, <1>7, FounderIsAlone
<1>8. ASSUME Mirrors PROVE Founded(x, dbMember, dbGroups, dbColumns)
  BY <1>3, <1>8 DEF Mirrors, AllDone, DoneNow, Done
<1>9. CASE dbMember[p] = NoRow /\ dbMember' = [dbMember EXCEPT ![p].gid = g] /\ Goto(t, pc)
  <2>1. Becomes(t, r) /\ r.pc = pc /\ r.player = x.player /\ r.target = x.target /\ r.obj = g
    BY <1>3, <1>9, GotoBecomes
  <2> HIDE DEF r
  <2>2. r.pc \in Creating /\ r.pc \notin Deleting \cup {"bind"}
    BY <2>1, <1>3 DEF Creating, Deleting
  <2>3. dbMember[p].gid = 0 /\ \A q \in Players : dbMember'[q].gid = IF q = p THEN g ELSE dbMember[q].gid
    BY <1>5, <1>9 DEF NoRow
  <2>4. \A k \in GroupIds \ {g} : Same(k)
    <3>1. \A k \in GroupIds : k # 0
      BY DEF GroupIds
    <3> QED BY <3>1, <2>3, <1>1, <1>2 DEF Same
  <2>5. ASSUME Mirrors PROVE DoneNext(r)
    <3>1. Founded(x, dbMember, dbGroups, dbColumns)
      BY <1>8, <2>5
    <3>2. r.pc \notin {"removeLookup", "removeCache", "update", "updateCache", "addRow", "addCache"} \cup Removing
      BY <2>1, <1>3 DEF Removing
    <3>3. Founded(r, dbMember', dbGroups', dbColumns')
      <4>1. r.obj \in dbGroups' /\ dbColumns'[r.obj] = [NoColumns EXCEPT !.leader = r.target]
        BY <3>1, <2>1, <1>1 DEF Founded
      <4>2. \A q \in Players :
               dbMember[q].gid = g <=> \/ q = x.target /\ x.pc \in {"createInvited", "createCache"}
                                       \/ q = x.player /\ x.pc = "createCache"
        BY <3>1 DEF Founded
      <4>3. \A q \in Players :
               dbMember'[q].gid = g <=> \/ q = x.target /\ pc \in {"createInvited", "createCache"}
                                        \/ q = x.player /\ pc = "createCache"
        BY <4>2, <2>3
      <4> QED BY <4>1, <4>3, <2>1 DEF Founded
    <3> QED BY <3>2, <3>3 DEF DoneNext, Done
  <2>6. Founding(g)'
    <3>1. thread'[t] = r
      BY <2>1, OthersStay
    <3> QED BY <3>1, <2>1, <2>2 DEF Founding
  <2>7. ASSUME Mirrors PROVE HasStoredLeader(g)'
    <3>1. Founded(x, dbMember, dbGroups, dbColumns)
      BY <1>8, <2>7
    <3>2. dbColumns[g].leader = x.target
      <4>1. dbColumns[g] = [NoColumns EXCEPT !.leader = x.target]
        BY <3>1 DEF Founded
      <4> QED BY <4>1 DEF NoColumns
    <3>3. dbMember'[x.target].gid = g
      BY <3>1, <2>3, <1>5 DEF Founded
    <3> QED BY <3>2, <3>3, <1>1 DEF HasStoredLeader
  <2>8. nextId <= nextId' /\ inCache \cup disbanded \subseteq inCache' \cup disbanded'
        /\ \A q \in Players : dbMember'[q].gid = dbMember[q].gid \/ dbMember'[q].gid < nextId'
    BY <2>3, <1>1, <1>2, <1>5
  <2> QED BY <2>1, <2>2, <2>4, <2>5, <2>6, <2>7, <2>8, <1>1, <1>2, <1>6, <1>7, WriteStays
<1>10. CASE dbMember[p] # NoRow /\ UNCHANGED dbMember /\ Return(t)
  <2>1. Becomes(t, Idle) /\ Idle.pc = "idle"
    BY <1>10, FreshValues DEF Return, Becomes
  <2>2. DoneNext(Idle)
    BY <2>1, ClaimsNothing DEF DoneNext, NoClaims
  <2>3. \A k \in GroupIds : Same(k)
    BY <1>1, <1>2, <1>10 DEF Same
  <2>4. Idle.pc \notin Deleting \cup {"bind"}
    BY <2>1 DEF Deleting
  <2>5. ASSUME Leaders PROVE g \in dbGroups' => HasStoredLeader(g)'
    BY <2>5, <1>1, <1>10 DEF Leaders, HasStoredLeader
  <2>6. nextId <= nextId' /\ inCache \cup disbanded \subseteq inCache' \cup disbanded' /\ mishaps' # {}
    BY <1>1, <1>2, <1>10
  <2> QED BY <2>1, <2>2, <2>3, <2>4, <2>5, <2>6, <1>1, <1>2, <1>6, <1>7, <1>10, WriteStays
<1> QED BY <1>9, <1>10 DEF InsertMember

\* The inviter is the first to get a row.
LEMMA CreateInviterStays ==
  ASSUME IInv, QInv, NEW t \in Threads, CreateInviter(t)
  PROVE  QInv'
<1>0. PICK g, p : g = thread[t].obj /\ p = thread[t].target
  OBVIOUS
<1>1. IInv' /\ thread[t].pc = "createInviter" /\ InsertMember(t, g, p, "createInvited")
  BY <1>0, CreateInviterKeeps DEF CreateInviter, At
<1> QED BY <1>0, <1>1, FoundStays

\* The invited is the second.
LEMMA CreateInvitedStays ==
  ASSUME IInv, QInv, NEW t \in Threads, CreateInvited(t)
  PROVE  QInv'
<1>0. PICK g, p : g = thread[t].obj /\ p = thread[t].player
  OBVIOUS
<1>1. IInv' /\ thread[t].pc = "createInvited" /\ InsertMember(t, g, p, "createCache")
  BY <1>0, CreateInvitedKeeps DEF CreateInvited, At
<1> QED BY <1>0, <1>1, FoundStays

\* The new group is cached as its rows say.
LEMMA CreateCacheStays ==
  ASSUME IInv, QInv, NEW t \in Threads, CreateCache(t)
  PROVE  QInv'
<1> DEFINE x == thread[t]
           r == [x EXCEPT !.pc = "bind"]
<1>0. PICK g, p, b : g = x.obj /\ p = x.player /\ b = x.target
  OBVIOUS
<1> USE <1>0
<1> DEFINE pair == <<NewMember(b), NewMember(p)>>
           c == [NoColumns EXCEPT !.leader = b]
<1>1. /\ IInv' /\ x.pc = "createCache" /\ Goto(t, "bind") /\ Cached /\ UNCHANGED disbanded
      /\ mishaps' = IF memberOf[b] # 0 \/ memberOf[p] # 0 THEN mishaps \cup {"joinedTwice"} ELSE mishaps
      /\ groups' = [groups EXCEPT ![g] = [columns |-> c, members |-> pair]]
      /\ inCache' = inCache \cup {g}
  BY CreateCacheKeeps DEF CreateCache, At, NoteIf
<1>2. UNCHANGED <<dbGroups, dbColumns, dbMember, nextId, dbErrors, refusals>> /\ nextId <= nextId'
  BY <1>1, CachedStays
<1>3. "bind" \in Steps
  BY DEF Steps
<1>4. Becomes(t, r) /\ r.pc = "bind" /\ r.obj = g
  BY <1>1, <1>3, GotoBecomes
<1> HIDE DEF r
<1>5. x.pc \in Creating /\ x.pc \notin Deleting \cup {"update", "removeLookup", "removeCache", "addCache"}
      /\ r.pc \notin Deleting
  BY <1>1, <1>4 DEF Creating, Deleting
<1>6. g \in GroupIds /\ p \in Players /\ b \in Players /\ b # p /\ groups \in [GroupIds -> GroupType]
  <2>1. Shape(x)
    BY ThreadFacts
  <2>2. x.op = "AcceptInvite"
    BY <2>1, <1>5 DEF Shape
  <2> QED BY <2>1, <2>2, <1>5 DEF Shape, Creating, IInv, TypeOK, CacheOK
<1>7. \A q : In(pair, q) <=> q = p \/ q = b
  BY <1>6, NewMemberType, PairMembers
<1>8. c.leader = b
  BY DEF NoColumns
<1> HIDE DEF pair, c
<1>9. groups'[g].columns = c /\ groups'[g].members = pair /\ \A k \in GroupIds \ {g} : groups'[k] = groups[k]
  BY <1>1, <1>6
<1>10. \A k \in GroupIds \ {g} : Same(k)
  BY <1>1, <1>2, <1>9 DEF Same
<1>11. Touches(t, g)
  BY <1>5 DEF Touches
<1>12. DoneNext(r)
  BY <1>4, ClaimsNothing DEF DoneNext, NoClaims
<1>13. ASSUME Agreed PROVE \A u \in Threads \ {t} : Apart(u, g)
  BY <1>5, <1>13, FounderIsAlone
<1>14. ASSUME Mirrors PROVE Mirrored(g)'
  <2>1. Founded(x, dbMember, dbGroups, dbColumns)
    BY <1>5, <1>14 DEF Mirrors, AllDone, DoneNow, Done
  <2>2. g \in dbGroups /\ dbColumns[g] = c /\ \A q \in Players : dbMember[q].gid = g <=> q = b \/ q = p
    BY <2>1, <1>1 DEF Founded, c
  <2> QED BY <2>2, <1>2, <1>7, <1>9 DEF Mirrored
<1>15. HasLeader(g)'
  BY <1>7, <1>8, <1>9 DEF HasLeader
<1>16. ASSUME Leaders PROVE g \in dbGroups' => HasStoredLeader(g)'
  BY <1>2, <1>16 DEF Leaders, HasStoredLeader
<1>17. g \in inCache' /\ mishaps \subseteq mishaps' /\ inCache \cup disbanded \subseteq inCache' \cup disbanded'
  BY <1>1
<1> QED BY <1>1, <1>2, <1>4, <1>5, <1>10, <1>11, <1>12, <1>13, <1>14, <1>15, <1>16, <1>17, WriteStays

\* A refused binding starts the deletion of the new group, and is counted.
LEMMA BindGroupStays ==
  ASSUME IInv, QInv, NEW t \in Threads, BindGroup(t)
  PROVE  QInv'
<1> DEFINE x == thread[t]
           r == [x EXCEPT !.pc = "deleteMembers"]
<1>1. /\ IInv' /\ x.pc = "bind"
      /\ UNCHANGED <<groups, inCache, disbanded, mishaps, dbGroups, dbColumns, dbMember, nextId, dbErrors>>
  BY BindGroupKeeps, Tuples DEF BindGroup, At
<1>2. x.pc \notin Creating \cup Deleting \cup {"update", "removeLookup", "removeCache", "addCache"}
  BY <1>1 DEF Creating, Deleting
<1>3. CASE Return(t) /\ UNCHANGED refusals
  BY <1>1, <1>2, <1>3, ReturnsStay
<1>4. CASE Goto(t, "deleteMembers") /\ refusals' = refusals + 1
  <2>1. "deleteMembers" \in Steps
    BY DEF Steps, Deleting
  <2>2. Becomes(t, r) /\ r.pc = "deleteMembers" /\ r.obj = x.obj
    BY <2>1, <1>4, GotoBecomes
  <2> HIDE DEF r
  <2>3. DoneNext(r)
    BY <2>2, ClaimsNothing DEF DoneNext, NoClaims, Deleting
  <2>4. x.obj \in inCache \cup disbanded /\ refusals \in Nat
    BY <1>1 DEF QInv, Grounds, DeletedWereCached, Counted
  <2>5. refusals' # 0
    BY <2>4, <1>4
  <2> QED BY <2>2, <2>3, <2>4, <2>5, <1>1, <1>2, <1>4, PlainStays
<1> QED BY <1>3, <1>4 DEF BindGroup

\* After a failed statement the cache and MySQL may differ.
LEMMA DBErrorStays ==
  ASSUME IInv, QInv, NEW t \in Threads, DBError(t)
  PROVE  QInv'
<1>1. /\ IInv' /\ Return(t) /\ dbErrors' = dbErrors + 1 /\ refusals' = refusals
      /\ UNCHANGED <<inCache, disbanded, dbMember, nextId>>
  BY DBErrorKeeps, Tuples DEF DBError
<1>2. Becomes(t, Idle) /\ Idle.pc = "idle"
  BY <1>1, FreshValues DEF Return, Becomes
<1>3. Idle.pc \notin Deleting \cup {"bind"}
  BY <1>2 DEF Deleting
<1>4. nextId <= nextId'
  BY <1>1, MaxGroupsAssumption DEF IInv, TypeOK, DBOK
<1>5. Grounds'
  BY <1>1, <1>2, <1>3, <1>4, GroundsKeep DEF QInv
<1>6. ~Quiet'
  <2>1. dbErrors \in Nat
    BY DEF QInv, Grounds, Counted
  <2> QED BY <2>1, <1>1 DEF Quiet
<1> QED BY <1>5, <1>6 DEF QInv

-----------------------------------------------------------------------------
(* Restarts, callbacks and the first state. *)

\* A process that starts has loaded every stored group as it is stored.
LEMMA LoadedColumns ==
  ASSUME NEW g \in dbGroups, NEW order
  PROVE  Loaded(g, order, dbColumns, dbMember, connected).columns = dbColumns[g]
BY DEF Loaded

\* A restart reloads every group as it is stored, and its leader with it.
LEMMA WarmupStays ==
  ASSUME IInv, QInv, NEW order \in RowOrders, Warmup(order), UNCHANGED <<historyVars, dbErrors, refusals>>
  PROVE  QInv'
<1>1. /\ groups' = [g \in GroupIds |-> IF g \in dbGroups THEN Loaded(g, order, dbColumns, dbMember, connected)
                                      ELSE NoGroup]
      /\ inCache' = dbGroups /\ thread' = [t \in Threads |-> Idle]
      /\ UNCHANGED <<dbGroups, dbColumns, dbMember, nextId, disbanded, mishaps, dbErrors, refusals>>
  BY Tuples DEF Warmup
<1>2. DBOK /\ connected \in [Players -> BOOLEAN] /\ dbGroups \subseteq GroupIds
  BY DEF IInv, TypeOK, EventsOK, DBOK
<1>3. \A g \in dbGroups : \A p \in Players : In(groups'[g].members, p) <=> dbMember[p].gid = g
  BY <1>1, <1>2, LoadedGroups
<1>4. \A g \in dbGroups : groups'[g].columns = dbColumns[g]
  <2> SUFFICES ASSUME NEW g \in dbGroups PROVE groups'[g].columns = dbColumns[g]
    OBVIOUS
  <2>1. groups'[g] = Loaded(g, order, dbColumns, dbMember, connected)
    BY <1>1, <1>2
  <2> QED BY <2>1, LoadedColumns
<1>5. \A t \in Threads : thread'[t].pc = "idle"
  BY <1>1, FreshValues
<1>6. Grounds'
  <2>1. RowsGiven' /\ Counted'
    BY <1>1 DEF QInv, Grounds, RowsGiven, Counted
  <2>2. DeletedWereCached'
    BY <1>5 DEF DeletedWereCached, Deleting
  <2> QED BY <2>1, <2>2 DEF Grounds
<1>7. Mirrors'
  <2>1. AllMirrored'
    BY <1>1, <1>3, <1>4 DEF AllMirrored, Mirrored
  <2>2. AllCached'
    BY <1>1 DEF AllCached
  <2>3. AllDone'
    <3>1. \A t \in Threads : thread'[t].pc \in NoClaims
      BY <1>5 DEF NoClaims
    <3>2. \A t \in Threads : DoneNext(thread'[t])
      BY <3>1, ClaimsNothing DEF DoneNext
    <3> QED BY <3>2 DEF AllDone, DoneNow, DoneNext
  <2> QED BY <2>1, <2>2, <2>3 DEF Mirrors
<1>8. ASSUME Quiet', refusals' = 0 PROVE Leaders'
  <2>1. Leaders
    BY <1>1, <1>8 DEF QInv, Quiet
  <2>2. \A g \in dbGroups' : HasStoredLeader(g)'
    BY <2>1, <1>1 DEF Leaders, HasStoredLeader
  <2>3. \A g \in inCache' : HasLeader(g)'
    <3> SUFFICES ASSUME NEW g \in dbGroups PROVE HasLeader(g)'
      BY <1>1
    <3>1. HasStoredLeader(g) /\ g \in GroupIds
      BY <2>1, <1>2 DEF Leaders
    <3>2. \A p \in Players : In(groups'[g].members, p) <=> dbMember[p].gid = g
      BY <1>3
    <3> DEFINE m == groups'[g].members
    <3>3. \/ \A p \in Players : ~In(m, p)
          \/ dbColumns[g].leader = NoPlayer
          \/ In(m, dbColumns[g].leader)
      BY <3>1, <3>2, LeaderType DEF HasStoredLeader
    <3> QED BY <3>3, <1>4 DEF HasLeader
  <2>4. NoRollback'
    BY <1>5 DEF NoRollback, Deleting
  <2> QED BY <2>2, <2>3, <2>4 DEF Leaders
<1> QED BY <1>6, <1>7, <1>8 DEF QInv

\* A step of no handler that changes nothing of a group.
LEMMA NobodyStays ==
  ASSUME IInv, QInv, UNCHANGED <<thread, dbMember, dbErrors, refusals, mishaps, inCache, disbanded, dbGroups, nextId>>,
         \A g \in GroupIds : Same(g)
  PROVE  QInv'
<1>1. inCache \subseteq GroupIds /\ dbGroups \subseteq GroupIds
  BY DEF IInv, TypeOK, CacheOK, DBOK
<1>2. Grounds'
  BY DEF QInv, Grounds, RowsGiven, DeletedWereCached, Counted
<1>3. \A g : (Doomed(g) <=> Doomed(g)') /\ (Founding(g) <=> Founding(g)') /\ (ColumnsPending(g) <=> ColumnsPending(g)')
  BY DEF Doomed, Founding, ColumnsPending
<1>4. \A g, p : (RowPending(g, p) <=> RowPending(g, p)') /\ (EntryPending(g, p) <=> EntryPending(g, p)')
  BY DEF RowPending, EntryPending
<1>5. ASSUME Quiet' PROVE Mirrors'
  <2>1. AllMirrored /\ AllCached /\ AllDone
    BY <1>5 DEF QInv, Quiet, Mirrors
  <2>2. AllMirrored'
    <3> SUFFICES ASSUME NEW g \in inCache PROVE Doomed(g)' \/ Mirrored(g)'
      BY DEF AllMirrored
    <3>1. Doomed(g) \/ Mirrored(g)
      BY <2>1 DEF AllMirrored
    <3>2. Same(g)
      BY <1>1
    <3>3. Mirrored(g) => Mirrored(g)'
      BY <3>2, <1>3, <1>4 DEF Mirrored, Same
    <3> QED BY <3>1, <3>3, <1>3
  <2>3. AllCached'
    BY <2>1, <1>3 DEF AllCached
  <2>4. AllDone'
    <3> SUFFICES ASSUME NEW u \in Threads PROVE DoneNext(thread[u])
      BY DEF AllDone, DoneNow, DoneNext
    <3>1. Apart(u, 0)
      <4>1. Shape(thread[u]) /\ 0 \notin GroupIds
        BY ThreadFacts DEF GroupIds
      <4> QED BY <4>1 DEF Shape, Apart, Locking
    <3>2. DoneNow(thread[u])
      BY <2>1 DEF AllDone
    <3>3. \A g \in DoomedGroups \ {0} : g \in DoomedGroups'
      BY <1>3 DEF DoomedGroups
    <3> QED BY <3>1, <3>2, <3>3, DoneApart
  <2> QED BY <2>2, <2>3, <2>4 DEF Mirrors
<1>6. ASSUME Quiet', refusals' = 0 PROVE Leaders'
  <2>1. (\A g \in inCache : HasLeader(g)) /\ (\A g \in dbGroups : HasStoredLeader(g)) /\ NoRollback
    BY <1>6 DEF QInv, Quiet, Leaders
  <2>2. \A g \in inCache' : HasLeader(g)'
    <3> SUFFICES ASSUME NEW g \in inCache PROVE HasLeader(g)'
      OBVIOUS
    <3>1. HasLeader(g) /\ Same(g) /\ g \in GroupIds
      BY <2>1, <1>1
    <3> QED BY <3>1, LeaderType DEF HasLeader, Same
  <2>3. \A g \in dbGroups' : HasStoredLeader(g)'
    <3> SUFFICES ASSUME NEW g \in dbGroups PROVE HasStoredLeader(g)'
      OBVIOUS
    <3>1. HasStoredLeader(g) /\ Same(g)
      BY <2>1, <1>1
    <3> QED BY <3>1 DEF HasStoredLeader, Same
  <2>4. NoRollback'
    BY <2>1 DEF NoRollback
  <2> QED BY <2>2, <2>3, <2>4 DEF Leaders
<1> QED BY <1>2, <1>5, <1>6 DEF QInv

\* Steps that leave the cache alone.
LEMMA ReadsStay ==
  ASSUME IInv, QInv, UNCHANGED <<cacheVars, dbVars, thread, historyVars, dbErrors, refusals>>
  PROVE  QInv'
<1>1. UNCHANGED <<groups, inCache, dbGroups, dbColumns, dbMember, nextId, disbanded, mishaps>>
  BY Tuples
<1>2. \A g \in GroupIds : Same(g)
  BY <1>1 DEF Same
<1> QED BY <1>1, <1>2, NobodyStays

\* The late write of IsOnline leaves guids and columns.
LEMMA ListenerWriteStays ==
  ASSUME IInv, QInv, NEW v \in BOOLEAN, ListenerWrite(v)
  PROVE  QInv'
<1> DEFINE e == listener[v]
<1>0. PICK g : g = e.gid
  OBVIOUS
<1> USE <1>0
<1> DEFINE m == groups[g].members
           w == [m EXCEPT ![e.slot].online = v]
<1>1. /\ e.pc = "write"
      /\ UNCHANGED <<thread, inCache, dbGroups, dbColumns, dbMember, nextId, disbanded, mishaps, dbErrors, refusals>>
  BY Tuples DEF ListenerWrite
<1>2. g \in GroupIds
  BY <1>1 DEF IInv, TypeOK, EventShape
<1>3. CASE UNCHANGED groups
  <2>1. \A k \in GroupIds : Same(k)
    BY <1>1, <1>3 DEF Same
  <2> QED BY <2>1, <1>1, NobodyStays
<1>4. CASE e.slot \in DOMAIN m /\ groups' = [groups EXCEPT ![g].members[e.slot].online = v]
  <2>1. m \in Seq(MemberType) /\ groups[g] \in GroupType /\ groups \in [GroupIds -> GroupType]
    BY <1>2, ColumnsFacts DEF IInv, TypeOK, CacheOK
  <2>2. (\A p : In(w, p) <=> In(m, p)) /\ (w = <<>> <=> m = <<>>)
    <3> DEFINE i == e.slot
               x == m[i]
               o == [x EXCEPT !.online = v]
    <3>1. i \in DOMAIN m /\ w = [m EXCEPT ![i] = o]
      BY <1>4
    <3>2. x \in MemberType
      <4> HIDE DEF i
      <4> QED BY <2>1, <3>1, LenProperties, ElementOfSeq
    <3> HIDE DEF w, m, i, x
    <3>3. o \in MemberType /\ o.guid = x.guid
      BY <3>2 DEF MemberType
    <3>4. o.guid = m[i].guid
      BY <3>3 DEF x
    <3> HIDE DEF o
    <3>5. w \in Seq(MemberType) /\ \A p : In(w, p) <=> In(m, p)
      BY <3>1, <3>3, <3>4, <2>1, OnlineWritten
    <3>6. DOMAIN w = DOMAIN m
      BY <3>1
    <3>7. m # <<>> /\ w # <<>>
      BY <3>1, <3>6
    <3> QED BY <3>5, <3>7
  <2> DEFINE y == groups[g]
             z == [y EXCEPT !.members = w]
  <2>3. groups' = [groups EXCEPT ![g] = z]
    BY <1>4
  <2> HIDE DEF w
  <2>4. z.members = w /\ z.columns = y.columns
    <3>1. y \in GroupType
      BY <2>1
    <3> HIDE DEF y
    <3> QED BY <3>1 DEF GroupType
  <2> HIDE DEF z
  <2>5. groups'[g].members = w /\ groups'[g].columns = groups[g].columns /\ \A k \in GroupIds \ {g} : groups'[k] = groups[k]
    BY <2>1, <2>3, <2>4, <1>2
  <2>6. \A k \in GroupIds : Same(k)
    BY <2>2, <2>5, <1>1 DEF Same
  <2> QED BY <2>6, <1>1, NobodyStays
<1> QED BY <1>3, <1>4 DEF ListenerWrite

\* A player is in one stored group at most: the row that Init gives names it.
LEMMA InitialRow ==
  ASSUME Init, NEW g \in dbGroups, NEW p \in Players, InitiallyIn(p, g)
  PROVE  dbMember[p].gid = g
<1>1. /\ dbGroups = DOMAIN InitialGroups
      /\ dbMember = [q \in Players |->
                       IF \E k \in dbGroups : InitiallyIn(q, k)
                       THEN [gid |-> CHOOSE k \in dbGroups : InitiallyIn(q, k), assistant |-> FALSE] ELSE NoRow]
  BY DEF Init
<1> DEFINE h == CHOOSE k \in dbGroups : InitiallyIn(p, k)
<1>2. h \in dbGroups /\ InitiallyIn(p, h)
  OBVIOUS
<1>3. dbMember[p].gid = h
  BY <1>1
<1> HIDE DEF h
<1>4. PICK i \in DOMAIN InitialGroups[g] : InitialGroups[g][i] = p
  BY DEF InitiallyIn
<1>5. PICK j \in DOMAIN InitialGroups[h] : InitialGroups[h][j] = p
  BY <1>2 DEF InitiallyIn
<1>6. g = h
  BY <1>1, <1>2, <1>4, <1>5, InitialGroupsAssumption
<1> QED BY <1>3, <1>6

\* The service starts with what is stored, and every stored group has a leader in it.
LEMMA InitStays ==
  ASSUME Init
  PROVE  IInv /\ QInv
<1>1. IInv
  BY InitKeeps
<1>2. PICK order \in RowOrders :
        groups = [g \in GroupIds |-> IF g \in dbGroups THEN Loaded(g, order, dbColumns, dbMember, connected)
                                     ELSE NoGroup]
  BY DEF Init
<1>3. /\ dbGroups = DOMAIN InitialGroups
      /\ dbColumns = [g \in GroupIds |-> IF g \in dbGroups THEN [NoColumns EXCEPT !.leader = InitialGroups[g][1]]
                                         ELSE NoColumns]
      /\ inCache = dbGroups
      /\ memberOf = [p \in Players |-> dbMember[p].gid]
      /\ thread = [t \in Threads |-> Idle]
      /\ dbErrors = 0 /\ refusals = 0
  BY DEF Init
<1>4. DBOK /\ connected \in [Players -> BOOLEAN] /\ dbGroups \subseteq GroupIds /\ IdsGiven
  BY <1>1 DEF IInv, TypeOK, EventsOK, DBOK
<1>5. \A g \in dbGroups : \A p \in Players : In(groups[g].members, p) <=> dbMember[p].gid = g
  BY <1>2, <1>4, LoadedGroups
<1>6. \A g \in dbGroups : groups[g].columns = dbColumns[g]
  <2> SUFFICES ASSUME NEW g \in dbGroups PROVE groups[g].columns = dbColumns[g]
    OBVIOUS
  <2>1. groups[g] = Loaded(g, order, dbColumns, dbMember, connected)
    BY <1>2, <1>4
  <2> QED BY <2>1, LoadedColumns
<1>7. \A t \in Threads : thread[t].pc = "idle"
  BY <1>3, FreshValues
<1>8. Grounds
  <2>1. RowsGiven
    BY <1>3, <1>4 DEF RowsGiven, IdsGiven
  <2>2. DeletedWereCached
    BY <1>7 DEF DeletedWereCached, Deleting
  <2>3. Counted
    BY <1>3 DEF Counted
  <2> QED BY <2>1, <2>2, <2>3 DEF Grounds
<1>9. Mirrors
  <2>1. AllMirrored
    BY <1>3, <1>5, <1>6 DEF AllMirrored, Mirrored
  <2>2. AllCached
    BY <1>3 DEF AllCached
  <2>3. \A t \in Threads : thread[t].pc \in NoClaims
    BY <1>7 DEF NoClaims
  <2>4. AllDone
    BY <2>3, ClaimsNothing DEF AllDone, DoneNow
  <2> QED BY <2>1, <2>2, <2>4 DEF Mirrors
<1>10. ASSUME NEW g \in dbGroups
       PROVE  /\ dbColumns[g].leader \in Players
              /\ dbMember[dbColumns[g].leader].gid = g
  <2> DEFINE p == InitialGroups[g][1]
  <2>1. InitialGroups[g] \in Seq(Players) /\ InitialGroups[g] # <<>>
    BY <1>3, InitialGroupsAssumption, ElementOfSeq, LenProperties
  <2>2. 1 \in 1..Len(InitialGroups[g])
    BY <2>1, EmptySeq
  <2>3. p \in Players /\ InitiallyIn(p, g)
    BY <2>1, <2>2, ElementOfSeq, LenProperties DEF InitiallyIn
  <2>4. dbColumns[g].leader = p
    <3>1. dbColumns[g] = [NoColumns EXCEPT !.leader = p]
      BY <1>3, <1>4
    <3> QED BY <3>1 DEF NoColumns
  <2> HIDE DEF p
  <2>5. dbMember[p].gid = g
    BY <2>3, InitialRow
  <2> QED BY <2>3, <2>4, <2>5
<1>11. Leaders
  <2>1. \A g \in dbGroups : HasStoredLeader(g)
    BY <1>10 DEF HasStoredLeader
  <2>2. \A g \in inCache : HasLeader(g)
    <3> SUFFICES ASSUME NEW g \in dbGroups PROVE HasLeader(g)
      BY <1>3
    <3>1. dbColumns[g].leader \in Players /\ dbMember[dbColumns[g].leader].gid = g
      BY <1>10
    <3>2. groups[g].columns = dbColumns[g]
      BY <1>6
    <3>3. In(groups[g].members, dbColumns[g].leader)
      BY <3>1, <1>5
    <3> QED BY <3>2, <3>3 DEF HasLeader
  <2>3. NoRollback
    BY <1>7 DEF NoRollback, Deleting
  <2> QED BY <2>1, <2>2, <2>3 DEF Leaders
<1> QED BY <1>1, <1>8, <1>9, <1>11 DEF QInv

-----------------------------------------------------------------------------
(* The service. *)

\* Every step of a handler keeps QInv.
LEMMA HandlerStepStays ==
  ASSUME IInv, QInv, NEW t \in Threads, HandlerStep(t)
  PROVE  QInv'
<1>1. CASE Resolve(t) \/ LockGroup(t)
  BY <1>1, ResolveStays, LockGroupStays
<1>2. CASE InviteBody(t) \/ UninviteBody(t) \/ LeaveBody(t)
  BY <1>2, InviteBodyStays, UninviteBodyStays, LeaveBodyStays
<1>3. CASE \/ ChangeLeaderBody(t) \/ ConvertToRaidBody(t) \/ SetLootMethodBody(t) \/ SetDifficultyBody(t)
           \/ TargetIconBody(t)
  BY <1>3, ChangeLeaderBodyStays, ConvertToRaidBodyStays, SetLootMethodBodyStays, SetDifficultyBodyStays,
     TargetIconBodyStays
<1>4. CASE AddInvite(t) \/ UpdateRow(t) \/ UpdateCache(t)
  BY <1>4, AddInviteStays, UpdateRowStays, UpdateCacheStays
<1>5. CASE RemoveRow(t) \/ RemoveLookup(t) \/ RemoveCache(t)
  BY <1>5, RemoveRowStays, RemoveLookupStays, RemoveCacheStays
<1>6. CASE DeleteMemberRows(t) \/ DeleteGroupRow(t) \/ DeleteCache(t)
  BY <1>6, DeleteMemberRowsStays, DeleteGroupRowStays, DeleteCacheStays
<1>7. CASE LockInvite(t) \/ AddRow(t) \/ AddCache(t)
  BY <1>7, LockInviteStays, AddRowStays, AddCacheStays
<1>8. CASE CreateRow(t) \/ CreateInviter(t) \/ CreateInvited(t) \/ CreateCache(t) \/ BindGroup(t)
  BY <1>8, CreateRowStays, CreateInviterStays, CreateInvitedStays, CreateCacheStays, BindGroupStays
<1> QED BY <1>1, <1>2, <1>3, <1>4, <1>5, <1>6, <1>7, <1>8 DEF HandlerStep

\* Every step of the service keeps QInv.
LEMMA NextStays ==
  ASSUME IInv, QInv, Next
  PROVE  QInv'
<1>1. ASSUME NEW t \in Threads, NEW op \in Ops, NEW p \in Players, NEW q \in Players, CallOnGroup(t, op, p, q)
      PROVE  QInv'
  BY <1>1, CallOnGroupStays
<1>2. ASSUME NEW t \in Threads, NEW p \in Players, NEW q \in Players, CallInvite(t, p, q) PROVE QInv'
  BY <1>2, CallInviteStays
<1>3. ASSUME NEW t \in Threads, NEW p \in Players, CallAcceptInvite(t, p) PROVE QInv'
  BY <1>3, CallAcceptInviteStays
<1>4. ASSUME NEW t \in Threads, HandlerStep(t) PROVE QInv'
  BY <1>4, HandlerStepStays
<1>5. ASSUME NEW t \in Threads, DBError(t) PROVE QInv'
  BY <1>5, DBErrorStays
<1>6. ASSUME NEW order \in RowOrders, Panic(order) PROVE QInv'
  <2>1. Warmup(order) /\ UNCHANGED <<historyVars, dbErrors, refusals>>
    BY <1>6, Tuples DEF Panic
  <2> QED BY <2>1, WarmupStays
<1>7. CASE HandlerPanic
  BY <1>6, <1>7 DEF HandlerPanic
<1>8. CASE Crash
  <2>1. PICK order \in RowOrders : Warmup(order)
    BY <1>8 DEF Crash
  <2>2. UNCHANGED <<historyVars, dbErrors, refusals>>
    BY <1>8 DEF Crash
  <2> QED BY <2>1, <2>2, WarmupStays
<1>9. ASSUME NEW p \in Players, NEW v \in BOOLEAN, PublishLogin(p, v) PROVE QInv'
  BY <1>9, ReadsStay DEF PublishLogin
<1>10. ASSUME NEW v \in BOOLEAN, ListenerLookup(v) PROVE QInv'
  BY <1>10, Tuples, ReadsStay DEF ListenerLookup
<1>11. ASSUME NEW v \in BOOLEAN, ListenerWrite(v) PROVE QInv'
  BY <1>11, ListenerWriteStays
<1>12. CASE AnnouncerLookup
  BY <1>12, Tuples, ReadsStay DEF AnnouncerLookup
<1>13. CASE AnnouncerRead
  BY <1>13, Tuples, ReadsStay DEF AnnouncerRead
<1>14. CASE AnnouncerPanic
  BY <1>6, <1>14 DEF AnnouncerPanic
<1> QED BY <1>1, <1>2, <1>3, <1>4, <1>5, <1>7, <1>8, <1>9, <1>10, <1>11, <1>12, <1>13, <1>14 DEF Next

\* A step that changes nothing.
LEMMA StutterStays ==
  ASSUME IInv, QInv, UNCHANGED vars
  PROVE  QInv'
<1>1. UNCHANGED <<cacheVars, dbVars, thread, historyVars, boundVars>>
  BY DEF vars
<1>2. UNCHANGED <<dbErrors, refusals>>
  BY <1>1, Tuples
<1> QED BY <1>1, <1>2, ReadsStay

\* The inductive invariant holds in every reachable state.
THEOREM StoreInductive == Spec => [](IInv /\ QInv)
<1>1. Init => IInv /\ QInv
  BY InitStays
<1>2. IInv /\ QInv /\ [Next]_vars => IInv' /\ QInv'
  BY NextKeeps, StutterKeeps, NextStays, StutterStays
<1> QED BY <1>1, <1>2, PTL DEF Spec

\* The players that the list of a group names.
LEMMA MemberSetIn ==
  ASSUME IInv, NEW g \in GroupIds
  PROVE  MemberSet(g) = {p \in Players : In(groups[g].members, p)}
<1> DEFINE m == groups[g].members
<1>1. m \in Seq(MemberType)
  BY ColumnsFacts
<1>2. ASSUME NEW i \in DOMAIN m PROVE m[i].guid \in Players
  <2> HIDE DEF m
  <2>1. m[i] \in MemberType
    BY <1>1, <1>2, LenProperties, ElementOfSeq
  <2> QED BY <2>1 DEF MemberType
<1> QED BY <1>2 DEF MemberSet, In

\* With no RPC running and no statement failed, the cache is what a restart
\* would load.
THEOREM StoreIsMirrored == Spec => []CacheMirrorsDB
<1>1. IInv /\ QInv => CacheMirrorsDB
  <2> SUFFICES ASSUME IInv, QInv, dbErrors = 0, mishaps = {}, \A t \in Threads : At(t, "idle")
               PROVE  /\ inCache = dbGroups
                      /\ \A g \in inCache : /\ groups[g].columns = dbColumns[g]
                                            /\ MemberSet(g) = {p \in Players : dbMember[p].gid = g}
    BY DEF CacheMirrorsDB
  <2>1. AllMirrored /\ AllCached /\ inCache \subseteq GroupIds
    BY DEF QInv, Quiet, Mirrors, IInv, TypeOK, CacheOK
  <2>2. \A t \in Threads : thread[t].pc = "idle"
    BY DEF At
  <2>3. \A g : ~Doomed(g) /\ ~Founding(g) /\ ~ColumnsPending(g)
    BY <2>2 DEF Doomed, Founding, ColumnsPending, Deleting, Creating
  <2>4. \A g, p : ~RowPending(g, p) /\ ~EntryPending(g, p)
    BY <2>2 DEF RowPending, EntryPending
  <2>5. \A g \in inCache : Mirrored(g)
    BY <2>1, <2>3 DEF AllMirrored
  <2>6. inCache = dbGroups
    BY <2>1, <2>3, <2>5 DEF AllCached, Mirrored
  <2>7. ASSUME NEW g \in inCache
        PROVE  /\ groups[g].columns = dbColumns[g]
               /\ MemberSet(g) = {p \in Players : dbMember[p].gid = g}
    <3>1. \A p \in Players : In(groups[g].members, p) <=> dbMember[p].gid = g
      BY <2>4, <2>5 DEF Mirrored
    <3>2. MemberSet(g) = {p \in Players : In(groups[g].members, p)}
      BY <2>1, MemberSetIn
    <3> QED BY <3>1, <3>2, <2>3, <2>5 DEF Mirrored
  <2> QED BY <2>6, <2>7
<1> QED BY <1>1, StoreInductive, PTL

\* The leader of a cached group is one of its members, or nobody.
THEOREM LeadersBelong == Spec => []LeaderIsMember
<1>1. IInv /\ QInv => LeaderIsMember
  <2> SUFFICES ASSUME IInv, QInv, dbErrors = 0, refusals = 0, mishaps \subseteq {"leftUnfinished"},
                      NEW g \in inCache, MemberSet(g) # {}
               PROVE  groups[g].columns.leader \in MemberSet(g) \cup {NoPlayer}
    BY DEF LeaderIsMember
  <2>1. HasLeader(g) /\ g \in GroupIds
    BY DEF QInv, Quiet, Leaders, IInv, TypeOK, CacheOK
  <2>2. MemberSet(g) = {p \in Players : In(groups[g].members, p)}
    BY <2>1, MemberSetIn
  <2>3. groups[g].columns.leader \in Players \cup {NoPlayer}
    BY <2>1, LeaderType
  <2> QED BY <2>1, <2>2, <2>3 DEF HasLeader
<1> QED BY <1>1, StoreInductive, PTL
=============================================================================
