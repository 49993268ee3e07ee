---------------------------- MODULE GuildsProofs ----------------------------
(***************************************************************************)
(* Proofs about Guilds, for any players, ranks, requests and bounds:       *)
(*   GuildTypes      the tables, the guild in memory and every call are    *)
(*                   well typed;                                           *)
(*   OneMasterRules  OneMaster;                                            *)
(*   RowsAreMirrored CacheMirrorsRows.                                     *)
(*                                                                         *)
(* What each operator on the guild in memory does is stated once, then     *)
(* what each handler step does (the ...Effect lemmas); StepKinds sorts the *)
(* steps by what they change, and the invariants are proved from those.    *)
(***************************************************************************)
EXTENDS Guilds, FiniteSetTheorems, SequenceTheorems, WellFoundedInduction, TLAPS

-----------------------------------------------------------------------------
(* Types                                                                   *)

Byte == 0..255
Note == Players \cup {NoText}
GuildRights == SUBSET (Rights \cup RightEmpty)
MemberRow == [rank : Byte, public : Note, officer : Note]
MemberEntry == [who : Players, row : MemberRow, online : BOOLEAN, linked : BOOLEAN]
RankEntry == [id : Byte, rights : GuildRights]
Texts == [motd : Note, info : Note]
CacheRecord == [members : Seq(MemberEntry), ranks : Seq(RankEntry), texts : Texts]

NoteOps == {"public", "officer"}
TextOps == {"motd", "info"}
RankSteps == {"promote", "demote"}
RankOps == {"rank", "addRank", "delRank"}
Ops == {"none", "invite", "accept", "leave", "kick"} \cup NoteOps \cup TextOps \cup RankSteps \cup RankOps
Places == {"none", "uninvite", "check", "statement", "cache", "publish"}
CallRecord ==
  [op : Ops, at : Places, target : Players \cup Byte \cup {NoText}, value : Note \cup Byte \cup GuildRights,
   noRank : BOOLEAN, online : SUBSET Players]

\* What the handlers put into a call of p.
GoodCall(p, c) ==
  /\ c.op = "none" <=> c.at = "none"
  /\ c.at = "uninvite" => c.op = "accept"
  /\ c.at = "check" => c.op # "accept"
  /\ c.at = "cache" => c.op # "invite"
  /\ c.op \in {"accept", "leave"} => c.target = p
  /\ c.op \in {"kick"} \cup NoteOps \cup RankSteps => c.target \in Players
  /\ c.op \in NoteOps \cup TextOps => c.value \in Note
  /\ c.op = "rank" => c.target \in Byte /\ c.value \in GuildRights
  /\ c.at \in {"statement", "cache"} /\ c.op \in RankSteps \cup {"accept", "addRank", "delRank"} => c.value \in Byte

TablesOK ==
  /\ DOMAIN memberRows \subseteq Players /\ memberRows \in [DOMAIN memberRows -> MemberRow]
  /\ DOMAIN rankRows \subseteq Byte /\ rankRows \in [DOMAIN rankRows -> GuildRights]
  /\ textRows \in Texts

TypeOK ==
  /\ TablesOK
  /\ cache \in CacheRecord
  /\ up \in BOOLEAN
  /\ calls \in [Players -> CallRecord]
  /\ \A p \in Players : GoodCall(p, calls[p])
  /\ ~up => \A p \in Players : calls[p] = Idle

-----------------------------------------------------------------------------
(* Numbers, minima and maxima                                              *)

\* A nonempty set of naturals has a least element.
LEMMA LeastNat ==
  ASSUME NEW T \in SUBSET Nat, T # {}
  PROVE  \E x \in T : \A y \in T : x <= y
<1> DEFINE R == OpToRel(<, Nat)
<1>1. IsWellFoundedOn(R, Nat)
  BY NatLessThanWellFounded
<1> HIDE DEF R
<1>2. PICK x \in T : \A y \in T : ~ (<<y, x>> \in R)
  BY <1>1, WFMin
<1>3. \A y \in T : ~ (y < x)
  BY <1>2 DEF R, OpToRel
<1> QED BY <1>3

\* The minimum of a nonempty set of naturals.
LEMMA MinIsLeast ==
  ASSUME NEW T \in SUBSET Nat, T # {}
  PROVE  Min(T) \in T /\ \A y \in T : Min(T) <= y
<1>1. \E x \in T : \A y \in T : x =< y
  BY LeastNat
<1> QED BY <1>1 DEF Min

\* The maximum of a nonempty set of bytes.
LEMMA MaxIsGreatest ==
  ASSUME NEW T \in SUBSET Byte, T # {}
  PROVE  Max(T) \in T /\ \A y \in T : Max(T) >= y
<1> DEFINE U == {n \in Nat : \A y \in T : y <= n}
<1>1. U \in SUBSET Nat
  OBVIOUS
<1>2. 255 \in U
  BY DEF Byte
<1> HIDE DEF U
<1>3. PICK n \in U : \A m \in U : n <= m
  BY <1>1, <1>2, LeastNat
<1>4. n \in Nat /\ \A y \in T : y <= n
  BY <1>3 DEF U
<1>5. n \in T
  <2> SUFFICES ASSUME n \notin T PROVE FALSE
    OBVIOUS
  <2>1. \A y \in T : y \in Nat /\ y < n
    BY <1>4 DEF Byte
  <2>2. n > 0
    BY <2>1, <1>4
  <2>3. n - 1 \in U
    BY <2>1, <2>2, <1>4 DEF U
  <2> QED BY <2>3, <1>3, <1>4
<1>6. \E x \in T : \A y \in T : x >= y
  <2>1. \A y \in T : n >= y
    BY <1>4 DEF Byte
  <2> QED BY <2>1, <1>5
<1> QED BY <1>6 DEF Max

\* Arithmetic on bytes.
LEMMA Uint8Facts ==
  /\ \A n \in Int : Uint8(n) \in Byte
  /\ \A n \in Byte : Uint8(n) = n
  /\ \A n \in Int : n + 1 = 0 => Uint8(n) = 255
<1>1. ASSUME NEW n \in Int PROVE n % 256 \in Int /\ 0 <= n % 256 /\ n % 256 < 256
  BY <1>1, Z3
<1>2. ASSUME NEW n \in 0..255 PROVE n % 256 = n
  BY <1>2, Z3
<1>3. \A n \in Int : n + 1 = 0 => n % 256 = 255
  BY Z3
<1> QED BY <1>1, <1>2, <1>3 DEF Uint8, Byte

-----------------------------------------------------------------------------
(* Sequences                                                               *)

\* The enumeration of a finite set: its elements, each once.
LEMMA Enumerates ==
  ASSUME NEW S, IsFiniteSet(S)
  PROVE  /\ SetToSeq(S) \in Seq(S) /\ DOMAIN SetToSeq(S) = 1..Cardinality(S)
         /\ \A x \in S : \E k \in DOMAIN SetToSeq(S) : SetToSeq(S)[k] = x
         /\ \A j, k \in DOMAIN SetToSeq(S) : SetToSeq(S)[j] = SetToSeq(S)[k] => j = k
<1> DEFINE n == Cardinality(S)
<1>1. n \in Nat /\ ExistsBijection(1..n, S)
  BY FS_CardinalityType
<1>2. \E f \in [1..n -> S] : IsInjective(f)
  BY <1>1 DEF ExistsBijection, Bijection, Injection
<1> DEFINE s == SetToSeq(S)
<1>3. s \in [1..n -> S] /\ IsInjective(s)
  BY <1>2 DEF SetToSeq
<1>4. s \in Injection(1..n, S)
  BY <1>3 DEF Injection
<1>5. IsFiniteSet(1..n) /\ Cardinality(1..n) = n
  BY <1>1, FS_Interval
<1> HIDE DEF s
<1>6. s \in Surjection(1..n, S)
  BY <1>4, <1>5, <1>1, FS_Injection
<1>7. \A x \in S : \E k \in 1..n : s[k] = x
  BY <1>6 DEF Surjection
<1>8. s \in Seq(S)
  BY <1>1, <1>3, IsASeq
<1> QED BY <1>3, <1>7, <1>8 DEF s, IsInjective

\* A sequence without its i-th element.
LEMMA RemovesOne ==
  ASSUME NEW S, NEW s \in Seq(S), NEW i \in DOMAIN s
  PROVE  /\ RemoveAt(s, i) \in Seq(S)
         /\ DOMAIN RemoveAt(s, i) = 1..(Len(s) - 1)
         /\ \A k \in DOMAIN RemoveAt(s, i) : RemoveAt(s, i)[k] = s[IF k < i THEN k ELSE k + 1]
<1>1. i \in 1..Len(s) /\ Len(s) \in Nat /\ \A k \in 1..Len(s) : s[k] \in S
  BY LenProperties, ElementOfSeq
<1> DEFINE a == SubSeq(s, 1, i - 1)
           b == SubSeq(s, i + 1, Len(s))
<1>2. a \in Seq(S) /\ Len(a) = i - 1 /\ \A k \in 1..(i - 1) : a[k] = s[k]
  <2>1. \A k \in 1..(i - 1) : s[k] \in S
    BY <1>1
  <2>2. 1 \in Int /\ i - 1 \in Int
    BY <1>1
  <2> QED BY <2>1, <2>2, <1>1, SubSeqProperties
<1>3. b \in Seq(S) /\ Len(b) = Len(s) - i /\ \A k \in 1..(Len(s) - i) : b[k] = s[i + k]
  <2>1. \A k \in (i + 1)..Len(s) : s[k] \in S
    BY <1>1
  <2> QED BY <2>1, <1>1, SubSeqProperties
<1> HIDE DEF a, b
<1>4. a \o b \in Seq(S) /\ Len(a \o b) = Len(s) - 1
      /\ \A k \in 1..(Len(s) - 1) : (a \o b)[k] = IF k < i THEN a[k] ELSE b[k - i + 1]
  <2>1. a \o b \in Seq(S) /\ Len(a \o b) = Len(a) + Len(b)
        /\ \A k \in 1..(Len(a) + Len(b)) : (a \o b)[k] = IF k <= Len(a) THEN a[k] ELSE b[k - Len(a)]
    BY <1>2, <1>3, ConcatProperties
  <2>2. Len(a) + Len(b) = Len(s) - 1
    BY <1>1, <1>2, <1>3
  <2>3. \A k \in 1..(Len(s) - 1) : (k <= Len(a) <=> k < i) /\ k - Len(a) = k - i + 1
    BY <1>1, <1>2
  <2> QED BY <2>1, <2>2, <2>3
<1>5. RemoveAt(s, i) = a \o b
  BY DEF RemoveAt, a, b
<1>6. DOMAIN (a \o b) = 1..(Len(s) - 1)
  BY <1>4, LenProperties
<1>7. ASSUME NEW k \in 1..(Len(s) - 1) PROVE (a \o b)[k] = s[IF k < i THEN k ELSE k + 1]
  <2>1. CASE k < i
    BY <2>1, <1>1, <1>2, <1>4
  <2>2. CASE ~(k < i)
    <3>1. k - i + 1 \in 1..(Len(s) - i) /\ i + (k - i + 1) = k + 1
      BY <2>2, <1>1
    <3> QED BY <3>1, <2>2, <1>3, <1>4
  <2> QED BY <2>1, <2>2
<1> QED BY <1>4, <1>5, <1>6, <1>7

-----------------------------------------------------------------------------
(* The members in memory                                                   *)

\* The fields of a member, one at a time.
LEMMA ChangesField ==
  ASSUME NEW e \in MemberEntry
  PROVE  /\ \A v \in BOOLEAN : Changed(e, "online", v) = [e EXCEPT !.online = v]
         /\ \A v \in BOOLEAN : Changed(e, "linked", v) = [e EXCEPT !.linked = v]
         /\ \A v \in Byte : Changed(e, "rank", v) = [e EXCEPT !.row = [e.row EXCEPT !.rank = v]]
         /\ \A v \in Note : Changed(e, "public", v) = [e EXCEPT !.row = [e.row EXCEPT !.public = v]]
         /\ \A v \in Note : Changed(e, "officer", v) = [e EXCEPT !.row = [e.row EXCEPT !.officer = v]]
<1>1. e.row \in MemberRow
  BY DEF MemberEntry
<1>2. DOMAIN e.row = {"rank", "public", "officer"}
  BY <1>1 DEF MemberRow
<1>3. "online" \notin DOMAIN e.row /\ "linked" \notin DOMAIN e.row
  BY <1>2
<1>4. "rank" \in DOMAIN e.row /\ "public" \in DOMAIN e.row /\ "officer" \in DOMAIN e.row
  BY <1>2
<1>5. \A v \in BOOLEAN : Changed(e, "online", v) = [e EXCEPT !.online = v] /\ Changed(e, "linked", v) = [e EXCEPT !.linked = v]
  BY <1>3 DEF Changed
<1>6. \A v : Changed(e, "rank", v) = [e EXCEPT !.row["rank"] = v]
  BY <1>4 DEF Changed
<1>7. \A v : Changed(e, "public", v) = [e EXCEPT !.row["public"] = v]
  BY <1>4 DEF Changed
<1>8. \A v : Changed(e, "officer", v) = [e EXCEPT !.row["officer"] = v]
  BY <1>4 DEF Changed
<1>9. \A v : /\ [e EXCEPT !.row["rank"] = v] = [e EXCEPT !.row = [e.row EXCEPT !.rank = v]]
             /\ [e EXCEPT !.row["public"] = v] = [e EXCEPT !.row = [e.row EXCEPT !.public = v]]
             /\ [e EXCEPT !.row["officer"] = v] = [e EXCEPT !.row = [e.row EXCEPT !.officer = v]]
  BY DEF MemberEntry
<1> QED BY <1>5, <1>6, <1>7, <1>8, <1>9

\* What Changed leaves alone.
LEMMA ChangedMember ==
  ASSUME NEW e \in MemberEntry
  PROVE  /\ \A v \in BOOLEAN :
              LET c == Changed(e, "online", v) IN
              c \in MemberEntry /\ c.who = e.who /\ c.row = e.row /\ c.linked = e.linked
         /\ LET c == Changed(e, "linked", FALSE) IN
            c \in MemberEntry /\ c.who = e.who /\ c.row = e.row /\ c.linked = FALSE
         /\ \A v \in Byte :
              LET c == Changed(e, "rank", v) IN
              c \in MemberEntry /\ c.who = e.who /\ c.row = [e.row EXCEPT !.rank = v] /\ c.linked = e.linked
         /\ \A v \in Note :
              LET c == Changed(e, "public", v) IN
              c \in MemberEntry /\ c.who = e.who /\ c.row = [e.row EXCEPT !.public = v] /\ c.linked = e.linked
         /\ \A v \in Note :
              LET c == Changed(e, "officer", v) IN
              c \in MemberEntry /\ c.who = e.who /\ c.row = [e.row EXCEPT !.officer = v] /\ c.linked = e.linked
<1>1. e.row \in MemberRow
  BY DEF MemberEntry
<1>2. /\ \A v \in Byte : [e.row EXCEPT !.rank = v] \in MemberRow
      /\ \A v \in Note : [e.row EXCEPT !.public = v] \in MemberRow /\ [e.row EXCEPT !.officer = v] \in MemberRow
  BY <1>1 DEF MemberRow
<1>3. \A v \in BOOLEAN : Changed(e, "online", v) = [e EXCEPT !.online = v] /\ Changed(e, "linked", v) = [e EXCEPT !.linked = v]
  BY ChangesField
<1>4. \A r \in MemberRow :
        [e EXCEPT !.row = r] \in MemberEntry /\ [e EXCEPT !.row = r].row = r
        /\ [e EXCEPT !.row = r].who = e.who /\ [e EXCEPT !.row = r].linked = e.linked
  BY DEF MemberEntry
<1>5. /\ \A v \in BOOLEAN : [e EXCEPT !.online = v] \in MemberEntry /\ [e EXCEPT !.online = v].who = e.who
                            /\ [e EXCEPT !.online = v].row = e.row /\ [e EXCEPT !.online = v].linked = e.linked
      /\ \A v \in BOOLEAN : [e EXCEPT !.linked = v] \in MemberEntry /\ [e EXCEPT !.linked = v].who = e.who
                            /\ [e EXCEPT !.linked = v].row = e.row /\ [e EXCEPT !.linked = v].linked = v
  BY DEF MemberEntry
<1>6. /\ \A v \in Byte : Changed(e, "rank", v) = [e EXCEPT !.row = [e.row EXCEPT !.rank = v]]
      /\ \A v \in Note : Changed(e, "public", v) = [e EXCEPT !.row = [e.row EXCEPT !.public = v]]
      /\ \A v \in Note : Changed(e, "officer", v) = [e EXCEPT !.row = [e.row EXCEPT !.officer = v]]
  BY ChangesField
<1>7. ASSUME NEW v \in BOOLEAN PROVE LET c == Changed(e, "online", v) IN
        c \in MemberEntry /\ c.who = e.who /\ c.row = e.row /\ c.linked = e.linked
  BY <1>3, <1>5
<1>8. LET c == Changed(e, "linked", FALSE) IN c \in MemberEntry /\ c.who = e.who /\ c.row = e.row /\ c.linked = FALSE
  BY <1>3, <1>5
<1>9. ASSUME NEW v \in Byte PROVE LET c == Changed(e, "rank", v) IN
        c \in MemberEntry /\ c.who = e.who /\ c.row = [e.row EXCEPT !.rank = v] /\ c.linked = e.linked
  <2> DEFINE r == [e.row EXCEPT !.rank = v]
  <2>1. r \in MemberRow
    BY <1>2
  <2>2. Changed(e, "rank", v) = [e EXCEPT !.row = r]
    BY <1>6
  <2> HIDE DEF r
  <2>3. /\ [e EXCEPT !.row = r] \in MemberEntry /\ [e EXCEPT !.row = r].row = r
        /\ [e EXCEPT !.row = r].who = e.who /\ [e EXCEPT !.row = r].linked = e.linked
    BY <2>1, <1>4
  <2>4. LET c == Changed(e, "rank", v) IN c \in MemberEntry /\ c.who = e.who /\ c.row = r /\ c.linked = e.linked
    BY <2>2, <2>3
  <2> QED BY <2>4 DEF r
<1>10. ASSUME NEW v \in Note PROVE LET c == Changed(e, "public", v) IN
        c \in MemberEntry /\ c.who = e.who /\ c.row = [e.row EXCEPT !.public = v] /\ c.linked = e.linked
  <2> DEFINE r == [e.row EXCEPT !.public = v]
  <2>1. r \in MemberRow
    BY <1>2
  <2>2. Changed(e, "public", v) = [e EXCEPT !.row = r]
    BY <1>6
  <2> HIDE DEF r
  <2>3. /\ [e EXCEPT !.row = r] \in MemberEntry /\ [e EXCEPT !.row = r].row = r
        /\ [e EXCEPT !.row = r].who = e.who /\ [e EXCEPT !.row = r].linked = e.linked
    BY <2>1, <1>4
  <2>4. LET c == Changed(e, "public", v) IN c \in MemberEntry /\ c.who = e.who /\ c.row = r /\ c.linked = e.linked
    BY <2>2, <2>3
  <2> QED BY <2>4 DEF r
<1>11. ASSUME NEW v \in Note PROVE LET c == Changed(e, "officer", v) IN
        c \in MemberEntry /\ c.who = e.who /\ c.row = [e.row EXCEPT !.officer = v] /\ c.linked = e.linked
  <2> DEFINE r == [e.row EXCEPT !.officer = v]
  <2>1. r \in MemberRow
    BY <1>2
  <2>2. Changed(e, "officer", v) = [e EXCEPT !.row = r]
    BY <1>6
  <2> HIDE DEF r
  <2>3. /\ [e EXCEPT !.row = r] \in MemberEntry /\ [e EXCEPT !.row = r].row = r
        /\ [e EXCEPT !.row = r].who = e.who /\ [e EXCEPT !.row = r].linked = e.linked
    BY <2>1, <1>4
  <2>4. LET c == Changed(e, "officer", v) IN c \in MemberEntry /\ c.who = e.who /\ c.row = r /\ c.linked = e.linked
    BY <2>2, <2>3
  <2> QED BY <2>4 DEF r
<1> QED BY <1>7, <1>8, <1>9, <1>10, <1>11

\* Update changes the linked members of the players of S, one by one.
LEMMA UpdatesEach ==
  ASSUME cache \in CacheRecord, NEW S, NEW f, NEW v, \A e \in MemberEntry : Changed(e, f, v) \in MemberEntry
  PROVE  /\ Update(S, f, v) \in Seq(MemberEntry)
         /\ DOMAIN Update(S, f, v) = DOMAIN cache.members
         /\ \A k \in DOMAIN cache.members :
              Update(S, f, v)[k] = IF cache.members[k].who \in S /\ cache.members[k].linked
                                   THEN Changed(cache.members[k], f, v) ELSE cache.members[k]
<1> DEFINE ms == cache.members
<1>1. ms \in Seq(MemberEntry)
  BY DEF CacheRecord
<1> HIDE DEF ms
<1>2. Len(ms) \in Nat /\ DOMAIN ms = 1..Len(ms) /\ \A k \in 1..Len(ms) : ms[k] \in MemberEntry
  BY <1>1, LenProperties, ElementOfSeq
<1> DEFINE u == [k \in DOMAIN ms |-> IF ms[k].who \in S /\ ms[k].linked THEN Changed(ms[k], f, v) ELSE ms[k]]
<1>3. u \in [1..Len(ms) -> MemberEntry]
  BY <1>2
<1>4. u \in Seq(MemberEntry)
  BY <1>2, <1>3, SeqDef
<1>5. Update(S, f, v) = u
  BY DEF Update, ms
<1> QED BY <1>4, <1>5 DEF ms

\* The entries of the members in memory are well typed.
LEMMA MembersTyped ==
  ASSUME cache \in CacheRecord
  PROVE  /\ cache.members \in Seq(MemberEntry) /\ Len(cache.members) \in Nat /\ DOMAIN cache.members = 1..Len(cache.members)
         /\ \A k \in DOMAIN cache.members : cache.members[k] \in MemberEntry
         /\ cache.ranks \in Seq(RankEntry) /\ Len(cache.ranks) \in Nat /\ DOMAIN cache.ranks = 1..Len(cache.ranks)
         /\ \A k \in DOMAIN cache.ranks : cache.ranks[k] \in RankEntry
         /\ cache.texts \in Texts
<1>1. cache.members \in Seq(MemberEntry) /\ cache.ranks \in Seq(RankEntry) /\ cache.texts \in Texts
  BY DEF CacheRecord
<1> QED BY <1>1, LenProperties, ElementOfSeq

\* The new lists of members that the cache writes and the log events make.
LEMMA UpdatesOnline ==
  ASSUME cache \in CacheRecord, NEW S, NEW v \in BOOLEAN
  PROVE  LET ms == Update(S, "online", v) IN
         /\ ms \in Seq(MemberEntry) /\ DOMAIN ms = DOMAIN cache.members
         /\ \A k \in DOMAIN cache.members : /\ ms[k].who = cache.members[k].who /\ ms[k].row = cache.members[k].row
                                            /\ ms[k].linked = cache.members[k].linked
<1>1. \A e \in MemberEntry : LET c == Changed(e, "online", v) IN c \in MemberEntry /\ c.who = e.who /\ c.row = e.row /\ c.linked = e.linked
  BY ChangedMember
<1> DEFINE ms == Update(S, "online", v)
<1>2. /\ ms \in Seq(MemberEntry) /\ DOMAIN ms = DOMAIN cache.members
      /\ \A k \in DOMAIN cache.members :
           ms[k] = IF cache.members[k].who \in S /\ cache.members[k].linked THEN Changed(cache.members[k], "online", v) ELSE cache.members[k]
  BY <1>1, UpdatesEach
<1>3. \A k \in DOMAIN cache.members : cache.members[k] \in MemberEntry
  BY MembersTyped
<1> HIDE DEF ms
<1>4. \A k \in DOMAIN cache.members : ms[k].who = cache.members[k].who /\ ms[k].row = cache.members[k].row /\ ms[k].linked = cache.members[k].linked
  BY <1>1, <1>2, <1>3
<1> QED BY <1>2, <1>4 DEF ms

LEMMA Unlinks ==
  ASSUME cache \in CacheRecord, NEW p
  PROVE  LET ms == Unlink(p) IN
         /\ ms \in Seq(MemberEntry) /\ DOMAIN ms = DOMAIN cache.members
         /\ \A k \in DOMAIN cache.members : /\ ms[k].who = cache.members[k].who /\ ms[k].row = cache.members[k].row
                                            /\ ms[k].who # p => ms[k].linked = cache.members[k].linked
<1>1. \A e \in MemberEntry : LET c == Changed(e, "linked", FALSE) IN c \in MemberEntry /\ c.who = e.who /\ c.row = e.row
  BY ChangedMember
<1> DEFINE S == {p}
<1>2. \A x : x \in S <=> x = p
  OBVIOUS
<1> HIDE DEF S
<1> DEFINE ms == Update(S, "linked", FALSE)
<1>3. \A e \in MemberEntry : Changed(e, "linked", FALSE) \in MemberEntry
  BY <1>1
<1>4. /\ ms \in Seq(MemberEntry) /\ DOMAIN ms = DOMAIN cache.members
      /\ \A k \in DOMAIN cache.members :
           ms[k] = IF cache.members[k].who \in S /\ cache.members[k].linked THEN Changed(cache.members[k], "linked", FALSE) ELSE cache.members[k]
  BY <1>3, UpdatesEach
<1>5. \A k \in DOMAIN cache.members : cache.members[k] \in MemberEntry
  BY MembersTyped
<1> HIDE DEF ms
<1>6. \A k \in DOMAIN cache.members : ms[k].who = cache.members[k].who /\ ms[k].row = cache.members[k].row
                                       /\ (ms[k].who # p => ms[k].linked = cache.members[k].linked)
  <2> TAKE k \in DOMAIN cache.members
  <2> DEFINE e == cache.members[k]
  <2>1. e \in MemberEntry
    BY <1>5
  <2>2. CASE e.who \in S /\ e.linked
    <3>1. ms[k] = Changed(e, "linked", FALSE)
      BY <2>2, <1>4
    <3> QED BY <3>1, <2>1, <2>2, <1>2, <1>1
  <2>3. CASE ~(e.who \in S /\ e.linked)
    BY <2>3, <1>4, <1>2
  <2> QED BY <2>2, <2>3
<1> QED BY <1>4, <1>6 DEF ms, S, Unlink

LEMMA UpdatesRank ==
  ASSUME cache \in CacheRecord, NEW t, NEW v \in Byte
  PROVE  LET ms == Update({t}, "rank", v) IN
         /\ ms \in Seq(MemberEntry) /\ DOMAIN ms = DOMAIN cache.members
         /\ \A k \in DOMAIN cache.members :
              /\ ms[k].who = cache.members[k].who /\ ms[k].linked = cache.members[k].linked
              /\ ms[k].row = IF cache.members[k].who = t /\ cache.members[k].linked
                             THEN [cache.members[k].row EXCEPT !.rank = v] ELSE cache.members[k].row
<1>1. \A e \in MemberEntry : LET c == Changed(e, "rank", v) IN c \in MemberEntry /\ c.who = e.who /\ c.row = [e.row EXCEPT !.rank = v] /\ c.linked = e.linked
  BY ChangedMember
<1> DEFINE S == {t}
<1>2. \A x : x \in S <=> x = t
  OBVIOUS
<1> HIDE DEF S
<1> DEFINE ms == Update(S, "rank", v)
<1>3. \A e \in MemberEntry : Changed(e, "rank", v) \in MemberEntry
  BY <1>1
<1>4. /\ ms \in Seq(MemberEntry) /\ DOMAIN ms = DOMAIN cache.members
      /\ \A k \in DOMAIN cache.members :
           ms[k] = IF cache.members[k].who \in S /\ cache.members[k].linked THEN Changed(cache.members[k], "rank", v) ELSE cache.members[k]
  BY <1>3, UpdatesEach
<1>5. \A k \in DOMAIN cache.members : cache.members[k] \in MemberEntry
  BY MembersTyped
<1> HIDE DEF ms
<1>6. \A k \in DOMAIN cache.members :
        /\ ms[k].who = cache.members[k].who /\ ms[k].linked = cache.members[k].linked
        /\ ms[k].row = IF cache.members[k].who = t /\ cache.members[k].linked
                       THEN [cache.members[k].row EXCEPT !.rank = v] ELSE cache.members[k].row
  <2> TAKE k \in DOMAIN cache.members
  <2> DEFINE e == cache.members[k]
  <2>1. e \in MemberEntry
    BY <1>5
  <2>2. CASE e.who \in S /\ e.linked
    <3>1. ms[k] = Changed(e, "rank", v)
      BY <2>2, <1>4
    <3> QED BY <3>1, <2>1, <2>2, <1>2, <1>1
  <2>3. CASE ~(e.who \in S /\ e.linked)
    BY <2>3, <1>4, <1>2
  <2> QED BY <2>2, <2>3
<1> QED BY <1>4, <1>6 DEF ms, S

LEMMA UpdatesNote ==
  ASSUME cache \in CacheRecord, NEW t, NEW f \in NoteOps, NEW v \in Note
  PROVE  LET ms == Update({t}, f, v) IN
         /\ ms \in Seq(MemberEntry) /\ DOMAIN ms = DOMAIN cache.members
         /\ \A k \in DOMAIN cache.members :
              /\ ms[k].who = cache.members[k].who /\ ms[k].linked = cache.members[k].linked
              /\ ms[k].row = IF cache.members[k].who = t /\ cache.members[k].linked
                             THEN [cache.members[k].row EXCEPT ![f] = v] ELSE cache.members[k].row
<1>1. CASE f = "public"
  <2>1. \A e \in MemberEntry : LET c == Changed(e, "public", v) IN c \in MemberEntry /\ c.who = e.who /\ c.row = [e.row EXCEPT !.public = v] /\ c.linked = e.linked
    BY ChangedMember
  <2> DEFINE S == {t}
  <2>2. \A x : x \in S <=> x = t
    OBVIOUS
  <2> HIDE DEF S
  <2> DEFINE ms == Update(S, "public", v)
  <2>3. \A e \in MemberEntry : Changed(e, "public", v) \in MemberEntry
    BY <2>1
  <2>4. /\ ms \in Seq(MemberEntry) /\ DOMAIN ms = DOMAIN cache.members
        /\ \A k \in DOMAIN cache.members :
             ms[k] = IF cache.members[k].who \in S /\ cache.members[k].linked THEN Changed(cache.members[k], "public", v) ELSE cache.members[k]
    BY <2>3, UpdatesEach
  <2>5. \A k \in DOMAIN cache.members : cache.members[k] \in MemberEntry
    BY MembersTyped
  <2> HIDE DEF ms
  <2>6. \A k \in DOMAIN cache.members :
          /\ ms[k].who = cache.members[k].who /\ ms[k].linked = cache.members[k].linked
          /\ ms[k].row = IF cache.members[k].who = t /\ cache.members[k].linked
                         THEN [cache.members[k].row EXCEPT !.public = v] ELSE cache.members[k].row
    <3> TAKE k \in DOMAIN cache.members
    <3> DEFINE e == cache.members[k]
    <3>1. e \in MemberEntry
      BY <2>5
    <3>2. CASE e.who \in S /\ e.linked
      <4>1. ms[k] = Changed(e, "public", v)
        BY <3>2, <2>4
      <4> QED BY <4>1, <3>1, <3>2, <2>2, <2>1
    <3>3. CASE ~(e.who \in S /\ e.linked)
      BY <3>3, <2>4, <2>2
    <3> QED BY <3>2, <3>3
  <2> QED BY <2>4, <2>6, <1>1 DEF ms, S
<1>2. CASE f = "officer"
  <2>1. \A e \in MemberEntry : LET c == Changed(e, "officer", v) IN c \in MemberEntry /\ c.who = e.who /\ c.row = [e.row EXCEPT !.officer = v] /\ c.linked = e.linked
    BY ChangedMember
  <2> DEFINE S == {t}
  <2>2. \A x : x \in S <=> x = t
    OBVIOUS
  <2> HIDE DEF S
  <2> DEFINE ms == Update(S, "officer", v)
  <2>3. \A e \in MemberEntry : Changed(e, "officer", v) \in MemberEntry
    BY <2>1
  <2>4. /\ ms \in Seq(MemberEntry) /\ DOMAIN ms = DOMAIN cache.members
        /\ \A k \in DOMAIN cache.members :
             ms[k] = IF cache.members[k].who \in S /\ cache.members[k].linked THEN Changed(cache.members[k], "officer", v) ELSE cache.members[k]
    BY <2>3, UpdatesEach
  <2>5. \A k \in DOMAIN cache.members : cache.members[k] \in MemberEntry
    BY MembersTyped
  <2> HIDE DEF ms
  <2>6. \A k \in DOMAIN cache.members :
          /\ ms[k].who = cache.members[k].who /\ ms[k].linked = cache.members[k].linked
          /\ ms[k].row = IF cache.members[k].who = t /\ cache.members[k].linked
                         THEN [cache.members[k].row EXCEPT !.officer = v] ELSE cache.members[k].row
    <3> TAKE k \in DOMAIN cache.members
    <3> DEFINE e == cache.members[k]
    <3>1. e \in MemberEntry
      BY <2>5
    <3>2. CASE e.who \in S /\ e.linked
      <4>1. ms[k] = Changed(e, "officer", v)
        BY <3>2, <2>4
      <4> QED BY <4>1, <3>1, <3>2, <2>2, <2>1
    <3>3. CASE ~(e.who \in S /\ e.linked)
      BY <3>3, <2>4, <2>2
    <3> QED BY <3>2, <3>3
  <2> QED BY <2>4, <2>6, <1>2 DEF ms, S
<1> QED BY <1>1, <1>2 DEF NoteOps

\* A new row and a new entry.
LEMMA NewMember ==
  ASSUME NEW p \in Players, NEW v \in Byte, NEW b \in BOOLEAN
  PROVE  /\ Row(v) \in MemberRow /\ Row(v).rank = v /\ Row(v).public = NoText /\ Row(v).officer = NoText
         /\ \A r \in MemberRow : /\ Member(p, r, b) \in MemberEntry /\ Member(p, r, b).who = p
                                 /\ Member(p, r, b).row = r /\ Member(p, r, b).linked
BY DEF Row, Member, MemberRow, MemberEntry, Note

\* AddGuildMember puts the new member behind the others.
LEMMA AddsMember ==
  ASSUME cache \in CacheRecord, NEW p \in Players, NEW v \in Byte
  PROVE  LET ms == AddGuildMember(p, v)
             n == Len(cache.members) IN
         /\ ms \in Seq(MemberEntry) /\ DOMAIN ms = 1..(n + 1)
         /\ \A k \in 1..n : /\ ms[k].who = cache.members[k].who /\ ms[k].row = cache.members[k].row
                            /\ ms[k].who # p => ms[k].linked = cache.members[k].linked
         /\ ms[n + 1].who = p /\ ms[n + 1].row = Row(v) /\ ms[n + 1].linked
<1> DEFINE u == Unlink(p)
           n == Len(cache.members)
           m == Member(p, Row(v), TRUE)
           ms == Append(u, m)
<1>1. n \in Nat /\ DOMAIN cache.members = 1..n
  BY MembersTyped
<1>2. u \in Seq(MemberEntry) /\ DOMAIN u = 1..n
      /\ \A k \in 1..n : u[k].who = cache.members[k].who /\ u[k].row = cache.members[k].row
                         /\ (u[k].who # p => u[k].linked = cache.members[k].linked)
  BY <1>1, Unlinks
<1>3. m \in MemberEntry /\ m.who = p /\ m.row = Row(v) /\ m.linked
  BY NewMember
<1> HIDE DEF u, m
<1>4. Len(u) = n
  BY <1>1, <1>2, LenProperties
<1>5. ms \in Seq(MemberEntry) /\ Len(ms) = n + 1 /\ (\A k \in 1..n : ms[k] = u[k]) /\ ms[n + 1] = m
  BY <1>2, <1>3, <1>4, AppendProperties
<1>6. AddGuildMember(p, v) = ms
  BY DEF AddGuildMember, u, m
<1> HIDE DEF ms, n
<1>7. DOMAIN ms = 1..(n + 1)
  BY <1>5, LenProperties
<1>8. \A k \in 1..n : ms[k].who = cache.members[k].who /\ ms[k].row = cache.members[k].row
                      /\ (ms[k].who # p => ms[k].linked = cache.members[k].linked)
  BY <1>5, <1>2
<1>9. ms[n + 1].who = p /\ ms[n + 1].row = Row(v) /\ ms[n + 1].linked
  BY <1>3, <1>5
<1> QED BY <1>5, <1>6, <1>7, <1>8, <1>9 DEF n

\* RemoveGuildMember takes the first entry of a linked member out.
LEMMA RemovesMember ==
  ASSUME cache \in CacheRecord, NEW t
  PROVE  LET ms == RemoveGuildMember(t)
             i == Min(Entries(t)) IN
         /\ ms \in Seq(MemberEntry)
         /\ ~Linked(t) => ms = cache.members
         /\ Linked(t) =>
              /\ i \in Entries(t) /\ \A k \in Entries(t) : i <= k
              /\ DOMAIN ms = 1..(Len(cache.members) - 1)
              /\ \A k \in DOMAIN ms :
                   LET j == IF k < i THEN k ELSE k + 1 IN
                   /\ ms[k].who = cache.members[j].who /\ ms[k].row = cache.members[j].row
                   /\ ms[k].who # t => ms[k].linked = cache.members[j].linked
<1> DEFINE n == Len(cache.members)
           u == Unlink(t)
           i == Min(Entries(t))
           ms == RemoveAt(u, i)
<1>1. cache.members \in Seq(MemberEntry) /\ n \in Nat /\ DOMAIN cache.members = 1..n
  BY MembersTyped
<1>2. CASE ~Linked(t)
  BY <1>1, <1>2 DEF RemoveGuildMember
<1>3. CASE Linked(t)
  <2>1. Entries(t) # {} /\ Entries(t) \in SUBSET Nat /\ Entries(t) \subseteq 1..n
    BY <1>1, <1>3 DEF Linked, Entries
  <2>2. i \in Entries(t) /\ \A k \in Entries(t) : i <= k
    BY <2>1, MinIsLeast
  <2>3. u \in Seq(MemberEntry) /\ DOMAIN u = 1..n
        /\ \A k \in 1..n : u[k].who = cache.members[k].who /\ u[k].row = cache.members[k].row
                           /\ (u[k].who # t => u[k].linked = cache.members[k].linked)
    BY <1>1, Unlinks
  <2>4. RemoveGuildMember(t) = ms
    BY <1>3 DEF RemoveGuildMember
  <2> HIDE DEF u, i, n
  <2>5. Len(u) = n
    BY <1>1, <2>3, LenProperties
  <2>6. i \in DOMAIN u
    BY <2>1, <2>2, <2>3
  <2>7. /\ ms \in Seq(MemberEntry) /\ DOMAIN ms = 1..(n - 1)
        /\ \A k \in DOMAIN ms : ms[k] = u[IF k < i THEN k ELSE k + 1]
    BY <2>3, <2>5, <2>6, RemovesOne
  <2> HIDE DEF ms
  <2>8. ASSUME NEW k \in DOMAIN ms
        PROVE  LET j == IF k < i THEN k ELSE k + 1 IN
               /\ ms[k].who = cache.members[j].who /\ ms[k].row = cache.members[j].row
               /\ ms[k].who # t => ms[k].linked = cache.members[j].linked
    <3> DEFINE j == IF k < i THEN k ELSE k + 1
    <3>1. j \in 1..n
      BY <1>1, <2>3, <2>6, <2>7
    <3>2. ms[k] = u[j]
      BY <2>7
    <3> HIDE DEF j
    <3>3. ms[k].who = cache.members[j].who /\ ms[k].row = cache.members[j].row /\ (ms[k].who # t => ms[k].linked = cache.members[j].linked)
      BY <2>3, <3>1, <3>2
    <3> QED BY <3>3 DEF j
  <2> QED BY <1>3, <2>2, <2>4, <2>7, <2>8 DEF i, n
<1> QED BY <1>2, <1>3

-----------------------------------------------------------------------------
(* The ranks in memory                                                     *)

\* A member's first entry, and the rank it has.
LEMMA RankOfMember ==
  ASSUME cache \in CacheRecord, NEW p
  PROVE  /\ Entries(p) # {} =>
              /\ Min(Entries(p)) \in Entries(p) /\ \A k \in Entries(p) : Min(Entries(p)) <= k
              /\ guildMemberForMemberGuid(p) \in MemberEntry /\ guildMemberForMemberGuid(p).who = p
         /\ HasRank(p) => /\ rankForMember(p) \in RankEntry
                          /\ rankForMember(p).id = guildMemberForMemberGuid(p).row.rank
                          /\ \E k \in DOMAIN cache.ranks : rankForMember(p) = cache.ranks[k]
<1>1. Entries(p) \in SUBSET Nat /\ \A k \in Entries(p) : cache.members[k] \in MemberEntry /\ cache.members[k].who = p
  BY MembersTyped DEF Entries
<1>2. ASSUME Entries(p) # {}
      PROVE  /\ Min(Entries(p)) \in Entries(p) /\ \A k \in Entries(p) : Min(Entries(p)) <= k
             /\ guildMemberForMemberGuid(p) \in MemberEntry /\ guildMemberForMemberGuid(p).who = p
  BY <1>1, <1>2, MinIsLeast DEF guildMemberForMemberGuid
<1>3. ASSUME HasRank(p)
      PROVE  /\ rankForMember(p) \in RankEntry /\ rankForMember(p).id = guildMemberForMemberGuid(p).row.rank
             /\ \E k \in DOMAIN cache.ranks : rankForMember(p) = cache.ranks[k]
  <2> DEFINE ks == rankWithID(guildMemberForMemberGuid(p).row.rank)
  <2>1. ks # {} /\ ks \in SUBSET Nat /\ \A k \in ks : k \in DOMAIN cache.ranks /\ cache.ranks[k] \in RankEntry
                                                     /\ cache.ranks[k].id = guildMemberForMemberGuid(p).row.rank
    BY <1>3, MembersTyped DEF HasRank, rankWithID
  <2>2. rankForMember(p) = cache.ranks[Min(ks)]
    BY DEF rankForMember
  <2> HIDE DEF ks
  <2>3. Min(ks) \in ks
    BY <2>1, MinIsLeast
  <2> QED BY <2>1, <2>2, <2>3
<1> QED BY <1>2, <1>3

\* The lowest rank has the greatest id.
LEMMA LowestRank ==
  ASSUME cache \in CacheRecord
  PROVE  /\ lowestRankInGuild \in Byte
         /\ \A k \in DOMAIN cache.ranks : cache.ranks[k].id <= lowestRankInGuild
         /\ lowestRankInGuild = 0 \/ \E k \in DOMAIN cache.ranks : cache.ranks[k].id = lowestRankInGuild
<1> DEFINE T == {0} \cup {cache.ranks[k].id : k \in DOMAIN cache.ranks}
<1>1. \A k \in DOMAIN cache.ranks : cache.ranks[k].id \in Byte
  BY MembersTyped DEF RankEntry
<1>2. T \in SUBSET Byte /\ T # {} /\ \A k \in DOMAIN cache.ranks : cache.ranks[k].id \in T
  BY <1>1 DEF Byte
<1>3. \A x \in T : x = 0 \/ \E k \in DOMAIN cache.ranks : cache.ranks[k].id = x
  OBVIOUS
<1>4. lowestRankInGuild = Max(T)
  BY DEF lowestRankInGuild
<1> HIDE DEF T
<1>5. Max(T) \in T /\ \A y \in T : Max(T) >= y
  BY <1>2, MaxIsGreatest
<1>6. \A k \in DOMAIN cache.ranks : cache.ranks[k].id <= Max(T)
  <2> TAKE k \in DOMAIN cache.ranks
  <2> QED BY <1>1, <1>2, <1>5 DEF Byte
<1> QED BY <1>2, <1>3, <1>4, <1>5, <1>6

\* UpdateGuildRank gives the first rank with the id other rights.
LEMMA UpdatesRights ==
  ASSUME cache \in CacheRecord, NEW id \in Byte, NEW rights \in GuildRights
  PROVE  LET rs == UpdateGuildRank(id, rights) IN
         /\ rs \in Seq(RankEntry) /\ Len(rs) = Len(cache.ranks) /\ DOMAIN rs = DOMAIN cache.ranks
         /\ \A k \in DOMAIN cache.ranks :
              /\ rs[k].id = cache.ranks[k].id
              /\ rs[k] = cache.ranks[k] \/ (cache.ranks[k].id = id /\ rs[k].rights = rights)
              /\ cache.ranks[k].id = id /\ (\A j \in DOMAIN cache.ranks : j # k => cache.ranks[j].id # id) => rs[k].rights = rights
<1> DEFINE n == Len(cache.ranks)
           first == Min(rankWithID(id))
           rs == [k \in DOMAIN cache.ranks |->
                    IF rankWithID(id) # {} /\ k = first THEN [id |-> id, rights |-> rights] ELSE cache.ranks[k]]
<1>1. n \in Nat /\ DOMAIN cache.ranks = 1..n /\ \A k \in 1..n : cache.ranks[k] \in RankEntry
  BY MembersTyped
<1>2. rankWithID(id) \in SUBSET Nat /\ \A k : k \in rankWithID(id) <=> k \in 1..n /\ cache.ranks[k].id = id
  BY <1>1 DEF rankWithID
<1>3. rankWithID(id) # {} => first \in rankWithID(id)
  BY <1>2, MinIsLeast
<1>4. [id |-> id, rights |-> rights] \in RankEntry
  BY DEF RankEntry
<1>5. UpdateGuildRank(id, rights) = rs
  BY DEF UpdateGuildRank
<1> HIDE DEF first
<1>6. rs \in [1..n -> RankEntry]
  BY <1>1, <1>4
<1>7. rs \in Seq(RankEntry)
  BY <1>1, <1>6, SeqDef
<1>8. Len(rs) = n
  BY <1>1, <1>6, <1>7, LenProperties
<1>9. ASSUME NEW k \in 1..n
      PROVE  /\ rs[k].id = cache.ranks[k].id
             /\ rs[k] = cache.ranks[k] \/ (cache.ranks[k].id = id /\ rs[k].rights = rights)
             /\ cache.ranks[k].id = id /\ (\A j \in 1..n : j # k => cache.ranks[j].id # id) => rs[k].rights = rights
  <2>1. CASE rankWithID(id) # {} /\ k = first
    <3>1. rs[k] = [id |-> id, rights |-> rights]
      BY <2>1, <1>1
    <3> QED BY <3>1, <2>1, <1>2, <1>3
  <2>2. CASE ~(rankWithID(id) # {} /\ k = first)
    <3>1. rs[k] = cache.ranks[k]
      BY <2>2, <1>1
    <3>2. ~(cache.ranks[k].id = id /\ \A j \in 1..n : j # k => cache.ranks[j].id # id)
      BY <2>2, <1>2, <1>3
    <3> QED BY <3>1, <3>2
  <2> QED BY <2>1, <2>2
<1> QED BY <1>1, <1>5, <1>7, <1>8, <1>9 DEF n

\* DeleteLowestGuildRank keeps the ranks before an index.
LEMMA KeepsFirstRanks ==
  ASSUME cache \in CacheRecord, NEW v \in Byte
  PROVE  LET rs == DeleteLowestGuildRank(v)
             n == Len(cache.ranks) IN
         /\ rs \in Seq(RankEntry) /\ Len(rs) = IF v > n THEN n ELSE v
         /\ \A k \in DOMAIN rs : k \in DOMAIN cache.ranks /\ rs[k] = cache.ranks[k]
<1> DEFINE n == Len(cache.ranks)
           rs == SubSeq(cache.ranks, 1, v)
<1>1. cache.ranks \in Seq(RankEntry) /\ n \in Nat /\ DOMAIN cache.ranks = 1..n /\ \A k \in 1..n : cache.ranks[k] \in RankEntry
  BY MembersTyped
<1>2. v \in Nat
  BY DEF Byte
<1>3. CASE v > n
  BY <1>1, <1>3 DEF DeleteLowestGuildRank
<1>4. CASE ~(v > n)
  <2>1. DeleteLowestGuildRank(v) = rs
    BY <1>4 DEF DeleteLowestGuildRank
  <2>2. \A k \in 1..v : cache.ranks[k] \in RankEntry
    BY <1>1, <1>2, <1>4
  <2>3. rs \in Seq(RankEntry) /\ Len(rs) = (IF 1 <= v THEN v - 1 + 1 ELSE 0)
        /\ \A k \in 1..(v - 1 + 1) : rs[k] = cache.ranks[1 + k - 1]
    BY <1>2, <2>2, SubSeqProperties
  <2> HIDE DEF rs
  <2>4. Len(rs) = v /\ DOMAIN rs = 1..v
    BY <2>3, <1>2, LenProperties
  <2>5. \A k \in 1..v : k \in 1..n /\ rs[k] = cache.ranks[k]
    BY <2>3, <1>1, <1>2, <1>4
  <2> QED BY <2>1, <2>3, <2>4, <2>5, <1>1, <1>4
<1> QED BY <1>3, <1>4

\* AddGuildRank puts a rank behind the others.
LEMMA AddsRank ==
  ASSUME cache \in CacheRecord, NEW v \in Byte
  PROVE  LET rs == Append(cache.ranks, [id |-> v, rights |-> RightEmpty])
             n == Len(cache.ranks) IN
         /\ rs \in Seq(RankEntry) /\ Len(rs) = n + 1 /\ DOMAIN rs = 1..(n + 1)
         /\ (\A k \in 1..n : rs[k] = cache.ranks[k]) /\ rs[n + 1] = [id |-> v, rights |-> RightEmpty]
<1> DEFINE r == [id |-> v, rights |-> RightEmpty]
           n == Len(cache.ranks)
           rs == Append(cache.ranks, r)
<1>1. cache.ranks \in Seq(RankEntry) /\ n \in Nat
  BY MembersTyped
<1>2. r \in RankEntry
  BY DEF RankEntry, GuildRights
<1> HIDE DEF r
<1>3. rs \in Seq(RankEntry) /\ Len(rs) = n + 1 /\ (\A k \in 1..n : rs[k] = cache.ranks[k]) /\ rs[n + 1] = r
  BY <1>1, <1>2, AppendProperties
<1>4. DOMAIN rs = 1..(n + 1)
  BY <1>3, LenProperties
<1> QED BY <1>3, <1>4 DEF r

-----------------------------------------------------------------------------
(* What a start of the service loads                                       *)

\* ORDER BY: the k-th of a finite set of ids has k - 1 ids below it.
LEMMA KthId ==
  ASSUME NEW ids \in SUBSET Byte, NEW k \in 1..Cardinality(ids)
  PROVE  IdAt(ids, k) \in ids /\ Cardinality({x \in ids : x < IdAt(ids, k)}) = k - 1
<1> DEFINE n == Cardinality(ids)
           below == [id \in ids |-> {x \in ids : x < id}]
           rank == [id \in ids |-> Cardinality(below[id])]
<1>1. IsFiniteSet(ids) /\ n \in Nat
  <2>1. ids \in SUBSET Nat /\ \A x \in ids : x <= 255
    BY DEF Byte
  <2>2. IsFiniteSet(ids)
    BY <2>1, FS_BoundedSetOfNaturals
  <2> QED BY <2>2, FS_CardinalityType
<1>2. \A x \in ids : x \in Nat
  BY DEF Byte
<1>3. ASSUME NEW id \in ids
      PROVE  IsFiniteSet(below[id]) /\ rank[id] \in 0..(n - 1)
  <2>1. below[id] \in SUBSET ids /\ id \notin below[id]
    BY <1>2
  <2>2. IsFiniteSet(below[id]) /\ Cardinality(below[id]) \in Nat /\ Cardinality(below[id]) <= n
    BY <1>1, <2>1, FS_Subset, FS_CardinalityType
  <2>3. Cardinality(below[id]) # n
    BY <1>1, <2>1, FS_Subset
  <2> QED BY <1>1, <2>2, <2>3
<1>4. ASSUME NEW a \in ids, NEW b \in ids, a < b
      PROVE  rank[a] < rank[b]
  <2>1. below[a] \in SUBSET below[b] /\ a \in below[b] /\ a \notin below[a]
    BY <1>2, <1>4
  <2>2. Cardinality(below[a]) <= Cardinality(below[b]) /\ Cardinality(below[a]) # Cardinality(below[b])
    BY <1>3, <2>1, FS_Subset
  <2>3. rank[a] <= rank[b] /\ rank[a] # rank[b]
    BY <2>2
  <2>4. rank[a] \in 0..(n - 1) /\ rank[b] \in 0..(n - 1)
    BY <1>3
  <2> HIDE DEF rank, n, below
  <2> QED BY <1>1, <2>3, <2>4
<1>5. \A id \in ids : rank[id] \in 0..(n - 1)
  BY <1>3
<1> HIDE DEF rank, below, n
<1>6. rank \in Injection(ids, 0..(n - 1))
  <2>1. rank \in [ids -> 0..(n - 1)]
    BY <1>5 DEF rank
  <2>2. ASSUME NEW a \in ids, NEW b \in ids, rank[a] = rank[b] PROVE a = b
    <3>1. ~(a < b) /\ ~(b < a)
      BY <1>1, <1>5, <1>4, <2>2
    <3> QED BY <1>2, <3>1
  <2>3. IsInjective(rank)
    BY <2>1, <2>2 DEF IsInjective
  <2> QED BY <2>1, <2>3 DEF Injection
<1>7. rank \in Surjection(ids, 0..(n - 1))
  <2>1. IsFiniteSet(0..(n - 1)) /\ Cardinality(0..(n - 1)) = n
    BY <1>1, FS_Interval
  <2>2. Cardinality(ids) = n
    BY DEF n
  <2> QED BY <1>6, <2>1, <2>2, FS_Injection
<1>8. PICK id \in ids : rank[id] = k - 1
  <2>1. k - 1 \in 0..(n - 1)
    BY <1>1 DEF n
  <2> QED BY <1>7, <2>1 DEF Surjection
<1>9. Cardinality({x \in ids : x < id}) = k - 1
  BY <1>8 DEF rank, below
<1> QED BY <1>8, <1>9 DEF IdAt

\* Ids without a gap come in their order.
LEMMA KthOfInterval ==
  ASSUME NEW n \in 0..256, NEW k \in 1..n
  PROVE  /\ Cardinality(0..(n - 1)) = n
         /\ IdAt(0..(n - 1), k) = k - 1
<1> DEFINE ids == 0..(n - 1)
           id == IdAt(ids, k)
<1>1. Cardinality(ids) = n
  BY FS_Interval
<1>2. ids \in SUBSET Byte
  BY DEF Byte
<1> HIDE DEF ids
<1>3. id \in ids /\ Cardinality({x \in ids : x < id}) = k - 1
  BY <1>1, <1>2, KthId
<1> HIDE DEF id
<1>4. id \in Nat /\ {x \in ids : x < id} = 0..(id - 1)
  BY <1>3 DEF ids
<1>5. Cardinality(0..(id - 1)) = id
  BY <1>4, FS_Interval
<1>6. id = k - 1
  BY <1>3, <1>4, <1>5
<1> QED BY <1>1, <1>6 DEF id, ids

\* The guild in memory after a start: each member once with its row, and the
\* ranks in the order of their ids.
LEMMA LoadsTables ==
  ASSUME TablesOK, NEW S
  PROVE  LET c == LoadAllForRealm(memberRows, rankRows, textRows, S) IN
         /\ c \in CacheRecord /\ c.texts = textRows
         /\ \A k \in DOMAIN c.members : /\ c.members[k].who \in DOMAIN memberRows /\ c.members[k].linked
                                        /\ c.members[k].row = memberRows[c.members[k].who]
         /\ \A p \in DOMAIN memberRows : \E k \in DOMAIN c.members : c.members[k].who = p
         /\ \A j, k \in DOMAIN c.members : c.members[j].who = c.members[k].who => j = k
         /\ Len(c.ranks) = Cardinality(DOMAIN rankRows)
         /\ \A k \in DOMAIN c.ranks : c.ranks[k].id = IdAt(DOMAIN rankRows, k) /\ c.ranks[k].id \in DOMAIN rankRows
                                      /\ c.ranks[k].rights = rankRows[c.ranks[k].id]
<1> DEFINE P == DOMAIN memberRows
           M == {Member(p, memberRows[p], p \in S) : p \in P}
           ms == SetToSeq(M)
           ids == DOMAIN rankRows
           n == Cardinality(ids)
           rs == [k \in 1..n |-> [id |-> IdAt(ids, k), rights |-> rankRows[IdAt(ids, k)]]]
           c == LoadAllForRealm(memberRows, rankRows, textRows, S)
<1>1. P \subseteq Players /\ \A p \in P : memberRows[p] \in MemberRow
  BY DEF TablesOK
<1>2. \A p \in P : LET m == Member(p, memberRows[p], p \in S) IN
                   m \in MemberEntry /\ m.who = p /\ m.row = memberRows[p] /\ m.linked
  BY <1>1 DEF Member, MemberEntry
<1>3. IsFiniteSet(M)
  <2>1. IsFiniteSet(P)
    BY <1>1, FS_Subset, GuildsAssumption
  <2> DEFINE f == [p \in P |-> Member(p, memberRows[p], p \in S)]
  <2>2. f \in Surjection(P, M)
    BY DEF Surjection
  <2> HIDE DEF f, M
  <2> QED BY <2>1, <2>2, FS_Surjection
<1>4. /\ \A m \in M : m \in MemberEntry /\ m.who \in P /\ m.linked /\ m.row = memberRows[m.who]
      /\ \A a, b \in M : a.who = b.who => a = b
      /\ \A p \in P : \E m \in M : m.who = p
  BY <1>2
<1> HIDE DEF M
<1>5. /\ ms \in Seq(M)
      /\ \A x \in M : \E k \in DOMAIN ms : ms[k] = x
      /\ \A j, k \in DOMAIN ms : ms[j] = ms[k] => j = k
  BY <1>3, Enumerates
<1> HIDE DEF ms
<1>6. \A k \in DOMAIN ms : ms[k] \in M
  BY <1>5, LenProperties, ElementOfSeq
<1>7. ms \in Seq(MemberEntry)
  <2>1. M \subseteq MemberEntry
    BY <1>4
  <2> QED BY <1>5, <2>1, SeqMonotonic
<1>8. /\ \A k \in DOMAIN ms : ms[k].who \in P /\ ms[k].linked /\ ms[k].row = memberRows[ms[k].who]
      /\ \A p \in P : \E k \in DOMAIN ms : ms[k].who = p
      /\ \A j, k \in DOMAIN ms : ms[j].who = ms[k].who => j = k
  BY <1>4, <1>5, <1>6
<1>9. ids \in SUBSET Byte /\ n \in Nat /\ \A id \in ids : rankRows[id] \in GuildRights
  <2>1. ids \in SUBSET Byte /\ \A id \in ids : rankRows[id] \in GuildRights
    BY DEF TablesOK
  <2>2. ids \in SUBSET Nat /\ \A x \in ids : x <= 255
    BY <2>1 DEF Byte
  <2>3. n \in Nat
    <3>1. 255 \in Nat
      OBVIOUS
    <3>2. IsFiniteSet(ids)
      BY <2>2, <3>1, FS_BoundedSetOfNaturals
    <3> QED BY <3>2, FS_CardinalityType
  <2> QED BY <2>1, <2>3
<1>10. \A k \in 1..n : IdAt(ids, k) \in ids
  BY <1>9, KthId
<1>11. /\ rs \in Seq(RankEntry) /\ Len(rs) = n /\ DOMAIN rs = 1..n
       /\ \A k \in 1..n : rs[k].id = IdAt(ids, k) /\ rs[k].id \in ids /\ rs[k].rights = rankRows[rs[k].id]
  <2> HIDE DEF ids
  <2>1. \A k \in 1..n : [id |-> IdAt(ids, k), rights |-> rankRows[IdAt(ids, k)]] \in RankEntry
    BY <1>9, <1>10 DEF RankEntry
  <2>2. rs \in [1..n -> RankEntry]
    BY <2>1
  <2> HIDE DEF n
  <2>3. rs \in Seq(RankEntry)
    BY <2>2, <1>9, SeqDef
  <2>4. Len(rs) = n
    BY <2>2, <2>3, <1>9, LenProperties
  <2> QED BY <2>2, <2>3, <2>4, <1>10
<1>12. c = [members |-> ms, ranks |-> rs, texts |-> textRows]
  BY DEF LoadAllForRealm, ms, M
<1> HIDE DEF rs, c
<1>13. c.members = ms /\ c.ranks = rs /\ c.texts = textRows
  BY <1>12
<1>14. c \in CacheRecord
  BY <1>7, <1>11, <1>12 DEF CacheRecord, TablesOK
<1>15. /\ \A k \in DOMAIN c.members : /\ c.members[k].who \in DOMAIN memberRows /\ c.members[k].linked
                                      /\ c.members[k].row = memberRows[c.members[k].who]
       /\ \A p \in DOMAIN memberRows : \E k \in DOMAIN c.members : c.members[k].who = p
       /\ \A j, k \in DOMAIN c.members : c.members[j].who = c.members[k].who => j = k
  BY <1>8, <1>13
<1>16. /\ Len(c.ranks) = Cardinality(DOMAIN rankRows)
       /\ \A k \in DOMAIN c.ranks : c.ranks[k].id = IdAt(DOMAIN rankRows, k) /\ c.ranks[k].id \in DOMAIN rankRows
                                    /\ c.ranks[k].rights = rankRows[c.ranks[k].id]
  BY <1>11, <1>13
<1> QED BY <1>13, <1>14, <1>15, <1>16 DEF c

-----------------------------------------------------------------------------
(* Calls                                                                   *)

\* Nothing is asked yet.
LEMMA IdleCall ==
  /\ Idle \in CallRecord /\ Idle.op = "none" /\ Idle.at = "none"
  /\ \A p \in Players : GoodCall(p, Idle)
BY DEF Idle, CallRecord, GoodCall, Ops, Places, Note, NoteOps, TextOps, RankSteps, RankOps

\* One call changes.
LEMMA SetsCall ==
  ASSUME calls \in [Players -> CallRecord], NEW p \in Players, NEW c \in CallRecord, calls' = [calls EXCEPT ![p] = c]
  PROVE  /\ calls' \in [Players -> CallRecord] /\ calls'[p] = c
         /\ \A q \in Players : q # p => calls'[q] = calls[q]
OBVIOUS

\* A call goes on to its next step.
LEMMA GoesOn ==
  ASSUME calls \in [Players -> CallRecord], NEW p \in Players, NEW step \in Places, calls' = [calls EXCEPT ![p].at = step]
  PROVE  /\ calls' \in [Players -> CallRecord]
         /\ calls'[p].at = step /\ calls'[p].op = calls[p].op /\ calls'[p].target = calls[p].target
         /\ calls'[p].value = calls[p].value /\ calls'[p].noRank = calls[p].noRank /\ calls'[p].online = calls[p].online
         /\ \A q \in Players : q # p => calls'[q] = calls[q]
<1> DEFINE c == [calls[p] EXCEPT !.at = step]
<1>1. calls[p] \in CallRecord
  OBVIOUS
<1>2. /\ c \in CallRecord /\ c.at = step /\ c.op = calls[p].op /\ c.target = calls[p].target
      /\ c.value = calls[p].value /\ c.noRank = calls[p].noRank /\ c.online = calls[p].online
  BY <1>1 DEF CallRecord
<1>3. calls' = [calls EXCEPT ![p] = c]
  OBVIOUS
<1> HIDE DEF c
<1> QED BY <1>2, <1>3, SetsCall

\* A step that changes one call leaves the rest well typed.
LEMMA CallTypes ==
  ASSUME TypeOK, up, NEW p \in Players, NEW c \in CallRecord, GoodCall(p, c), calls' = [calls EXCEPT ![p] = c],
         UNCHANGED <<memberRows, rankRows, textRows, cache, up>>
  PROVE  TypeOK'
<1>1. /\ calls' \in [Players -> CallRecord] /\ calls'[p] = c
      /\ \A q \in Players : q # p => calls'[q] = calls[q]
  BY SetsCall DEF TypeOK
<1>2. \A q \in Players : GoodCall(q, calls'[q])
  BY <1>1 DEF TypeOK
<1> QED BY <1>1, <1>2 DEF TypeOK, TablesOK

\* A call that is under way is one of a service that runs.
LEMMA Running ==
  ASSUME TypeOK, NEW p \in Players, calls[p] # Idle \/ calls[p].at # "none" \/ calls[p].op # "none"
  PROVE  up
BY IdleCall DEF TypeOK

\* What a call is about.
LEMMA CellOf ==
  ASSUME NEW p \in Players
  PROVE  /\ calls[p].op \in {"accept", "leave"} => Cell(p) = p
         /\ calls[p].op \in {"kick"} \cup RankSteps \cup NoteOps => Cell(p) = calls[p].target
         /\ calls[p].op \in TextOps => Cell(p) = calls[p].op
         /\ calls[p].op \in RankOps => Cell(p) = "ranks"
         /\ calls[p].op \in {"none", "invite"} => Cell(p) = "none"
BY DEF Cell, RankSteps, NoteOps, TextOps, RankOps

\* What a packet may ask.
Fits(p, op, target, value) ==
  /\ op \in Ops \ {"none"} /\ target \in Players \cup Byte /\ value \in Note \cup GuildRights
  /\ op \in {"accept", "leave"} => target = p
  /\ op \in {"kick"} \cup NoteOps \cup RankSteps => target \in Players
  /\ op \in NoteOps \cup TextOps => value \in Note
  /\ op = "rank" => target \in Byte /\ value \in GuildRights

LEMMA PacketAsks ==
  ASSUME NEW p \in Players, Packet(p)
  PROVE  \E op, target, value : Fits(p, op, target, value) /\ Ask(p, op, target, value)
<1>1. NoText \in Note /\ p \in Note
  BY DEF Note
<1> USE DEF Fits, Ops, NoteOps, TextOps, RankSteps, RankOps
<1>2. CASE HandleGuildInviteAccept(p)
  BY <1>1, <1>2 DEF HandleGuildInviteAccept
<1>3. CASE HandleGuildLeave(p)
  BY <1>1, <1>3 DEF HandleGuildLeave
<1>4. CASE HandleGuildSetMessageOfTheDay(p) \/ HandleGuildSetInfoText(p)
  BY <1>1, <1>4 DEF HandleGuildSetMessageOfTheDay, HandleGuildSetInfoText
<1>5. CASE HandleGuildRankAdd(p) \/ HandleGuildRankDelete(p)
  BY <1>1, <1>5 DEF HandleGuildRankAdd, HandleGuildRankDelete
<1>6. ASSUME NEW id \in 0..(GuildRankMax - 1), NEW rights \in RightSets, HandleGuildRankUpdate(p, id, rights)
      PROVE  \E op, target, value : Fits(p, op, target, value) /\ Ask(p, op, target, value)
  <2>1. id \in Byte /\ rights \in GuildRights
    <3>1. GuildRankMax \in Nat /\ GuildRankMax < 256 /\ RightSets \subseteq GuildRights
      BY GuildsAssumption DEF GuildRights
    <3>2. \A i \in 0..(GuildRankMax - 1) : i \in 0..255
      BY <3>1
    <3> QED BY <3>1, <3>2 DEF Byte
  <2> QED BY <1>6, <2>1 DEF HandleGuildRankUpdate
<1>7. ASSUME NEW t \in Players, HandleGuildInvite(p, t) \/ HandleGuildKick(p, t)
      PROVE  \E op, target, value : Fits(p, op, target, value) /\ Ask(p, op, target, value)
  BY <1>1, <1>7 DEF HandleGuildInvite, HandleGuildKick
<1>8. ASSUME NEW t \in Players, HandleGuildSetPublicNote(p, t) \/ HandleGuildSetOfficerNote(p, t)
      PROVE  \E op, target, value : Fits(p, op, target, value) /\ Ask(p, op, target, value)
  BY <1>1, <1>8 DEF HandleGuildSetPublicNote, HandleGuildSetOfficerNote
<1>9. ASSUME NEW t \in Players, HandleGuildPromote(p, t) \/ HandleGuildDemote(p, t)
      PROVE  \E op, target, value : Fits(p, op, target, value) /\ Ask(p, op, target, value)
  BY <1>1, <1>9 DEF HandleGuildPromote, HandleGuildDemote
<1> QED BY <1>2, <1>3, <1>4, <1>5, <1>6, <1>7, <1>8, <1>9 DEF Packet

\* The call that a packet begins.
LEMMA AskBegins ==
  ASSUME TypeOK, NEW p \in Players, NEW op, NEW target, NEW value, Fits(p, op, target, value), Ask(p, op, target, value)
  PROVE  /\ up /\ calls[p] = Idle /\ UNCHANGED <<memberRows, rankRows, textRows, cache, up, slips, raced>>
         /\ \E c \in CallRecord : /\ GoodCall(p, c) /\ c.at \in {"uninvite", "check"} /\ c.op = op
                                  /\ calls' = [calls EXCEPT ![p] = c]
<1> DEFINE at == IF op = "accept" THEN "uninvite" ELSE "check"
           c == [Idle EXCEPT !.op = op, !.at = at, !.target = target, !.value = value]
<1>1. up /\ calls[p] = Idle /\ calls' = [calls EXCEPT ![p] = c] /\ UNCHANGED <<memberRows, rankRows, textRows, cache, up, slips, raced>>
  BY DEF Ask, rowVars, ghostVars
<1>2. at \in {"uninvite", "check"} /\ (op = "accept" <=> at = "uninvite")
  OBVIOUS
<1> HIDE DEF at
<1>3. c.op = op /\ c.at = at /\ c.target = target /\ c.value = value
  BY DEF Idle
<1>4. c \in CallRecord
  <2>1. Idle \in CallRecord
    BY IdleCall
  <2>2. op \in Ops /\ at \in Places /\ target \in Players \cup Byte \cup {NoText} /\ value \in Note \cup Byte \cup GuildRights
    BY <1>2 DEF Fits, Places
  <2> QED BY <2>1, <2>2 DEF CallRecord
<1> HIDE DEF c
<1>5. GoodCall(p, c)
  BY <1>2, <1>3 DEF GoodCall, Fits, Ops, NoteOps, TextOps, RankSteps, RankOps
<1>6. c.at \in {"uninvite", "check"}
  BY <1>2, <1>3
<1> QED BY <1>1, <1>3, <1>4, <1>5, <1>6

\* What a change of rank looks at.
LEMMA TargetRank ==
  ASSUME TypeOK, NEW p \in Players, calls[p].op \in RankSteps, HasRank(calls[p].target)
  PROVE  /\ rankForMember(calls[p].target).id \in Byte /\ NewRank(p) \in Byte
         /\ calls[p].op = "promote" => IF rankForMember(calls[p].target).id = 0 THEN NewRank(p) = 255
                                       ELSE NewRank(p) = rankForMember(calls[p].target).id - 1
         /\ calls[p].op = "demote" /\ rankForMember(calls[p].target).id # 255 =>
              NewRank(p) = rankForMember(calls[p].target).id + 1
<1> DEFINE id == rankForMember(calls[p].target).id
           step == IF calls[p].op = "promote" THEN -1 ELSE 1
<1>1. cache \in CacheRecord
  BY DEF TypeOK
<1>2. id \in Byte
  BY <1>1, RankOfMember DEF RankEntry
<1>3. NewRank(p) = Uint8(id + step)
  BY DEF NewRank
<1> HIDE DEF id
<1>4. id \in 0..255
  BY <1>2 DEF Byte
<1>5. id + step \in Int
  BY <1>4
<1>6. NewRank(p) \in Byte
  BY <1>3, <1>5, Uint8Facts
<1>7. CASE calls[p].op = "promote"
  <2>1. CASE id = 0
    <3>1. id + step \in Int /\ id + step + 1 = 0
      BY <1>7, <2>1
    <3>2. NewRank(p) = 255
      BY <3>1, <1>3, Uint8Facts
    <3> QED BY <1>2, <1>6, <1>7, <2>1, <3>2 DEF id
  <2>2. CASE id # 0
    <3>1. id + step \in 0..255 /\ id + step = id - 1
      BY <1>4, <1>7, <2>2
    <3>2. NewRank(p) = id - 1
      BY <3>1, <1>3, Uint8Facts DEF Byte
    <3> QED BY <1>2, <1>6, <1>7, <2>2, <3>2 DEF id
  <2> QED BY <2>1, <2>2
<1>8. CASE calls[p].op = "demote"
  <2>1. ASSUME id # 255 PROVE NewRank(p) = id + 1
    <3>1. id + step \in 0..255 /\ id + step = id + 1
      BY <1>4, <1>8, <2>1
    <3> QED BY <3>1, <1>3, Uint8Facts DEF Byte
  <2> QED BY <1>2, <1>6, <1>8, <2>1 DEF id
<1> QED BY <1>7, <1>8 DEF RankSteps

\* Check ends the process, refuses the call, or decides it.
LEMMA CheckEffect ==
  ASSUME TypeOK, NEW p \in Players, Check(p)
  PROVE  /\ up /\ calls[p].at = "check"
         /\ \/ Panic
            \/ calls' = [calls EXCEPT ![p] = Idle] /\ UNCHANGED <<memberRows, rankRows, textRows, cache, up, slips, raced>>
            \/ /\ HasRank(p) /\ Entitled(p) /\ Permitted(p) /\ UNCHANGED <<memberRows, rankRows, textRows, cache, up, slips, raced>>
               /\ calls[p].op \in {"kick"} \cup RankSteps => HasRank(calls[p].target)
               /\ \E c \in CallRecord :
                    /\ calls' = [calls EXCEPT ![p] = c] /\ GoodCall(p, c)
                    /\ c.at = "statement" /\ c.op = calls[p].op /\ c.target = calls[p].target
                    /\ c.op \in RankSteps => c.value = NewRank(p)
                    /\ c.op = "addRank" => c.value = Uint8(lowestRankInGuild + 1)
                    /\ c.op = "delRank" => c.value = lowestRankInGuild
<1>1. calls[p].at = "check" /\ calls[p] \in CallRecord /\ GoodCall(p, calls[p])
  BY DEF Check, At, TypeOK
<1>2. up
  BY <1>1, Running
<1>3. CASE NilRank(p)
  BY <1>1, <1>2, <1>3 DEF Check
<1>4. CASE ~NilRank(p) /\ ~(HasRank(p) /\ Entitled(p) /\ Permitted(p))
  BY <1>1, <1>2, <1>4 DEF Check, Return, rowVars, ghostVars
<1>5. CASE ~NilRank(p) /\ HasRank(p) /\ Entitled(p) /\ Permitted(p)
  <2> DEFINE d == Decision(p)
             c == [d EXCEPT !.at = "statement"]
  <2>1. calls' = [calls EXCEPT ![p] = c] /\ UNCHANGED <<memberRows, rankRows, textRows, cache, up, slips, raced>>
    BY <1>5 DEF Check, rowVars, ghostVars
  <2>2. calls[p].op \in {"kick"} \cup RankSteps => HasRank(calls[p].target)
    BY <1>5 DEF NilRank, RankSteps
  <2>3. /\ d \in CallRecord /\ d.op = calls[p].op /\ d.target = calls[p].target
        /\ d.op \in RankSteps => d.value = NewRank(p) /\ d.value \in Byte
        /\ d.op = "addRank" => d.value = Uint8(lowestRankInGuild + 1) /\ d.value \in Byte
        /\ d.op = "delRank" => d.value = lowestRankInGuild /\ d.value \in Byte
        /\ d.op \in NoteOps \cup TextOps \cup {"rank"} => d.value = calls[p].value
    <3> DEFINE a == calls[p]
    <3>1. a \in CallRecord
      BY <1>1
    <3> HIDE DEF a
    <3>2. CASE a.op \in RankSteps
      <4> DEFINE v == NewRank(p)
                 b == (rankWithID(NewRank(p)) = {})
      <4>1. v \in Byte
        BY <2>2, <3>2, TargetRank DEF a
      <4>2. b \in BOOLEAN
        OBVIOUS
      <4>3. d = [a EXCEPT !.value = v, !.noRank = b]
        BY <3>2 DEF Decision, RankSteps, a
      <4> HIDE DEF v, b, d
      <4>4. d \in CallRecord /\ d.op = a.op /\ d.target = a.target /\ d.value = v
        BY <3>1, <4>1, <4>2, <4>3 DEF CallRecord
      <4> QED BY <3>2, <4>1, <4>4 DEF v, a, d, RankSteps, NoteOps, TextOps
    <3>3. CASE a.op = "addRank"
      <4> DEFINE v == Uint8(lowestRankInGuild + 1)
      <4>1. v \in Byte
        <5>1. lowestRankInGuild \in Byte
          BY LowestRank DEF TypeOK
        <5>2. lowestRankInGuild + 1 \in Int
          BY <5>1 DEF Byte
        <5> QED BY <5>2, Uint8Facts
      <4>2. d = [a EXCEPT !.value = v]
        BY <3>3 DEF Decision, a
      <4> HIDE DEF v, d
      <4>3. d \in CallRecord /\ d.op = a.op /\ d.target = a.target /\ d.value = v
        BY <3>1, <4>1, <4>2 DEF CallRecord
      <4> QED BY <3>3, <4>1, <4>3 DEF v, a, d, RankSteps, NoteOps, TextOps
    <3>4. CASE a.op = "delRank"
      <4> DEFINE v == lowestRankInGuild
      <4>1. v \in Byte
        BY LowestRank DEF TypeOK
      <4>2. d = [a EXCEPT !.value = v]
        BY <3>4 DEF Decision, a
      <4> HIDE DEF v, d
      <4>3. d \in CallRecord /\ d.op = a.op /\ d.target = a.target /\ d.value = v
        BY <3>1, <4>1, <4>2 DEF CallRecord
      <4> QED BY <3>4, <4>1, <4>3 DEF v, a, d, RankSteps, NoteOps, TextOps
    <3>5. CASE a.op = "kick"
      <4> DEFINE o == buildGenericEventPayload
      <4>1. o \in SUBSET Players
        <5>1. \A k \in DOMAIN cache.members : cache.members[k].who \in Players
          BY MembersTyped DEF TypeOK, MemberEntry
        <5> QED BY <5>1 DEF buildGenericEventPayload
      <4>2. d = [a EXCEPT !.online = o]
        BY <3>5 DEF Decision, a
      <4> HIDE DEF o, d
      <4>3. d \in CallRecord /\ d.op = a.op /\ d.target = a.target /\ d.value = a.value
        BY <3>1, <4>1, <4>2 DEF CallRecord
      <4> QED BY <3>5, <4>3 DEF a, d, RankSteps, NoteOps, TextOps
    <3>6. CASE a.op \notin RankSteps \cup {"addRank", "delRank", "kick"}
      <4>1. d = a
        BY <3>6 DEF Decision, a, RankSteps
      <4> QED BY <3>1, <3>6, <4>1 DEF a
    <3> QED BY <3>2, <3>3, <3>4, <3>5, <3>6
  <2> HIDE DEF d
  <2>4. c \in CallRecord /\ c.at = "statement" /\ c.op = d.op /\ c.target = d.target /\ c.value = d.value
    BY <2>3 DEF CallRecord, Places
  <2> HIDE DEF c
  <2>5. GoodCall(p, c)
    BY <1>1, <2>3, <2>4 DEF GoodCall, NoteOps, TextOps, RankSteps
  <2> QED BY <1>1, <1>2, <1>5, <2>1, <2>2, <2>3, <2>4, <2>5
<1> QED BY <1>3, <1>4, <1>5

-----------------------------------------------------------------------------
(* Statements                                                              *)

\* InviteAccepted takes the lowest rank.
LEMMA UninviteEffect ==
  ASSUME TypeOK, NEW p \in Players, RemoveGuildInviteForCharacter(p)
  PROVE  /\ up /\ calls[p].at = "uninvite" /\ calls[p].op = "accept" /\ UNCHANGED <<memberRows, rankRows, textRows, cache, up, slips, raced>>
         /\ \E c \in CallRecord :
              /\ calls' = [calls EXCEPT ![p] = c] /\ GoodCall(p, c)
              /\ c.op = "accept" /\ c.at = "statement" /\ c.value = lowestRankInGuild
<1>1. calls[p].at = "uninvite" /\ calls[p] \in CallRecord /\ GoodCall(p, calls[p])
  BY DEF RemoveGuildInviteForCharacter, At, TypeOK
<1>2. up /\ calls[p].op = "accept" /\ calls[p].target = p
  BY <1>1, Running DEF GoodCall
<1> DEFINE a == calls[p]
           v == lowestRankInGuild
           c == [a EXCEPT !.at = "statement", !.value = v]
<1>3. v \in Byte
  BY LowestRank DEF TypeOK
<1>4. calls' = [calls EXCEPT ![p] = c] /\ UNCHANGED <<memberRows, rankRows, textRows, cache, up, slips, raced>>
  <2>1. calls' = [calls EXCEPT ![p].at = "statement", ![p].value = v]
    BY DEF RemoveGuildInviteForCharacter
  <2> HIDE DEF v
  <2>2. calls' = [calls EXCEPT ![p] = c]
    BY <2>1 DEF TypeOK
  <2> QED BY <2>2 DEF RemoveGuildInviteForCharacter, ghostVars
<1> HIDE DEF v
<1>5. c \in CallRecord /\ c.at = "statement" /\ c.op = "accept" /\ c.value = v /\ c.target = p
  BY <1>1, <1>2, <1>3 DEF CallRecord, Places
<1> HIDE DEF c
<1>6. GoodCall(p, c)
  BY <1>3, <1>5 DEF GoodCall, NoteOps, TextOps, RankSteps
<1> QED BY <1>1, <1>2, <1>4, <1>5, <1>6 DEF v

\* The rows of guild_member after the statement of p.
MembersWritten(p) ==
  LET c == calls[p]
      t == Cell(p) IN
  /\ \A q \in Players : q # t => /\ q \in DOMAIN memberRows' <=> q \in DOMAIN memberRows
                                 /\ q \in DOMAIN memberRows => memberRows'[q] = memberRows[q]
  /\ c.op = "accept" => t \in DOMAIN memberRows' /\ memberRows'[t] = Row(c.value)
  /\ c.op \in {"leave", "kick"} => t \notin DOMAIN memberRows'
  /\ c.op \in RankSteps \cup NoteOps => (t \in DOMAIN memberRows' <=> t \in DOMAIN memberRows)
  /\ c.op \in RankSteps /\ t \in DOMAIN memberRows => memberRows'[t] = [memberRows[t] EXCEPT !.rank = c.value]
  /\ c.op \in NoteOps /\ t \in DOMAIN memberRows => memberRows'[t] = [memberRows[t] EXCEPT ![c.op] = c.value]
  /\ c.op \in {"invite"} \cup TextOps \cup RankOps => memberRows' = memberRows

\* The rows of guild_rank.
RanksWritten(p) ==
  LET c == calls[p] IN
  /\ c.op = "rank" => /\ DOMAIN rankRows' = DOMAIN rankRows
                      /\ \A id \in DOMAIN rankRows : rankRows'[id] = IF id = c.target THEN c.value ELSE rankRows[id]
  /\ c.op = "addRank" => /\ DOMAIN rankRows' = DOMAIN rankRows \cup {c.value} /\ rankRows'[c.value] = RightEmpty
                         /\ \A id \in DOMAIN rankRows \ {c.value} : rankRows'[id] = rankRows[id]
  /\ c.op = "delRank" => /\ DOMAIN rankRows' = {id \in DOMAIN rankRows : id < c.value}
                         /\ \A id \in DOMAIN rankRows' : rankRows'[id] = rankRows[id]
  /\ c.op \notin RankOps => rankRows' = rankRows

\* The statement of a call.
LEMMA WriteMemberEffect ==
  ASSUME TypeOK, NEW p \in Players, calls[p].at = "statement", WriteMember(p)
  PROVE  /\ MembersWritten(p)
         /\ DOMAIN memberRows' \subseteq Players /\ memberRows' \in [DOMAIN memberRows' -> MemberRow]
<1> DEFINE c == calls[p]
           t == Cell(p)
<1>1. DOMAIN memberRows \subseteq Players /\ memberRows \in [DOMAIN memberRows -> MemberRow]
  BY DEF TypeOK, TablesOK
<1>2. c \in CallRecord /\ GoodCall(p, c)
  BY DEF TypeOK
<1>3. c.op \in Ops
  BY <1>2 DEF CallRecord
<1> HIDE DEF c, t
<1>4. CASE c.op = "accept"
  <2>1. c.value \in Byte /\ t = p
    BY <1>2, <1>4, CellOf DEF GoodCall, c, t
  <2>2. memberRows' = [y \in DOMAIN memberRows \cup {p} |-> IF y = p THEN Row(c.value) ELSE memberRows[y]]
    BY <1>4 DEF WriteMember, Put, c
  <2>3. Row(c.value) \in MemberRow
    BY <2>1, NewMember
  <2>4. DOMAIN memberRows' = DOMAIN memberRows \cup {p} /\ memberRows'[p] = Row(c.value)
        /\ \A q \in DOMAIN memberRows : q # p => memberRows'[q] = memberRows[q]
    BY <2>2
  <2>5. DOMAIN memberRows' \subseteq Players /\ memberRows' \in [DOMAIN memberRows' -> MemberRow]
    BY <1>1, <2>2, <2>3
  <2>6. MembersWritten(p)
    BY <1>4, <2>1, <2>4 DEF MembersWritten, c, t, RankSteps, NoteOps, TextOps, RankOps
  <2> QED BY <2>5, <2>6
<1>5. CASE c.op \in {"leave", "kick"}
  <2>1. memberRows' = [y \in DOMAIN memberRows \ {t} |-> memberRows[y]]
    BY <1>5 DEF WriteMember, Drop, c, t
  <2>2. DOMAIN memberRows' \subseteq Players /\ memberRows' \in [DOMAIN memberRows' -> MemberRow]
    BY <1>1, <2>1
  <2>3. DOMAIN memberRows' = DOMAIN memberRows \ {t} /\ \A q \in DOMAIN memberRows : q # t => memberRows'[q] = memberRows[q]
    BY <2>1
  <2>4. MembersWritten(p)
    BY <1>5, <2>3 DEF MembersWritten, c, t, RankSteps, NoteOps, TextOps, RankOps
  <2> QED BY <2>2, <2>4
<1>6. CASE c.op \in RankSteps /\ t \in DOMAIN memberRows
  <2>1. c.value \in Byte
    BY <1>2, <1>6 DEF GoodCall, c
  <2> DEFINE r == [memberRows[t] EXCEPT !.rank = c.value]
  <2>2. r \in MemberRow
    BY <1>1, <1>6, <2>1 DEF MemberRow
  <2>3. memberRows' = [memberRows EXCEPT ![t].rank = c.value]
    BY <1>6 DEF WriteMember, c, t, RankSteps
  <2>4. memberRows' = [memberRows EXCEPT ![t] = r]
    BY <2>3
  <2>5. DOMAIN memberRows' = DOMAIN memberRows /\ memberRows'[t] = r /\ \A q \in DOMAIN memberRows : q # t => memberRows'[q] = memberRows[q]
    BY <1>6, <2>4
  <2>6. memberRows' \in [DOMAIN memberRows' -> MemberRow]
    <3> HIDE DEF r
    <3> QED BY <1>1, <1>6, <2>2, <2>4
  <2>7. MembersWritten(p)
    BY <1>6, <2>5 DEF MembersWritten, c, t, RankSteps, NoteOps, TextOps, RankOps
  <2> QED BY <1>1, <2>5, <2>6, <2>7
<1>7. CASE c.op \in NoteOps /\ t \in DOMAIN memberRows
  <2>1. c.value \in Note
    BY <1>2, <1>7 DEF GoodCall, c
  <2> DEFINE r == [memberRows[t] EXCEPT ![c.op] = c.value]
  <2>2. r \in MemberRow
    <3>1. memberRows[t] \in MemberRow
      BY <1>1, <1>7
    <3>2. CASE c.op = "public"
      BY <3>1, <3>2, <2>1 DEF MemberRow
    <3>3. CASE c.op = "officer"
      BY <3>1, <3>3, <2>1 DEF MemberRow
    <3> QED BY <1>7, <3>2, <3>3 DEF NoteOps
  <2>3. memberRows' = [memberRows EXCEPT ![t][c.op] = c.value]
    BY <1>7 DEF WriteMember, c, t, NoteOps
  <2>4. memberRows' = [memberRows EXCEPT ![t] = r]
    BY <2>3
  <2>5. DOMAIN memberRows' = DOMAIN memberRows /\ memberRows'[t] = r /\ \A q \in DOMAIN memberRows : q # t => memberRows'[q] = memberRows[q]
    BY <1>7, <2>4
  <2>6. memberRows' \in [DOMAIN memberRows' -> MemberRow]
    <3> HIDE DEF r
    <3> QED BY <1>1, <1>7, <2>2, <2>4
  <2>7. MembersWritten(p)
    BY <1>7, <2>5 DEF MembersWritten, c, t, RankSteps, NoteOps, TextOps, RankOps
  <2> QED BY <1>1, <2>5, <2>6, <2>7
<1>8. CASE c.op \in {"none", "invite"} \cup TextOps \cup RankOps \/ (c.op \in RankSteps \cup NoteOps /\ t \notin DOMAIN memberRows)
  <2>1. memberRows' = memberRows
    BY <1>8 DEF WriteMember, c, t, RankSteps, NoteOps, TextOps, RankOps
  <2>2. MembersWritten(p)
    BY <1>8, <2>1 DEF MembersWritten, c, t, RankSteps, NoteOps, TextOps, RankOps
  <2> QED BY <1>1, <2>1, <2>2
<1> QED BY <1>3, <1>4, <1>5, <1>6, <1>7, <1>8 DEF Ops

LEMMA WriteRankEffect ==
  ASSUME TypeOK, NEW p \in Players, calls[p].at = "statement", WriteRank(p)
  PROVE  /\ RanksWritten(p)
         /\ DOMAIN rankRows' \subseteq Byte /\ rankRows' \in [DOMAIN rankRows' -> GuildRights]
<1> DEFINE c == calls[p]
<1>1. DOMAIN rankRows \subseteq Byte /\ rankRows \in [DOMAIN rankRows -> GuildRights]
  BY DEF TypeOK, TablesOK
<1>2. c \in CallRecord /\ GoodCall(p, c)
  BY DEF TypeOK
<1> HIDE DEF c
<1>3. CASE c.op = "rank"
  <2>1. c.value \in GuildRights
    BY <1>2, <1>3 DEF GoodCall
  <2>2. CASE c.target \in DOMAIN rankRows
    <3>1. rankRows' = [rankRows EXCEPT ![c.target] = c.value]
      BY <1>3, <2>2 DEF WriteRank, c
    <3>2. DOMAIN rankRows' = DOMAIN rankRows /\ rankRows' \in [DOMAIN rankRows' -> GuildRights]
          /\ \A id \in DOMAIN rankRows : rankRows'[id] = IF id = c.target THEN c.value ELSE rankRows[id]
      BY <1>1, <2>1, <2>2, <3>1
    <3> QED BY <1>1, <1>3, <3>2 DEF RanksWritten, c, RankOps
  <2>3. CASE c.target \notin DOMAIN rankRows
    <3>1. rankRows' = rankRows
      BY <1>3, <2>3 DEF WriteRank, c
    <3> QED BY <1>1, <1>3, <2>3, <3>1 DEF RanksWritten, c, RankOps
  <2> QED BY <2>2, <2>3
<1>4. CASE c.op = "addRank"
  <2>1. c.value \in Byte
    BY <1>2, <1>4 DEF GoodCall, c
  <2>2. rankRows' = [y \in DOMAIN rankRows \cup {c.value} |-> IF y = c.value THEN RightEmpty ELSE rankRows[y]]
    BY <1>4 DEF WriteRank, Put, c
  <2>3. RightEmpty \in GuildRights
    BY DEF GuildRights
  <2>4. DOMAIN rankRows' = DOMAIN rankRows \cup {c.value} /\ rankRows'[c.value] = RightEmpty
        /\ \A id \in DOMAIN rankRows \ {c.value} : rankRows'[id] = rankRows[id]
    BY <2>2
  <2>5. DOMAIN rankRows' \subseteq Byte /\ rankRows' \in [DOMAIN rankRows' -> GuildRights]
    BY <1>1, <2>1, <2>2, <2>3
  <2> QED BY <1>4, <2>4, <2>5 DEF RanksWritten, c, RankOps
<1>5. CASE c.op = "delRank"
  <2>1. c.value \in Byte
    BY <1>2, <1>5 DEF GoodCall, c
  <2>2. rankRows' = [y \in DOMAIN rankRows \ {id \in DOMAIN rankRows : id >= c.value} |-> rankRows[y]]
    BY <1>5 DEF WriteRank, Drop, c
  <2>3. DOMAIN rankRows \ {id \in DOMAIN rankRows : id >= c.value} = {id \in DOMAIN rankRows : id < c.value}
    <3>1. c.value \in Int /\ \A id \in DOMAIN rankRows : id \in Int
      BY <1>1, <2>1 DEF Byte
    <3>2. \A id \in DOMAIN rankRows : id < c.value <=> ~(id >= c.value)
      BY <3>1
    <3> QED BY <3>2
  <2>4. DOMAIN rankRows' = {id \in DOMAIN rankRows : id < c.value} /\ \A id \in DOMAIN rankRows' : rankRows'[id] = rankRows[id]
    BY <2>2, <2>3
  <2>5. rankRows' \in [DOMAIN rankRows' -> GuildRights]
    BY <1>1, <2>2
  <2> QED BY <1>1, <1>5, <2>4, <2>5 DEF RanksWritten, c, RankOps
<1>6. CASE c.op \notin RankOps
  <2>1. rankRows' = rankRows
    BY <1>6 DEF WriteRank, c, RankOps
  <2> QED BY <1>1, <1>6, <2>1 DEF RanksWritten, c, RankOps
<1> QED BY <1>3, <1>4, <1>5, <1>6 DEF RankOps

\* The tables and slips after the statement of p.
Written(p) ==
  /\ MembersWritten(p) /\ RanksWritten(p)
  /\ textRows' = IF calls[p].op \in TextOps THEN [textRows EXCEPT ![calls[p].op] = calls[p].value] ELSE textRows
  /\ slips \subseteq slips'
  /\ calls[p].op = "promote" /\ calls[p].value = 255 => "master promoted" \in slips'
  /\ calls[p].op = "delRank" /\ calls[p].value < DefaultRanks => "default rank deleted" \in slips'
  /\ calls[p].op = "addRank" /\ calls[p].value - 1 \notin DOMAIN rankRows => "rank gap" \in slips'
  /\ calls[p].op = "addRank" /\ calls[p].value = 255 => "rank ids used up" \in slips'

LEMMA WriteEffect ==
  ASSUME TypeOK, NEW p \in Players, calls[p].at = "statement", Write(p)
  PROVE  /\ Written(p)
         /\ DOMAIN memberRows' \subseteq Players /\ memberRows' \in [DOMAIN memberRows' -> MemberRow]
         /\ DOMAIN rankRows' \subseteq Byte /\ rankRows' \in [DOMAIN rankRows' -> GuildRights]
         /\ textRows' \in Texts
<1>1. calls[p] \in CallRecord /\ GoodCall(p, calls[p]) /\ textRows \in Texts
  BY DEF TypeOK, TablesOK
<1>2. /\ MembersWritten(p)
      /\ DOMAIN memberRows' \subseteq Players /\ memberRows' \in [DOMAIN memberRows' -> MemberRow]
  BY WriteMemberEffect DEF Write
<1>3. /\ RanksWritten(p)
      /\ DOMAIN rankRows' \subseteq Byte /\ rankRows' \in [DOMAIN rankRows' -> GuildRights]
  BY WriteRankEffect DEF Write
<1>4. textRows' = IF calls[p].op \in TextOps THEN [textRows EXCEPT ![calls[p].op] = calls[p].value] ELSE textRows
  BY DEF Write, TextOps
<1>5. textRows' \in Texts
  <2>1. CASE calls[p].op = "motd"
    BY <1>1, <1>4, <2>1 DEF Texts, TextOps, GoodCall
  <2>2. CASE calls[p].op = "info"
    BY <1>1, <1>4, <2>2 DEF Texts, TextOps, GoodCall
  <2>3. CASE calls[p].op \notin TextOps
    BY <1>1, <1>4, <2>3
  <2> QED BY <2>1, <2>2, <2>3 DEF TextOps
<1>6. /\ slips \subseteq slips'
      /\ calls[p].op = "promote" /\ calls[p].value = 255 => "master promoted" \in slips'
      /\ calls[p].op = "delRank" /\ calls[p].value < DefaultRanks => "default rank deleted" \in slips'
      /\ calls[p].op = "addRank" /\ calls[p].value - 1 \notin DOMAIN rankRows => "rank gap" \in slips'
      /\ calls[p].op = "addRank" /\ calls[p].value = 255 => "rank ids used up" \in slips'
  BY DEF Write
<1> QED BY <1>2, <1>3, <1>4, <1>5, <1>6 DEF Written

\* Statement finds the key taken, or writes and goes on.
LEMMA StatementEffect ==
  ASSUME TypeOK, NEW p \in Players, Statement(p)
  PROVE  /\ up /\ calls[p].at = "statement" /\ UNCHANGED <<cache, up>>
         /\ \/ DuplicateKey(p) /\ calls' = [calls EXCEPT ![p] = Idle] /\ UNCHANGED <<memberRows, rankRows, textRows, slips, raced>>
            \/ /\ ~DuplicateKey(p) /\ Write(p)
               /\ calls' = [calls EXCEPT ![p].at = IF calls[p].op = "invite" THEN "publish" ELSE "cache"]
               /\ raced' = IF Overlaps(p) THEN raced \cup {Cell(p)} ELSE raced
<1>1. calls[p].at = "statement"
  BY DEF Statement, At
<1>2. up
  BY <1>1, Running
<1> QED BY <1>1, <1>2 DEF Statement, Return, Goes, rowVars

\* A statement that fails ends the call, with or without its effect.
LEMMA FailureEffect ==
  ASSUME TypeOK, NEW p \in Players, NEW applied \in BOOLEAN, StatementFails(p, applied)
  PROVE  /\ up /\ calls[p].at = "statement" /\ UNCHANGED <<cache, up>> /\ calls' = [calls EXCEPT ![p] = Idle]
         /\ \/ UNCHANGED <<memberRows, rankRows, textRows, slips, raced>>
            \/ ~DuplicateKey(p) /\ Write(p) /\ raced' = raced \cup {Cell(p)}
<1>1. calls[p].at = "statement"
  BY DEF StatementFails, At
<1>2. up
  BY <1>1, Running
<1> QED BY <1>1, <1>2 DEF StatementFails, Return, rowVars, ghostVars

LEMMA StatementTypes == ASSUME TypeOK, NEW p \in Players, Statement(p) PROVE TypeOK'
<1>1. /\ up /\ calls[p].at = "statement" /\ UNCHANGED <<cache, up>>
      /\ \/ DuplicateKey(p) /\ calls' = [calls EXCEPT ![p] = Idle] /\ UNCHANGED <<memberRows, rankRows, textRows, slips, raced>>
         \/ /\ ~DuplicateKey(p) /\ Write(p)
            /\ calls' = [calls EXCEPT ![p].at = IF calls[p].op = "invite" THEN "publish" ELSE "cache"]
  BY StatementEffect
<1>2. CASE DuplicateKey(p)
  BY <1>1, <1>2, IdleCall, CallTypes
<1>3. CASE ~DuplicateKey(p)
  <2> DEFINE step == IF calls[p].op = "invite" THEN "publish" ELSE "cache"
  <2>1. step \in Places
    BY DEF Places
  <2>2. calls' = [calls EXCEPT ![p].at = step]
    BY <1>1, <1>3
  <2>3. step \in {"publish", "cache"} /\ (calls[p].op = "invite" <=> step = "publish")
    OBVIOUS
  <2> HIDE DEF step
  <2>4. calls \in [Players -> CallRecord] /\ \A q \in Players : GoodCall(q, calls[q])
    BY DEF TypeOK
  <2>5. /\ calls' \in [Players -> CallRecord]
        /\ calls'[p].at = step /\ calls'[p].op = calls[p].op /\ calls'[p].target = calls[p].target
        /\ calls'[p].value = calls[p].value
        /\ \A q \in Players : q # p => calls'[q] = calls[q]
    BY <2>1, <2>2, <2>4, GoesOn
  <2>6. GoodCall(p, calls'[p])
    BY <1>1, <2>3, <2>4, <2>5 DEF GoodCall
  <2>7. /\ DOMAIN memberRows' \subseteq Players /\ memberRows' \in [DOMAIN memberRows' -> MemberRow]
        /\ DOMAIN rankRows' \subseteq Byte /\ rankRows' \in [DOMAIN rankRows' -> GuildRights]
        /\ textRows' \in Texts
    BY <1>1, <1>3, WriteEffect
  <2>8. \A q \in Players : GoodCall(q, calls'[q])
    BY <2>4, <2>5, <2>6
  <2> QED BY <1>1, <2>5, <2>7, <2>8 DEF TypeOK, TablesOK
<1> QED BY <1>2, <1>3

LEMMA FailureTypes ==
  ASSUME TypeOK, NEW p \in Players, NEW applied \in BOOLEAN, StatementFails(p, applied)
  PROVE  TypeOK'
<1>1. /\ up /\ calls[p].at = "statement" /\ UNCHANGED <<cache, up>> /\ calls' = [calls EXCEPT ![p] = Idle]
      /\ UNCHANGED <<memberRows, rankRows, textRows, slips, raced>> \/ Write(p)
  BY FailureEffect
<1>2. CASE UNCHANGED <<memberRows, rankRows, textRows, slips, raced>>
  BY <1>1, <1>2, IdleCall, CallTypes
<1>3. CASE Write(p)
  <2>1. /\ DOMAIN memberRows' \subseteq Players /\ memberRows' \in [DOMAIN memberRows' -> MemberRow]
        /\ DOMAIN rankRows' \subseteq Byte /\ rankRows' \in [DOMAIN rankRows' -> GuildRights]
        /\ textRows' \in Texts
    BY <1>1, <1>3, WriteEffect
  <2>2. /\ calls' \in [Players -> CallRecord] /\ calls'[p] = Idle
        /\ \A q \in Players : q # p => calls'[q] = calls[q]
    BY <1>1, IdleCall, SetsCall DEF TypeOK
  <2>3. \A q \in Players : GoodCall(q, calls'[q])
    BY <2>2, IdleCall DEF TypeOK
  <2> QED BY <1>1, <2>1, <2>2, <2>3 DEF TypeOK, TablesOK
<1> QED BY <1>1, <1>2, <1>3

-----------------------------------------------------------------------------
(* Writes of the cache                                                     *)

\* What the call of p makes of the guild in memory.
Cached(p) ==
  LET c == calls[p] IN
  /\ cache'.members = CASE c.op = "accept" -> AddGuildMember(p, c.value)
                        [] c.op \in {"leave", "kick"} -> RemoveGuildMember(c.target)
                        [] c.op \in RankSteps -> Update({c.target}, "rank", c.value)
                        [] c.op \in NoteOps -> Update({c.target}, c.op, c.value)
                        [] OTHER -> cache.members
  /\ cache'.ranks = CASE c.op = "rank" -> UpdateGuildRank(c.target, c.value)
                      [] c.op = "addRank" -> Append(cache.ranks, [id |-> c.value, rights |-> RightEmpty])
                      [] c.op = "delRank" -> DeleteLowestGuildRank(c.value)
                      [] OTHER -> cache.ranks
  /\ cache'.texts = CASE c.op = "motd" -> [cache.texts EXCEPT !.motd = c.value]
                      [] c.op = "info" -> [cache.texts EXCEPT !.info = c.value]
                      [] OTHER -> cache.texts

\* The operations whose calls come to the cache.
LEMMA CacheOps ==
  ASSUME TypeOK, NEW p \in Players, calls[p].at = "cache"
  PROVE  calls[p].op \in {"accept", "leave", "kick"} \cup RankSteps \cup NoteOps \cup TextOps \cup RankOps
BY DEF TypeOK, CallRecord, GoodCall, Ops

LEMMA WriteCacheEffect ==
  ASSUME TypeOK, NEW p \in Players, WriteCache(p)
  PROVE  /\ up /\ calls[p].at = "cache" /\ UNCHANGED <<memberRows, rankRows, textRows, up, slips, raced>>
         /\ Cached(p) /\ cache' \in CacheRecord
         /\ calls' \in [Players -> CallRecord] /\ GoodCall(p, calls'[p]) /\ calls'[p].at \in {"none", "publish"}
         /\ \A q \in Players : q # p => calls'[q] = calls[q]
<1> DEFINE c == calls[p]
<1>1. c.at = "cache" /\ c \in CallRecord /\ GoodCall(p, c)
  BY DEF WriteCache, At, TypeOK
<1>2. up
  BY <1>1, Running
<1>3. c.op \in {"accept", "leave", "kick"} \cup RankSteps \cup NoteOps \cup TextOps \cup RankOps
  BY <1>1, CacheOps
<1>4. /\ cache \in CacheRecord /\ cache.members \in Seq(MemberEntry) /\ cache.ranks \in Seq(RankEntry) /\ cache.texts \in Texts
      /\ \A ms \in Seq(MemberEntry) :
           LET n == [cache EXCEPT !.members = ms] IN
           n \in CacheRecord /\ n.members = ms /\ n.ranks = cache.ranks /\ n.texts = cache.texts
      /\ \A rs \in Seq(RankEntry) :
           LET n == [cache EXCEPT !.ranks = rs] IN
           n \in CacheRecord /\ n.members = cache.members /\ n.ranks = rs /\ n.texts = cache.texts
      /\ \A x \in Texts :
           LET n == [cache EXCEPT !.texts = x] IN
           n \in CacheRecord /\ n.members = cache.members /\ n.ranks = cache.ranks /\ n.texts = x
  BY DEF TypeOK, CacheRecord
<1>5. UNCHANGED <<memberRows, rankRows, textRows, up, slips, raced>>
  BY DEF WriteCache, rowVars, ghostVars
<1>6. /\ calls' \in [Players -> CallRecord] /\ GoodCall(p, calls'[p]) /\ calls'[p].at \in {"none", "publish"}
      /\ \A q \in Players : q # p => calls'[q] = calls[q]
  <2>1. calls \in [Players -> CallRecord]
    BY DEF TypeOK
  <2>2. CASE calls' = [calls EXCEPT ![p] = Idle]
    BY <2>1, <2>2, IdleCall, SetsCall
  <2>3. CASE calls' = [calls EXCEPT ![p].at = "publish"]
    <3>1. "publish" \in Places
      BY DEF Places
    <3>2. /\ calls' \in [Players -> CallRecord]
          /\ calls'[p].at = "publish" /\ calls'[p].op = c.op /\ calls'[p].target = c.target /\ calls'[p].value = c.value
          /\ \A q \in Players : q # p => calls'[q] = calls[q]
      BY <2>1, <2>3, <3>1, GoesOn
    <3>3. GoodCall(p, calls'[p])
      BY <1>1, <3>2 DEF GoodCall
    <3> QED BY <3>2, <3>3
  <2> QED BY <2>2, <2>3 DEF WriteCache, Goes, Return
<1> HIDE DEF c
<1>7. CASE c.op = "accept"
  <2> DEFINE ms == AddGuildMember(p, c.value)
  <2>1. ms \in Seq(MemberEntry)
    BY <1>1, <1>4, <1>7, AddsMember DEF GoodCall
  <2>2. cache' = [cache EXCEPT !.members = ms]
    BY <1>7 DEF WriteCache, c
  <2> HIDE DEF ms
  <2>3. cache' \in CacheRecord /\ cache'.members = ms /\ cache'.ranks = cache.ranks /\ cache'.texts = cache.texts
    BY <1>4, <2>1, <2>2
  <2>4. Cached(p)
    BY <1>7, <2>3 DEF Cached, c, ms, RankSteps, NoteOps
  <2> QED BY <1>1, <1>2, <1>5, <1>6, <2>3, <2>4 DEF c
<1>8. CASE c.op \in {"leave", "kick"}
  <2> DEFINE ms == RemoveGuildMember(c.target)
  <2>1. ms \in Seq(MemberEntry)
    BY <1>4, RemovesMember
  <2>2. cache' = [cache EXCEPT !.members = ms]
    BY <1>8 DEF WriteCache, c
  <2> HIDE DEF ms
  <2>3. cache' \in CacheRecord /\ cache'.members = ms /\ cache'.ranks = cache.ranks /\ cache'.texts = cache.texts
    BY <1>4, <2>1, <2>2
  <2>4. Cached(p)
    BY <1>8, <2>3 DEF Cached, c, ms, RankSteps, NoteOps
  <2> QED BY <1>1, <1>2, <1>5, <1>6, <2>3, <2>4 DEF c
<1>9. CASE c.op \in RankSteps
  <2> DEFINE ms == Update({c.target}, "rank", c.value)
  <2>1. ms \in Seq(MemberEntry)
    BY <1>1, <1>4, <1>9, UpdatesRank DEF GoodCall
  <2>2. cache' = [cache EXCEPT !.members = ms]
    BY <1>9 DEF WriteCache, c, RankSteps
  <2> HIDE DEF ms
  <2>3. cache' \in CacheRecord /\ cache'.members = ms /\ cache'.ranks = cache.ranks /\ cache'.texts = cache.texts
    BY <1>4, <2>1, <2>2
  <2>4. Cached(p)
    BY <1>9, <2>3 DEF Cached, c, ms, RankSteps, NoteOps
  <2> QED BY <1>1, <1>2, <1>5, <1>6, <2>3, <2>4 DEF c
<1>10. CASE c.op \in NoteOps
  <2> DEFINE ms == Update({c.target}, c.op, c.value)
  <2>1. ms \in Seq(MemberEntry)
    BY <1>1, <1>4, <1>10, UpdatesNote DEF GoodCall
  <2>2. cache' = [cache EXCEPT !.members = ms]
    BY <1>10 DEF WriteCache, c, NoteOps
  <2> HIDE DEF ms
  <2>3. cache' \in CacheRecord /\ cache'.members = ms /\ cache'.ranks = cache.ranks /\ cache'.texts = cache.texts
    BY <1>4, <2>1, <2>2
  <2>4. Cached(p)
    BY <1>10, <2>3 DEF Cached, c, ms, RankSteps, NoteOps
  <2> QED BY <1>1, <1>2, <1>5, <1>6, <2>3, <2>4 DEF c
<1>11. CASE c.op = "motd"
  <2> DEFINE x == [cache.texts EXCEPT !.motd = c.value]
  <2>1. x \in Texts
    BY <1>1, <1>4, <1>11 DEF Texts, GoodCall, TextOps
  <2>2. cache' = [cache EXCEPT !.texts = x]
    BY <1>11 DEF WriteCache, c
  <2> HIDE DEF x
  <2>3. cache' \in CacheRecord /\ cache'.members = cache.members /\ cache'.ranks = cache.ranks /\ cache'.texts = x
    BY <1>4, <2>1, <2>2
  <2>4. Cached(p)
    BY <1>11, <2>3 DEF Cached, c, x, RankSteps, NoteOps
  <2> QED BY <1>1, <1>2, <1>5, <1>6, <2>3, <2>4 DEF c
<1>12. CASE c.op = "info"
  <2> DEFINE x == [cache.texts EXCEPT !.info = c.value]
  <2>1. x \in Texts
    BY <1>1, <1>4, <1>12 DEF Texts, GoodCall, TextOps
  <2>2. cache' = [cache EXCEPT !.texts = x]
    BY <1>12 DEF WriteCache, c
  <2> HIDE DEF x
  <2>3. cache' \in CacheRecord /\ cache'.members = cache.members /\ cache'.ranks = cache.ranks /\ cache'.texts = x
    BY <1>4, <2>1, <2>2
  <2>4. Cached(p)
    BY <1>12, <2>3 DEF Cached, c, x, RankSteps, NoteOps
  <2> QED BY <1>1, <1>2, <1>5, <1>6, <2>3, <2>4 DEF c
<1>13. CASE c.op = "rank"
  <2> DEFINE rs == UpdateGuildRank(c.target, c.value)
  <2>1. rs \in Seq(RankEntry)
    BY <1>1, <1>4, <1>13, UpdatesRights DEF GoodCall
  <2>2. cache' = [cache EXCEPT !.ranks = rs]
    BY <1>13 DEF WriteCache, c
  <2> HIDE DEF rs
  <2>3. cache' \in CacheRecord /\ cache'.members = cache.members /\ cache'.ranks = rs /\ cache'.texts = cache.texts
    BY <1>4, <2>1, <2>2
  <2>4. Cached(p)
    BY <1>13, <2>3 DEF Cached, c, rs, RankSteps, NoteOps
  <2> QED BY <1>1, <1>2, <1>5, <1>6, <2>3, <2>4 DEF c
<1>14. CASE c.op = "addRank"
  <2> DEFINE rs == Append(cache.ranks, [id |-> c.value, rights |-> RightEmpty])
  <2>1. rs \in Seq(RankEntry)
    BY <1>1, <1>4, <1>14, AddsRank DEF GoodCall
  <2>2. cache' = [cache EXCEPT !.ranks = rs]
    BY <1>14 DEF WriteCache, c
  <2> HIDE DEF rs
  <2>3. cache' \in CacheRecord /\ cache'.members = cache.members /\ cache'.ranks = rs /\ cache'.texts = cache.texts
    BY <1>4, <2>1, <2>2
  <2>4. Cached(p)
    BY <1>14, <2>3 DEF Cached, c, rs, RankSteps, NoteOps
  <2> QED BY <1>1, <1>2, <1>5, <1>6, <2>3, <2>4 DEF c
<1>15. CASE c.op = "delRank"
  <2> DEFINE rs == DeleteLowestGuildRank(c.value)
  <2>1. rs \in Seq(RankEntry)
    BY <1>1, <1>4, <1>15, KeepsFirstRanks DEF GoodCall
  <2>2. cache' = [cache EXCEPT !.ranks = rs]
    BY <1>15 DEF WriteCache, c
  <2> HIDE DEF rs
  <2>3. cache' \in CacheRecord /\ cache'.members = cache.members /\ cache'.ranks = rs /\ cache'.texts = cache.texts
    BY <1>4, <2>1, <2>2
  <2>4. Cached(p)
    BY <1>15, <2>3 DEF Cached, c, rs, RankSteps, NoteOps
  <2> QED BY <1>1, <1>2, <1>5, <1>6, <2>3, <2>4 DEF c
<1> QED BY <1>3, <1>7, <1>8, <1>9, <1>10, <1>11, <1>12, <1>13, <1>14, <1>15 DEF TextOps, RankOps

\* The same, operation by operation.
LEMMA CachedBy ==
  ASSUME NEW p \in Players, Cached(p)
  PROVE  LET c == calls[p] IN
         /\ c.op = "accept" => cache'.members = AddGuildMember(p, c.value)
         /\ c.op \in {"leave", "kick"} => cache'.members = RemoveGuildMember(c.target)
         /\ c.op \in RankSteps => cache'.members = Update({c.target}, "rank", c.value)
         /\ c.op \in NoteOps => cache'.members = Update({c.target}, c.op, c.value)
         /\ c.op \in TextOps \cup RankOps => cache'.members = cache.members
         /\ c.op = "rank" => cache'.ranks = UpdateGuildRank(c.target, c.value)
         /\ c.op = "addRank" => cache'.ranks = Append(cache.ranks, [id |-> c.value, rights |-> RightEmpty])
         /\ c.op = "delRank" => cache'.ranks = DeleteLowestGuildRank(c.value)
         /\ c.op \notin RankOps => cache'.ranks = cache.ranks
         /\ c.op \notin TextOps => cache'.texts = cache.texts
         /\ c.op \in TextOps => cache'.texts = [cache.texts EXCEPT ![c.op] = c.value]
<1> DEFINE c == calls[p]
           o == c.op
           add == AddGuildMember(p, c.value)
           rm == RemoveGuildMember(c.target)
           ur == Update({c.target}, "rank", c.value)
           un == Update({c.target}, o, c.value)
           gr == UpdateGuildRank(c.target, c.value)
           ar == Append(cache.ranks, [id |-> c.value, rights |-> RightEmpty])
           dr == DeleteLowestGuildRank(c.value)
           m == cache'.members
           r == cache'.ranks
           t == cache'.texts
           mo == [cache.texts EXCEPT !.motd = c.value]
           inf == [cache.texts EXCEPT !.info = c.value]
           tx == [cache.texts EXCEPT ![o] = c.value]
           ms == cache.members
           rs == cache.ranks
           ts == cache.texts
<1>1. /\ m = CASE o = "accept" -> add
               [] o \in {"leave", "kick"} -> rm
               [] o \in RankSteps -> ur
               [] o \in NoteOps -> un
               [] OTHER -> ms
      /\ r = CASE o = "rank" -> gr
               [] o = "addRank" -> ar
               [] o = "delRank" -> dr
               [] OTHER -> rs
      /\ t = CASE o = "motd" -> mo
               [] o = "info" -> inf
               [] OTHER -> ts
  BY DEF Cached
<1>2. /\ o = "motd" => tx = mo
      /\ o = "info" => tx = inf
  OBVIOUS
<1> HIDE DEF o, add, rm, ur, un, gr, ar, dr, m, r, t, mo, inf, tx, ms, rs, ts
<1>3. /\ o = "accept" => m = add
      /\ o \in {"leave", "kick"} => m = rm
      /\ o \in RankSteps => m = ur
      /\ o \in NoteOps => m = un
      /\ o \in TextOps \cup RankOps => m = ms
  BY <1>1 DEF RankSteps, NoteOps, TextOps, RankOps
<1>4. /\ o = "rank" => r = gr
      /\ o = "addRank" => r = ar
      /\ o = "delRank" => r = dr
      /\ o \notin RankOps => r = rs
  BY <1>1 DEF RankOps
<1>5. /\ o \notin TextOps => t = ts
      /\ o \in TextOps => t = tx
  BY <1>1, <1>2 DEF TextOps
<1> QED BY <1>3, <1>4, <1>5 DEF o, add, rm, ur, un, gr, ar, dr, m, r, t, tx, ms, rs, ts

LEMMA WriteCacheTypes == ASSUME TypeOK, NEW p \in Players, WriteCache(p) PROVE TypeOK'
<1>1. /\ up /\ UNCHANGED <<memberRows, rankRows, textRows, up>> /\ cache' \in CacheRecord
      /\ calls' \in [Players -> CallRecord] /\ GoodCall(p, calls'[p])
      /\ \A q \in Players : q # p => calls'[q] = calls[q]
  BY WriteCacheEffect
<1>2. \A q \in Players : GoodCall(q, calls'[q])
  BY <1>1 DEF TypeOK
<1> QED BY <1>1, <1>2 DEF TypeOK, TablesOK

-----------------------------------------------------------------------------
(* The steps, by what they change                                          *)

guildVars == <<memberRows, rankRows, textRows, cache, up, calls, slips, raced>>

\* A call begins, is refused, or is over.
Steps(p) ==
  /\ up /\ calls[p].at # "cache" /\ UNCHANGED <<memberRows, rankRows, textRows, cache, up, slips, raced>>
  /\ \E c \in CallRecord : GoodCall(p, c) /\ c.at \notin {"statement", "cache"} /\ calls' = [calls EXCEPT ![p] = c]

\* A call is decided on.
Decides(p) ==
  /\ up /\ UNCHANGED <<memberRows, rankRows, textRows, cache, up, slips, raced>>
  /\ HasRank(p) /\ Entitled(p) /\ Permitted(p) /\ calls[p].at = "check"
  /\ calls[p].op \in {"kick"} \cup RankSteps => HasRank(calls[p].target)
  /\ \E c \in CallRecord :
       /\ calls' = [calls EXCEPT ![p] = c] /\ GoodCall(p, c)
       /\ c.at = "statement" /\ c.op = calls[p].op /\ c.target = calls[p].target
       /\ c.op \in RankSteps => c.value = NewRank(p)
       /\ c.op = "addRank" => c.value = Uint8(lowestRankInGuild + 1)
       /\ c.op = "delRank" => c.value = lowestRankInGuild

\* The cache learns who is online.
Refreshes ==
  /\ UNCHANGED <<memberRows, rankRows, textRows, up, calls, slips, raced>>
  /\ cache' \in CacheRecord /\ cache'.ranks = cache.ranks /\ cache'.texts = cache.texts
  /\ DOMAIN cache'.members = DOMAIN cache.members
  /\ \A k \in DOMAIN cache.members : /\ cache'.members[k].who = cache.members[k].who
                                     /\ cache'.members[k].row = cache.members[k].row
                                     /\ cache'.members[k].linked = cache.members[k].linked

LEMMA OnlineRefreshes ==
  ASSUME TypeOK, NEW S, NEW b \in BOOLEAN, SetOnline(S, b), UNCHANGED <<memberRows, rankRows, textRows, up, calls, slips, raced>>
  PROVE  Refreshes
<1>1. cache \in CacheRecord
  BY DEF TypeOK
<1>2. CASE up
  <2> DEFINE ms == Update(S, "online", b)
  <2>1. /\ ms \in Seq(MemberEntry) /\ DOMAIN ms = DOMAIN cache.members
        /\ \A k \in DOMAIN cache.members : /\ ms[k].who = cache.members[k].who /\ ms[k].row = cache.members[k].row
                                           /\ ms[k].linked = cache.members[k].linked
    BY <1>1, UpdatesOnline
  <2>2. cache' = [cache EXCEPT !.members = ms]
    BY <1>2 DEF SetOnline
  <2> HIDE DEF ms
  <2>3. cache' \in CacheRecord /\ cache'.members = ms /\ cache'.ranks = cache.ranks /\ cache'.texts = cache.texts
    BY <1>1, <2>1, <2>2 DEF CacheRecord
  <2> QED BY <2>1, <2>3 DEF Refreshes
<1>3. CASE ~up
  BY <1>1, <1>3 DEF SetOnline, Refreshes
<1> QED BY <1>2, <1>3

LEMMA StepsOfCalls ==
  ASSUME TypeOK, NEW p \in Players
  PROVE  /\ Packet(p) => Steps(p)
         /\ Check(p) => Panic \/ Steps(p) \/ Decides(p)
         /\ Publish(p) \/ PublishFails(p) => Panic \/ Steps(p)
<1>1. ASSUME Packet(p) PROVE Steps(p)
  <2>1. PICK op, target, value : Fits(p, op, target, value) /\ Ask(p, op, target, value)
    BY <1>1, PacketAsks
  <2>2. /\ up /\ calls[p] = Idle /\ UNCHANGED <<memberRows, rankRows, textRows, cache, up, slips, raced>>
        /\ \E c \in CallRecord : GoodCall(p, c) /\ c.at \in {"uninvite", "check"} /\ calls' = [calls EXCEPT ![p] = c]
    BY <2>1, AskBegins
  <2> QED BY <2>2, IdleCall DEF Steps
<1>2. ASSUME Check(p) PROVE Panic \/ Steps(p) \/ Decides(p)
  BY <1>2, CheckEffect, IdleCall DEF Steps, Decides
<1>3. ASSUME Publish(p) \/ PublishFails(p) PROVE Panic \/ Steps(p)
  <2>1. calls[p].at = "publish"
    BY <1>3 DEF Publish, PublishFails, At
  <2>2. up
    BY <2>1, Running
  <2> QED BY <1>3, <2>1, <2>2, IdleCall DEF Publish, PublishFails, Return, Steps, rowVars, ghostVars
<1> QED BY <1>1, <1>2, <1>3

LEMMA StepKinds ==
  ASSUME TypeOK, [Next]_vars
  PROVE  \/ UNCHANGED guildVars
         \/ Panic
         \/ Refreshes
         \/ Warmup
         \/ \E p \in Players : \/ Steps(p) \/ Decides(p) \/ RemoveGuildInviteForCharacter(p)
                               \/ Statement(p) \/ WriteCache(p) \/ \E applied \in BOOLEAN : StatementFails(p, applied)
<1>1. CASE UNCHANGED vars
  BY <1>1 DEF vars, guildVars, rowVars, ghostVars
<1>2. ASSUME NEW p \in Players, Packet(p) \/ CallStep(p)
      PROVE  \/ Panic \/ Steps(p) \/ Decides(p) \/ RemoveGuildInviteForCharacter(p) \/ Statement(p) \/ WriteCache(p)
  BY <1>2, StepsOfCalls DEF CallStep
<1>3. ASSUME NEW p \in Players, HandleEventGuildMemberKicked(p) \/ Login(p) \/ RegisterCharacter(p) \/ onLoggedOut(p)
      PROVE  UNCHANGED guildVars
  BY <1>3 DEF HandleEventGuildMemberKicked, Login, RegisterCharacter, onLoggedOut, guildVars, rowVars, ghostVars
<1>4. CASE NewGuildMemberKickedEvent
  BY <1>4 DEF NewGuildMemberKickedEvent, guildVars, rowVars
<1>5. CASE HandleCharacterLoggedIn
  BY <1>5, OnlineRefreshes DEF HandleCharacterLoggedIn, rowVars, ghostVars
<1>6. CASE HandleCharacterLoggedOut
  BY <1>6, OnlineRefreshes DEF HandleCharacterLoggedOut, rowVars, ghostVars
<1>7. CASE Crash
  BY <1>7 DEF Crash
<1>8. CASE GatewayLost
  BY <1>8 DEF GatewayLost, guildVars, rowVars, ghostVars
<1>9. ASSUME NEW p \in Players, PublishFails(p) PROVE Panic \/ Steps(p)
  BY <1>9, StepsOfCalls
<1> QED BY <1>1, <1>2, <1>3, <1>4, <1>5, <1>6, <1>7, <1>8, <1>9 DEF Next, Fault

\* The process ends.
LEMMA PanicEffect ==
  ASSUME Panic
  PROVE  /\ ~up' /\ cache' = NoCache /\ raced' = {} /\ UNCHANGED <<memberRows, rankRows, textRows, slips>>
         /\ calls' \in [Players -> CallRecord] /\ \A p \in Players : calls'[p] = Idle
BY IdleCall DEF Panic, rowVars

\* A start loads the tables.
LEMMA WarmupEffect ==
  ASSUME TypeOK, Warmup
  PROVE  /\ ~up /\ up' /\ UNCHANGED <<memberRows, rankRows, textRows, calls, slips, raced>>
         /\ \E S : cache' = LoadAllForRealm(memberRows, rankRows, textRows, S)
         /\ \A p \in Players : calls[p] = Idle
BY DEF Warmup, rowVars, ghostVars, TypeOK

-----------------------------------------------------------------------------
(* Types are kept                                                          *)

LEMMA TypesStart == Init => TypeOK
<1> SUFFICES ASSUME Init PROVE TypeOK
  OBVIOUS
<1> DEFINE n == Len(FirstRights)
<1>1. /\ FirstRights \in Seq(GuildRights) /\ DOMAIN FirstRanks \subseteq Players
      /\ FirstRanks \in [DOMAIN FirstRanks -> 0..(n - 1)]
  BY GuildsAssumption DEF GuildRights
<1>2. n \in 0..255 /\ \A i \in 1..n : FirstRights[i] \in GuildRights
  <2>1. n \in Nat
    BY <1>1, LenProperties
  <2>2. \A i \in 1..n : FirstRights[i] \in GuildRights
    BY <1>1, ElementOfSeq
  <2>3. GuildRankMax \in Nat /\ n <= GuildRankMax /\ GuildRankMax < 256
    BY GuildsAssumption
  <2> HIDE DEF n
  <2>4. n \in 0..255
    BY <2>1, <2>3
  <2> QED BY <2>2, <2>4
<1> HIDE DEF n
<1>3. \A p \in DOMAIN FirstRanks : FirstRanks[p] \in Byte
  <2>1. \A r \in 0..(n - 1) : r \in 0..255
    BY <1>2
  <2> QED BY <1>1, <2>1 DEF Byte
<1>4. DOMAIN memberRows = DOMAIN FirstRanks /\ \A p \in DOMAIN FirstRanks : memberRows[p] = Row(FirstRanks[p])
  BY DEF Init
<1>5. memberRows \in [DOMAIN memberRows -> MemberRow]
  <2>1. \A p \in DOMAIN FirstRanks : Row(FirstRanks[p]) \in MemberRow
    BY <1>3 DEF Row, MemberRow, Note
  <2> QED BY <2>1 DEF Init
<1>6. DOMAIN rankRows \subseteq Byte /\ rankRows \in [DOMAIN rankRows -> GuildRights]
  <2>1. rankRows = [id \in 0..(n - 1) |-> FirstRights[id + 1]]
    BY DEF Init, n
  <2>2. \A id \in 0..(n - 1) : id \in 0..255 /\ id + 1 \in 1..n
    BY <1>2
  <2>3. \A id \in 0..(n - 1) : FirstRights[id + 1] \in GuildRights
    BY <1>2, <2>2
  <2> QED BY <2>1, <2>2, <2>3 DEF Byte
<1>7. textRows \in Texts
  BY DEF Init, Texts, Note
<1>8. calls \in [Players -> CallRecord] /\ \A p \in Players : calls[p] = Idle /\ GoodCall(p, calls[p])
  BY IdleCall DEF Init
<1>9. up /\ cache = LoadAllForRealm(memberRows, rankRows, textRows, Players)
  BY DEF Init
<1>10. NoCache \in CacheRecord
  BY EmptySeq DEF NoCache, CacheRecord, Texts, Note
<1>11. cache \in CacheRecord
  BY <1>1, <1>4, <1>5, <1>6, <1>7, <1>9, LoadsTables DEF TablesOK
<1> QED BY <1>1, <1>4, <1>5, <1>6, <1>7, <1>8, <1>9, <1>11 DEF TypeOK, TablesOK

LEMMA TypesKept == ASSUME TypeOK, [Next]_vars PROVE TypeOK'
<1>1. CASE UNCHANGED guildVars
  BY <1>1 DEF guildVars, TypeOK, TablesOK
<1>2. CASE Panic
  <2>1. NoCache \in CacheRecord
    BY EmptySeq DEF NoCache, CacheRecord, Texts, Note
  <2>2. /\ ~up' /\ cache' = NoCache /\ UNCHANGED <<memberRows, rankRows, textRows>>
        /\ calls' \in [Players -> CallRecord] /\ \A p \in Players : calls'[p] = Idle
    BY <1>2, PanicEffect
  <2>3. up' \in BOOLEAN
    BY <1>2 DEF Panic
  <2> QED BY <2>1, <2>2, <2>3, IdleCall DEF TypeOK, TablesOK
<1>3. CASE Refreshes
  BY <1>3 DEF Refreshes, TypeOK, TablesOK
<1>4. CASE Warmup
  <2>1. /\ ~up /\ up' /\ UNCHANGED <<memberRows, rankRows, textRows, calls>>
        /\ \E S : cache' = LoadAllForRealm(memberRows, rankRows, textRows, S)
    BY <1>4, WarmupEffect
  <2>2. cache' \in CacheRecord
    BY <2>1, LoadsTables DEF TypeOK
  <2>3. up' \in BOOLEAN
    BY <1>4 DEF Warmup
  <2> QED BY <2>1, <2>2, <2>3 DEF TypeOK, TablesOK
<1>5. ASSUME NEW p \in Players, Steps(p) \/ Decides(p) PROVE TypeOK'
  BY <1>5, CallTypes DEF Steps, Decides
<1>6. ASSUME NEW p \in Players, RemoveGuildInviteForCharacter(p) PROVE TypeOK'
  BY <1>6, UninviteEffect, CallTypes
<1>7. ASSUME NEW p \in Players, Statement(p) PROVE TypeOK'
  BY <1>7, StatementTypes
<1>8. ASSUME NEW p \in Players, WriteCache(p) PROVE TypeOK'
  BY <1>8, WriteCacheTypes
<1>9. ASSUME NEW p \in Players, NEW applied \in BOOLEAN, StatementFails(p, applied) PROVE TypeOK'
  BY <1>9, FailureTypes
<1> QED BY <1>1, <1>2, <1>3, <1>4, <1>5, <1>6, <1>7, <1>8, <1>9, StepKinds

-----------------------------------------------------------------------------
(* One master                                                              *)

\* The character that is the master at first, and is so for good.
Founder == CHOOSE p \in DOMAIN FirstRanks : FirstRanks[p] = GuildRankGuildMaster

\* Nothing happened that gives or takes the rank of the master by arithmetic.
Calm == slips \subseteq {"rank gap"}

MasterRows ==
  /\ Founder \in DOMAIN memberRows
  /\ \A p \in DOMAIN memberRows : memberRows[p].rank = 0 <=> p = Founder
DefaultRows == {0, 1} \subseteq DOMAIN rankRows /\ 255 \notin DOMAIN rankRows

\* The guild in memory knows the master, and a rank below the master's.
KnowsMaster(c) ==
  /\ \A k \in DOMAIN c.members : c.members[k].row.rank = 0 <=> c.members[k].who = Founder
  /\ Len(c.ranks) >= 2 /\ c.ranks[1].id # c.ranks[2].id
  /\ \A k \in DOMAIN c.ranks : c.ranks[k].id # 255

\* A call that was decided on does not touch the master, unless a promotion
\* wraps, and makes no other.
Harmless(p) ==
  LET c == calls[p] IN
  c.at \in {"statement", "cache"} =>
    /\ c.op = "promote" => c.value # 0 /\ (c.target # Founder \/ (c.value = 255 /\ c.at = "statement"))
    /\ c.op = "demote" => c.value # 0 /\ c.target # Founder
    /\ c.op = "accept" => c.value # 0 /\ (c.at = "cache" => p # Founder)
    /\ c.op \in {"kick", "leave"} => c.target # Founder
    /\ c.op = "delRank" /\ c.at = "cache" => c.value >= DefaultRanks
    /\ c.op = "addRank" /\ c.at = "cache" => c.value # 255

MasterKept ==
  /\ MasterRows /\ DefaultRows
  /\ up => KnowsMaster(cache)
  /\ \A p \in Players : Harmless(p)

MasterInvariant == TypeOK /\ (Calm => MasterKept)

\* The founder is the one master of a new guild.
LEMMA FounderFirst ==
  Founder \in DOMAIN FirstRanks /\ \A q \in DOMAIN FirstRanks : FirstRanks[q] = GuildRankGuildMaster <=> q = Founder
<1>1. PICK p \in DOMAIN FirstRanks : \A q \in DOMAIN FirstRanks : FirstRanks[q] = GuildRankGuildMaster <=> q = p
  BY GuildsAssumption
<1>2. FirstRanks[p] = GuildRankGuildMaster
  BY <1>1
<1>3. FirstRanks[Founder] = GuildRankGuildMaster /\ Founder \in DOMAIN FirstRanks
  BY <1>2 DEF Founder
<1> QED BY <1>1, <1>3

\* Who has the master's rank in memory.
LEMMA RankOfFounder ==
  ASSUME TypeOK, KnowsMaster(cache), NEW p, HasRank(p)
  PROVE  /\ rankForMember(p).id \in Byte /\ rankForMember(p).id # 255
         /\ rankForMember(p).id = 0 <=> p = Founder
<1>1. cache \in CacheRecord
  BY DEF TypeOK
<1>2. Entries(p) # {}
  BY DEF HasRank
<1>3. Min(Entries(p)) \in Entries(p)
  BY <1>1, <1>2, RankOfMember
<1>4. /\ rankForMember(p) \in RankEntry /\ rankForMember(p).id = guildMemberForMemberGuid(p).row.rank
      /\ \E k \in DOMAIN cache.ranks : rankForMember(p) = cache.ranks[k]
  BY <1>1, RankOfMember
<1>5. guildMemberForMemberGuid(p).row.rank = 0 <=> p = Founder
  BY <1>3 DEF KnowsMaster, Entries, guildMemberForMemberGuid
<1> QED BY <1>4, <1>5 DEF KnowsMaster, RankEntry

\* There is a rank below the master's to give to newcomers.
LEMMA LowestIsNotMasters ==
  ASSUME TypeOK, KnowsMaster(cache)
  PROVE  lowestRankInGuild \in Byte \ {0}
<1>1. cache \in CacheRecord
  BY DEF TypeOK
<1>2. lowestRankInGuild \in Byte /\ \A k \in DOMAIN cache.ranks : cache.ranks[k].id <= lowestRankInGuild
  BY <1>1, LowestRank
<1>3. Len(cache.ranks) \in Nat /\ DOMAIN cache.ranks = 1..Len(cache.ranks) /\ \A k \in DOMAIN cache.ranks : cache.ranks[k].id \in Byte
  BY <1>1, MembersTyped DEF RankEntry
<1>4. 1 \in DOMAIN cache.ranks /\ 2 \in DOMAIN cache.ranks /\ cache.ranks[1].id # cache.ranks[2].id
  BY <1>3 DEF KnowsMaster
<1>5. PICK k \in DOMAIN cache.ranks : cache.ranks[k].id # 0
  BY <1>4
<1>6. cache.ranks[k].id \in 1..255 /\ cache.ranks[k].id <= lowestRankInGuild
  BY <1>2, <1>3, <1>5 DEF Byte
<1> QED BY <1>2, <1>6 DEF Byte

LEMMA MasterDecides == ASSUME TypeOK, MasterKept, NEW p \in Players, Decides(p) PROVE MasterKept'
<1>1. /\ up /\ UNCHANGED <<memberRows, rankRows, textRows, cache, up>> /\ HasRank(p) /\ Entitled(p) /\ Permitted(p) /\ calls[p].at = "check"
      /\ calls[p].op \in {"kick"} \cup RankSteps => HasRank(calls[p].target)
  BY DEF Decides
<1>2. PICK c \in CallRecord :
        /\ calls' = [calls EXCEPT ![p] = c] /\ GoodCall(p, c)
        /\ c.at = "statement" /\ c.op = calls[p].op /\ c.target = calls[p].target
        /\ c.op \in RankSteps => c.value = NewRank(p)
  BY DEF Decides
<1>3. calls'[p] = c /\ \A q \in Players : q # p => calls'[q] = calls[q]
  BY <1>2, SetsCall DEF TypeOK
<1>4. KnowsMaster(cache)
  BY <1>1 DEF MasterKept
<1>5. rankForMember(p).id \in Byte /\ (rankForMember(p).id = 0 <=> p = Founder)
  BY <1>1, <1>4, RankOfFounder
<1>6. c.op # "accept"
  BY <1>1, <1>2 DEF TypeOK, GoodCall
<1>7. CASE c.op \in RankSteps
  <2> DEFINE id == rankForMember(c.target).id
  <2>1. id \in Byte /\ id # 255 /\ (id = 0 <=> c.target = Founder)
    BY <1>1, <1>2, <1>4, <1>7, RankOfFounder
  <2>2. /\ NewRank(p) \in Byte
        /\ c.op = "promote" => IF id = 0 THEN NewRank(p) = 255 ELSE NewRank(p) = id - 1
        /\ c.op = "demote" => NewRank(p) = id + 1
    BY <1>1, <1>2, <1>7, <2>1, TargetRank
  <2>3. c.op = "promote" => rankForMember(p).id < NewRank(p)
    BY <1>1, <1>2 DEF Permitted
  <2>4. c.op = "demote" => rankForMember(p).id < id
    BY <1>1, <1>2 DEF Permitted
  <2> DEFINE m == rankForMember(p).id
             n == NewRank(p)
  <2>5. Byte = 0..255
    BY DEF Byte
  <2>6. m \in 0..255 /\ id \in 0..255 /\ n \in 0..255
    BY <1>5, <2>1, <2>2, <2>5, Zenon
  <2>7. c.op = "promote" => /\ m < n
                            /\ IF id = 0 THEN n = 255 ELSE n = id - 1
    BY <2>2, <2>3
  <2>8. c.op = "demote" => m < id /\ n = id + 1
    BY <2>2, <2>4
  <2>9. id = 0 <=> c.target = Founder
    BY <2>1
  <2> HIDE DEF id, m, n
  <2>10. c.op = "promote" => n # 0 /\ (c.target # Founder \/ n = 255)
    BY <2>6, <2>7, <2>9
  <2>11. c.op = "demote" => n # 0 /\ c.target # Founder
    BY <2>6, <2>8, <2>9
  <2>12. Harmless(p)'
    BY <1>2, <1>3, <1>7, <2>10, <2>11 DEF Harmless, RankSteps, n
  <2> QED BY <1>1, <1>3, <2>12 DEF MasterKept, MasterRows, DefaultRows, Harmless
<1>8. CASE c.op = "kick"
  <2>1. HasRank(c.target)
    BY <1>1, <1>2, <1>8
  <2>2. rankForMember(c.target).id \in Byte /\ (rankForMember(c.target).id = 0 <=> c.target = Founder)
    BY <1>4, <2>1, RankOfFounder
  <2>3. rankForMember(p).id < rankForMember(c.target).id
    BY <1>1, <1>2, <1>8 DEF Permitted
  <2> DEFINE m == rankForMember(p).id
             n == rankForMember(c.target).id
  <2>4. Byte = 0..255
    BY DEF Byte
  <2>5. m \in 0..255 /\ n \in 0..255 /\ m < n /\ (n = 0 <=> c.target = Founder)
    BY <1>5, <2>2, <2>3, <2>4, Zenon
  <2> HIDE DEF m, n
  <2>6. c.target # Founder
    BY <2>5
  <2>7. Harmless(p)'
    BY <1>2, <1>3, <1>8, <2>6 DEF Harmless
  <2> QED BY <1>1, <1>3, <2>7 DEF MasterKept, MasterRows, DefaultRows, Harmless
<1>9. CASE c.op = "leave"
  <2>1. rankForMember(p).id # 0
    BY <1>1, <1>2, <1>9 DEF Entitled, GuildRankGuildMaster
  <2>2. c.target = p
    BY <1>2, <1>9 DEF GoodCall
  <2>3. Harmless(p)'
    BY <1>2, <1>3, <1>5, <1>9, <2>1, <2>2 DEF Harmless
  <2> QED BY <1>1, <1>3, <2>3 DEF MasterKept, MasterRows, DefaultRows, Harmless
<1>10. CASE c.op \notin RankSteps \cup {"kick", "leave"}
  <2>1. Harmless(p)'
    BY <1>2, <1>3, <1>6, <1>10 DEF Harmless, RankSteps
  <2> QED BY <1>1, <1>3, <2>1 DEF MasterKept, MasterRows, DefaultRows, Harmless
<1> QED BY <1>7, <1>8, <1>9, <1>10

\* What a statement leaves in the tables, and what is known then of its call.
LEMMA MasterWrites ==
  ASSUME TypeOK, MasterKept, Calm', NEW p \in Players, calls[p].at = "statement", ~DuplicateKey(p), Write(p)
  PROVE  /\ MasterRows' /\ DefaultRows'
         /\ calls[p].op \in RankSteps => calls[p].value # 0 /\ calls[p].target # Founder
         /\ calls[p].op = "accept" => calls[p].value # 0 /\ p # Founder
         /\ calls[p].op \in {"kick", "leave"} => calls[p].target # Founder
         /\ calls[p].op = "delRank" => calls[p].value >= DefaultRanks
         /\ calls[p].op = "addRank" => calls[p].value # 255
<1> DEFINE c == calls[p]
           t == Cell(p)
<1>1. c \in CallRecord /\ GoodCall(p, c) /\ Harmless(p) /\ c.at = "statement"
  BY DEF TypeOK, MasterKept
<1>2. Written(p) /\ DOMAIN rankRows' \subseteq Byte /\ DOMAIN memberRows' \subseteq Players
  BY WriteEffect
<1>3. MembersWritten(p) /\ RanksWritten(p)
  BY <1>2 DEF Written
<1>4. /\ c.op = "promote" => c.value # 255
      /\ c.op = "delRank" => ~(c.value < DefaultRanks)
      /\ c.op = "addRank" => c.value # 255
  <2>1. slips' \subseteq {"rank gap"}
    BY DEF Calm
  <2>2. "master promoted" \notin slips' /\ "default rank deleted" \notin slips' /\ "rank ids used up" \notin slips'
    BY <2>1
  <2> QED BY <1>2, <2>2 DEF Written
<1>5. MasterRows /\ DefaultRows /\ DOMAIN memberRows \subseteq Players /\ memberRows \in [DOMAIN memberRows -> MemberRow]
      /\ DOMAIN rankRows \subseteq Byte
  BY DEF MasterKept, TypeOK, TablesOK
<1>6. c.op \in RankSteps => c.value # 0 /\ c.target # Founder
  BY <1>1, <1>4 DEF Harmless, RankSteps
<1>7. c.op = "accept" => c.value # 0 /\ p # Founder
  BY <1>1, <1>5 DEF Harmless, DuplicateKey, MasterRows
<1>8. c.op \in {"kick", "leave"} => c.target # Founder
  BY <1>1 DEF Harmless
<1>9. c.op = "delRank" => c.value \in Nat /\ DefaultRanks \in Nat /\ 2 <= DefaultRanks /\ c.value >= DefaultRanks
  <2>1. DefaultRanks \in Nat /\ 2 <= DefaultRanks
    BY GuildsAssumption
  <2>2. c.op = "delRank" => c.value \in Byte
    BY <1>1 DEF GoodCall
  <2> QED BY <1>4, <2>1, <2>2 DEF Byte
<1>10. t = Founder => c.op \notin RankSteps \cup {"accept", "kick", "leave"}
  BY <1>1, <1>6, <1>7, <1>8, CellOf DEF GoodCall
<1>11. MasterRows'
  <2>1. Founder \in Players
    BY <1>5 DEF MasterRows
  <2>2. CASE c.op \in {"invite"} \cup TextOps \cup RankOps
    BY <1>3, <1>5, <2>2 DEF MembersWritten, MasterRows
  <2>3. CASE c.op \in {"accept", "leave", "kick"} \cup RankSteps \cup NoteOps
    <3>1. \A q \in Players : q # t => /\ q \in DOMAIN memberRows' <=> q \in DOMAIN memberRows
                                      /\ q \in DOMAIN memberRows => memberRows'[q] = memberRows[q]
      BY <1>3 DEF MembersWritten
    <3>2. t \in DOMAIN memberRows' => (memberRows'[t].rank = 0 <=> t = Founder)
      <4>1. CASE c.op = "accept"
        <5>1. memberRows'[t] = Row(c.value) /\ t = p
          BY <1>3, <4>1, CellOf DEF MembersWritten
        <5> QED BY <1>7, <4>1, <5>1 DEF Row
      <4>2. CASE c.op \in {"leave", "kick"}
        BY <1>3, <4>2 DEF MembersWritten
      <4>3. CASE c.op \in RankSteps /\ t \in DOMAIN memberRows
        <5>1. memberRows'[t] = [memberRows[t] EXCEPT !.rank = c.value] /\ memberRows[t] \in MemberRow
          BY <1>3, <1>5, <4>3 DEF MembersWritten
        <5>2. memberRows'[t].rank = c.value
          BY <5>1 DEF MemberRow
        <5> QED BY <1>6, <1>10, <4>3, <5>2
      <4>4. CASE c.op \in NoteOps /\ t \in DOMAIN memberRows
        <5>1. memberRows'[t] = [memberRows[t] EXCEPT ![c.op] = c.value] /\ memberRows[t] \in MemberRow /\ c.op # "rank"
          BY <1>3, <1>5, <4>4 DEF MembersWritten, NoteOps
        <5>2. memberRows'[t].rank = memberRows[t].rank
          BY <5>1 DEF MemberRow
        <5> QED BY <1>5, <4>4, <5>2 DEF MasterRows
      <4>5. CASE c.op \in RankSteps \cup NoteOps /\ t \notin DOMAIN memberRows
        BY <1>3, <4>5 DEF MembersWritten
      <4> QED BY <2>3, <4>1, <4>2, <4>3, <4>4, <4>5
    <3>3. Founder \in DOMAIN memberRows'
      <4>1. CASE t # Founder
        BY <1>5, <2>1, <3>1, <4>1 DEF MasterRows
      <4>2. CASE t = Founder
        <5>1. c.op \in NoteOps
          BY <1>10, <2>3, <4>2
        <5> QED BY <1>3, <1>5, <4>2, <5>1 DEF MembersWritten, MasterRows
      <4> QED BY <4>1, <4>2
    <3>4. ASSUME NEW q \in DOMAIN memberRows' PROVE memberRows'[q].rank = 0 <=> q = Founder
      <4>1. q \in Players
        BY <1>2
      <4>2. CASE q # t
        BY <1>5, <3>1, <4>1, <4>2 DEF MasterRows
      <4>3. CASE q = t
        BY <3>2, <4>3
      <4> QED BY <4>2, <4>3
    <3> QED BY <3>3, <3>4 DEF MasterRows
  <2>4. c.op # "none"
    BY <1>1 DEF GoodCall
  <2> QED BY <1>1, <2>2, <2>3, <2>4 DEF CallRecord, Ops
<1>12. DefaultRows'
  <2>1. CASE c.op = "addRank"
    BY <1>3, <1>4, <1>5, <2>1 DEF RanksWritten, DefaultRows
  <2>2. CASE c.op = "delRank"
    <3>1. DOMAIN rankRows' = {id \in DOMAIN rankRows : id < c.value}
      BY <1>3, <2>2 DEF RanksWritten
    <3>2. 0 < c.value /\ 1 < c.value
      BY <1>9, <2>2
    <3> QED BY <1>5, <3>1, <3>2 DEF DefaultRows
  <2>3. CASE c.op \notin {"addRank", "delRank"}
    BY <1>3, <1>5, <2>3 DEF RanksWritten, DefaultRows, RankOps
  <2> QED BY <2>1, <2>2, <2>3
<1> QED BY <1>4, <1>6, <1>7, <1>8, <1>9, <1>11, <1>12

\* A start of the service knows the master.
LEMMA LoadedMaster ==
  ASSUME TablesOK, MasterRows, DefaultRows, NEW S
  PROVE  KnowsMaster(LoadAllForRealm(memberRows, rankRows, textRows, S))
<1> DEFINE c == LoadAllForRealm(memberRows, rankRows, textRows, S)
           ids == DOMAIN rankRows
           n == Cardinality(ids)
<1>1. /\ \A k \in DOMAIN c.members : c.members[k].who \in DOMAIN memberRows /\ c.members[k].row = memberRows[c.members[k].who]
      /\ Len(c.ranks) = n /\ c.ranks \in Seq(RankEntry)
      /\ \A k \in DOMAIN c.ranks : c.ranks[k].id = IdAt(ids, k) /\ c.ranks[k].id \in ids
  BY LoadsTables DEF CacheRecord
<1>2. ids \in SUBSET Byte /\ {0, 1} \subseteq ids /\ 255 \notin ids
  BY DEF TablesOK, DefaultRows
<1> HIDE DEF ids
<1>3. IsFiniteSet(ids) /\ n \in Nat
  <2>1. IsFiniteSet(0..255)
    <3>1. 0 \in Int /\ 255 \in Int
      OBVIOUS
    <3> QED BY <3>1, FS_Interval, Zenon
  <2>2. IsFiniteSet(ids)
    BY <1>2, <2>1, FS_Subset DEF Byte
  <2> QED BY <2>2, FS_CardinalityType
<1>4. 2 <= n
  <2>1. Cardinality(0..(2 - 1)) = 2
    <3>1. 2 \in 0..256 /\ 1 \in 1..2
      OBVIOUS
    <3> QED BY <3>1, KthOfInterval, Zenon
  <2>2. 0..(2 - 1) = {0, 1}
    OBVIOUS
  <2>3. Cardinality({0, 1}) = 2
    BY <2>1, <2>2
  <2> QED BY <1>2, <1>3, <2>3, FS_Subset
<1> HIDE DEF c, n
<1>5. 1 \in 1..n /\ 2 \in 1..n
  BY <1>3, <1>4
<1>6. IdAt(ids, 1) # IdAt(ids, 2)
  <2>1. Cardinality({x \in ids : x < IdAt(ids, 1)}) = 0 /\ Cardinality({x \in ids : x < IdAt(ids, 2)}) = 1
    BY <1>2, <1>5, KthId DEF n
  <2> QED BY <2>1
<1>7. DOMAIN c.ranks = 1..n
  BY <1>1, LenProperties
<1>8. c.ranks[1].id # c.ranks[2].id /\ \A k \in DOMAIN c.ranks : c.ranks[k].id # 255
  BY <1>1, <1>2, <1>5, <1>6, <1>7
<1>9. \A k \in DOMAIN c.members : c.members[k].row.rank = 0 <=> c.members[k].who = Founder
  BY <1>1 DEF MasterRows
<1>10. Len(c.ranks) >= 2
  BY <1>1, <1>3, <1>4
<1> QED BY <1>8, <1>9, <1>10 DEF KnowsMaster, c

\* A step about the call of p keeps the master.
LEMMA KeepsMaster ==
  ASSUME MasterKept, NEW p \in Players, MasterRows', DefaultRows', up' => KnowsMaster(cache'),
         \A q \in Players : q # p => calls'[q] = calls[q], Harmless(p)'
  PROVE  MasterKept'
<1>1. \A q \in Players : Harmless(q)'
  <2> SUFFICES ASSUME NEW q \in Players, q # p PROVE Harmless(q)'
    OBVIOUS
  <2>1. calls'[q] = calls[q] /\ Harmless(q)
    BY DEF MasterKept
  <2> QED BY <2>1 DEF Harmless
<1>2. (up => KnowsMaster(cache))'
  BY DEF KnowsMaster
<1> QED BY <1>1, <1>2 DEF MasterKept

LEMMA MasterSteps == ASSUME TypeOK, MasterKept, NEW p \in Players, Steps(p) PROVE MasterKept'
<1>1. /\ up /\ UNCHANGED <<memberRows, rankRows, cache, up>>
      /\ \E c \in CallRecord : c.at \notin {"statement", "cache"} /\ calls' = [calls EXCEPT ![p] = c]
  BY DEF Steps
<1>2. calls'[p].at \notin {"statement", "cache"} /\ \A q \in Players : q # p => calls'[q] = calls[q]
  BY <1>1, SetsCall DEF TypeOK
<1>3. Harmless(p)'
  BY <1>2 DEF Harmless
<1>4. MasterRows' /\ DefaultRows' /\ (up' => KnowsMaster(cache'))
  BY <1>1 DEF MasterKept, MasterRows, DefaultRows, KnowsMaster
<1> QED BY <1>2, <1>3, <1>4, KeepsMaster

LEMMA MasterUninvites == ASSUME TypeOK, MasterKept, NEW p \in Players, RemoveGuildInviteForCharacter(p) PROVE MasterKept'
<1>1. /\ up /\ UNCHANGED <<memberRows, rankRows, cache, up>>
      /\ \E c \in CallRecord : /\ calls' = [calls EXCEPT ![p] = c]
                               /\ c.op = "accept" /\ c.at = "statement" /\ c.value = lowestRankInGuild
  BY UninviteEffect
<1>2. /\ calls'[p].op = "accept" /\ calls'[p].at = "statement" /\ calls'[p].value = lowestRankInGuild
      /\ \A q \in Players : q # p => calls'[q] = calls[q]
  BY <1>1, SetsCall DEF TypeOK
<1>3. lowestRankInGuild # 0
  BY <1>1, LowestIsNotMasters DEF MasterKept
<1>4. Harmless(p)'
  BY <1>2, <1>3 DEF Harmless
<1>5. MasterRows' /\ DefaultRows' /\ (up' => KnowsMaster(cache'))
  BY <1>1 DEF MasterKept, MasterRows, DefaultRows, KnowsMaster
<1> QED BY <1>2, <1>4, <1>5, KeepsMaster

LEMMA MasterStatement == ASSUME TypeOK, MasterKept, Calm', NEW p \in Players, Statement(p) PROVE MasterKept'
<1>1. up /\ calls[p].at = "statement" /\ UNCHANGED <<cache, up>>
  BY StatementEffect
<1>2. up' => KnowsMaster(cache')
  BY <1>1 DEF MasterKept, KnowsMaster
<1>3. CASE calls' = [calls EXCEPT ![p] = Idle] /\ UNCHANGED <<memberRows, rankRows>>
  <2>1. calls'[p] = Idle /\ \A q \in Players : q # p => calls'[q] = calls[q]
    BY <1>3, IdleCall, SetsCall DEF TypeOK
  <2>2. Harmless(p)'
    BY <2>1, IdleCall DEF Harmless
  <2>3. MasterRows' /\ DefaultRows'
    BY <1>3 DEF MasterKept, MasterRows, DefaultRows
  <2> QED BY <1>2, <2>1, <2>2, <2>3, KeepsMaster
<1>4. CASE ~DuplicateKey(p) /\ Write(p) /\ calls' = [calls EXCEPT ![p].at = IF calls[p].op = "invite" THEN "publish" ELSE "cache"]
  <2> DEFINE step == IF calls[p].op = "invite" THEN "publish" ELSE "cache"
  <2>1. step \in Places /\ calls' = [calls EXCEPT ![p].at = step]
    BY <1>4 DEF Places
  <2>2. /\ calls'[p].at = step /\ calls'[p].op = calls[p].op /\ calls'[p].target = calls[p].target /\ calls'[p].value = calls[p].value
        /\ \A q \in Players : q # p => calls'[q] = calls[q]
    <3> HIDE DEF step
    <3> QED BY <2>1, GoesOn DEF TypeOK
  <2>3. /\ MasterRows' /\ DefaultRows'
        /\ calls[p].op \in RankSteps => calls[p].value # 0 /\ calls[p].target # Founder
        /\ calls[p].op = "accept" => calls[p].value # 0 /\ p # Founder
        /\ calls[p].op \in {"kick", "leave"} => calls[p].target # Founder
        /\ calls[p].op = "delRank" => calls[p].value >= DefaultRanks
        /\ calls[p].op = "addRank" => calls[p].value # 255
    BY <1>1, <1>4, MasterWrites
  <2>4. Harmless(p)'
    BY <2>2, <2>3 DEF Harmless, RankSteps
  <2> QED BY <1>2, <2>2, <2>3, <2>4, KeepsMaster
<1> QED BY <1>3, <1>4, StatementEffect

LEMMA MasterFails ==
  ASSUME TypeOK, MasterKept, Calm', NEW p \in Players, NEW applied \in BOOLEAN, StatementFails(p, applied)
  PROVE  MasterKept'
<1>1. /\ calls[p].at = "statement" /\ UNCHANGED <<cache, up>> /\ calls' = [calls EXCEPT ![p] = Idle]
      /\ UNCHANGED <<memberRows, rankRows>> \/ (~DuplicateKey(p) /\ Write(p))
  BY FailureEffect
<1>2. up' => KnowsMaster(cache')
  BY <1>1 DEF MasterKept, KnowsMaster
<1>3. calls'[p] = Idle /\ \A q \in Players : q # p => calls'[q] = calls[q]
  BY <1>1, IdleCall, SetsCall DEF TypeOK
<1>4. Harmless(p)'
  BY <1>3, IdleCall DEF Harmless
<1>5. MasterRows' /\ DefaultRows'
  <2>1. CASE UNCHANGED <<memberRows, rankRows>>
    BY <2>1 DEF MasterKept, MasterRows, DefaultRows
  <2>2. CASE ~DuplicateKey(p) /\ Write(p)
    BY <1>1, <2>2, MasterWrites
  <2> QED BY <1>1, <2>1, <2>2
<1> QED BY <1>2, <1>3, <1>4, <1>5, KeepsMaster

\* A write of the cache gives the master's rank to nobody and takes it from nobody.
LEMMA MasterMembersCached ==
  ASSUME TypeOK, KnowsMaster(cache), NEW p \in Players, Harmless(p), WriteCache(p)
  PROVE  \A k \in DOMAIN cache'.members : cache'.members[k].row.rank = 0 <=> cache'.members[k].who = Founder
<1> DEFINE c == calls[p]
           old == cache.members
           new == cache'.members
           n == Len(old)
<1>1. c.at = "cache" /\ Cached(p) /\ cache \in CacheRecord /\ c \in CallRecord /\ GoodCall(p, c)
  BY WriteCacheEffect DEF TypeOK
<1>2. c.op \in {"accept", "leave", "kick"} \cup RankSteps \cup NoteOps \cup TextOps \cup RankOps
  BY <1>1, CacheOps
<1>3. \A k \in DOMAIN old : old[k].row.rank = 0 <=> old[k].who = Founder
  BY DEF KnowsMaster
<1>4. old \in Seq(MemberEntry) /\ n \in Nat /\ DOMAIN old = 1..n /\ \A k \in DOMAIN old : old[k] \in MemberEntry
  BY <1>1, MembersTyped
<1>5. CASE c.op = "accept"
  <2>1. new = AddGuildMember(p, c.value)
    BY <1>1, <1>5, CachedBy
  <2>2. c.value \in Byte /\ c.value # 0 /\ p # Founder
    BY <1>1, <1>5 DEF GoodCall, Harmless
  <2>3. /\ DOMAIN new = 1..(n + 1)
        /\ \A k \in 1..n : new[k].who = old[k].who /\ new[k].row = old[k].row
        /\ new[n + 1].who = p /\ new[n + 1].row = Row(c.value)
    BY <1>1, <2>1, <2>2, AddsMember
  <2>4. \A k \in 1..(n + 1) : k \in 1..n \/ k = n + 1
    BY <1>4
  <2>5. Row(c.value).rank = c.value
    BY DEF Row
  <2> QED BY <1>3, <1>4, <2>3, <2>4, <2>5, <2>2
<1>6. CASE c.op \in {"leave", "kick"}
  <2>1. new = RemoveGuildMember(c.target)
    BY <1>1, <1>6, CachedBy
  <2>2. CASE ~Linked(c.target)
    BY <1>1, <1>3, <2>1, <2>2, RemovesMember
  <2>3. CASE Linked(c.target)
    <3> DEFINE i == Min(Entries(c.target))
    <3>1. /\ DOMAIN new = 1..(n - 1)
          /\ \A k \in DOMAIN new : /\ new[k].who = old[IF k < i THEN k ELSE k + 1].who
                                   /\ new[k].row = old[IF k < i THEN k ELSE k + 1].row
      BY <1>1, <2>1, <2>3, RemovesMember
    <3>2. \A k \in 1..(n - 1) : (IF k < i THEN k ELSE k + 1) \in 1..n
      BY <1>4
    <3> HIDE DEF i
    <3>3. ASSUME NEW k \in DOMAIN new PROVE new[k].row.rank = 0 <=> new[k].who = Founder
      <4> DEFINE j == IF k < i THEN k ELSE k + 1
      <4>1. j \in DOMAIN old /\ new[k].who = old[j].who /\ new[k].row = old[j].row
        BY <1>4, <3>1, <3>2
      <4> HIDE DEF j
      <4> QED BY <1>3, <4>1
    <3> QED BY <3>3
  <2> QED BY <2>2, <2>3
<1>7. CASE c.op \in RankSteps
  <2> DEFINE t == c.target
             v == c.value
  <2>1. new = Update({t}, "rank", v)
    BY <1>1, <1>7, CachedBy
  <2>2. v \in Byte /\ v # 0 /\ t # Founder
    BY <1>1, <1>7 DEF GoodCall, Harmless, RankSteps
  <2> HIDE DEF t, v
  <2> DEFINE ms == Update({t}, "rank", v)
  <2>3. cache \in CacheRecord /\ v \in Byte
    BY <1>1, <2>2
  <2>4. /\ ms \in Seq(MemberEntry) /\ DOMAIN ms = DOMAIN old
        /\ \A k \in DOMAIN old :
             /\ ms[k].who = old[k].who /\ ms[k].linked = old[k].linked
             /\ ms[k].row = IF old[k].who = t /\ old[k].linked
                            THEN [old[k].row EXCEPT !.rank = v] ELSE old[k].row
    BY <2>3, UpdatesRank
  <2> HIDE DEF ms, old, new
  <2>5. new = ms
    BY <2>1 DEF new, ms
  <2>6. /\ DOMAIN new = DOMAIN old
        /\ \A k \in DOMAIN old : /\ new[k].who = old[k].who
                                 /\ new[k].row = IF old[k].who = t /\ old[k].linked
                                                 THEN [old[k].row EXCEPT !.rank = v] ELSE old[k].row
    BY <2>4, <2>5
  <2> HIDE DEF old, new
  <2>7. ASSUME NEW k \in DOMAIN new PROVE new[k].row.rank = 0 <=> new[k].who = Founder
    <3>1. k \in DOMAIN old /\ new[k].who = old[k].who
      BY <2>6
    <3>2. [old[k].row EXCEPT !.rank = v].rank = v
      BY <1>4, <3>1 DEF MemberEntry, MemberRow
    <3>3. CASE old[k].who = t /\ old[k].linked
      <4>1. new[k].row = [old[k].row EXCEPT !.rank = v]
        BY <2>6, <3>1, <3>3
      <4> QED BY <2>2, <3>1, <3>2, <3>3, <4>1
    <3>4. CASE ~(old[k].who = t /\ old[k].linked)
      <4>1. new[k].row = old[k].row
        BY <2>6, <3>1, <3>4
      <4> QED BY <1>3, <3>1, <4>1
    <3> QED BY <3>3, <3>4
  <2> QED BY <2>7 DEF new
<1>8. CASE c.op \in NoteOps
  <2> DEFINE t == c.target
             v == c.value
             f == c.op
  <2>1. new = Update({t}, f, v)
    BY <1>1, <1>8, CachedBy
  <2>2. v \in Note /\ f \in NoteOps
    BY <1>1, <1>8 DEF GoodCall
  <2> HIDE DEF t, v, f
  <2> DEFINE ms == Update({t}, f, v)
  <2>3. cache \in CacheRecord /\ v \in Note /\ f \in NoteOps
    BY <1>1, <2>2
  <2>4. /\ ms \in Seq(MemberEntry) /\ DOMAIN ms = DOMAIN old
        /\ \A k \in DOMAIN old :
             /\ ms[k].who = old[k].who /\ ms[k].linked = old[k].linked
             /\ ms[k].row = IF old[k].who = t /\ old[k].linked
                            THEN [old[k].row EXCEPT ![f] = v] ELSE old[k].row
    BY <2>3, UpdatesNote
  <2> HIDE DEF ms, old, new
  <2>5. new = ms
    BY <2>1 DEF new, ms
  <2>6. /\ DOMAIN new = DOMAIN old
        /\ \A k \in DOMAIN old : /\ new[k].who = old[k].who
                                 /\ new[k].row = IF old[k].who = t /\ old[k].linked
                                                 THEN [old[k].row EXCEPT ![f] = v] ELSE old[k].row
    BY <2>4, <2>5
  <2> HIDE DEF old, new
  <2>7. ASSUME NEW k \in DOMAIN new PROVE new[k].row.rank = 0 <=> new[k].who = Founder
    <3>1. k \in DOMAIN old /\ new[k].who = old[k].who
      BY <2>6
    <3>2. [old[k].row EXCEPT ![f] = v].rank = old[k].row.rank
      BY <1>4, <2>2, <3>1 DEF MemberEntry, MemberRow, NoteOps
    <3>3. new[k].row.rank = old[k].row.rank
      <4>1. new[k].row = [old[k].row EXCEPT ![f] = v] \/ new[k].row = old[k].row
        BY <2>6, <3>1
      <4> QED BY <3>2, <4>1
    <3> QED BY <1>3, <3>1, <3>3
  <2> QED BY <2>7 DEF new
<1>9. CASE c.op \in TextOps \cup RankOps
  <2>1. new = old
    BY <1>1, <1>9, CachedBy
  <2> QED BY <1>3, <2>1
<1> QED BY <1>2, <1>5, <1>6, <1>7, <1>8, <1>9

LEMMA MasterRanksCached ==
  ASSUME TypeOK, KnowsMaster(cache), NEW p \in Players, Harmless(p), WriteCache(p)
  PROVE  /\ Len(cache'.ranks) >= 2 /\ cache'.ranks[1].id # cache'.ranks[2].id
         /\ \A k \in DOMAIN cache'.ranks : cache'.ranks[k].id # 255
<1> DEFINE c == calls[p]
           old == cache.ranks
           new == cache'.ranks
           n == Len(old)
<1>1. c.at = "cache" /\ Cached(p) /\ cache \in CacheRecord /\ c \in CallRecord /\ GoodCall(p, c)
  BY WriteCacheEffect DEF TypeOK
<1>2. n >= 2 /\ old[1].id # old[2].id /\ \A k \in DOMAIN old : old[k].id # 255
  BY DEF KnowsMaster
<1>3. n \in Nat /\ DOMAIN old = 1..n
  BY <1>1, MembersTyped
<1>4. 1 \in DOMAIN old /\ 2 \in DOMAIN old
  BY <1>2, <1>3
<1>5. CASE c.op = "rank"
  <2>1. new = UpdateGuildRank(c.target, c.value) /\ c.target \in Byte /\ c.value \in GuildRights
    BY <1>1, <1>5, CachedBy DEF GoodCall
  <2>2. Len(new) = n /\ DOMAIN new = DOMAIN old /\ \A k \in DOMAIN old : new[k].id = old[k].id
    BY <1>1, <2>1, UpdatesRights
  <2> QED BY <1>2, <1>4, <2>2
<1>6. CASE c.op = "addRank"
  <2>1. new = Append(old, [id |-> c.value, rights |-> RightEmpty]) /\ c.value \in Byte /\ c.value # 255
    BY <1>1, <1>6, CachedBy DEF GoodCall, Harmless
  <2>2. Len(new) = n + 1 /\ DOMAIN new = 1..(n + 1) /\ (\A k \in 1..n : new[k] = old[k]) /\ new[n + 1].id = c.value
    BY <1>1, <2>1, AddsRank
  <2>3. \A k \in 1..(n + 1) : k \in 1..n \/ k = n + 1
    BY <1>3
  <2> QED BY <1>2, <1>3, <1>4, <2>1, <2>2, <2>3
<1>7. CASE c.op = "delRank"
  <2>1. new = DeleteLowestGuildRank(c.value) /\ c.value \in Byte /\ c.value >= DefaultRanks
    BY <1>1, <1>7, CachedBy DEF GoodCall, Harmless
  <2>2. /\ new \in Seq(RankEntry) /\ Len(new) = (IF c.value > n THEN n ELSE c.value)
        /\ \A k \in DOMAIN new : k \in DOMAIN old /\ new[k] = old[k]
    BY <1>1, <2>1, KeepsFirstRanks
  <2>3. DefaultRanks \in Nat /\ 2 <= DefaultRanks /\ c.value \in Nat
    <3>1. DefaultRanks \in Nat /\ 2 <= DefaultRanks
      BY GuildsAssumption
    <3> QED BY <2>1, <3>1 DEF Byte
  <2>4. Len(new) >= 2
    BY <1>2, <1>3, <2>1, <2>2, <2>3
  <2>5. 1 \in DOMAIN new /\ 2 \in DOMAIN new
    BY <2>2, <2>4, LenProperties
  <2> QED BY <1>2, <2>2, <2>4, <2>5
<1>8. CASE c.op \notin RankOps
  <2>1. new = old
    BY <1>1, <1>8, CachedBy
  <2> QED BY <1>2, <2>1
<1> QED BY <1>5, <1>6, <1>7, <1>8 DEF RankOps

LEMMA MasterCached == ASSUME TypeOK, MasterKept, NEW p \in Players, WriteCache(p) PROVE MasterKept'
<1>1. /\ up /\ UNCHANGED <<memberRows, rankRows>> /\ calls'[p].at \in {"none", "publish"}
      /\ \A q \in Players : q # p => calls'[q] = calls[q]
  BY WriteCacheEffect
<1>2. KnowsMaster(cache) /\ Harmless(p)
  BY <1>1 DEF MasterKept
<1>3. KnowsMaster(cache')
  BY <1>2, MasterMembersCached, MasterRanksCached DEF KnowsMaster
<1>4. Harmless(p)'
  BY <1>1 DEF Harmless
<1>5. MasterRows' /\ DefaultRows'
  BY <1>1 DEF MasterKept, MasterRows, DefaultRows
<1> QED BY <1>1, <1>3, <1>4, <1>5, KeepsMaster

\* The steps that change no call that was decided on.
LEMMA MasterRests ==
  ASSUME TypeOK, MasterKept, UNCHANGED guildVars \/ Panic \/ Refreshes \/ Warmup
  PROVE  MasterKept'
<1>1. UNCHANGED <<memberRows, rankRows>> /\ MasterRows' /\ DefaultRows'
  <2>1. UNCHANGED <<memberRows, rankRows>>
    BY PanicEffect, WarmupEffect DEF guildVars, Refreshes
  <2> QED BY <2>1 DEF MasterKept, MasterRows, DefaultRows
<1>2. \A q \in Players : Harmless(q)'
  <2>1. CASE Panic
    <3>1. \A q \in Players : calls'[q] = Idle
      BY <2>1, PanicEffect
    <3> QED BY <3>1, IdleCall DEF Harmless
  <2>2. CASE calls' = calls
    BY <2>2 DEF MasterKept, Harmless
  <2> QED BY <2>1, <2>2, WarmupEffect DEF guildVars, Refreshes
<1>3. up' => KnowsMaster(cache')
  <2>1. CASE UNCHANGED guildVars
    BY <2>1 DEF guildVars, MasterKept, KnowsMaster
  <2>2. CASE Panic
    BY <2>2, PanicEffect
  <2>3. CASE Refreshes
    <3>1. /\ up' = up /\ cache'.ranks = cache.ranks /\ DOMAIN cache'.members = DOMAIN cache.members
          /\ \A k \in DOMAIN cache.members : cache'.members[k].who = cache.members[k].who /\ cache'.members[k].row = cache.members[k].row
      BY <2>3 DEF Refreshes
    <3> QED BY <3>1 DEF MasterKept, KnowsMaster
  <2>4. CASE Warmup
    <3>1. PICK S : cache' = LoadAllForRealm(memberRows, rankRows, textRows, S)
      BY <2>4, WarmupEffect
    <3>2. KnowsMaster(LoadAllForRealm(memberRows, rankRows, textRows, S))
      BY LoadedMaster DEF TypeOK, MasterKept
    <3> QED BY <3>1, <3>2
  <2> QED BY <2>1, <2>2, <2>3, <2>4
<1>4. (up => KnowsMaster(cache))'
  BY <1>3 DEF KnowsMaster
<1> QED BY <1>1, <1>2, <1>4 DEF MasterKept

LEMMA MasterStarts == Init => MasterInvariant
<1> SUFFICES ASSUME Init PROVE TypeOK /\ MasterKept
  BY DEF MasterInvariant
<1>1. TypeOK
  BY TypesStart
<1>2. MasterRows
  <2>1. DOMAIN memberRows = DOMAIN FirstRanks /\ \A p \in DOMAIN FirstRanks : memberRows[p].rank = FirstRanks[p]
    BY DEF Init, Row
  <2> QED BY <2>1, FounderFirst DEF MasterRows, GuildRankGuildMaster
<1>3. DefaultRows
  <2> DEFINE n == Len(FirstRights)
  <2>1. n \in Nat /\ 2 <= n /\ n < 256
    <3>1. DefaultRanks \in Nat /\ GuildRankMax \in Nat /\ 2 <= DefaultRanks /\ DefaultRanks <= n /\ n <= GuildRankMax /\ GuildRankMax < 256
      BY GuildsAssumption
    <3>2. n \in Nat
      BY GuildsAssumption, LenProperties
    <3> HIDE DEF n
    <3> QED BY <3>1, <3>2
  <2>2. DOMAIN rankRows = 0..(n - 1)
    BY DEF Init
  <2> HIDE DEF n
  <2>3. 255 \notin DOMAIN rankRows
    BY <2>1, <2>2
  <2> QED BY <2>1, <2>2, <2>3 DEF DefaultRows
<1>4. KnowsMaster(cache)
  BY <1>1, <1>2, <1>3, LoadedMaster DEF Init, TypeOK
<1>5. \A p \in Players : Harmless(p)
  BY IdleCall DEF Init, Harmless
<1> QED BY <1>1, <1>2, <1>3, <1>4, <1>5 DEF MasterKept

LEMMA MasterInvariantKept == ASSUME MasterInvariant, [Next]_vars PROVE MasterInvariant'
<1>1. TypeOK
  BY DEF MasterInvariant
<1>2. TypeOK'
  BY <1>1, TypesKept
<1>3. slips \subseteq slips'
  <2>1. \A p \in Players : Statement(p) => slips \subseteq slips'
    BY <1>1, StatementEffect, WriteEffect DEF Written
  <2>2. \A p \in Players, applied \in BOOLEAN : StatementFails(p, applied) => slips \subseteq slips'
    BY <1>1, FailureEffect, WriteEffect DEF Written
  <2>3. \A p \in Players : Steps(p) \/ Decides(p) \/ RemoveGuildInviteForCharacter(p) \/ WriteCache(p) => slips' = slips
    BY <1>1, UninviteEffect, WriteCacheEffect DEF Steps, Decides
  <2>4. UNCHANGED guildVars \/ Panic \/ Refreshes \/ Warmup => slips' = slips
    BY <1>1, PanicEffect, WarmupEffect DEF guildVars, Refreshes
  <2> QED BY <1>1, <2>1, <2>2, <2>3, <2>4, StepKinds
<1>4. ASSUME Calm' PROVE MasterKept'
  <2>1. MasterKept
    <3>1. slips \subseteq {"rank gap"}
      BY <1>3, <1>4 DEF Calm
    <3> QED BY <3>1 DEF MasterInvariant, Calm
  <2>2. CASE UNCHANGED guildVars \/ Panic \/ Refreshes \/ Warmup
    BY <1>1, <2>1, <2>2, MasterRests
  <2>3. ASSUME NEW p \in Players, Steps(p) PROVE MasterKept'
    BY <1>1, <2>1, <2>3, MasterSteps
  <2>4. ASSUME NEW p \in Players, Decides(p) PROVE MasterKept'
    BY <1>1, <2>1, <2>4, MasterDecides
  <2>5. ASSUME NEW p \in Players, RemoveGuildInviteForCharacter(p) PROVE MasterKept'
    BY <1>1, <2>1, <2>5, MasterUninvites
  <2>6. ASSUME NEW p \in Players, Statement(p) PROVE MasterKept'
    BY <1>1, <1>4, <2>1, <2>6, MasterStatement
  <2>7. ASSUME NEW p \in Players, WriteCache(p) PROVE MasterKept'
    BY <1>1, <2>1, <2>7, MasterCached
  <2>8. ASSUME NEW p \in Players, NEW applied \in BOOLEAN, StatementFails(p, applied) PROVE MasterKept'
    BY <1>1, <1>4, <2>1, <2>8, MasterFails
  <2> QED BY <1>1, <2>2, <2>3, <2>4, <2>5, <2>6, <2>7, <2>8, StepKinds
<1> QED BY <1>2, <1>4 DEF MasterInvariant

LEMMA MasterIsOne == MasterInvariant => OneMaster
<1> SUFFICES ASSUME TypeOK, MasterKept PROVE Cardinality({p \in DOMAIN memberRows : memberRows[p].rank = GuildRankGuildMaster}) = 1
  BY DEF MasterInvariant, OneMaster, Calm
<1>1. {p \in DOMAIN memberRows : memberRows[p].rank = GuildRankGuildMaster} = {Founder}
  BY DEF MasterKept, MasterRows, GuildRankGuildMaster
<1> QED BY <1>1, FS_Singleton

-----------------------------------------------------------------------------
(* The guild in memory and the tables                                      *)

Cells == Players \cup {"ranks"} \cup TextOps

\* A player has one entry, linked and with this row, or none.
Sole(ms, t, r) ==
  \E k \in DOMAIN ms : /\ ms[k].who = t /\ ms[k].linked /\ ms[k].row = r
                       /\ \A j \in DOMAIN ms : ms[j].who = t => j = k
Absent(ms, t) == \A k \in DOMAIN ms : ms[k].who # t

\* Cache and tables hold the same.
MemberSettled(t) ==
  IF t \in DOMAIN memberRows THEN Sole(cache.members, t, memberRows[t]) ELSE Absent(cache.members, t)
RanksSettled ==
  /\ DOMAIN rankRows = 0..(Len(cache.ranks) - 1)
  /\ \A k \in DOMAIN cache.ranks : cache.ranks[k].id = k - 1 /\ cache.ranks[k].rights = rankRows[k - 1]
Settled(cell) ==
  /\ cell \in Players => MemberSettled(cell)
  /\ cell = "ranks" => RanksSettled
  /\ cell \in TextOps => cache.texts[cell] = textRows[cell]

\* What a call that has written the tables still has to write to the cache.
MemberPending(q) ==
  LET c == calls[q]
      t == c.target
      ms == cache.members IN
  /\ c.op = "accept" => q \in DOMAIN memberRows /\ memberRows[q] = Row(c.value) /\ Absent(ms, q)
  /\ c.op \in {"leave", "kick"} => t \notin DOMAIN memberRows /\ (Absent(ms, t) \/ \E r \in MemberRow : Sole(ms, t, r))
  /\ c.op \in RankSteps =>
       IF t \in DOMAIN memberRows
       THEN \E r \in MemberRow : Sole(ms, t, r) /\ memberRows[t] = [r EXCEPT !.rank = c.value]
       ELSE Absent(ms, t)
  /\ c.op \in NoteOps =>
       IF t \in DOMAIN memberRows
       THEN \E r \in MemberRow : Sole(ms, t, r) /\ memberRows[t] = [r EXCEPT ![c.op] = c.value]
       ELSE Absent(ms, t)
RanksPending(q) ==
  LET c == calls[q]
      rs == cache.ranks
      n == Len(rs) IN
  /\ c.op = "rank" =>
       /\ DOMAIN rankRows = 0..(n - 1)
       /\ \A k \in DOMAIN rs : rs[k].id = k - 1 /\ rankRows[k - 1] = IF k - 1 = c.target THEN c.value ELSE rs[k].rights
  /\ c.op = "addRank" =>
       /\ c.value = n /\ DOMAIN rankRows = 0..n /\ rankRows[n] = RightEmpty
       /\ \A k \in DOMAIN rs : rs[k].id = k - 1 /\ rs[k].rights = rankRows[k - 1]
  /\ c.op = "delRank" =>
       /\ DOMAIN rankRows = {id \in 0..(n - 1) : id < c.value}
       /\ \A k \in DOMAIN rs : rs[k].id = k - 1 /\ (k - 1 < c.value => rs[k].rights = rankRows[k - 1])
Pending(q) ==
  /\ MemberPending(q) /\ RanksPending(q)
  /\ calls[q].op \in TextOps => textRows[calls[q].op] = calls[q].value

\* Nothing excuses a difference here.
Trusted(cell) == cell \notin raced /\ (cell = "ranks" => "rank gap" \notin slips)
Busy(cell) == \E q \in Players : calls[q].at = "cache" /\ Cell(q) = cell

OneWriter ==
  \A p, q \in Players : p # q /\ calls[p].at = "cache" /\ calls[q].at = "cache" /\ Cell(p) = Cell(q) => Cell(p) \in raced
NoGap == "rank gap" \notin slips => \E n \in 0..256 : DOMAIN rankRows = 0..(n - 1)
WritesPending == \A q \in Players : calls[q].at = "cache" /\ Trusted(Cell(q)) => Pending(q)
CellsSettled == up => \A cell \in Cells : Trusted(cell) /\ ~Busy(cell) => Settled(cell)

MirrorInvariant == OneWriter /\ NoGap /\ WritesPending /\ CellsSettled

\* A step leaves a cell alone, in the tables and in memory.
SameFor(ms, ns, t) == (\A r : Sole(ms, t, r) => Sole(ns, t, r)) /\ (Absent(ms, t) => Absent(ns, t))
SameMemberRow(t) ==
  /\ t \in DOMAIN memberRows' <=> t \in DOMAIN memberRows
  /\ t \in DOMAIN memberRows => memberRows'[t] = memberRows[t]
Untouched(cell) ==
  /\ cell \in Players => SameMemberRow(cell) /\ SameFor(cache.members, cache'.members, cell)
  /\ cell = "ranks" => rankRows' = rankRows /\ cache'.ranks = cache.ranks
  /\ cell \in TextOps => textRows'[cell] = textRows[cell] /\ cache'.texts[cell] = cache.texts[cell]

\* Ranks are numbered from 0, the slice from 1.
LEMMA FromZero ==
  ASSUME NEW n \in Nat
  PROVE  /\ \A k \in 1..n : k - 1 \in 0..(n - 1)
         /\ \A id \in 0..(n - 1) : id + 1 \in 1..n /\ (id + 1) - 1 = id
         /\ 0..n = 0..(n - 1) \cup {n}
         /\ \A v \in 0..255 : v \notin 0..(n - 1) /\ v - 1 \in 0..(n - 1) => v = n
<1>1. ASSUME NEW k \in 1..n PROVE k - 1 \in 0..(n - 1)
  OBVIOUS
<1>2. ASSUME NEW id \in 0..(n - 1) PROVE id + 1 \in 1..n /\ (id + 1) - 1 = id
  OBVIOUS
<1>3. 0..n = 0..(n - 1) \cup {n}
  OBVIOUS
<1>4. ASSUME NEW v \in 0..255, v \notin 0..(n - 1), v - 1 \in 0..(n - 1) PROVE v = n
  BY <1>4
<1> QED BY <1>1, <1>2, <1>3, <1>4

\* Players, ranks and texts are different cells.
LEMMA CellsDiffer ==
  /\ "none" \notin Cells /\ "ranks" \notin Players \cup TextOps
  /\ \A cell \in TextOps : cell \notin Players
BY GuildsAssumption DEF Cells, TextOps

LEMMA CellStays ==
  ASSUME NEW p \in Players, calls'[p].op = calls[p].op, calls'[p].target = calls[p].target
  PROVE  Cell(p)' = Cell(p)
BY DEF Cell

\* A call that comes to the cache is about a cell.
LEMMA CellOfWriter ==
  ASSUME TypeOK, NEW p \in Players, calls[p].op \notin {"none", "invite"}
  PROVE  /\ Cell(p) \in Cells
         /\ calls[p].op \in {"accept", "leave", "kick"} \cup RankSteps \cup NoteOps => Cell(p) \in Players
         /\ calls[p].op \in {"leave", "kick"} \cup RankSteps \cup NoteOps => Cell(p) = calls[p].target
<1>1. calls[p] \in CallRecord /\ GoodCall(p, calls[p])
  BY DEF TypeOK
<1>2. calls[p].op \in {"accept", "leave", "kick"} \cup RankSteps \cup NoteOps \cup TextOps \cup RankOps
  BY <1>1 DEF CallRecord, Ops
<1>3. calls[p].op \in {"accept", "leave"} => calls[p].target = p
  BY <1>1 DEF GoodCall
<1>4. calls[p].op \in {"kick"} \cup RankSteps \cup NoteOps => calls[p].target \in Players
  BY <1>1 DEF GoodCall
<1>5. calls[p].op \in {"leave", "kick"} \cup RankSteps \cup NoteOps => Cell(p) = calls[p].target
  BY <1>3, CellOf
<1>6. calls[p].op \in {"accept", "leave", "kick"} \cup RankSteps \cup NoteOps => Cell(p) \in Players
  BY <1>3, <1>4, CellOf
<1> QED BY <1>2, <1>5, <1>6, CellOf DEF Cells

LEMMA SettledStays == ASSUME NEW cell \in Cells, Settled(cell), Untouched(cell) PROVE Settled(cell)'
<1>1. CASE cell \in Players
  <2>1. SameMemberRow(cell) /\ SameFor(cache.members, cache'.members, cell) /\ MemberSettled(cell)
    BY <1>1 DEF Untouched, Settled
  <2>2. CASE cell \in DOMAIN memberRows
    <3>1. cell \in DOMAIN memberRows' /\ memberRows'[cell] = memberRows[cell] /\ Sole(cache'.members, cell, memberRows[cell])
      BY <2>1, <2>2 DEF SameMemberRow, SameFor, MemberSettled
    <3>2. MemberSettled(cell)'
      BY <3>1 DEF MemberSettled, Sole
    <3> QED BY <1>1, <3>2, CellsDiffer DEF Settled
  <2>3. CASE cell \notin DOMAIN memberRows
    <3>1. cell \notin DOMAIN memberRows' /\ Absent(cache'.members, cell)
      BY <2>1, <2>3 DEF SameMemberRow, SameFor, MemberSettled
    <3>2. MemberSettled(cell)'
      BY <3>1 DEF MemberSettled, Absent
    <3> QED BY <1>1, <3>2, CellsDiffer DEF Settled
  <2> QED BY <2>2, <2>3
<1>2. CASE cell = "ranks"
  BY <1>2, CellsDiffer DEF Untouched, Settled, RanksSettled
<1>3. CASE cell \in TextOps
  BY <1>3, CellsDiffer DEF Untouched, Settled
<1> QED BY <1>1, <1>2, <1>3 DEF Cells

LEMMA PendingStays ==
  ASSUME TypeOK, NEW q \in Players, calls[q].at = "cache", calls'[q] = calls[q], Pending(q), Untouched(Cell(q))
  PROVE  Pending(q)'
<1> DEFINE c == calls[q]
           t == Cell(q)
           ms == cache.members
           ns == cache'.members
<1>1. c.op \in {"accept", "leave", "kick"} \cup RankSteps \cup NoteOps \cup TextOps \cup RankOps
  BY CacheOps
<1>2. c.op \notin {"none", "invite"}
  BY <1>1 DEF RankSteps, NoteOps, TextOps, RankOps
<1>3. CASE c.op \in {"accept", "leave", "kick"} \cup RankSteps \cup NoteOps
  <2>1. t \in Players /\ (c.op = "accept" => t = q) /\ (c.op \in {"leave", "kick"} \cup RankSteps \cup NoteOps => t = c.target)
    BY <1>2, <1>3, CellOfWriter, CellOf
  <2>2. SameMemberRow(t) /\ SameFor(ms, ns, t)
    BY <2>1 DEF Untouched
  <2>3. (\A r : Sole(ms, t, r) => Sole(ns, t, r)) /\ (Absent(ms, t) => Absent(ns, t))
    BY <2>2 DEF SameFor
  <2>4. (t \in DOMAIN memberRows' <=> t \in DOMAIN memberRows) /\ (t \in DOMAIN memberRows => memberRows'[t] = memberRows[t])
    BY <2>2 DEF SameMemberRow
  <2>5. MemberPending(q)
    BY DEF Pending
  <2> HIDE DEF t
  <2>6. c.op = "accept" => q \in DOMAIN memberRows' /\ memberRows'[q] = Row(c.value) /\ Absent(ns, q)
    BY <2>1, <2>3, <2>4, <2>5 DEF MemberPending
  <2>7. c.op \in {"leave", "kick"} => c.target \notin DOMAIN memberRows' /\ (Absent(ns, c.target) \/ \E r \in MemberRow : Sole(ns, c.target, r))
    BY <2>1, <2>3, <2>4, <2>5 DEF MemberPending
  <2>8. c.op \in RankSteps =>
          IF c.target \in DOMAIN memberRows'
          THEN \E r \in MemberRow : Sole(ns, c.target, r) /\ memberRows'[c.target] = [r EXCEPT !.rank = c.value]
          ELSE Absent(ns, c.target)
    BY <2>1, <2>3, <2>4, <2>5 DEF MemberPending
  <2>9. c.op \in NoteOps =>
          IF c.target \in DOMAIN memberRows'
          THEN \E r \in MemberRow : Sole(ns, c.target, r) /\ memberRows'[c.target] = [r EXCEPT ![c.op] = c.value]
          ELSE Absent(ns, c.target)
    BY <2>1, <2>3, <2>4, <2>5 DEF MemberPending
  <2>10. MemberPending(q)'
    <3>1. calls'[q] = c
      OBVIOUS
    <3>2. /\ \A r : Sole(cache'.members, c.target, r) <=> Sole(cache.members, c.target, r)'
          /\ Absent(cache'.members, c.target) <=> Absent(cache.members, c.target)'
          /\ Absent(cache'.members, q) <=> Absent(cache.members, q)'
      BY DEF Sole, Absent
    <3> QED BY <2>6, <2>7, <2>8, <2>9, <3>1, <3>2 DEF MemberPending
  <2>11. RanksPending(q)'
    BY <1>3 DEF RanksPending, RankSteps, NoteOps
  <2> QED BY <1>3, <2>10, <2>11 DEF Pending, RankSteps, NoteOps, TextOps
<1>4. CASE c.op \in RankOps
  <2>1. rankRows' = rankRows /\ cache'.ranks = cache.ranks
    BY <1>4, CellOf DEF Untouched
  <2>2. RanksPending(q)'
    BY <2>1 DEF Pending, RanksPending
  <2> QED BY <1>4, <2>2 DEF Pending, MemberPending, RankSteps, NoteOps, TextOps, RankOps
<1>5. CASE c.op \in TextOps
  <2>1. textRows'[c.op] = textRows[c.op]
    BY <1>5, CellOf DEF Untouched
  <2> QED BY <1>5, <2>1 DEF Pending, MemberPending, RanksPending, RankSteps, NoteOps, TextOps
<1> QED BY <1>1, <1>3, <1>4, <1>5

\* A step of the call of p: it leaves each cell alone, or is the only writer of
\* its own cell, which is then to be written to the cache or in order.
LEMMA KeepsMirror ==
  ASSUME TypeOK, MirrorInvariant, NEW p \in Players, up, \A q \in Players : q # p => calls'[q] = calls[q],
         raced \subseteq raced', slips \subseteq slips',
         \A cell \in Cells : Trusted(cell)' =>
           \/ Untouched(cell) /\ (calls[p].at = "cache" => cell # Cell(p))
           \/ /\ cell = Cell(p) /\ \A q \in Players : q # p /\ calls[q].at = "cache" => Cell(q) # cell
              /\ Busy(cell)' \/ Settled(cell)',
         calls'[p].at = "cache" =>
           /\ Cell(p)' = Cell(p)
           /\ \A q \in Players : q # p /\ calls[q].at = "cache" /\ Cell(q) = Cell(p) => Cell(p) \in raced'
           /\ Trusted(Cell(p))' => Pending(p)',
         NoGap'
  PROVE  MirrorInvariant'
<1>1. \A q \in Players : q # p => calls'[q] = calls[q] /\ Cell(q)' = Cell(q)
  BY CellStays
<1>2. \A cell \in Cells : Trusted(cell)' => Trusted(cell)
  BY DEF Trusted
<1>3. OneWriter'
  <2> SUFFICES ASSUME NEW a \in Players, NEW b \in Players, a # b, calls'[a].at = "cache", calls'[b].at = "cache", Cell(a)' = Cell(b)'
               PROVE  Cell(a)' \in raced'
    BY DEF OneWriter
  <2>1. CASE a # p /\ b # p
    <3>1. Cell(a) \in raced
      BY <1>1, <2>1 DEF MirrorInvariant, OneWriter
    <3> QED BY <1>1, <2>1, <3>1
  <2>2. CASE a = p
    BY <1>1, <2>2
  <2>3. CASE b = p
    BY <1>1, <2>3
  <2> QED BY <2>1, <2>2, <2>3
<1>4. WritesPending'
  <2> SUFFICES ASSUME NEW q \in Players, calls'[q].at = "cache", Trusted(Cell(q))' PROVE Pending(q)'
    BY DEF WritesPending
  <2>1. CASE q = p
    <3>1. Cell(p)' = Cell(p) /\ (Trusted(Cell(p))' => Pending(p)')
      BY <2>1
    <3>2. Trusted(Cell(p))'
      BY <2>1
    <3> QED BY <2>1, <3>1, <3>2
  <2>2. CASE q # p
    <3>1. calls[q].at = "cache" /\ calls'[q] = calls[q] /\ Cell(q)' = Cell(q)
      BY <1>1, <2>2
    <3>2. Cell(q) \in Cells
      <4>1. calls[q].op \notin {"none", "invite"}
        BY <3>1, CacheOps DEF RankSteps, NoteOps, TextOps, RankOps
      <4> QED BY <4>1, CellOfWriter
    <3> DEFINE d == Cell(q)
    <3>3. d \notin raced' /\ (d = "ranks" => "rank gap" \notin slips')
      BY <3>1 DEF Trusted
    <3>4. d \notin raced /\ (d = "ranks" => "rank gap" \notin slips)
      BY <3>3
    <3>5. Pending(q)
      BY <3>1, <3>4 DEF MirrorInvariant, WritesPending, Trusted
    <3>6. Untouched(d)
      <4> HIDE DEF d
      <4>1. d \in Cells
        BY <3>2 DEF d
      <4>2. \A cell \in Cells : cell \notin raced' /\ (cell = "ranks" => "rank gap" \notin slips') =>
              \/ Untouched(cell)
              \/ cell = Cell(p) /\ \A x \in Players : x # p /\ calls[x].at = "cache" => Cell(x) # cell
        BY DEF Trusted
      <4>3. Untouched(d) \/ \A x \in Players : x # p /\ calls[x].at = "cache" => Cell(x) # d
        BY <3>3, <4>1, <4>2
      <4> QED BY <2>2, <3>1, <4>3 DEF d
    <3> QED BY <3>1, <3>5, <3>6, PendingStays
  <2> QED BY <2>1, <2>2
<1>5. CellsSettled'
  <2> SUFFICES ASSUME NEW cell \in Cells, Trusted(cell)', ~Busy(cell)' PROVE Settled(cell)'
    BY DEF CellsSettled
  <2>1. CASE Untouched(cell) /\ (calls[p].at = "cache" => cell # Cell(p))
    <3>1. ~Busy(cell)
      <4> SUFFICES ASSUME NEW q \in Players, calls[q].at = "cache", Cell(q) = cell PROVE FALSE
        BY DEF Busy
      <4>1. q # p
        BY <2>1
      <4>2. calls'[q].at = "cache" /\ Cell(q)' = cell
        BY <1>1, <4>1
      <4> QED BY <4>2 DEF Busy
    <3>2. Settled(cell)
      BY <1>2, <3>1 DEF MirrorInvariant, CellsSettled
    <3> QED BY <2>1, <3>2, SettledStays
  <2> QED BY <2>1
<1> QED BY <1>3, <1>4, <1>5 DEF MirrorInvariant

\* Which cells the statement of p and its write of the cache leave alone.
LEMMA SameForItself == \A ms, t : SameFor(ms, ms, t)
BY DEF SameFor

LEMMA AllUntouched ==
  ASSUME UNCHANGED <<memberRows, rankRows, textRows, cache>>, NEW cell
  PROVE  Untouched(cell)
BY SameForItself DEF Untouched, SameMemberRow

LEMMA WriteUntouched ==
  ASSUME TypeOK, NEW p \in Players, calls[p].at = "statement", Write(p), cache' = cache, NEW cell \in Cells, cell # Cell(p)
  PROVE  Untouched(cell)
<1>1. Written(p) /\ calls[p] \in CallRecord /\ GoodCall(p, calls[p]) /\ calls[p].op # "none"
  BY WriteEffect DEF TypeOK, GoodCall
<1>2. MembersWritten(p) /\ RanksWritten(p)
  BY <1>1 DEF Written
<1>3. cell \in Players => SameMemberRow(cell) /\ SameFor(cache.members, cache'.members, cell)
  BY <1>2, SameForItself DEF MembersWritten, SameMemberRow
<1>4. cell = "ranks" => rankRows' = rankRows /\ cache'.ranks = cache.ranks
  BY <1>2, CellOf DEF RanksWritten
<1>5. cell \in TextOps => textRows'[cell] = textRows[cell] /\ cache'.texts[cell] = cache.texts[cell]
  <2>1. CASE calls[p].op \in TextOps
    <3>1. calls[p].op # cell
      BY <2>1, CellOf
    <3>2. textRows' = [textRows EXCEPT ![calls[p].op] = calls[p].value] /\ textRows \in Texts
      BY <1>1, <2>1 DEF Written, TypeOK, TablesOK
    <3> QED BY <3>1, <3>2 DEF Texts, TextOps
  <2>2. CASE calls[p].op \notin TextOps
    BY <1>1, <2>2 DEF Written
  <2> QED BY <2>1, <2>2
<1> QED BY <1>3, <1>4, <1>5 DEF Untouched

\* The members that each write of the cache leaves alone, and what it makes of
\* the one it is about.
LEMMA AddSettles ==
  ASSUME cache \in CacheRecord, NEW p \in Players, NEW v \in Byte
  PROVE  LET ns == AddGuildMember(p, v) IN
         /\ \A t : t # p => SameFor(cache.members, ns, t)
         /\ Absent(cache.members, p) => Sole(ns, p, Row(v))
<1> DEFINE ms == cache.members
           n == Len(ms)
           ns == AddGuildMember(p, v)
<1>1. /\ DOMAIN ns = 1..(n + 1)
      /\ \A k \in 1..n : /\ ns[k].who = ms[k].who /\ ns[k].row = ms[k].row
                         /\ ns[k].who # p => ns[k].linked = ms[k].linked
      /\ ns[n + 1].who = p /\ ns[n + 1].row = Row(v) /\ ns[n + 1].linked
  BY AddsMember
<1>2. n \in Nat /\ DOMAIN ms = 1..n
  BY MembersTyped
<1> HIDE DEF ms, n, ns
<1>3. /\ n + 1 \in DOMAIN ns /\ \A k \in DOMAIN ms : k \in DOMAIN ns /\ k # n + 1
      /\ \A k \in DOMAIN ns : k \in DOMAIN ms \/ k = n + 1
  BY <1>1, <1>2
<1>4. \A k \in DOMAIN ms : /\ ns[k].who = ms[k].who /\ ns[k].row = ms[k].row
                           /\ ns[k].who # p => ns[k].linked = ms[k].linked
  BY <1>1, <1>2
<1>5. ASSUME NEW t, t # p PROVE SameFor(ms, ns, t)
  <2>1. ASSUME NEW r, Sole(ms, t, r) PROVE Sole(ns, t, r)
    <3>1. PICK k \in DOMAIN ms : ms[k].who = t /\ ms[k].linked /\ ms[k].row = r /\ \A j \in DOMAIN ms : ms[j].who = t => j = k
      BY <2>1 DEF Sole
    <3>2. k \in DOMAIN ns /\ ns[k].who = t /\ ns[k].linked /\ ns[k].row = r
      BY <1>3, <1>4, <1>5, <3>1
    <3>3. \A j \in DOMAIN ns : ns[j].who = t => j = k
      BY <1>1, <1>3, <1>4, <1>5, <3>1
    <3> QED BY <3>2, <3>3 DEF Sole
  <2>2. Absent(ms, t) => Absent(ns, t)
    BY <1>1, <1>3, <1>4, <1>5 DEF Absent
  <2> QED BY <2>1, <2>2 DEF SameFor
<1>6. ASSUME Absent(ms, p) PROVE Sole(ns, p, Row(v))
  <2>1. \A j \in DOMAIN ns : ns[j].who = p => j = n + 1
    BY <1>3, <1>4, <1>6 DEF Absent
  <2> QED BY <1>1, <1>3, <2>1 DEF Sole
<1> QED BY <1>5, <1>6 DEF ms, ns

LEMMA RemoveSettles ==
  ASSUME cache \in CacheRecord, NEW t
  PROVE  LET ns == RemoveGuildMember(t) IN
         /\ \A u : u # t => SameFor(cache.members, ns, u)
         /\ Absent(cache.members, t) => Absent(ns, t)
         /\ \A r : Sole(cache.members, t, r) => Absent(ns, t)
<1> DEFINE ms == cache.members
           n == Len(ms)
           ns == RemoveGuildMember(t)
           i == Min(Entries(t))
<1>1. n \in Nat /\ DOMAIN ms = 1..n
  BY MembersTyped
<1>2. CASE ~Linked(t)
  <2>1. ns = ms
    BY <1>2, RemovesMember
  <2>2. \A r : ~Sole(ms, t, r)
    BY <1>2 DEF Sole, Linked, Entries
  <2> HIDE DEF ns
  <2> QED BY <2>1, <2>2, SameForItself DEF ns
<1>3. CASE Linked(t)
  <2>1. /\ i \in Entries(t) /\ DOMAIN ns = 1..(n - 1)
        /\ \A k \in DOMAIN ns :
             LET j == IF k < i THEN k ELSE k + 1 IN
             /\ ns[k].who = ms[j].who /\ ns[k].row = ms[j].row
             /\ ns[k].who # t => ns[k].linked = ms[j].linked
    BY <1>3, RemovesMember
  <2>2. i \in DOMAIN ms /\ ms[i].who = t
    BY <2>1 DEF Entries
  <2> HIDE DEF ms, n, ns, i
  <2> DEFINE to[k \in Int] == IF k < i THEN k ELSE k + 1
             from[j \in Int] == IF j < i THEN j ELSE j - 1
  <2>3. i \in 1..n
    BY <1>1, <2>2
  <2>4. \A k \in DOMAIN ns : /\ to[k] \in DOMAIN ms /\ to[k] # i
                             /\ ns[k].who = ms[to[k]].who /\ ns[k].row = ms[to[k]].row
                             /\ ns[k].who # t => ns[k].linked = ms[to[k]].linked
    <3>1. \A k \in DOMAIN ns : to[k] = IF k < i THEN k ELSE k + 1
      BY <2>1
    <3>2. \A k \in DOMAIN ns : (IF k < i THEN k ELSE k + 1) \in 1..n /\ (IF k < i THEN k ELSE k + 1) # i
      BY <1>1, <2>1, <2>3
    <3> QED BY <1>1, <2>1, <3>1, <3>2
  <2>5. \A j \in DOMAIN ms : j # i => from[j] \in DOMAIN ns /\ to[from[j]] = j
    <3>1. i \in Int /\ \A j \in DOMAIN ms : j \in Int /\ from[j] = IF j < i THEN j ELSE j - 1
      BY <1>1, <2>3
    <3>2. \A k \in Int : to[k] = IF k < i THEN k ELSE k + 1
      OBVIOUS
    <3> HIDE DEF from, to
    <3>3. ASSUME NEW j \in DOMAIN ms, j # i PROVE from[j] \in DOMAIN ns /\ to[from[j]] = j
      <4>1. CASE j < i
        <5>1. from[j] = j /\ to[j] = j
          BY <3>1, <3>2, <4>1
        <5> QED BY <1>1, <2>1, <2>3, <4>1, <5>1
      <4>2. CASE ~(j < i)
        <5>1. from[j] = j - 1 /\ j - 1 \in Int /\ ~(j - 1 < i)
          BY <3>1, <3>3, <4>2
        <5>2. to[j - 1] = j - 1 + 1
          BY <3>2, <5>1
        <5>3. j - 1 \in DOMAIN ns /\ j - 1 + 1 = j
          BY <1>1, <2>1, <2>3, <3>3, <4>2
        <5> QED BY <5>1, <5>2, <5>3
      <4> QED BY <4>1, <4>2
    <3> QED BY <3>3
  <2>6. \A j, k \in DOMAIN ns : to[j] = to[k] => j = k
    <3>1. i \in Int /\ \A k \in DOMAIN ns : k \in Int /\ to[k] = IF k < i THEN k ELSE k + 1
      BY <1>1, <2>1, <2>3
    <3> HIDE DEF to
    <3>2. ASSUME NEW j \in DOMAIN ns, NEW k \in DOMAIN ns, to[j] = to[k] PROVE j = k
      BY <3>1, <3>2
    <3> QED BY <3>2
  <2> HIDE DEF to, from
  <2>7. ASSUME NEW u, u # t PROVE SameFor(ms, ns, u)
    <3>1. ASSUME NEW r, Sole(ms, u, r) PROVE Sole(ns, u, r)
      <4>1. PICK j \in DOMAIN ms : ms[j].who = u /\ ms[j].linked /\ ms[j].row = r /\ \A l \in DOMAIN ms : ms[l].who = u => l = j
        BY <3>1 DEF Sole
      <4>2. j # i
        BY <2>2, <2>7, <4>1
      <4> DEFINE k == from[j]
      <4>3. k \in DOMAIN ns /\ to[k] = j
        BY <2>5, <4>1, <4>2
      <4> HIDE DEF k
      <4>4. ns[k].who = u /\ ns[k].linked /\ ns[k].row = r
        BY <2>4, <2>7, <4>1, <4>3
      <4>5. \A l \in DOMAIN ns : ns[l].who = u => l = k
        BY <2>4, <2>6, <4>1, <4>3
      <4> QED BY <4>3, <4>4, <4>5 DEF Sole
    <3>2. Absent(ms, u) => Absent(ns, u)
      BY <2>4 DEF Absent
    <3> QED BY <3>1, <3>2 DEF SameFor
  <2>8. Absent(ms, t) => Absent(ns, t)
    BY <2>4 DEF Absent
  <2>9. ASSUME NEW r, Sole(ms, t, r) PROVE Absent(ns, t)
    <3>1. \A j \in DOMAIN ms : ms[j].who = t => j = i
      BY <2>2, <2>9 DEF Sole
    <3> QED BY <2>4, <3>1 DEF Absent
  <2> QED BY <2>7, <2>8, <2>9 DEF ms, ns
<1> QED BY <1>2, <1>3

\* A list with the same players and links, and rows that change for one.
LEMMA ChangeSettles ==
  ASSUME NEW ms, NEW ns, NEW t, NEW r, NEW s, DOMAIN ns = DOMAIN ms,
         \A k \in DOMAIN ms : /\ ns[k].who = ms[k].who /\ ns[k].linked = ms[k].linked
                              /\ ms[k].who # t => ns[k].row = ms[k].row
                              /\ ms[k].who = t /\ ms[k].linked /\ ms[k].row = r => ns[k].row = s
  PROVE  /\ \A u : u # t => SameFor(ms, ns, u)
         /\ Absent(ms, t) => Absent(ns, t)
         /\ Sole(ms, t, r) => Sole(ns, t, s)
<1>1. ASSUME NEW u, u # t, NEW x, Sole(ms, u, x) PROVE Sole(ns, u, x)
  <2>1. PICK k \in DOMAIN ms : ms[k].who = u /\ ms[k].linked /\ ms[k].row = x /\ \A j \in DOMAIN ms : ms[j].who = u => j = k
    BY <1>1 DEF Sole
  <2>2. k \in DOMAIN ns /\ ns[k].who = u /\ ns[k].linked /\ ns[k].row = x
    BY <1>1, <2>1
  <2>3. \A j \in DOMAIN ns : ns[j].who = u => j = k
    BY <2>1
  <2> QED BY <2>2, <2>3 DEF Sole
<1>2. ASSUME Sole(ms, t, r) PROVE Sole(ns, t, s)
  <2>1. PICK k \in DOMAIN ms : ms[k].who = t /\ ms[k].linked /\ ms[k].row = r /\ \A j \in DOMAIN ms : ms[j].who = t => j = k
    BY <1>2 DEF Sole
  <2>2. k \in DOMAIN ns /\ ns[k].who = t /\ ns[k].linked /\ ns[k].row = s
    BY <2>1
  <2>3. \A j \in DOMAIN ns : ns[j].who = t => j = k
    BY <2>1
  <2> QED BY <2>2, <2>3 DEF Sole
<1>3. \A u : Absent(ms, u) => Absent(ns, u)
  BY DEF Absent
<1> QED BY <1>1, <1>2, <1>3 DEF SameFor

LEMMA RankSettles ==
  ASSUME cache \in CacheRecord, NEW t, NEW v \in Byte
  PROVE  LET ns == Update({t}, "rank", v) IN
         /\ \A u : u # t => SameFor(cache.members, ns, u)
         /\ Absent(cache.members, t) => Absent(ns, t)
         /\ \A r : Sole(cache.members, t, r) => Sole(ns, t, [r EXCEPT !.rank = v])
<1> DEFINE ms == cache.members
           ns == Update({t}, "rank", v)
<1>1. /\ ns \in Seq(MemberEntry) /\ DOMAIN ns = DOMAIN ms
      /\ \A k \in DOMAIN ms :
           /\ ns[k].who = ms[k].who /\ ns[k].linked = ms[k].linked
           /\ ns[k].row = IF ms[k].who = t /\ ms[k].linked THEN [ms[k].row EXCEPT !.rank = v] ELSE ms[k].row
  BY UpdatesRank
<1> HIDE DEF ms, ns
<1>2. ASSUME NEW r PROVE /\ \A u : u # t => SameFor(ms, ns, u)
                         /\ Absent(ms, t) => Absent(ns, t)
                         /\ Sole(ms, t, r) => Sole(ns, t, [r EXCEPT !.rank = v])
  <2> DEFINE s == [r EXCEPT !.rank = v]
  <2>1. \A k \in DOMAIN ms : /\ ns[k].who = ms[k].who /\ ns[k].linked = ms[k].linked
                             /\ ms[k].who # t => ns[k].row = ms[k].row
                             /\ ms[k].who = t /\ ms[k].linked /\ ms[k].row = r => ns[k].row = s
    BY <1>1
  <2> HIDE DEF s
  <2>2. DOMAIN ns = DOMAIN ms
    BY <1>1
  <2> QED BY <2>1, <2>2, ChangeSettles DEF s
<1> QED BY <1>2 DEF ms, ns

LEMMA NoteSettles ==
  ASSUME cache \in CacheRecord, NEW t, NEW f \in NoteOps, NEW v \in Note
  PROVE  LET ns == Update({t}, f, v) IN
         /\ \A u : u # t => SameFor(cache.members, ns, u)
         /\ Absent(cache.members, t) => Absent(ns, t)
         /\ \A r : Sole(cache.members, t, r) => Sole(ns, t, [r EXCEPT ![f] = v])
<1> DEFINE ms == cache.members
           ns == Update({t}, f, v)
<1>1. /\ ns \in Seq(MemberEntry) /\ DOMAIN ns = DOMAIN ms
      /\ \A k \in DOMAIN ms :
           /\ ns[k].who = ms[k].who /\ ns[k].linked = ms[k].linked
           /\ ns[k].row = IF ms[k].who = t /\ ms[k].linked THEN [ms[k].row EXCEPT ![f] = v] ELSE ms[k].row
  BY UpdatesNote
<1> HIDE DEF ms, ns
<1>2. ASSUME NEW r PROVE /\ \A u : u # t => SameFor(ms, ns, u)
                         /\ Absent(ms, t) => Absent(ns, t)
                         /\ Sole(ms, t, r) => Sole(ns, t, [r EXCEPT ![f] = v])
  <2> DEFINE s == [r EXCEPT ![f] = v]
  <2>1. \A k \in DOMAIN ms : /\ ns[k].who = ms[k].who /\ ns[k].linked = ms[k].linked
                             /\ ms[k].who # t => ns[k].row = ms[k].row
                             /\ ms[k].who = t /\ ms[k].linked /\ ms[k].row = r => ns[k].row = s
    BY <1>1
  <2> HIDE DEF s
  <2>2. DOMAIN ns = DOMAIN ms
    BY <1>1
  <2> QED BY <2>1, <2>2, ChangeSettles DEF s
<1> QED BY <1>2 DEF ms, ns

\* What the cache write of p leaves alone, and that it brings its own cell in order.
LEMMA MemberCacheSettles ==
  ASSUME TypeOK, NEW p \in Players, WriteCache(p), NEW cell \in Cells,
         calls[p].op \in {"accept", "leave", "kick"} \cup RankSteps \cup NoteOps
  PROVE  /\ cell # Cell(p) => Untouched(cell)
         /\ Pending(p) /\ cell = Cell(p) => Settled(cell)'
<1> DEFINE c == calls[p]
           t == c.target
           ms == cache.members
           ns == cache'.members
<1>1. /\ c.at = "cache" /\ Cached(p) /\ cache \in CacheRecord /\ cache' \in CacheRecord /\ GoodCall(p, c)
      /\ UNCHANGED <<memberRows, rankRows, textRows>>
  BY WriteCacheEffect DEF TypeOK
<1>2. \A u : SameMemberRow(u)
  BY <1>1 DEF SameMemberRow
<1>3. cache'.ranks = cache.ranks /\ cache'.texts = cache.texts
  <2>1. c.op \notin RankOps \cup TextOps
    BY DEF RankSteps, NoteOps, RankOps, TextOps
  <2> QED BY <1>1, <2>1, CachedBy
<1>4. Cell(p) \in Players
  <2>1. c.op \notin {"none", "invite"}
    BY DEF RankSteps, NoteOps
  <2> QED BY <2>1, CellOfWriter
<1>5. ASSUME \A u : u # Cell(p) => SameFor(ms, ns, u),
             Pending(p) /\ cell = Cell(p) => IF cell \in DOMAIN memberRows THEN Sole(ns, cell, memberRows[cell]) ELSE Absent(ns, cell)
      PROVE  /\ cell # Cell(p) => Untouched(cell)
             /\ Pending(p) /\ cell = Cell(p) => Settled(cell)'
  <2>1. cell # Cell(p) => Untouched(cell)
    BY <1>1, <1>2, <1>3, <1>5 DEF Untouched
  <2>2. ASSUME Pending(p), cell = Cell(p) PROVE Settled(cell)'
    <3>1. IF cell \in DOMAIN memberRows' THEN Sole(ns, cell, memberRows'[cell]) ELSE Absent(ns, cell)
      BY <1>1, <1>5, <2>2
    <3>2. MemberSettled(cell)'
      BY <3>1 DEF MemberSettled, Sole, Absent
    <3>3. cell \in Players
      BY <1>4, <2>2
    <3> QED BY <3>2, <3>3, CellsDiffer DEF Settled
  <2> QED BY <2>1, <2>2
<1>6. CASE c.op = "accept"
  <2>1. ns = AddGuildMember(p, c.value)
    BY <1>1, <1>6, CachedBy
  <2>2. c.value \in Byte /\ Cell(p) = p
    BY <1>1, <1>6, CellOf DEF GoodCall
  <2>3. (\A u : u # p => SameFor(ms, ns, u)) /\ (Absent(ms, p) => Sole(ns, p, Row(c.value)))
    BY <1>1, <2>1, <2>2, AddSettles
  <2>4. Pending(p) => p \in DOMAIN memberRows /\ memberRows[p] = Row(c.value) /\ Absent(ms, p)
    BY <1>6 DEF Pending, MemberPending
  <2> QED BY <1>5, <2>2, <2>3, <2>4
<1>7. CASE c.op \in {"leave", "kick"}
  <2>1. ns = RemoveGuildMember(t)
    BY <1>1, <1>7, CachedBy
  <2>2. Cell(p) = t
    BY <1>1, <1>7, CellOf DEF GoodCall
  <2>3. /\ \A u : u # t => SameFor(ms, ns, u)
        /\ Absent(ms, t) => Absent(ns, t)
        /\ \A r : Sole(ms, t, r) => Absent(ns, t)
    BY <1>1, <2>1, RemoveSettles
  <2>4. Pending(p) => t \notin DOMAIN memberRows /\ (Absent(ms, t) \/ \E r \in MemberRow : Sole(ms, t, r))
    BY <1>7 DEF Pending, MemberPending
  <2> QED BY <1>5, <2>2, <2>3, <2>4
<1>8. CASE c.op \in RankSteps
  <2>1. ns = Update({t}, "rank", c.value)
    BY <1>1, <1>8, CachedBy
  <2>2. c.value \in Byte /\ Cell(p) = t
    BY <1>1, <1>8, CellOf DEF GoodCall
  <2>3. /\ \A u : u # t => SameFor(ms, ns, u)
        /\ Absent(ms, t) => Absent(ns, t)
        /\ \A r : Sole(ms, t, r) => Sole(ns, t, [r EXCEPT !.rank = c.value])
    <3> HIDE DEF t
    <3> QED BY <1>1, <2>1, <2>2, RankSettles
  <2>4. Pending(p) => IF t \in DOMAIN memberRows
                      THEN \E r \in MemberRow : Sole(ms, t, r) /\ memberRows[t] = [r EXCEPT !.rank = c.value]
                      ELSE Absent(ms, t)
    BY <1>8 DEF Pending, MemberPending
  <2>5. Pending(p) => IF t \in DOMAIN memberRows THEN Sole(ns, t, memberRows[t]) ELSE Absent(ns, t)
    <3> SUFFICES ASSUME Pending(p) PROVE IF t \in DOMAIN memberRows THEN Sole(ns, t, memberRows[t]) ELSE Absent(ns, t)
      OBVIOUS
    <3>1. CASE t \in DOMAIN memberRows
      <4>1. PICK r \in MemberRow : Sole(ms, t, r) /\ memberRows[t] = [r EXCEPT !.rank = c.value]
        BY <2>4, <3>1
      <4>2. Sole(ns, t, [r EXCEPT !.rank = c.value])
        BY <2>3, <4>1
      <4> QED BY <3>1, <4>1, <4>2
    <3>2. CASE t \notin DOMAIN memberRows
      BY <2>3, <2>4, <3>2
    <3> QED BY <3>1, <3>2
  <2> QED BY <1>5, <2>2, <2>3, <2>5
<1>9. CASE c.op \in NoteOps
  <2>1. ns = Update({t}, c.op, c.value)
    BY <1>1, <1>9, CachedBy
  <2>2. c.value \in Note /\ Cell(p) = t
    BY <1>1, <1>9, CellOf DEF GoodCall
  <2>3. /\ \A u : u # t => SameFor(ms, ns, u)
        /\ Absent(ms, t) => Absent(ns, t)
        /\ \A r : Sole(ms, t, r) => Sole(ns, t, [r EXCEPT ![c.op] = c.value])
    <3> DEFINE f == c.op
               v == c.value
               xs == Update({t}, f, v)
    <3>1. f \in NoteOps /\ v \in Note /\ cache \in CacheRecord
      BY <1>1, <1>9, <2>2
    <3> HIDE DEF t, f, v
    <3>2. /\ \A u : u # t => SameFor(ms, xs, u)
          /\ Absent(ms, t) => Absent(xs, t)
          /\ \A r : Sole(ms, t, r) => Sole(xs, t, [r EXCEPT ![f] = v])
      BY <3>1, NoteSettles
    <3> HIDE DEF xs
    <3>3. ns = xs
      BY <2>1 DEF xs, f, v
    <3> QED BY <3>2, <3>3 DEF f, v
  <2>4. Pending(p) => IF t \in DOMAIN memberRows
                      THEN \E r \in MemberRow : Sole(ms, t, r) /\ memberRows[t] = [r EXCEPT ![c.op] = c.value]
                      ELSE Absent(ms, t)
    BY <1>9 DEF Pending, MemberPending
  <2>5. Pending(p) => IF t \in DOMAIN memberRows THEN Sole(ns, t, memberRows[t]) ELSE Absent(ns, t)
    <3> SUFFICES ASSUME Pending(p) PROVE IF t \in DOMAIN memberRows THEN Sole(ns, t, memberRows[t]) ELSE Absent(ns, t)
      OBVIOUS
    <3>1. CASE t \in DOMAIN memberRows
      <4>1. PICK r \in MemberRow : Sole(ms, t, r) /\ memberRows[t] = [r EXCEPT ![c.op] = c.value]
        BY <2>4, <3>1
      <4>2. Sole(ns, t, [r EXCEPT ![c.op] = c.value])
        BY <2>3, <4>1
      <4> QED BY <3>1, <4>1, <4>2
    <3>2. CASE t \notin DOMAIN memberRows
      BY <2>3, <2>4, <3>2
    <3> QED BY <3>1, <3>2
  <2> QED BY <1>5, <2>2, <2>3, <2>5
<1> QED BY <1>6, <1>7, <1>8, <1>9

LEMMA RanksCacheSettles ==
  ASSUME TypeOK, NEW p \in Players, WriteCache(p), calls[p].op \in RankOps, Pending(p)
  PROVE  RanksSettled'
<1> DEFINE c == calls[p]
           rs == cache.ranks
           qs == cache'.ranks
           n == Len(rs)
<1>1. /\ Cached(p) /\ cache \in CacheRecord /\ cache' \in CacheRecord /\ GoodCall(p, c) /\ c.at = "cache"
      /\ UNCHANGED <<memberRows, rankRows, textRows>>
  BY WriteCacheEffect DEF TypeOK
<1>2. n \in Nat /\ DOMAIN rs = 1..n /\ DOMAIN qs = 1..Len(qs) /\ Len(qs) \in Nat
  <2>1. cache'.ranks \in Seq(RankEntry)
    BY <1>1 DEF CacheRecord
  <2> QED BY <1>1, <2>1, MembersTyped, LenProperties
<1>3. RanksPending(p)
  BY DEF Pending
<1>4. CASE c.op = "rank"
  <2> DEFINE v == c.value
             id == c.target
  <2>1. qs = UpdateGuildRank(id, v)
    BY <1>1, <1>4, CachedBy
  <2>2. id \in Byte /\ v \in GuildRights
    BY <1>1, <1>4 DEF GoodCall
  <2>3. /\ DOMAIN rankRows = 0..(n - 1)
        /\ \A k \in DOMAIN rs : rs[k].id = k - 1 /\ rankRows[k - 1] = IF k - 1 = id THEN v ELSE rs[k].rights
    BY <1>3, <1>4 DEF RanksPending
  <2> HIDE DEF id, v
  <2>4. /\ Len(qs) = n /\ DOMAIN qs = DOMAIN rs
        /\ \A k \in DOMAIN rs :
              /\ qs[k].id = rs[k].id
              /\ qs[k] = rs[k] \/ (rs[k].id = id /\ qs[k].rights = v)
              /\ rs[k].id = id /\ (\A j \in DOMAIN rs : j # k => rs[j].id # id) => qs[k].rights = v
    BY <1>1, <2>1, <2>2, UpdatesRights
  <2> HIDE DEF rs, qs, n
  <2>5. \A j, k \in DOMAIN rs : rs[j].id = rs[k].id => j = k
    BY <1>2, <2>3
  <2>6. ASSUME NEW k \in DOMAIN rs PROVE qs[k].id = k - 1 /\ qs[k].rights = rankRows[k - 1]
    <3>1. qs[k].id = k - 1
      BY <2>3, <2>4
    <3>2. CASE k - 1 = id
      <4>1. \A j \in DOMAIN rs : j # k => rs[j].id # id
        BY <2>3, <2>5, <3>2
      <4> QED BY <2>3, <2>4, <3>1, <3>2, <4>1
    <3>3. CASE k - 1 # id
      BY <2>3, <2>4, <3>1, <3>3
    <3> QED BY <3>1, <3>2, <3>3
  <2> QED BY <1>1, <2>3, <2>4, <2>6 DEF RanksSettled, qs
<1>5. CASE c.op = "addRank"
  <2> DEFINE v == c.value
  <2>1. qs = Append(rs, [id |-> v, rights |-> RightEmpty])
    BY <1>1, <1>5, CachedBy
  <2>2. v \in Byte
    BY <1>1, <1>5 DEF GoodCall
  <2>3. /\ v = n /\ DOMAIN rankRows = 0..n /\ rankRows[n] = RightEmpty
        /\ \A k \in DOMAIN rs : rs[k].id = k - 1 /\ rs[k].rights = rankRows[k - 1]
    BY <1>3, <1>5 DEF RanksPending
  <2> HIDE DEF v
  <2>4. Len(qs) = n + 1 /\ DOMAIN qs = 1..(n + 1) /\ (\A k \in 1..n : qs[k] = rs[k]) /\ qs[n + 1] = [id |-> v, rights |-> RightEmpty]
    BY <1>1, <2>1, <2>2, AddsRank
  <2> HIDE DEF rs, qs, n
  <2>5. ASSUME NEW k \in DOMAIN qs PROVE qs[k].id = k - 1 /\ qs[k].rights = rankRows[k - 1]
    <3>1. k \in 1..n \/ k = n + 1
      BY <1>2, <2>4
    <3>2. CASE k = n + 1
      <4>1. k - 1 = n
        BY <1>2, <3>2
      <4> QED BY <2>3, <2>4, <3>2, <4>1
    <3>3. CASE k \in 1..n
      BY <1>2, <2>3, <2>4, <3>3
    <3> QED BY <3>1, <3>2, <3>3
  <2>6. DOMAIN rankRows = 0..(Len(qs) - 1)
    BY <1>2, <2>3, <2>4
  <2> QED BY <1>1, <2>5, <2>6 DEF RanksSettled, qs
<1>6. CASE c.op = "delRank"
  <2> DEFINE v == c.value
  <2>1. qs = DeleteLowestGuildRank(v)
    BY <1>1, <1>6, CachedBy
  <2>2. v \in Byte
    BY <1>1, <1>6 DEF GoodCall
  <2>3. /\ DOMAIN rankRows = {id \in 0..(n - 1) : id < v}
        /\ \A k \in DOMAIN rs : rs[k].id = k - 1 /\ (k - 1 < v => rs[k].rights = rankRows[k - 1])
    BY <1>3, <1>6 DEF RanksPending
  <2> HIDE DEF v
  <2>4. Len(qs) = (IF v > n THEN n ELSE v) /\ \A k \in DOMAIN qs : k \in DOMAIN rs /\ qs[k] = rs[k]
    BY <1>1, <2>1, <2>2, KeepsFirstRanks
  <2>5. v \in 0..255
    BY <2>2 DEF Byte
  <2> HIDE DEF rs, qs, n
  <2>6. DOMAIN rankRows = 0..(Len(qs) - 1)
    <3>1. {id \in 0..(n - 1) : id < v} = 0..(Len(qs) - 1)
      BY <1>2, <2>4, <2>5
    <3> QED BY <2>3, <3>1
  <2>7. ASSUME NEW k \in DOMAIN qs PROVE qs[k].id = k - 1 /\ qs[k].rights = rankRows[k - 1]
    <3>1. k \in DOMAIN rs /\ qs[k] = rs[k]
      BY <2>4
    <3>2. k - 1 < v
      BY <1>2, <2>4, <2>5
    <3> QED BY <2>3, <3>1, <3>2
  <2> QED BY <1>1, <2>6, <2>7 DEF RanksSettled, qs
<1> QED BY <1>4, <1>5, <1>6 DEF RankOps

LEMMA CacheSettles ==
  ASSUME TypeOK, NEW p \in Players, WriteCache(p), NEW cell \in Cells
  PROVE  /\ cell # Cell(p) => Untouched(cell)
         /\ Pending(p) /\ cell = Cell(p) => Settled(cell)'
<1> DEFINE c == calls[p]
<1>1. /\ c.at = "cache" /\ Cached(p) /\ cache \in CacheRecord /\ cache' \in CacheRecord /\ GoodCall(p, c)
      /\ UNCHANGED <<memberRows, rankRows, textRows>>
  BY WriteCacheEffect DEF TypeOK
<1>2. c.op \in {"accept", "leave", "kick"} \cup RankSteps \cup NoteOps \cup TextOps \cup RankOps
  BY <1>1, CacheOps
<1>3. CASE c.op \in {"accept", "leave", "kick"} \cup RankSteps \cup NoteOps
  BY <1>3, MemberCacheSettles
<1>4. CASE c.op \in RankOps
  <2>1. Cell(p) = "ranks" /\ c.op \in TextOps \cup RankOps /\ c.op \notin TextOps
    BY <1>4, CellOf DEF RankOps, TextOps
  <2>2. cache'.members = cache.members /\ cache'.texts = cache.texts
    BY <1>1, <2>1, CachedBy
  <2>3. cell # Cell(p) => Untouched(cell)
    BY <1>1, <2>1, <2>2, SameForItself DEF Untouched, SameMemberRow
  <2>4. ASSUME Pending(p), cell = Cell(p) PROVE Settled(cell)'
    BY <1>4, <2>1, <2>4, RanksCacheSettles, CellsDiffer DEF Settled
  <2> QED BY <2>3, <2>4
<1>5. CASE c.op \in TextOps
  <2>1. Cell(p) = c.op /\ c.op \in TextOps \cup RankOps /\ c.op \notin RankOps
    BY <1>5, CellOf DEF RankOps, TextOps
  <2>2. cache'.members = cache.members /\ cache'.ranks = cache.ranks
    BY <1>1, <2>1, CachedBy
  <2>3. cache'.texts = [cache.texts EXCEPT ![c.op] = c.value] /\ cache.texts \in Texts
    BY <1>1, <1>5, CachedBy, MembersTyped
  <2>4. cache'.texts[c.op] = c.value /\ \A f \in TextOps : f # c.op => cache'.texts[f] = cache.texts[f]
    BY <1>5, <2>3 DEF Texts, TextOps
  <2>5. cell # Cell(p) => Untouched(cell)
    BY <1>1, <2>1, <2>2, <2>4, SameForItself DEF Untouched, SameMemberRow
  <2>6. ASSUME Pending(p), cell = Cell(p) PROVE Settled(cell)'
    <3>1. cell \in TextOps /\ cell = c.op /\ textRows'[cell] = c.value
      BY <1>1, <1>5, <2>1, <2>6 DEF Pending
    <3> QED BY <2>4, <3>1, CellsDiffer DEF Settled
  <2> QED BY <2>5, <2>6
<1> QED BY <1>2, <1>3, <1>4, <1>5

\* A statement that nobody overlaps leaves the cache one write behind.
LEMMA WritePends ==
  ASSUME TypeOK, NEW p \in Players, calls[p].at = "statement", calls[p].op # "invite", ~DuplicateKey(p), Write(p),
         cache' = cache, Settled(Cell(p)), Cell(p) = "ranks" => "rank gap" \notin slips',
         calls'[p].op = calls[p].op, calls'[p].target = calls[p].target, calls'[p].value = calls[p].value
  PROVE  Pending(p)'
<1> DEFINE c == calls[p]
           t == c.target
           ms == cache.members
           rs == cache.ranks
           n == Len(rs)
<1>1. /\ c \in CallRecord /\ GoodCall(p, c) /\ c.op # "none" /\ Written(p) /\ cache \in CacheRecord /\ TablesOK
  BY WriteEffect DEF TypeOK, GoodCall
<1>2. MembersWritten(p) /\ RanksWritten(p)
  BY <1>1 DEF Written
<1>3. c.op \in {"accept", "leave", "kick"} \cup RankSteps \cup NoteOps \cup TextOps \cup RankOps
  BY <1>1 DEF CallRecord, Ops
<1>4. CASE c.op \in {"accept", "leave", "kick"} \cup RankSteps \cup NoteOps
  <2> DEFINE d == Cell(p)
  <2>1. d \in Players /\ (c.op = "accept" => d = p) /\ (c.op \in {"leave", "kick"} \cup RankSteps \cup NoteOps => d = t)
    BY <1>1, <1>4, CellOfWriter, CellOf
  <2>2. IF d \in DOMAIN memberRows THEN Sole(ms, d, memberRows[d]) ELSE Absent(ms, d)
    BY <2>1 DEF Settled, MemberSettled
  <2>3. d \in DOMAIN memberRows => memberRows[d] \in MemberRow
    BY <1>1 DEF TablesOK
  <2>4. /\ c.op = "accept" => d \in DOMAIN memberRows' /\ memberRows'[d] = Row(c.value)
        /\ c.op \in {"leave", "kick"} => d \notin DOMAIN memberRows'
        /\ c.op \in RankSteps \cup NoteOps => (d \in DOMAIN memberRows' <=> d \in DOMAIN memberRows)
        /\ c.op \in RankSteps /\ d \in DOMAIN memberRows => memberRows'[d] = [memberRows[d] EXCEPT !.rank = c.value]
        /\ c.op \in NoteOps /\ d \in DOMAIN memberRows => memberRows'[d] = [memberRows[d] EXCEPT ![c.op] = c.value]
    BY <1>2 DEF MembersWritten
  <2>5. c.op = "accept" => d \notin DOMAIN memberRows
    BY <2>1 DEF DuplicateKey
  <2> HIDE DEF d
  <2>6. c.op = "accept" => p \in DOMAIN memberRows' /\ memberRows'[p] = Row(c.value) /\ Absent(ms, p)
    BY <2>1, <2>2, <2>4, <2>5
  <2>7. c.op \in {"leave", "kick"} => t \notin DOMAIN memberRows' /\ (Absent(ms, t) \/ \E r \in MemberRow : Sole(ms, t, r))
    BY <2>1, <2>2, <2>3, <2>4
  <2>8. c.op \in RankSteps =>
          IF t \in DOMAIN memberRows'
          THEN \E r \in MemberRow : Sole(ms, t, r) /\ memberRows'[t] = [r EXCEPT !.rank = c.value]
          ELSE Absent(ms, t)
    BY <2>1, <2>2, <2>3, <2>4
  <2>9. c.op \in NoteOps =>
          IF t \in DOMAIN memberRows'
          THEN \E r \in MemberRow : Sole(ms, t, r) /\ memberRows'[t] = [r EXCEPT ![c.op] = c.value]
          ELSE Absent(ms, t)
    BY <2>1, <2>2, <2>3, <2>4
  <2>10. MemberPending(p)'
    <3>1. /\ \A x, r : Sole(ms, x, r) <=> Sole(cache.members, x, r)'
          /\ \A x : Absent(ms, x) <=> Absent(cache.members, x)'
      BY DEF Sole, Absent
    <3> QED BY <2>6, <2>7, <2>8, <2>9, <3>1 DEF MemberPending
  <2>11. RanksPending(p)'
    BY <1>4 DEF RanksPending, RankSteps, NoteOps
  <2> QED BY <1>4, <2>10, <2>11 DEF Pending, RankSteps, NoteOps, TextOps
<1>5. CASE c.op \in TextOps
  <2>1. textRows' = [textRows EXCEPT ![c.op] = c.value] /\ textRows \in Texts
    BY <1>1, <1>5 DEF Written, TablesOK
  <2>2. textRows'[c.op] = c.value
    BY <1>5, <2>1 DEF Texts, TextOps
  <2> QED BY <1>5, <2>2 DEF Pending, MemberPending, RanksPending, RankSteps, NoteOps, TextOps
<1>6. CASE c.op \in RankOps
  <2>1. RanksSettled /\ "rank gap" \notin slips'
    BY <1>6, CellOf DEF Settled
  <2>2. n \in Nat /\ DOMAIN rs = 1..n /\ DOMAIN rankRows = 0..(n - 1)
        /\ \A k \in DOMAIN rs : rs[k].id = k - 1 /\ rs[k].rights = rankRows[k - 1] /\ k - 1 \in DOMAIN rankRows
    <3>1. n \in Nat /\ DOMAIN rs = 1..n
      BY <1>1, MembersTyped
    <3>2. DOMAIN rankRows = 0..(n - 1) /\ \A k \in DOMAIN rs : rs[k].id = k - 1 /\ rs[k].rights = rankRows[k - 1]
      BY <2>1 DEF RanksSettled
    <3> HIDE DEF rs, n
    <3>3. \A k \in 1..n : k - 1 \in 0..(n - 1)
      BY <3>1, FromZero
    <3> QED BY <3>1, <3>2, <3>3
  <2> DEFINE v == c.value
  <2>3. c.op = "rank" =>
          /\ DOMAIN rankRows' = 0..(n - 1)
          /\ \A k \in DOMAIN rs : rs[k].id = k - 1 /\ rankRows'[k - 1] = IF k - 1 = t THEN v ELSE rs[k].rights
    <3> HIDE DEF rs, n
    <3> QED BY <1>2, <2>2 DEF RanksWritten
  <2>4. c.op = "addRank" =>
          /\ v = n /\ DOMAIN rankRows' = 0..n /\ rankRows'[n] = RightEmpty
          /\ \A k \in DOMAIN rs : rs[k].id = k - 1 /\ rs[k].rights = rankRows'[k - 1]
    <3> SUFFICES ASSUME c.op = "addRank"
                 PROVE  /\ v = n /\ DOMAIN rankRows' = 0..n /\ rankRows'[n] = RightEmpty
                        /\ \A k \in DOMAIN rs : rs[k].id = k - 1 /\ rs[k].rights = rankRows'[k - 1]
      OBVIOUS
    <3>1. v \in Byte /\ v \notin DOMAIN rankRows /\ v - 1 \in DOMAIN rankRows
      BY <1>1, <2>1 DEF GoodCall, DuplicateKey, Written
    <3>2. /\ DOMAIN rankRows' = DOMAIN rankRows \cup {v} /\ rankRows'[v] = RightEmpty
          /\ \A id \in DOMAIN rankRows \ {v} : rankRows'[id] = rankRows[id]
      BY <1>2 DEF RanksWritten
    <3> HIDE DEF v, rs, n
    <3>3. v \in 0..255 /\ n \in Nat /\ v \notin 0..(n - 1) /\ v - 1 \in 0..(n - 1)
      <4>1. DOMAIN rankRows = 0..(n - 1)
        BY <2>2
      <4> QED BY <2>2, <3>1, <4>1 DEF Byte
    <3>4. v = n
      BY <3>3, FromZero
    <3>5. 0..n = 0..(n - 1) \cup {n}
      BY <3>3, FromZero
    <3>6. DOMAIN rankRows' = 0..n
      <4>1. DOMAIN rankRows = 0..(n - 1)
        BY <2>2
      <4> QED BY <3>2, <3>4, <3>5, <4>1
    <3>7. \A k \in DOMAIN rs : rs[k].id = k - 1 /\ rs[k].rights = rankRows'[k - 1]
      BY <2>2, <3>1, <3>2
    <3> QED BY <3>2, <3>4, <3>6, <3>7
  <2>5. c.op = "delRank" =>
          /\ DOMAIN rankRows' = {id \in 0..(n - 1) : id < v}
          /\ \A k \in DOMAIN rs : rs[k].id = k - 1 /\ (k - 1 < v => rs[k].rights = rankRows'[k - 1])
    <3> HIDE DEF rs, n
    <3> QED BY <1>2, <2>2 DEF RanksWritten
  <2>6. RanksPending(p)'
    BY <2>3, <2>4, <2>5 DEF RanksPending
  <2> QED BY <1>6, <2>6 DEF Pending, MemberPending, RankSteps, NoteOps, TextOps, RankOps
<1> QED BY <1>3, <1>4, <1>5, <1>6

\* Ids without a gap stay so, unless the slip is noted.
LEMMA WriteLeavesNoGap ==
  ASSUME TypeOK, NEW p \in Players, calls[p].at = "statement", ~DuplicateKey(p), Write(p), NoGap
  PROVE  NoGap'
<1> DEFINE c == calls[p]
           v == c.value
<1>1. Written(p) /\ GoodCall(p, c)
  BY WriteEffect DEF TypeOK
<1>2. SUFFICES ASSUME "rank gap" \notin slips' PROVE \E n \in 0..256 : DOMAIN rankRows' = 0..(n - 1)
  BY DEF NoGap
<1>3. PICK n \in 0..256 : DOMAIN rankRows = 0..(n - 1)
  BY <1>1, <1>2 DEF NoGap, Written
<1>4. RanksWritten(p)
  BY <1>1 DEF Written
<1>5. CASE c.op = "addRank"
  <2>1. v \in Byte /\ v \notin DOMAIN rankRows /\ v - 1 \in DOMAIN rankRows
    BY <1>1, <1>2, <1>5 DEF GoodCall, DuplicateKey, Written
  <2>2. DOMAIN rankRows' = DOMAIN rankRows \cup {v}
    BY <1>4, <1>5 DEF RanksWritten
  <2> HIDE DEF v
  <2>3. v \in 0..255 /\ v \notin 0..(n - 1) /\ v - 1 \in 0..(n - 1)
    BY <1>3, <2>1 DEF Byte
  <2>4. v = n /\ n + 1 \in 0..256 /\ 0..((n + 1) - 1) = 0..(n - 1) \cup {n}
    BY <2>3
  <2>5. DOMAIN rankRows' = 0..((n + 1) - 1)
    BY <1>3, <2>2, <2>4
  <2> QED BY <2>4, <2>5
<1>6. CASE c.op = "delRank"
  <2>1. v \in Byte
    BY <1>1, <1>6 DEF GoodCall
  <2>2. DOMAIN rankRows' = {id \in DOMAIN rankRows : id < v}
    BY <1>4, <1>6 DEF RanksWritten
  <2> HIDE DEF v
  <2> DEFINE m == IF v < n THEN v ELSE n
  <2>3. v \in 0..255
    BY <2>1 DEF Byte
  <2>4. m \in 0..256
    BY <2>3
  <2>5. {id \in 0..(n - 1) : id < v} = 0..(m - 1)
    <3>1. CASE v < n
      <4>1. \A id : id \in 0..(n - 1) /\ id < v <=> id \in 0..(v - 1)
        BY <2>3, <3>1
      <4> QED BY <3>1, <4>1
    <3>2. CASE ~(v < n)
      <4>1. \A id \in 0..(n - 1) : id < v
        BY <2>3, <3>2
      <4> QED BY <3>2, <4>1
    <3> QED BY <3>1, <3>2
  <2>6. DOMAIN rankRows' = 0..(m - 1)
    BY <1>3, <2>2, <2>5
  <2> HIDE DEF m
  <2> QED BY <2>4, <2>6
<1>7. CASE c.op \notin {"addRank", "delRank"}
  BY <1>3, <1>4, <1>7 DEF RanksWritten, RankOps
<1> QED BY <1>5, <1>6, <1>7

LEMMA MirrorSteps ==
  ASSUME TypeOK, MirrorInvariant, NEW p \in Players, Steps(p) \/ Decides(p) \/ RemoveGuildInviteForCharacter(p)
  PROVE  MirrorInvariant'
<1>1. /\ up /\ calls[p].at # "cache" /\ UNCHANGED <<memberRows, rankRows, textRows, cache, up, slips, raced>>
      /\ \E c \in CallRecord : c.at # "cache" /\ calls' = [calls EXCEPT ![p] = c]
  BY UninviteEffect DEF Steps, Decides
<1>2. calls'[p].at # "cache" /\ \A q \in Players : q # p => calls'[q] = calls[q]
  BY <1>1, SetsCall DEF TypeOK
<1>3. \A cell \in Cells : Untouched(cell)
  BY <1>1, AllUntouched
<1>4. NoGap'
  BY <1>1 DEF MirrorInvariant, NoGap
<1>5. raced \subseteq raced' /\ slips \subseteq slips'
  BY <1>1
<1> QED BY <1>1, <1>2, <1>3, <1>4, <1>5, KeepsMirror

LEMMA MirrorStatement == ASSUME TypeOK, MirrorInvariant, NEW p \in Players, Statement(p) PROVE MirrorInvariant'
<1>1. up /\ calls[p].at = "statement" /\ UNCHANGED <<cache, up>>
  BY StatementEffect
<1>2. CASE calls' = [calls EXCEPT ![p] = Idle] /\ UNCHANGED <<memberRows, rankRows, textRows, slips, raced>>
  <2>1. calls'[p] = Idle /\ \A q \in Players : q # p => calls'[q] = calls[q]
    BY <1>2, IdleCall, SetsCall DEF TypeOK
  <2>2. \A cell \in Cells : Untouched(cell)
    BY <1>1, <1>2, AllUntouched
  <2>3. NoGap'
    BY <1>2 DEF MirrorInvariant, NoGap
  <2>4. raced \subseteq raced' /\ slips \subseteq slips' /\ calls'[p].at # "cache" /\ calls[p].at # "cache"
    BY <1>1, <1>2, <2>1, IdleCall
  <2> QED BY <1>1, <2>1, <2>2, <2>3, <2>4, KeepsMirror
<1>3. CASE /\ ~DuplicateKey(p) /\ Write(p)
           /\ calls' = [calls EXCEPT ![p].at = IF calls[p].op = "invite" THEN "publish" ELSE "cache"]
           /\ raced' = IF Overlaps(p) THEN raced \cup {Cell(p)} ELSE raced
  <2> DEFINE step == IF calls[p].op = "invite" THEN "publish" ELSE "cache"
  <2>1. step \in Places /\ calls' = [calls EXCEPT ![p].at = step]
    BY <1>3 DEF Places
  <2>2. /\ calls'[p].at = step /\ calls'[p].op = calls[p].op /\ calls'[p].target = calls[p].target /\ calls'[p].value = calls[p].value
        /\ \A q \in Players : q # p => calls'[q] = calls[q]
    <3> HIDE DEF step
    <3> QED BY <2>1, GoesOn DEF TypeOK
  <2>3. Cell(p)' = Cell(p)
    BY <2>2, CellStays
  <2>4. raced \subseteq raced' /\ slips \subseteq slips'
    BY <1>1, <1>3, WriteEffect DEF Written
  <2>5. Overlaps(p) => Cell(p) \in raced'
    BY <1>3
  <2>6. NoGap'
    BY <1>1, <1>3, WriteLeavesNoGap DEF MirrorInvariant
  <2>7. calls[p].op # "none"
    BY <1>1 DEF TypeOK, GoodCall
  <2>8. \A q \in Players : q # p /\ calls[q].at = "cache" /\ Cell(q) = Cell(p) => Cell(p) \in raced'
    BY <2>5 DEF Overlaps, At
  <2>9. CASE calls[p].op = "invite"
    <3>1. Cell(p) \notin Cells
      BY <2>9, CellOf, CellsDiffer
    <3>2. \A cell \in Cells : Untouched(cell)
      BY <1>1, <1>3, <3>1, WriteUntouched
    <3>3. calls'[p].at # "cache" /\ calls[p].at # "cache"
      BY <1>1, <2>2, <2>9
    <3> QED BY <1>1, <2>2, <2>4, <2>6, <3>2, <3>3, KeepsMirror
  <2>10. CASE calls[p].op # "invite"
    <3>1. calls'[p].at = "cache"
      BY <2>2, <2>10
    <3>2. Cell(p) \in Cells
      BY <2>7, <2>10, CellOfWriter
    <3>3. Trusted(Cell(p))' => Settled(Cell(p)) /\ (Cell(p) = "ranks" => "rank gap" \notin slips')
      <4> SUFFICES ASSUME Trusted(Cell(p))' PROVE Settled(Cell(p)) /\ (Cell(p) = "ranks" => "rank gap" \notin slips')
        OBVIOUS
      <4>1. Cell(p) \notin raced' /\ (Cell(p) = "ranks" => "rank gap" \notin slips')
        BY <2>3 DEF Trusted
      <4>2. Trusted(Cell(p))
        BY <2>4, <4>1 DEF Trusted
      <4>3. ~Busy(Cell(p))
        BY <1>1, <2>8, <4>1 DEF Busy
      <4> QED BY <1>1, <3>2, <4>1, <4>2, <4>3 DEF MirrorInvariant, CellsSettled
    <3>4. Trusted(Cell(p))' => Pending(p)'
      BY <1>1, <1>3, <2>2, <2>10, <3>3, WritePends
    <3>5. \A cell \in Cells : cell # Cell(p) => Untouched(cell)
      BY <1>1, <1>3, WriteUntouched
    <3>6. Busy(Cell(p))'
      BY <2>3, <3>1 DEF Busy
    <3>7. ASSUME NEW cell \in Cells, Trusted(cell)'
          PROVE  \/ Untouched(cell) /\ (calls[p].at = "cache" => cell # Cell(p))
                 \/ /\ cell = Cell(p) /\ \A q \in Players : q # p /\ calls[q].at = "cache" => Cell(q) # cell
                    /\ Busy(cell)' \/ Settled(cell)'
      <4>1. CASE cell # Cell(p)
        BY <3>5, <4>1
      <4>2. CASE cell = Cell(p)
        <5>1. cell \notin raced'
          BY <3>7 DEF Trusted
        <5>2. Busy(cell)'
          BY <2>3, <3>1, <4>2 DEF Busy
        <5> QED BY <2>8, <4>2, <5>1, <5>2
      <4> QED BY <4>1, <4>2
    <3> QED BY <1>1, <2>2, <2>3, <2>4, <2>6, <2>8, <3>4, <3>7, KeepsMirror
  <2> QED BY <2>9, <2>10
<1> QED BY <1>2, <1>3, StatementEffect

LEMMA MirrorFails ==
  ASSUME TypeOK, MirrorInvariant, NEW p \in Players, NEW applied \in BOOLEAN, StatementFails(p, applied)
  PROVE  MirrorInvariant'
<1>1. /\ up /\ calls[p].at = "statement" /\ UNCHANGED <<cache, up>> /\ calls' = [calls EXCEPT ![p] = Idle]
      /\ \/ UNCHANGED <<memberRows, rankRows, textRows, slips, raced>>
         \/ ~DuplicateKey(p) /\ Write(p) /\ raced' = raced \cup {Cell(p)}
  BY FailureEffect
<1>2. calls'[p] = Idle /\ \A q \in Players : q # p => calls'[q] = calls[q]
  BY <1>1, IdleCall, SetsCall DEF TypeOK
<1>3. calls'[p].at # "cache" /\ calls[p].at # "cache"
  BY <1>1, <1>2, IdleCall
<1>4. CASE UNCHANGED <<memberRows, rankRows, textRows, slips, raced>>
  <2>1. \A cell \in Cells : Untouched(cell)
    BY <1>1, <1>4, AllUntouched
  <2>2. NoGap' /\ raced \subseteq raced' /\ slips \subseteq slips'
    BY <1>4 DEF MirrorInvariant, NoGap
  <2> QED BY <1>1, <1>2, <1>3, <2>1, <2>2, KeepsMirror
<1>5. CASE ~DuplicateKey(p) /\ Write(p) /\ raced' = raced \cup {Cell(p)}
  <2>1. NoGap'
    BY <1>1, <1>5, WriteLeavesNoGap DEF MirrorInvariant
  <2>2. raced \subseteq raced' /\ slips \subseteq slips'
    BY <1>1, <1>5, WriteEffect DEF Written
  <2>3. \A cell \in Cells : Trusted(cell)' => Untouched(cell)
    <3>1. \A cell \in Cells : Trusted(cell)' => cell # Cell(p)
      BY <1>5 DEF Trusted
    <3> QED BY <1>1, <1>5, <3>1, WriteUntouched
  <2> QED BY <1>1, <1>2, <1>3, <2>1, <2>2, <2>3, KeepsMirror
<1> QED BY <1>1, <1>4, <1>5

LEMMA MirrorCached == ASSUME TypeOK, MirrorInvariant, NEW p \in Players, WriteCache(p) PROVE MirrorInvariant'
<1>1. /\ up /\ calls[p].at = "cache" /\ UNCHANGED <<memberRows, rankRows, textRows, up, slips, raced>>
      /\ calls'[p].at \in {"none", "publish"} /\ \A q \in Players : q # p => calls'[q] = calls[q]
  BY WriteCacheEffect
<1>2. \A cell \in Cells : /\ cell # Cell(p) => Untouched(cell)
                          /\ Pending(p) /\ cell = Cell(p) => Settled(cell)'
  BY CacheSettles
<1>3. Trusted(Cell(p)) => Pending(p) /\ \A q \in Players : q # p /\ calls[q].at = "cache" => Cell(q) # Cell(p)
  BY <1>1 DEF MirrorInvariant, WritesPending, OneWriter, Trusted
<1>4. ASSUME NEW cell \in Cells, Trusted(cell)'
      PROVE  \/ Untouched(cell) /\ (calls[p].at = "cache" => cell # Cell(p))
             \/ /\ cell = Cell(p) /\ \A q \in Players : q # p /\ calls[q].at = "cache" => Cell(q) # cell
                /\ Busy(cell)' \/ Settled(cell)'
  <2>1. Trusted(cell)
    BY <1>1, <1>4 DEF Trusted
  <2> QED BY <1>2, <1>3, <2>1
<1>5. NoGap' /\ raced \subseteq raced' /\ slips \subseteq slips'
  BY <1>1 DEF MirrorInvariant, NoGap
<1>6. calls'[p].at # "cache"
  BY <1>1
<1> QED BY <1>1, <1>4, <1>5, <1>6, KeepsMirror

\* A start reads everything.
LEMMA LoadedMirror ==
  ASSUME TablesOK, NoGap, NEW S
  PROVE  LET c == LoadAllForRealm(memberRows, rankRows, textRows, S) IN
         /\ \A t : IF t \in DOMAIN memberRows THEN Sole(c.members, t, memberRows[t]) ELSE Absent(c.members, t)
         /\ "rank gap" \notin slips =>
              /\ DOMAIN rankRows = 0..(Len(c.ranks) - 1)
              /\ \A k \in DOMAIN c.ranks : c.ranks[k].id = k - 1 /\ c.ranks[k].rights = rankRows[k - 1]
         /\ c.texts = textRows
<1> DEFINE c == LoadAllForRealm(memberRows, rankRows, textRows, S)
           ms == c.members
           rs == c.ranks
<1>1. /\ c \in CacheRecord /\ c.texts = textRows
      /\ \A k \in DOMAIN ms : /\ ms[k].who \in DOMAIN memberRows /\ ms[k].linked
                              /\ ms[k].row = memberRows[ms[k].who]
      /\ \A p \in DOMAIN memberRows : \E k \in DOMAIN ms : ms[k].who = p
      /\ \A j, k \in DOMAIN ms : ms[j].who = ms[k].who => j = k
      /\ Len(rs) = Cardinality(DOMAIN rankRows)
      /\ \A k \in DOMAIN rs : rs[k].id = IdAt(DOMAIN rankRows, k) /\ rs[k].id \in DOMAIN rankRows
                              /\ rs[k].rights = rankRows[rs[k].id]
  BY LoadsTables
<1> HIDE DEF c
<1>2. ASSUME NEW t \in DOMAIN memberRows PROVE Sole(ms, t, memberRows[t])
  BY <1>1 DEF Sole
<1>3. ASSUME NEW t, t \notin DOMAIN memberRows PROVE Absent(ms, t)
  BY <1>1, <1>3 DEF Absent
<1>4. ASSUME "rank gap" \notin slips
      PROVE  /\ DOMAIN rankRows = 0..(Len(rs) - 1)
             /\ \A k \in DOMAIN rs : rs[k].id = k - 1 /\ rs[k].rights = rankRows[k - 1]
  <2>1. PICK n \in 0..256 : DOMAIN rankRows = 0..(n - 1)
    BY <1>4 DEF NoGap
  <2>2. Len(rs) = n
    <3>1. CASE n = 0
      <4>1. 0..(n - 1) = {}
        BY <3>1
      <4> QED BY <1>1, <2>1, <3>1, <4>1, FS_EmptySet
    <3>2. CASE n # 0
      <4>1. 1 \in 1..n
        BY <3>2
      <4> QED BY <1>1, <2>1, <4>1, KthOfInterval
    <3> QED BY <3>1, <3>2
  <2>3. DOMAIN rs = 1..n
    <3>1. rs \in Seq(RankEntry)
      BY <1>1 DEF CacheRecord
    <3> QED BY <2>2, <3>1, LenProperties
  <2>4. ASSUME NEW k \in DOMAIN rs PROVE rs[k].id = k - 1 /\ rs[k].rights = rankRows[k - 1]
    <3>1. IdAt(0..(n - 1), k) = k - 1
      BY <2>3, KthOfInterval
    <3> QED BY <1>1, <2>1, <3>1
  <2> QED BY <2>1, <2>2, <2>4
<1> QED BY <1>1, <1>2, <1>3, <1>4 DEF c

LEMMA MirrorRests ==
  ASSUME TypeOK, TypeOK', MirrorInvariant, UNCHANGED guildVars \/ Panic \/ Refreshes \/ Warmup
  PROVE  MirrorInvariant'
<1>1. CASE UNCHANGED guildVars
  <2>1. \A q \in Players : calls'[q] = calls[q] /\ Cell(q)' = Cell(q)
    BY <1>1, CellStays DEF guildVars
  <2>2. \A q \in Players : Pending(q)' <=> Pending(q)
    BY <1>1 DEF guildVars, Pending, MemberPending, RanksPending, Sole, Absent
  <2>3. \A cell \in Cells : Settled(cell)' <=> Settled(cell)
    BY <1>1 DEF guildVars, Settled, MemberSettled, RanksSettled, Sole, Absent
  <2>4. UNCHANGED <<rankRows, up, slips, raced>>
    BY <1>1 DEF guildVars
  <2>5. \A cell : (Trusted(cell)' <=> Trusted(cell)) /\ (Busy(cell)' <=> Busy(cell))
    BY <2>1, <2>4 DEF Trusted, Busy
  <2>6. OneWriter'
    BY <2>1, <2>4 DEF MirrorInvariant, OneWriter
  <2>7. NoGap'
    BY <2>4 DEF MirrorInvariant, NoGap
  <2>8. WritesPending'
    BY <2>1, <2>2, <2>5 DEF MirrorInvariant, WritesPending
  <2>9. CellsSettled'
    BY <2>3, <2>4, <2>5 DEF MirrorInvariant, CellsSettled
  <2> QED BY <2>6, <2>7, <2>8, <2>9 DEF MirrorInvariant
<1>2. CASE Panic
  <2>1. ~up' /\ UNCHANGED <<rankRows, slips>> /\ \A p \in Players : calls'[p].at # "cache"
    BY <1>2, PanicEffect, IdleCall
  <2> QED BY <2>1 DEF MirrorInvariant, OneWriter, NoGap, WritesPending, CellsSettled
<1>3. CASE Refreshes
  <2>1. /\ UNCHANGED <<memberRows, rankRows, textRows, up, calls, slips, raced>>
        /\ cache'.ranks = cache.ranks /\ cache'.texts = cache.texts
        /\ DOMAIN cache'.members = DOMAIN cache.members
        /\ \A k \in DOMAIN cache.members : /\ cache'.members[k].who = cache.members[k].who
                                           /\ cache'.members[k].row = cache.members[k].row
                                           /\ cache'.members[k].linked = cache.members[k].linked
    BY <1>3 DEF Refreshes
  <2>2. \A t : SameFor(cache.members, cache'.members, t)
    <3> DEFINE ms == cache.members
               ns == cache'.members
    <3>1. ASSUME NEW t, NEW r, Sole(ms, t, r) PROVE Sole(ns, t, r)
      BY <2>1, <3>1 DEF Sole
    <3>2. ASSUME NEW t, Absent(ms, t) PROVE Absent(ns, t)
      BY <2>1, <3>2 DEF Absent
    <3> QED BY <3>1, <3>2 DEF SameFor
  <2>3. \A cell : Untouched(cell)
    BY <2>1, <2>2 DEF Untouched, SameMemberRow
  <2>4. \A q \in Players : calls'[q] = calls[q] /\ Cell(q)' = Cell(q)
    BY <2>1, CellStays
  <2>5. WritesPending'
    <3> SUFFICES ASSUME NEW q \in Players, calls'[q].at = "cache", Trusted(Cell(q))' PROVE Pending(q)'
      BY DEF WritesPending
    <3>1. calls[q].at = "cache" /\ Trusted(Cell(q))
      BY <2>1, <2>4 DEF Trusted
    <3>2. Pending(q)
      BY <3>1 DEF MirrorInvariant, WritesPending
    <3> QED BY <2>3, <2>4, <3>1, <3>2, PendingStays
  <2>6. CellsSettled'
    <3> SUFFICES ASSUME up', NEW cell \in Cells, Trusted(cell)', ~Busy(cell)' PROVE Settled(cell)'
      BY DEF CellsSettled
    <3>1. up /\ Trusted(cell)
      BY <2>1 DEF Trusted
    <3>2. ~Busy(cell)
      BY <2>4 DEF Busy
    <3>3. Settled(cell)
      BY <3>1, <3>2 DEF MirrorInvariant, CellsSettled
    <3> QED BY <2>3, <3>3, SettledStays
  <2>7. OneWriter'
    BY <2>1, <2>4 DEF MirrorInvariant, OneWriter
  <2>8. NoGap'
    BY <2>1 DEF MirrorInvariant, NoGap
  <2> QED BY <2>5, <2>6, <2>7, <2>8 DEF MirrorInvariant
<1>4. CASE Warmup
  <2>1. /\ UNCHANGED <<memberRows, rankRows, textRows, calls, slips, raced>>
        /\ \E S : cache' = LoadAllForRealm(memberRows, rankRows, textRows, S)
        /\ \A p \in Players : calls[p] = Idle
    BY <1>4, WarmupEffect
  <2>2. \A p \in Players : calls'[p].at # "cache"
    BY <2>1, IdleCall
  <2>3. NoGap'
    BY <2>1 DEF MirrorInvariant, NoGap
  <2>4. PICK S : cache' = LoadAllForRealm(memberRows, rankRows, textRows, S)
    BY <2>1
  <2>5. /\ \A t : IF t \in DOMAIN memberRows THEN Sole(cache'.members, t, memberRows[t]) ELSE Absent(cache'.members, t)
        /\ "rank gap" \notin slips =>
             /\ DOMAIN rankRows = 0..(Len(cache'.ranks) - 1)
             /\ \A k \in DOMAIN cache'.ranks : cache'.ranks[k].id = k - 1 /\ cache'.ranks[k].rights = rankRows[k - 1]
        /\ cache'.texts = textRows
    BY <2>4, LoadedMirror DEF MirrorInvariant, TypeOK
  <2>6. ASSUME NEW cell \in Cells, Trusted(cell)' PROVE Settled(cell)'
    <3>1. MemberSettled(cell)'
      BY <2>1, <2>5 DEF MemberSettled, Sole, Absent
    <3>2. cell = "ranks" => RanksSettled'
      BY <2>1, <2>5, <2>6 DEF RanksSettled, Trusted
    <3> QED BY <2>1, <2>5, <3>1, <3>2 DEF Settled
  <2> QED BY <2>2, <2>3, <2>6 DEF MirrorInvariant, OneWriter, WritesPending, CellsSettled
<1> QED BY <1>1, <1>2, <1>3, <1>4

LEMMA MirrorStarts == Init => MirrorInvariant
<1> SUFFICES ASSUME Init PROVE MirrorInvariant
  OBVIOUS
<1>1. TypeOK
  BY TypesStart
<1>2. NoGap
  <2> DEFINE n == Len(FirstRights)
  <2>1. n \in 0..256
    <3>1. GuildRankMax \in Nat /\ n <= GuildRankMax /\ GuildRankMax < 256
      BY GuildsAssumption
    <3>2. n \in Nat
      BY GuildsAssumption, LenProperties
    <3> HIDE DEF n
    <3> QED BY <3>1, <3>2
  <2>2. DOMAIN rankRows = 0..(n - 1)
    BY DEF Init
  <2> HIDE DEF n
  <2> QED BY <2>1, <2>2 DEF NoGap
<1>3. \A p \in Players : calls[p].at # "cache"
  BY IdleCall DEF Init
<1>4. PICK S : cache = LoadAllForRealm(memberRows, rankRows, textRows, S)
  BY DEF Init
<1>5. /\ \A t : IF t \in DOMAIN memberRows THEN Sole(cache.members, t, memberRows[t]) ELSE Absent(cache.members, t)
      /\ "rank gap" \notin slips =>
           /\ DOMAIN rankRows = 0..(Len(cache.ranks) - 1)
           /\ \A k \in DOMAIN cache.ranks : cache.ranks[k].id = k - 1 /\ cache.ranks[k].rights = rankRows[k - 1]
      /\ cache.texts = textRows
  BY <1>1, <1>2, <1>4, LoadedMirror DEF TypeOK
<1>6. \A cell \in Cells : Trusted(cell) => Settled(cell)
  BY <1>5 DEF Settled, MemberSettled, RanksSettled, Trusted
<1> QED BY <1>2, <1>3, <1>6 DEF MirrorInvariant, OneWriter, WritesPending, CellsSettled

LEMMA MirrorInvariantKept == ASSUME TypeOK, MirrorInvariant, [Next]_vars PROVE MirrorInvariant'
<1>1. TypeOK'
  BY TypesKept
<1>2. CASE UNCHANGED guildVars \/ Panic \/ Refreshes \/ Warmup
  BY <1>1, <1>2, MirrorRests
<1>3. ASSUME NEW p \in Players, Steps(p) \/ Decides(p) \/ RemoveGuildInviteForCharacter(p) PROVE MirrorInvariant'
  BY <1>3, MirrorSteps
<1>4. ASSUME NEW p \in Players, Statement(p) PROVE MirrorInvariant'
  BY <1>4, MirrorStatement
<1>5. ASSUME NEW p \in Players, WriteCache(p) PROVE MirrorInvariant'
  BY <1>5, MirrorCached
<1>6. ASSUME NEW p \in Players, NEW applied \in BOOLEAN, StatementFails(p, applied) PROVE MirrorInvariant'
  BY <1>6, MirrorFails
<1> QED BY <1>2, <1>3, <1>4, <1>5, <1>6, StepKinds

\* A cell in order agrees.
LEMMA MirrorAgrees == TypeOK /\ MirrorInvariant => CacheMirrorsRows
<1> SUFFICES ASSUME TypeOK, MirrorInvariant, up, NEW cell \in Players \cup {"ranks", "motd", "info"},
                    cell \notin raced, ~(cell = "ranks" /\ "rank gap" \in slips),
                    ~\E q \in Players : At(q, "cache") /\ Cell(q) = cell
             PROVE  Agrees(cell)
  BY DEF CacheMirrorsRows
<1>1. Settled(cell)
  BY DEF MirrorInvariant, CellsSettled, Trusted, Busy, At, Cells, TextOps
<1>2. CASE cell \in Players
  <2>1. cell # "ranks"
    BY <1>2, CellsDiffer
  <2>2. CASE cell \in DOMAIN memberRows
    <3>1. PICK k \in DOMAIN cache.members :
            /\ cache.members[k].who = cell /\ cache.members[k].linked /\ cache.members[k].row = memberRows[cell]
            /\ \A j \in DOMAIN cache.members : cache.members[j].who = cell => j = k
      BY <1>1, <1>2, <2>2 DEF Settled, MemberSettled, Sole
    <3>2. Entries(cell) = {k}
      BY <3>1 DEF Entries
    <3>3. Cardinality(Entries(cell)) = 1
      BY <3>2, FS_Singleton
    <3>4. Min(Entries(cell)) = k
      <4>1. Min(Entries(cell)) \in Entries(cell)
        BY <3>2, RankOfMember DEF TypeOK
      <4> QED BY <3>2, <4>1
    <3>5. guildMemberForMemberGuid(cell).row = memberRows[cell] /\ Linked(cell)
      BY <3>1, <3>2, <3>4 DEF guildMemberForMemberGuid, Linked
    <3>6. Agrees(cell) <=> Cardinality(Entries(cell)) = 1 /\ Linked(cell) /\ guildMemberForMemberGuid(cell).row = memberRows[cell]
      BY <1>2, <2>2, <2>1, Zenon DEF Agrees
    <3> QED BY <3>3, <3>5, <3>6
  <2>3. CASE cell \notin DOMAIN memberRows
    <3>1. Entries(cell) = {}
      BY <1>1, <1>2, <2>3 DEF Settled, MemberSettled, Absent, Entries
    <3>2. Agrees(cell) <=> Entries(cell) = {}
      BY <1>2, <2>3, <2>1, Zenon DEF Agrees
    <3> QED BY <3>1, <3>2
  <2> QED BY <2>2, <2>3
<1>3. CASE cell = "ranks"
  <2> DEFINE rs == cache.ranks
             n == Len(rs)
  <2>1. n \in Nat /\ DOMAIN rs = 1..n
    BY MembersTyped DEF TypeOK
  <2>2. DOMAIN rankRows = 0..(n - 1) /\ \A k \in DOMAIN rs : rs[k].id = k - 1 /\ rs[k].rights = rankRows[k - 1]
    BY <1>1, <1>3 DEF Settled, RanksSettled
  <2>3. {<<rs[k].id, rs[k].rights>> : k \in DOMAIN rs} = {<<id, rankRows[id]>> : id \in DOMAIN rankRows}
    <3>1. \A k \in 1..n : k - 1 \in 0..(n - 1)
      BY <2>1, FromZero
    <3>2. \A id \in 0..(n - 1) : id + 1 \in 1..n /\ (id + 1) - 1 = id
      BY <2>1, FromZero
    <3>3. ASSUME NEW k \in DOMAIN rs
          PROVE  \E id \in DOMAIN rankRows : rs[k].id = id /\ rs[k].rights = rankRows[id]
      <4>1. k - 1 \in DOMAIN rankRows
        BY <2>1, <2>2, <3>1
      <4> QED BY <2>2, <4>1
    <3>4. ASSUME NEW id \in DOMAIN rankRows
          PROVE  \E k \in DOMAIN rs : rs[k].id = id /\ rs[k].rights = rankRows[id]
      <4>1. id + 1 \in DOMAIN rs /\ (id + 1) - 1 = id
        BY <2>1, <2>2, <3>2
      <4>2. rs[id + 1].id = (id + 1) - 1 /\ rs[id + 1].rights = rankRows[(id + 1) - 1]
        BY <2>2, <4>1
      <4> QED BY <4>1, <4>2
    <3> HIDE DEF rs, n
    <3> DEFINE Listed == {<<rs[k].id, rs[k].rights>> : k \in DOMAIN rs}
               Stored == {<<id, rankRows[id]>> : id \in DOMAIN rankRows}
    <3>5. ASSUME NEW x \in Listed PROVE x \in Stored
      <4>1. PICK k \in DOMAIN rs : x = <<rs[k].id, rs[k].rights>>
        OBVIOUS
      <4>2. PICK id \in DOMAIN rankRows : rs[k].id = id /\ rs[k].rights = rankRows[id]
        BY <3>3
      <4>3. x = <<id, rankRows[id]>>
        BY <4>1, <4>2
      <4> QED BY <4>3
    <3>6. ASSUME NEW x \in Stored PROVE x \in Listed
      <4>1. PICK id \in DOMAIN rankRows : x = <<id, rankRows[id]>>
        OBVIOUS
      <4>2. PICK k \in DOMAIN rs : rs[k].id = id /\ rs[k].rights = rankRows[id]
        BY <3>4
      <4>3. x = <<rs[k].id, rs[k].rights>>
        BY <4>1, <4>2
      <4> QED BY <4>3
    <3> HIDE DEF Listed, Stored
    <3>7. Listed = Stored
      BY <3>5, <3>6
    <3> QED BY <3>7 DEF Listed, Stored
  <2>4. "ranks" \notin Players
    BY CellsDiffer
  <2> QED BY <1>3, <2>3, <2>4 DEF Agrees
<1>4. CASE cell \in {"motd", "info"}
  <2>1. cell \notin Players /\ cell # "ranks"
    BY <1>4, CellsDiffer DEF TextOps
  <2>2. cache.texts[cell] = textRows[cell]
    BY <1>1, <1>4 DEF Settled, TextOps
  <2> QED BY <2>1, <2>2 DEF Agrees
<1> QED BY <1>2, <1>3, <1>4

-----------------------------------------------------------------------------
(* The theorems                                                            *)

\* The rows and the guild in memory have their types: every member is a player,
\* ids are bytes, and a call carries what its operation needs (uint8 ranks of
\* the repo, guild_member, guild_rank).
THEOREM GuildTypes == Spec => []TypeOK
<1>1. Init => TypeOK
  BY TypesStart
<1>2. TypeOK /\ [Next]_vars => TypeOK'
  BY TypesKept
<1> QED BY <1>1, <1>2, PTL DEF Spec

\* A guild has one master, the founder: nobody can demote, kick or replace him
\* by a rank read before it changed (Permitted of UpdateRank and Kick, Leave,
\* lowestRankInGuild), unless a promotion of the master wraps, a default rank is
\* deleted or the ids reach 255.
THEOREM OneMasterRules == Spec => []OneMaster
<1>1. MasterInvariant /\ [Next]_vars => MasterInvariant'
  BY MasterInvariantKept
<1> QED BY <1>1, MasterStarts, MasterIsOne, PTL DEF Spec

\* Cache and tables agree between calls: a handler that decides on what it read
\* without the lock, a failed statement, a crash and a start leave every member,
\* the ranks and the texts the same in both, except what overlapping calls or a
\* lost answer wrote, and the ranks once their ids have a gap (RemoveGuildMember,
\* SetMemberRank, DeleteLowestGuildRank, LoadAllForRealm).
THEOREM RowsAreMirrored == Spec => []CacheMirrorsRows
<1>1. TypeOK /\ MirrorInvariant /\ [Next]_vars => (TypeOK /\ MirrorInvariant)'
  BY TypesKept, MirrorInvariantKept
<1> QED BY <1>1, TypesStart, MirrorStarts, MirrorAgrees, PTL DEF Spec
=============================================================================
