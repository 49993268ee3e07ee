-------------------------- MODULE GuidServerProofs --------------------------
(***************************************************************************)
(* Proofs about GuidServer, for any number of instances, handlers and      *)
(* processors and any bounds:                                              *)
(*   TypeCorrect         every reachable state satisfies TypeOK;           *)
(*   InstancesAreDisjoint, for any set of pool sizes;                      *)
(*   NoGuidTwice, UniqueWhileHealthy when all pools are of one size;       *)
(*   WaitersAreWoken, no handler waits for a callback nobody will call.    *)
(***************************************************************************)
EXTENDS GuidServer, FiniteSetTheorems, SequenceTheorems, WellFoundedInduction, TLAPS

-----------------------------------------------------------------------------
(* What the operators on diapasons compute. *)

\* A reservation is a natural number of GUIDs, at least one.
LEMMA AmountsType == Amounts \subseteq Nat \ {0}
  BY SizesAssumption, MultiplierAssumption DEF Amounts

\* Advancing the counter by an amount yields natural bounds of the new range.
LEMMA AdvanceType ==
  ASSUME NEW a \in Nat, NEW b \in Nat
  PROVE  a + b \in Nat /\ (a + b) - b + 1 \in Nat
  OBVIOUS

\* The unused GUIDs of a diapason are as many as GuidsLeft says.
LEMMA GuidsLeftType ==
  ASSUME NEW d \in GuidDiapasonWithState
  PROVE  /\ GuidsLeft(d) \in Nat
         /\ IsFiniteSet(d.cur .. d.end)
         /\ Cardinality(d.cur .. d.end) = GuidsLeft(d)
<1>1. d.cur \in Nat /\ d.end \in Nat
  BY DEF GuidDiapasonWithState
<1>2. ASSUME NEW a \in Int, NEW b \in Int
      PROVE  IsFiniteSet(a .. b) /\ Cardinality(a .. b) = IF a > b THEN 0 ELSE b - a + 1
  BY FS_Interval
<1>3. /\ IsFiniteSet(d.cur .. d.end)
      /\ Cardinality(d.cur .. d.end) = IF d.cur > d.end THEN 0 ELSE d.end - d.cur + 1
  <2> DEFINE a == d.cur  b == d.end
  <2>1. a \in Int /\ b \in Int
    BY <1>1
  <2> HIDE DEF a, b
  <2>2. IsFiniteSet(a .. b) /\ Cardinality(a .. b) = IF a > b THEN 0 ELSE b - a + 1
    BY <1>2, <2>1
  <2> QED BY <2>2 DEF a, b
<1> QED BY <1>1, <1>3 DEF GuidsLeft

\* LeftBefore counts a finite set.
LEMMA LeftBeforeType ==
  ASSUME NEW ds \in Seq(GuidDiapasonWithState), NEW k \in 1..(Len(ds) + 1)
  PROVE  /\ IsFiniteSet(UNION {{j} \X (ds[j].cur .. ds[j].end) : j \in 1..(k-1)})
         /\ LeftBefore(ds, k) \in Nat
<1> DEFINE part(j) == {j} \X (ds[j].cur .. ds[j].end)
           parts == {part(j) : j \in 1..(k-1)}
           f == [j \in 1..(k-1) |-> part(j)]
<1>1. IsFiniteSet(1..(k-1))
  BY FS_Interval
<1>2. f \in Surjection(1..(k-1), parts)
  BY DEF Surjection
<1>3. IsFiniteSet(parts)
  BY <1>1, <1>2, FS_Surjection
<1>4. \A T \in parts : IsFiniteSet(T)
  <2> SUFFICES ASSUME NEW j \in 1..(k-1) PROVE IsFiniteSet(part(j))
    OBVIOUS
  <2>1. IsFiniteSet({j})
    BY FS_Singleton
  <2>2. ds[j] \in GuidDiapasonWithState
    OBVIOUS
  <2>3. IsFiniteSet(ds[j].cur .. ds[j].end)
    BY <2>2, GuidsLeftType
  <2> QED BY <2>1, <2>3, FS_Product
<1>5. IsFiniteSet(UNION parts)
  BY <1>3, <1>4, FS_UNION
<1> QED BY <1>5, FS_CardinalityType DEF LeftBefore

\* LeftBefore adds up GuidsLeft.
LEMMA LeftBeforeStep ==
  ASSUME NEW ds \in Seq(GuidDiapasonWithState), NEW k \in 1..Len(ds)
  PROVE  LeftBefore(ds, k + 1) = LeftBefore(ds, k) + GuidsLeft(ds[k])
<1> DEFINE part(j) == {j} \X (ds[j].cur .. ds[j].end)
           before == UNION {part(j) : j \in 1..(k-1)}
<1>1. UNION {part(j) : j \in 1..((k+1)-1)} = before \cup part(k)
  OBVIOUS
<1>2. before \cap part(k) = {}
  OBVIOUS
<1>3. IsFiniteSet(before) /\ LeftBefore(ds, k) = Cardinality(before) /\ LeftBefore(ds, k) \in Nat
  BY LeftBeforeType, k \in 1..(Len(ds)+1) DEF LeftBefore
<1>4. IsFiniteSet({k}) /\ Cardinality({k}) = 1
  BY FS_Singleton
<1>5. ds[k] \in GuidDiapasonWithState
  OBVIOUS
<1>6. IsFiniteSet(part(k)) /\ Cardinality(part(k)) = 1 * GuidsLeft(ds[k])
  <2> DEFINE unused == ds[k].cur .. ds[k].end
  <2>1. IsFiniteSet(unused) /\ Cardinality(unused) = GuidsLeft(ds[k])
    BY <1>5, GuidsLeftType
  <2> HIDE DEF unused
  <2>2. IsFiniteSet({k} \X unused) /\ Cardinality({k} \X unused) = Cardinality({k}) * Cardinality(unused)
    BY <1>4, <2>1, FS_Product
  <2> QED BY <1>4, <2>1, <2>2 DEF unused
<1>7. Cardinality(before \cup part(k)) = Cardinality(before) + Cardinality(part(k)) - Cardinality({})
  BY <1>2, <1>3, <1>6, FS_Union
<1>8. GuidsLeft(ds[k]) \in Nat
  BY <1>5, GuidsLeftType
<1>9. Cardinality(before \cup part(k)) = LeftBefore(ds, k) + GuidsLeft(ds[k])
  BY <1>3, <1>6, <1>7, <1>8, FS_EmptySet
<1>10. LeftBefore(ds, k + 1) = Cardinality(before \cup part(k))
  BY <1>1 DEF LeftBefore
<1> QED BY <1>9, <1>10

\* Nothing precedes the first diapason.
LEMMA LeftBeforeFirst ==
  ASSUME NEW ds PROVE LeftBefore(ds, 1) = 0
<1>1. UNION {{j} \X (ds[j].cur .. ds[j].end) : j \in 1..(1-1)} = {}
  OBVIOUS
<1> QED BY <1>1, FS_EmptySet DEF LeftBefore

\* What the fulfilling diapason must give is between one and what it has left.
LEMMA FulfilledRest ==
  ASSUME NEW ds \in Seq(GuidDiapasonWithState), NEW n \in Nat \ {0},
         NEW k \in 1..Len(ds), FulfilledIn(ds, n, k)
  PROVE  /\ n - LeftBefore(ds, k) \in Nat \ {0}
         /\ n - LeftBefore(ds, k) <= GuidsLeft(ds[k])
<1>1. LeftBefore(ds, k) \in Nat
  BY LeftBeforeType, k \in 1..(Len(ds)+1)
<1>2. GuidsLeft(ds[k]) \in Nat
  BY GuidsLeftType, ds[k] \in GuidDiapasonWithState
<1>3. CASE k = 1
  BY <1>1, <1>2, <1>3, LeftBeforeFirst DEF FulfilledIn
<1>4. CASE k # 1
  <2> DEFINE j == k - 1
  <2>1. j \in 1..Len(ds) /\ j \in 1..(k-1) /\ j \in 1..(Len(ds)+1) /\ j + 1 = k
    BY <1>4
  <2>2. LeftBefore(ds, k) = LeftBefore(ds, j) + GuidsLeft(ds[j])
    BY <2>1, LeftBeforeStep
  <2>3. ~(n <= LeftBefore(ds, j) + GuidsLeft(ds[j]))
    BY <2>1 DEF FulfilledIn
  <2> QED BY <1>1, <1>2, <2>2, <2>3 DEF FulfilledIn
<1> QED BY <1>3, <1>4

\* A non-empty set of naturals has a least element.
LEMMA LeastNat ==
  ASSUME NEW T \in SUBSET Nat, T # {}
  PROVE  \E x \in T : \A y \in T : x <= y
<1> DEFINE R == OpToRel(<, Nat)
<1>1. IsWellFoundedOn(R, Nat)
  BY NatLessThanWellFounded
<1> HIDE DEF R
<1>2. PICK x \in T : \A y \in T : ~ (<<y, x>> \in R)
  BY <1>1, WFMin
<1>3. \A y \in T : ~ (y < x)
  BY <1>2 DEF R, OpToRel
<1> QED BY <1>3

\* CleanupEmpty keeps a suffix.
LEMMA CleanupEmptySuffix ==
  ASSUME NEW ds \in Seq(GuidDiapasonWithState)
  PROVE  \/ CleanupEmpty(ds) = <<>>
         \/ \E i \in 1..Len(ds) : /\ CleanupEmpty(ds) = SubSeq(ds, i, Len(ds))
                                  /\ GuidsLeft(ds[i]) # 0
                                  /\ \A j \in 1..(i-1) : GuidsLeft(ds[j]) = 0
<1> DEFINE nonEmpty == {i \in 1..Len(ds) : GuidsLeft(ds[i]) # 0}
<1>1. CASE nonEmpty = {}
  BY <1>1 DEF CleanupEmpty
<1>2. CASE nonEmpty # {}
  <2>1. \E i \in nonEmpty : \A j \in nonEmpty : i <= j
    BY <1>2, LeastNat, nonEmpty \subseteq Nat
  <2> DEFINE first == CHOOSE i \in nonEmpty : \A j \in nonEmpty : i <= j
  <2>2. first \in nonEmpty /\ \A j \in nonEmpty : first <= j
    BY <2>1
  <2>3. CleanupEmpty(ds) = SubSeq(ds, first, Len(ds))
    BY <1>2 DEF CleanupEmpty
  <2> HIDE DEF first
  <2>4. \A j \in 1..(first-1) : GuidsLeft(ds[j]) = 0
    BY <2>2
  <2> QED BY <2>2, <2>3, <2>4
<1> QED BY <1>1, <1>2

\* CleanupEmpty returns diapasons of its argument.
LEMMA CleanupEmptyType ==
  ASSUME NEW ds \in Seq(GuidDiapasonWithState)
  PROVE  /\ CleanupEmpty(ds) \in Seq(GuidDiapasonWithState)
         /\ \A i \in DOMAIN CleanupEmpty(ds) : \E j \in DOMAIN ds : CleanupEmpty(ds)[i] = ds[j]
<1>1. CASE CleanupEmpty(ds) = <<>>
  BY <1>1
<1>2. CASE \E i \in 1..Len(ds) : CleanupEmpty(ds) = SubSeq(ds, i, Len(ds))
  <2>1. PICK i \in 1..Len(ds) : CleanupEmpty(ds) = SubSeq(ds, i, Len(ds))
    BY <1>2
  <2> QED BY <2>1
<1> QED BY <1>1, <1>2, CleanupEmptySuffix

\* The unused GUIDs lie in the diapasons.
LEMMA UnusedMembers ==
  ASSUME NEW ds \in Seq(GuidDiapasonWithState), NEW k \in 0..Len(ds)
  PROVE  /\ \A g : g \in Unused(ds, k) <=> \E j \in 1..k : g \in ds[j].cur .. ds[j].end
         /\ Unused(ds, k) \subseteq Nat
<1>1. \A g : g \in Unused(ds, k) <=> \E j \in 1..k : g \in ds[j].cur .. ds[j].end
  BY DEF Unused
<1>2. \A j \in 1..k : ds[j] \in GuidDiapasonWithState
  OBVIOUS
<1>3. \A j \in 1..k : ds[j].cur \in Nat /\ ds[j].end \in Nat
  BY <1>2 DEF GuidDiapasonWithState
<1> QED BY <1>1, <1>3

\* UseGuids moves CurrentGuid and drops diapasons; it never changes a range.
LEMMA UseGuidsType ==
  ASSUME NEW ds \in Seq(GuidDiapasonWithState), NEW n \in Nat \ {0}
  PROVE  LET left == UseGuids(ds, n).left
         IN  /\ left \in Seq(GuidDiapasonWithState)
             /\ UseGuids(ds, n).guids \subseteq Nat
             /\ \A i \in DOMAIN left : \E j \in DOMAIN ds :
                   left[i].start = ds[j].start /\ left[i].end = ds[j].end
<1> DEFINE ks == {k \in 1..Len(ds) : FulfilledIn(ds, n, k)}
<1>1. \A j \in 1..Len(ds) : ds[j] \in GuidDiapasonWithState
  OBVIOUS
<1>2. \A j \in 1..Len(ds) : ds[j].cur \in Nat /\ ds[j].end \in Nat
  BY <1>1 DEF GuidDiapasonWithState
<1>3. CASE ks = {}
  <2>1. UseGuids(ds, n).left = CleanupEmpty(ds)
    BY <1>3 DEF UseGuids, UseAll
  <2>2. UseGuids(ds, n).guids = Unused(ds, Len(ds))
    BY <1>3 DEF UseGuids, UseAll
  <2>3. UseGuids(ds, n).guids \subseteq Nat
    BY <2>2, UnusedMembers
  <2> QED BY <2>1, <2>3, CleanupEmptyType
<1>4. CASE ks # {}
  <2>1. PICK k \in ks : UseGuids(ds, n) = UseUpTo(ds, n, k)
    BY <1>4 DEF UseGuids
  <2> DEFINE rest == n - LeftBefore(ds, k)
             d == [ds[k] EXCEPT !.cur = @ + rest]
             es == [ds EXCEPT ![k] = d]
  <2>2. UseGuids(ds, n).left = CleanupEmpty(es)
    BY <2>1 DEF UseUpTo
  <2>3. UseGuids(ds, n).guids = Unused(ds, k - 1) \cup (ds[k].cur .. (ds[k].cur + rest - 1))
    BY <2>1 DEF UseUpTo
  <2>4. rest \in Nat \ {0}
    BY <2>1, FulfilledRest
  <2>5. ds[k] \in GuidDiapasonWithState /\ ds[k].cur \in Nat /\ ds[k].cur + rest \in Nat
    BY <1>1, <1>2, <2>1, <2>4
  <2>8. Unused(ds, k - 1) \subseteq Nat
    BY <2>1, UnusedMembers
  <2> HIDE DEF rest
  <2>9. UseGuids(ds, n).guids \subseteq Nat
    BY <2>3, <2>4, <2>5, <2>8
  <2>6. d \in GuidDiapasonWithState /\ d.start = ds[k].start /\ d.end = ds[k].end
    BY <2>5 DEF GuidDiapasonWithState
  <2> HIDE DEF d
  <2>7. /\ es \in Seq(GuidDiapasonWithState)
        /\ DOMAIN es = DOMAIN ds
        /\ \A j \in DOMAIN ds : es[j].start = ds[j].start /\ es[j].end = ds[j].end
    BY <2>1, <2>6
  <2> HIDE DEF es
  <2>10. \A i \in DOMAIN CleanupEmpty(es) : \E j \in DOMAIN es : CleanupEmpty(es)[i] = es[j]
    BY <2>7, CleanupEmptyType
  <2>11. CleanupEmpty(es) \in Seq(GuidDiapasonWithState)
    BY <2>7, CleanupEmptyType
  <2> QED BY <2>2, <2>7, <2>9, <2>10, <2>11
<1> QED BY <1>3, <1>4

\* AddDiapason adds the range and nothing else.
LEMMA AddDiapasonType ==
  ASSUME NEW ds \in Seq(GuidDiapasonWithState), NEW d \in GuidDiapason
  PROVE  AddDiapason(ds, d) \in Seq(GuidDiapasonWithState)
<1> DEFINE k == Len(ds)
<1>1. d.start \in Nat /\ d.end \in Nat
  BY DEF GuidDiapason
<1>2. CASE ds # <<>> /\ ds[k].end = d.start - 1
  <2> DEFINE e == [ds[k] EXCEPT !.end = d.end]
  <2>1. ds[k] \in GuidDiapasonWithState /\ k \in 1..Len(ds)
    BY <1>2
  <2>2. e \in GuidDiapasonWithState
    BY <1>1, <2>1 DEF GuidDiapasonWithState
  <2>3. AddDiapason(ds, d) = [ds EXCEPT ![k] = e]
    BY <1>2 DEF AddDiapason
  <2> HIDE DEF e, k
  <2> QED BY <2>1, <2>2, <2>3
<1>3. CASE ~(ds # <<>> /\ ds[k].end = d.start - 1)
  <2> DEFINE e == [start |-> d.start, end |-> d.end, cur |-> d.start]
  <2>1. e \in GuidDiapasonWithState
    BY <1>1 DEF GuidDiapasonWithState
  <2>2. AddDiapason(ds, d) = Append(ds, e)
    BY <1>3 DEF AddDiapason
  <2> QED BY <2>1, <2>2
<1> QED BY <1>2, <1>3

-----------------------------------------------------------------------------
(* Type correctness. *)

\* A transaction stays a transaction when it is marked dirty.
LEMMA TouchType ==
  ASSUME work \in [Servers \X Processors -> WorkState \cup {NoWork}]
  PROVE  Touch(work) \in [Servers \X Processors -> WorkState \cup {NoWork}]
  BY DEF Touch, WorkState, NoWork

\* What a processor is working on, by its program counter.
LEMMA WorkingType ==
  ASSUME TypeOK, NEW p \in Servers \X Processors, work[p].pc \in {"watch", "exec"}
  PROVE  work[p] \in WorkState /\ work[p].request.amount \in Nat \ {0}
<1>1. work[p] \in WorkState
  BY DEF TypeOK, NoWork
<1> QED BY <1>1, AmountsType DEF WorkState, Request

\* A handler that is not idle executes a call.
LEMMA CallingType ==
  ASSUME TypeOK, NEW h \in Handlers, call[h] # NoCall
  PROVE  call[h] \in CallState
  BY DEF TypeOK

\* Init establishes TypeOK.
LEMMA InitTypeOK == Init => TypeOK
<1> SUFFICES ASSUME Init PROVE TypeOK
  OBVIOUS
<1> USE DEF Init
<1>1. maxGuid \in Nat /\ bootMax \in [Servers -> Nat] /\ calls \in Nat /\ redisErrors \in Nat /\ crashes \in Nat
  BY DBMaxAssumption
<1>2. boot \in [Servers -> {"start", "mysql", "seed", "up"}]
  OBVIOUS
<1>3. /\ cache \in [Servers -> Seq(GuidDiapasonWithState)]
      /\ requestChan \in [Servers -> Seq(Request)]
      /\ workChan \in [Servers -> Seq(Request)]
      /\ responseChan \in [Servers -> Seq(Response)]
  OBVIOUS
<1>4. /\ inProcess \in [Servers -> SUBSET Amounts]
      /\ callbacks \in [Servers -> SUBSET (Amounts \X Handlers)]
      /\ used \subseteq Nat /\ twice \subseteq Nat /\ mishaps \subseteq {"reservationFailed", "counterSetBack"}
  OBVIOUS
<1>5. call \in [Handlers -> CallState \cup {NoCall}]
  OBVIOUS
<1>6. work \in [Servers \X Processors -> WorkState \cup {NoWork}]
  OBVIOUS
<1> QED BY <1>1, <1>2, <1>3, <1>4, <1>5, <1>6 DEF TypeOK

\* Every step of the specification preserves TypeOK.
LEMMA NextTypeOK == TypeOK /\ [Next]_vars => TypeOK'
<1> SUFFICES ASSUME TypeOK, [Next]_vars PROVE TypeOK'
  OBVIOUS
<1> USE DEF TypeOK
<1>1. ASSUME NEW s \in Servers, BootReadRedis(s) PROVE TypeOK'
  BY <1>1 DEF BootReadRedis, boundVars
<1>2. ASSUME NEW s \in Servers, BootReadMysql(s) PROVE TypeOK'
  BY <1>2, DBMaxAssumption DEF BootReadMysql, boundVars
<1>3. ASSUME NEW s \in Servers, BootSetRedis(s) PROVE TypeOK'
  BY <1>3, TouchType DEF BootSetRedis, boundVars
<1>4. ASSUME NEW h \in Handlers, NEW s \in Servers, NEW n \in Sizes, GetGuids(h, s, n) PROVE TypeOK'
  BY <1>4 DEF GetGuids, CallState, storageVars, instanceVars
<1>5. ASSUME NEW h \in Handlers, CheckUsage(h) PROVE TypeOK'
  <2>1. call[h] \in CallState
    BY <1>5, CallingType DEF CheckUsage, NoCall
  <2> QED BY <1>5, <2>1 DEF CheckUsage, CallState, storageVars, instanceVars, boundVars
<1>6. ASSUME NEW h \in Handlers, SendRequest(h) PROVE TypeOK'
  <2>1. call[h] \in CallState
    BY <1>6, CallingType DEF SendRequest, NoCall
  <2>2. call[h].size * RequestGuidsBufferMultiplayer \in Amounts
    BY <2>1 DEF CallState, Amounts
  <2> DEFINE s == call[h].server
             wait == call[h].pc = "requestAndWait"
             m == [amount |-> call[h].size * RequestGuidsBufferMultiplayer,
                   callback |-> IF wait THEN h ELSE NoCallback]
             c == [call[h] EXCEPT !.pc = IF wait THEN "wait" ELSE "use"]
  <2>3. m \in Request /\ s \in Servers
    BY <2>1, <2>2 DEF Request, CallState
  <2>4. c \in CallState
    BY <2>1 DEF CallState
  <2>5. /\ requestChan' = [requestChan EXCEPT ![s] = Append(@, m)]
        /\ call' = [call EXCEPT ![h] = c]
    BY <1>6 DEF SendRequest
  <2> HIDE DEF s, m, c
  <2>6. call' \in [Handlers -> CallState \cup {NoCall}] /\ requestChan' \in [Servers -> Seq(Request)]
    BY <2>3, <2>4, <2>5
  <2> QED BY <1>6, <2>6 DEF SendRequest, storageVars, instanceVars, boundVars
<1>7. ASSUME NEW h \in Handlers, TakeGuids(h) PROVE TypeOK'
  <2>1. call[h] \in CallState
    BY <1>7, CallingType DEF TakeGuids, NoCall
  <2> DEFINE s == call[h].server
             taken == UseGuids(cache[s], call[h].size)
  <2>2. s \in Servers /\ call[h].size \in Nat \ {0}
    BY <2>1, SizesAssumption DEF CallState
  <2>3. taken.left \in Seq(GuidDiapasonWithState) /\ taken.guids \subseteq Nat
    BY <2>2, UseGuidsType
  <2>4. CASE cache[s] = <<>>
    <3> DEFINE c == [call[h] EXCEPT !.pc = "check"]
    <3>1. c \in CallState
      BY <2>1 DEF CallState
    <3>2. call' = [call EXCEPT ![h] = c]
      BY <1>7, <2>4 DEF TakeGuids
    <3> HIDE DEF c
    <3>3. call' \in [Handlers -> CallState \cup {NoCall}]
      BY <3>1, <3>2
    <3> QED BY <1>7, <2>4, <3>3 DEF TakeGuids, storageVars, boundVars
  <2>5. CASE cache[s] # <<>>
    <3> HIDE DEF s, taken
    <3>1. /\ call' = [call EXCEPT ![h] = NoCall]
          /\ cache' = [cache EXCEPT ![s] = taken.left]
          /\ twice' = twice \cup (used \cap taken.guids)
          /\ used' = used \cup taken.guids
          /\ UNCHANGED <<storageVars, boot, bootMax, requestChan, workChan, responseChan, inProcess,
                         callbacks, mishaps, boundVars>>
      BY <1>7, <2>5 DEF TakeGuids, s, taken
    <3> QED BY <2>2, <2>3, <3>1 DEF storageVars, boundVars
  <2> QED BY <2>4, <2>5
<1>8. ASSUME NEW s \in Servers, DispatchRequest(s) PROVE TypeOK'
  <2>1. Head(requestChan[s]) \in Request /\ Tail(requestChan[s]) \in Seq(Request)
    BY <1>8 DEF DispatchRequest
  <2> DEFINE m == Head(requestChan[s])
  <2>2. m.amount \in Amounts /\ m.callback \in Handlers \cup {NoCallback}
    BY <2>1 DEF Request
  <2>3. requestChan' = [requestChan EXCEPT ![s] = Tail(@)]
    BY <1>8 DEF DispatchRequest
  <2>4. requestChan' \in [Servers -> Seq(Request)]
    BY <2>1, <2>3
  <2>5. CASE m.amount \in inProcess[s]
    <3>1. /\ callbacks' = [callbacks EXCEPT ![s] = IF m.callback = NoCallback THEN @
                                                  ELSE @ \cup {<<m.amount, m.callback>>}]
          /\ UNCHANGED <<inProcess, workChan>>
      BY <1>8, <2>5 DEF DispatchRequest
    <3> HIDE DEF m
    <3>2. callbacks' \in [Servers -> SUBSET (Amounts \X Handlers)]
      BY <2>2, <3>1
    <3> QED BY <1>8, <2>4, <3>1, <3>2 DEF DispatchRequest, storageVars, boundVars
  <2>6. CASE m.amount \notin inProcess[s]
    <3>1. /\ inProcess' = [inProcess EXCEPT ![s] = @ \cup {m.amount}]
          /\ workChan' = [workChan EXCEPT ![s] = Append(@, m)]
          /\ UNCHANGED callbacks
      BY <1>8, <2>6 DEF DispatchRequest
    <3> HIDE DEF m
    <3>2. inProcess' \in [Servers -> SUBSET Amounts]
      BY <2>2, <3>1
    <3>3. workChan' \in [Servers -> Seq(Request)]
      BY <2>1, <3>1 DEF m
    <3> QED BY <1>8, <2>4, <3>1, <3>2, <3>3 DEF DispatchRequest, storageVars, boundVars
  <2> QED BY <2>5, <2>6
<1>9. ASSUME NEW s \in Servers, DispatchResponse(s) PROVE TypeOK'
  <2> DEFINE m == Head(responseChan[s])
  <2>1. m \in Response /\ Tail(responseChan[s]) \in Seq(Response)
    BY <1>9 DEF DispatchResponse
  <2>2. AddDiapason(cache[s], m.newGuids) \in Seq(GuidDiapasonWithState)
    BY <2>1, AddDiapasonType DEF Response
  <2>3. \A h \in Handlers : h \in Woken(s, m.request) => [call[h] EXCEPT !.pc = "check"] \in CallState
    <3> SUFFICES ASSUME NEW h \in Handlers, h \in Woken(s, m.request)
                 PROVE  [call[h] EXCEPT !.pc = "check"] \in CallState
      OBVIOUS
    <3>1. call[h].pc = "wait"
      BY <1>9 DEF DispatchResponse
    <3>2. call[h] \in CallState
      BY <3>1, CallingType DEF NoCall
    <3> QED BY <3>2 DEF CallState
  <2> QED BY <1>9, <2>1, <2>2, <2>3 DEF DispatchResponse, storageVars, boundVars
<1>10. ASSUME NEW p \in Servers \X Processors, StartWork(p) PROVE TypeOK'
  <2>1. p[1] \in Servers /\ Head(workChan[p[1]]) \in Request /\ Tail(workChan[p[1]]) \in Seq(Request)
    BY <1>10 DEF StartWork
  <2> DEFINE w == [pc |-> "watch", request |-> Head(workChan[p[1]]),
                   tries |-> 0, read |-> 0, dirty |-> FALSE]
  <2>2. w \in WorkState
    BY <2>1, RetriesAssumption DEF WorkState
  <2>3. work' \in [Servers \X Processors -> WorkState \cup {NoWork}]
    BY <1>10, <2>2 DEF StartWork
  <2>4. workChan' \in [Servers -> Seq(Request)]
    BY <1>10, <2>1 DEF StartWork
  <2> QED BY <1>10, <2>3, <2>4 DEF StartWork, boundVars
<1>11. ASSUME NEW p \in Servers \X Processors, Watch(p) PROVE TypeOK'
  <2> DEFINE w == [work[p] EXCEPT !.pc = "exec", !.read = maxGuid, !.dirty = FALSE]
  <2>1. work[p] \in WorkState
    BY <1>11, WorkingType DEF Watch
  <2>2. w \in WorkState
    BY <2>1 DEF WorkState
  <2>3. work' = [work EXCEPT ![p] = w]
    BY <1>11 DEF Watch
  <2> HIDE DEF w
  <2>4. work' \in [Servers \X Processors -> WorkState \cup {NoWork}]
    BY <2>2, <2>3
  <2> QED BY <1>11, <2>4 DEF Watch, instanceVars, boundVars
<1>12. ASSUME NEW p \in Servers \X Processors, NEW d \in GuidDiapason,
              work[p].pc \in {"watch", "exec"}, Respond(p, d)
       PROVE  responseChan' \in [Servers -> Seq(Response)]
  <2> DEFINE m == [request |-> work[p].request, newGuids |-> d]
  <2>1. m \in Response /\ p[1] \in Servers
    BY <1>12, WorkingType DEF Response, WorkState
  <2>2. responseChan' = [responseChan EXCEPT ![p[1]] = Append(@, m)]
    BY <1>12 DEF Respond
  <2> HIDE DEF m
  <2> QED BY <2>1, <2>2
<1>13. ASSUME NEW p \in Servers \X Processors, ExecCommit(p) PROVE TypeOK'
  <2>1. work[p] \in WorkState /\ work[p].request.amount \in Nat \ {0} /\ work[p].read \in Nat
    BY <1>13, WorkingType DEF ExecCommit, WorkState
  <2> DEFINE newMax == work[p].read + work[p].request.amount
             d == [start |-> newMax - work[p].request.amount + 1, end |-> newMax]
  <2>a. newMax \in Nat /\ newMax - work[p].request.amount + 1 \in Nat
    <3> DEFINE a == work[p].read  b == work[p].request.amount
    <3>1. a \in Nat /\ b \in Nat
      BY <2>1
    <3> HIDE DEF a, b
    <3>2. a + b \in Nat /\ (a + b) - b + 1 \in Nat
      BY <3>1, AdvanceType
    <3> QED BY <3>2 DEF a, b
  <2>2. newMax \in Nat /\ d \in GuidDiapason
    <3> HIDE DEF newMax
    <3> QED BY <2>a DEF GuidDiapason
  <2>3. responseChan' \in [Servers -> Seq(Response)]
    BY <1>12, <1>13, <2>2 DEF ExecCommit
  <2>4. work' \in [Servers \X Processors -> WorkState \cup {NoWork}]
    BY <1>13, TouchType DEF ExecCommit
  <2> QED BY <1>13, <2>2, <2>3, <2>4 DEF ExecCommit, boundVars
<1>14. [start |-> 0, end |-> 0] \in GuidDiapason
  BY DEF GuidDiapason
<1>15. ASSUME NEW p \in Servers \X Processors, ExecAbort(p) PROVE TypeOK'
  <2>1. work[p] \in WorkState
    BY <1>15, WorkingType DEF ExecAbort
  <2>2. CASE work[p].tries + 1 < Retries
    <3> DEFINE w == [work[p] EXCEPT !.pc = "watch", !.tries = @ + 1]
    <3>1. work[p].tries + 1 \in 0..(Retries - 1)
      BY <2>1, <2>2, RetriesAssumption DEF WorkState
    <3>2. w \in WorkState
      BY <2>1, <3>1 DEF WorkState
    <3>3. work' = [work EXCEPT ![p] = w]
      BY <1>15, <2>2 DEF ExecAbort
    <3> HIDE DEF w
    <3>4. work' \in [Servers \X Processors -> WorkState \cup {NoWork}]
      BY <3>2, <3>3
    <3> QED BY <1>15, <2>2, <3>4 DEF ExecAbort, boundVars
  <2>3. CASE ~(work[p].tries + 1 < Retries)
    <3>1. responseChan' \in [Servers -> Seq(Response)]
      BY <1>12, <1>14, <1>15, <2>3 DEF ExecAbort
    <3> QED BY <1>15, <2>3, <3>1 DEF ExecAbort, boundVars
  <2> QED BY <2>2, <2>3
<1>16. ASSUME NEW p \in Servers \X Processors, RedisError(p) PROVE TypeOK'
  <2>1. work[p] \in WorkState /\ work[p].request.amount \in Nat \ {0} /\ work[p].read \in Nat
    BY <1>16, WorkingType DEF RedisError, WorkState
  <2>2. responseChan' \in [Servers -> Seq(Response)]
    BY <1>12, <1>14, <1>16 DEF RedisError
  <2>a. work[p].read + work[p].request.amount \in Nat
    BY <2>1
  <2>b. maxGuid' \in Nat
    BY <1>16, <2>a DEF RedisError
  <2>c. work' = [work EXCEPT ![p] = NoWork] \/ work' = [Touch(work) EXCEPT ![p] = NoWork]
    BY <1>16 DEF RedisError
  <2>3. /\ maxGuid' \in Nat
        /\ work' \in [Servers \X Processors -> WorkState \cup {NoWork}]
    BY <2>b, <2>c, TouchType
  <2> QED BY <1>16, <2>2, <2>3 DEF RedisError
<1>17. ASSUME NEW s \in Servers, Crash(s) PROVE TypeOK'
  BY <1>17 DEF Crash
<1>18. CASE UNCHANGED vars
  BY <1>18 DEF vars
<1> QED
  BY <1>1, <1>2, <1>3, <1>4, <1>5, <1>6, <1>7, <1>8, <1>9, <1>10, <1>11, <1>13, <1>15, <1>16,
     <1>17, <1>18
     DEF Next, HandlerStep, BootStep, DispatcherStep, ProcessorStep

\* In every reachable state of the GUID service, for every value of the constants,
\* channels, buffers, calls and transactions have the shape the Go types give them.
THEOREM TypeCorrect == Spec => []TypeOK
  BY InitTypeOK, NextTypeOK, PTL DEF Spec

-----------------------------------------------------------------------------
(* Instances never hold the same GUID, whatever pool sizes are asked for. *)

\* The ranges of a sequence of diapasons, member by member.
LEMMA RangesOfMembers ==
  ASSUME NEW ds
  PROVE  \A g : g \in RangesOf(ds) <=> \E i \in DOMAIN ds : g \in ds[i].start .. ds[i].end
  BY DEF RangesOf

\* The ranges on their way to the dispatcher, member by member.
LEMMA ArrivingInMembers ==
  ASSUME NEW ms
  PROVE  \A g : g \in ArrivingIn(ms) <=>
                 \E i \in DOMAIN ms : g \in ms[i].newGuids.start .. ms[i].newGuids.end
  BY DEF ArrivingIn

\* UseGuids invents no range.
LEMMA UseGuidsRanges ==
  ASSUME NEW ds \in Seq(GuidDiapasonWithState), NEW n \in Nat \ {0}
  PROVE  RangesOf(UseGuids(ds, n).left) \subseteq RangesOf(ds)
<1> DEFINE left == UseGuids(ds, n).left
<1>1. \A i \in DOMAIN left : \E j \in DOMAIN ds :
         left[i].start = ds[j].start /\ left[i].end = ds[j].end
  BY UseGuidsType
<1> HIDE DEF left
<1>2. \A g : g \in RangesOf(left) <=> \E i \in DOMAIN left : g \in left[i].start .. left[i].end
  BY RangesOfMembers
<1>3. \A g : g \in RangesOf(ds) <=> \E i \in DOMAIN ds : g \in ds[i].start .. ds[i].end
  BY RangesOfMembers
<1>4. RangesOf(left) \subseteq RangesOf(ds)
  BY <1>1, <1>2, <1>3
<1> QED BY <1>4 DEF left

\* AddDiapason, merging or not, adds the new range to what is held.
LEMMA AddDiapasonRanges ==
  ASSUME NEW ds \in Seq(GuidDiapasonWithState), NEW d \in GuidDiapason
  PROVE  RangesOf(AddDiapason(ds, d)) \subseteq RangesOf(ds) \cup (d.start .. d.end)
<1> DEFINE k == Len(ds)
           new == AddDiapason(ds, d)
<1>1. d.start \in Nat /\ d.end \in Nat
  BY DEF GuidDiapason
<1>2. \A g : g \in RangesOf(new) <=> \E i \in DOMAIN new : g \in new[i].start .. new[i].end
  BY RangesOfMembers
<1>3. \A g : g \in RangesOf(ds) <=> \E i \in DOMAIN ds : g \in ds[i].start .. ds[i].end
  BY RangesOfMembers
<1>4. CASE ds # <<>> /\ ds[k].end = d.start - 1
  <2>1. k \in DOMAIN ds /\ ds[k] \in GuidDiapasonWithState
    BY <1>4
  <2>2. ds[k].start \in Nat /\ ds[k].end \in Nat
    BY <2>1 DEF GuidDiapasonWithState
  <2>3. /\ DOMAIN new = DOMAIN ds
        /\ \A i \in DOMAIN ds : i # k => new[i] = ds[i]
        /\ new[k].start = ds[k].start /\ new[k].end = d.end
    BY <1>4, <2>1 DEF AddDiapason, GuidDiapasonWithState
  <2>4. ASSUME NEW g, NEW i \in DOMAIN ds, g \in new[i].start .. new[i].end
        PROVE  g \in RangesOf(ds) \/ g \in d.start .. d.end
    <3>1. CASE i # k
      BY <1>3, <2>3, <2>4, <3>1
    <3>2. CASE i = k
      <4>1. g \in ds[k].start .. d.end
        BY <2>3, <2>4, <3>2
      <4>2. g \in ds[k].start .. ds[k].end \/ g \in d.start .. d.end
        BY <1>1, <1>4, <2>2, <4>1
      <4> QED BY <1>3, <2>1, <4>2
    <3> QED BY <3>1, <3>2
  <2> HIDE DEF new, k
  <2> QED BY <1>2, <2>3, <2>4 DEF new
<1>5. CASE ~(ds # <<>> /\ ds[k].end = d.start - 1)
  <2> DEFINE e == [start |-> d.start, end |-> d.end, cur |-> d.start]
  <2>1. new = Append(ds, e)
    BY <1>5 DEF AddDiapason
  <2>2. \A i \in DOMAIN new : (i \in DOMAIN ds /\ new[i] = ds[i]) \/ new[i] = e
    BY <2>1
  <2>3. e.start = d.start /\ e.end = d.end
    OBVIOUS
  <2> HIDE DEF new, e
  <2> QED BY <1>2, <1>3, <2>2, <2>3 DEF new
<1> QED BY <1>4, <1>5

\* Steps by which no instance gets a GUID: every instance holds the same or less.
LEMMA HeldShrinks ==
  ASSUME TypeOK, Reserved, InstancesDisjoint, CounterKept, maxGuid' \in Nat, maxGuid' >= maxGuid,
         \A t \in Servers : HeldGuids(t)' \subseteq HeldGuids(t) \cup {0}
  PROVE  /\ InstancesDisjoint'
         /\ \A t \in Servers : HeldGuids(t)' \subseteq 0..(maxGuid')
<1>1. maxGuid \in Nat
  BY DEF TypeOK
<1>2. \A t \in Servers : HeldGuids(t)' \subseteq 0..(maxGuid')
  <2>1. 0..maxGuid \subseteq 0..(maxGuid') /\ 0 \in 0..(maxGuid')
    BY <1>1
  <2> QED BY <2>1 DEF Reserved
<1>3. \A t, u \in Servers : t # u => HeldGuids(t) \cap HeldGuids(u) \subseteq {0}
  BY DEF InstancesDisjoint
<1>4. \A t, u \in Servers : t # u => HeldGuids(t)' \cap HeldGuids(u)' \subseteq {0}
  BY <1>3
<1> QED BY <1>2, <1>4 DEF InstancesDisjoint

\* A committed reservation is above everything that any instance holds.
LEMMA HeldGrows ==
  ASSUME TypeOK, Reserved, InstancesDisjoint, CounterKept, NEW s \in Servers, maxGuid' \in Nat,
         maxGuid' >= maxGuid,
         \A t \in Servers : HeldGuids(t)' \subseteq
             HeldGuids(t) \cup IF t = s THEN (maxGuid + 1)..(maxGuid') ELSE {}
  PROVE  /\ InstancesDisjoint'
         /\ \A t \in Servers : HeldGuids(t)' \subseteq 0..(maxGuid')
<1> DEFINE new == (maxGuid + 1)..(maxGuid')
<1>1. maxGuid \in Nat
  BY DEF TypeOK
<1>2. 0..maxGuid \subseteq 0..(maxGuid') /\ new \subseteq 0..(maxGuid') /\ 0..maxGuid \cap new = {}
  BY <1>1
<1>3. \A t \in Servers : HeldGuids(t) \subseteq 0..maxGuid
  BY DEF Reserved
<1>4. \A t \in Servers : HeldGuids(t)' \subseteq HeldGuids(t) \cup IF t = s THEN new ELSE {}
  OBVIOUS
<1>5. \A t, u \in Servers : t # u => HeldGuids(t) \cap HeldGuids(u) \subseteq {0}
  BY DEF InstancesDisjoint
<1> HIDE DEF new
<1>6. \A t \in Servers : HeldGuids(t)' \subseteq 0..(maxGuid')
  BY <1>2, <1>3, <1>4
<1>7. \A t, u \in Servers : t # u => HeldGuids(t)' \cap HeldGuids(u)' \subseteq {0}
  <2> SUFFICES ASSUME NEW t \in Servers, NEW u \in Servers, t # u,
                      NEW g \in HeldGuids(t)', g \in HeldGuids(u)'
               PROVE  g = 0
    OBVIOUS
  <2>1. \/ g \in HeldGuids(t) /\ g \in HeldGuids(u)
        \/ g \in new /\ (g \in HeldGuids(t) \/ g \in HeldGuids(u))
    BY <1>4
  <2>2. ~(g \in new /\ (g \in HeldGuids(t) \/ g \in HeldGuids(u)))
    BY <1>2, <1>3
  <2> QED BY <1>5, <2>1, <2>2
<1> QED BY <1>6, <1>7 DEF InstancesDisjoint

\* A step that leaves buffers and responses alone leaves what is held alone.
LEMMA HeldUnchanged ==
  ASSUME UNCHANGED <<cache, responseChan>>, NEW t \in Servers
  PROVE  HeldGuids(t)' \subseteq HeldGuids(t)
  BY DEF HeldGuids

\* Respond adds the answered range to what its instance holds.
LEMMA HeldAfterRespond ==
  ASSUME TypeOK, NEW p \in Servers \X Processors, NEW d \in GuidDiapason, Respond(p, d),
         UNCHANGED cache, NEW t \in Servers
  PROVE  HeldGuids(t)' \subseteq HeldGuids(t) \cup IF t = p[1] THEN d.start .. d.end ELSE {}
<1> DEFINE m == [request |-> work[p].request, newGuids |-> d]
           ms == responseChan[t]
<1>1. responseChan' = [responseChan EXCEPT ![p[1]] = Append(@, m)]
  BY DEF Respond
<1>2. m.newGuids = d /\ ms \in Seq(Response) /\ responseChan \in [Servers -> Seq(Response)] /\ p[1] \in Servers
  BY DEF TypeOK
<1> HIDE DEF m
<1>3. CASE t # p[1]
  <2>1. responseChan'[t] = responseChan[t]
    BY <1>1, <1>2, <1>3
  <2> QED BY <1>3, <2>1 DEF HeldGuids
<1>4. CASE t = p[1]
  <2> DEFINE ms2 == responseChan'[t]
  <2>1. ms2 = Append(ms, m)
    BY <1>1, <1>2, <1>4
  <2> HIDE DEF ms2, ms
  <2>2. \A i \in DOMAIN ms2 : (i \in DOMAIN ms /\ ms2[i] = ms[i]) \/ ms2[i] = m
    BY <1>2, <2>1
  <2>3. ArrivingIn(ms2) \subseteq ArrivingIn(ms) \cup (d.start .. d.end)
    BY <1>2, <2>2, ArrivingInMembers
  <2>4. HeldGuids(t)' = RangesOf(cache[t]) \cup ArrivingIn(ms2)
    BY DEF HeldGuids, ms2
  <2> QED BY <1>4, <2>3, <2>4 DEF HeldGuids, ms
<1> QED BY <1>3, <1>4

\* Init establishes the invariant.
LEMMA InitReserved == Init => Reserved /\ InstancesDisjoint
<1> SUFFICES ASSUME Init PROVE Reserved /\ InstancesDisjoint
  OBVIOUS
<1>1. \A s \in Servers : cache[s] = <<>> /\ responseChan[s] = <<>>
  BY DEF Init
<1>2. RangesOf(<<>>) = {} /\ ArrivingIn(<<>>) = {}
  BY DEF RangesOf, ArrivingIn
<1>3. \A s \in Servers : HeldGuids(s) = {}
  BY <1>1, <1>2 DEF HeldGuids
<1>4. \A p \in Servers \X Processors : work[p].pc = "idle"
  BY DEF Init, NoWork
<1> QED BY <1>3, <1>4 DEF Reserved, InstancesDisjoint

\* After a write to the key no open transaction can commit.
LEMMA TouchedAll ==
  ASSUME TypeOK, NEW q \in Servers \X Processors
  PROVE  ~(Touch(work)[q].pc = "exec" /\ ~Touch(work)[q].dirty)
<1>1. work \in [Servers \X Processors -> WorkState \cup {NoWork}]
  BY DEF TypeOK
<1>2. Touch(work)[q] = IF work[q].pc = "exec" THEN [work[q] EXCEPT !.dirty = TRUE] ELSE work[q]
  BY <1>1 DEF Touch
<1>3. CASE work[q].pc = "exec"
  <2>1. work[q] \in WorkState
    BY <1>1, <1>3 DEF NoWork
  <2> QED BY <1>2, <1>3, <2>1 DEF WorkState
<1>4. CASE work[q].pc # "exec"
  BY <1>2, <1>4
<1> QED BY <1>3, <1>4

\* The same for a committing transaction, which ends.
LEMMA TouchedWork ==
  ASSUME TypeOK, NEW p \in Servers \X Processors, work' = [Touch(work) EXCEPT ![p] = NoWork],
         NEW q \in Servers \X Processors
  PROVE  ~(work'[q].pc = "exec" /\ ~work'[q].dirty)
<1>1. DOMAIN Touch(work) = Servers \X Processors
  BY DEF Touch, TypeOK
<1>2. CASE q = p
  BY <1>1, <1>2 DEF NoWork
<1>3. CASE q # p
  <2>1. work'[q] = Touch(work)[q]
    BY <1>1, <1>3
  <2> QED BY <2>1, TouchedAll
<1> QED BY <1>2, <1>3

\* What went wrong stays in the history.
LEMMA MishapsStay == ASSUME [Next]_vars PROVE mishaps \subseteq mishaps'
<1>1. ASSUME NEW s \in Servers, BootStep(s) \/ DispatcherStep(s) \/ Crash(s)
      PROVE  mishaps \subseteq mishaps'
  BY <1>1 DEF BootStep, BootReadRedis, BootReadMysql, BootSetRedis, DispatcherStep,
              DispatchRequest, DispatchResponse, Crash
<1>2. ASSUME NEW h \in Handlers, HandlerStep(h) PROVE mishaps \subseteq mishaps'
  BY <1>2 DEF HandlerStep, CheckUsage, SendRequest, TakeGuids
<1>3. ASSUME NEW h \in Handlers, NEW s \in Servers, NEW n \in Sizes, GetGuids(h, s, n)
      PROVE  mishaps \subseteq mishaps'
  BY <1>3 DEF GetGuids
<1>4. ASSUME NEW p \in Servers \X Processors, ProcessorStep(p) \/ RedisError(p)
      PROVE  mishaps \subseteq mishaps'
  BY <1>4 DEF ProcessorStep, StartWork, Watch, ExecCommit, ExecAbort, RedisError
<1>5. CASE UNCHANGED vars
  BY <1>5 DEF vars
<1> QED BY <1>1, <1>2, <1>3, <1>4, <1>5 DEF Next

\* Every step preserves the invariant.
LEMMA NextReserved ==
  TypeOK /\ TypeOK' /\ Reserved /\ InstancesDisjoint /\ [Next]_vars => Reserved' /\ InstancesDisjoint'
<1> SUFFICES ASSUME TypeOK, TypeOK', Reserved, InstancesDisjoint, [Next]_vars, CounterKept'
             PROVE  Reserved' /\ InstancesDisjoint'
  BY DEF Reserved, InstancesDisjoint
<1>k. CounterKept
  BY MishapsStay DEF CounterKept
<1> DEFINE Committable(p) == work[p].pc = "exec" /\ ~work[p].dirty
           ReadsMax == \A p \in Servers \X Processors : Committable(p) => work[p].read = maxGuid
<1>0. maxGuid \in Nat /\ maxGuid' \in Nat /\ ReadsMax
  BY <1>k DEF Reserved, TypeOK
<1>a. ASSUME maxGuid' >= maxGuid, ReadsMax',
             \A t \in Servers : HeldGuids(t)' \subseteq HeldGuids(t) \cup {0}
      PROVE  Reserved' /\ InstancesDisjoint'
  <2>1. /\ InstancesDisjoint'
        /\ \A t \in Servers : HeldGuids(t)' \subseteq 0..(maxGuid')
    BY <1>0, <1>a, <1>k, HeldShrinks
  <2> QED BY <1>a, <2>1 DEF Reserved
<1>b. ASSUME UNCHANGED <<cache, responseChan>>, maxGuid' >= maxGuid, ReadsMax'
      PROVE  Reserved' /\ InstancesDisjoint'
  BY <1>a, <1>b, HeldUnchanged
<1>c. ASSUME UNCHANGED <<maxGuid, work, cache, responseChan>>
      PROVE  Reserved' /\ InstancesDisjoint'
  <2>1. ReadsMax' /\ maxGuid' >= maxGuid
    BY <1>0, <1>c
  <2> QED BY <1>b, <1>c, <2>1
<1>1. ASSUME NEW s \in Servers, BootStep(s) PROVE Reserved' /\ InstancesDisjoint'
  <2>1. CASE BootReadRedis(s) \/ BootReadMysql(s)
    BY <1>c, <2>1 DEF BootReadRedis, BootReadMysql
  <2>2. CASE BootSetRedis(s)
    <3>1. maxGuid' = bootMax[s] /\ work' = Touch(work) /\ UNCHANGED <<cache, responseChan>>
      BY <2>2 DEF BootSetRedis
    <3>2. ~(bootMax[s] < maxGuid) /\ bootMax[s] \in Nat
      BY <2>2 DEF BootSetRedis, CounterKept, TypeOK
    <3>3. ReadsMax'
      BY <3>1, TouchedAll
    <3> QED BY <1>0, <1>b, <3>1, <3>2, <3>3
  <2> QED BY <1>1, <2>1, <2>2 DEF BootStep
<1>2. ASSUME NEW h \in Handlers, NEW s \in Servers, NEW n \in Sizes, GetGuids(h, s, n)
      PROVE  Reserved' /\ InstancesDisjoint'
  BY <1>2, <1>c DEF GetGuids, storageVars, instanceVars
<1>3. ASSUME NEW h \in Handlers, CheckUsage(h) \/ SendRequest(h)
      PROVE  Reserved' /\ InstancesDisjoint'
  BY <1>3, <1>c DEF CheckUsage, SendRequest, storageVars, instanceVars
<1>4. ASSUME NEW h \in Handlers, TakeGuids(h) PROVE Reserved' /\ InstancesDisjoint'
  <2> DEFINE s == call[h].server
             taken == UseGuids(cache[s], call[h].size)
  <2>1. call[h] \in CallState
    BY <1>4, CallingType DEF TakeGuids, NoCall
  <2>2. s \in Servers /\ call[h].size \in Nat \ {0} /\ cache \in [Servers -> Seq(GuidDiapasonWithState)]
    BY <2>1, SizesAssumption DEF CallState, TypeOK
  <2>3. RangesOf(taken.left) \subseteq RangesOf(cache[s])
    BY <2>2, UseGuidsRanges
  <2>4. UNCHANGED <<maxGuid, work, boot, responseChan>>
    BY <1>4 DEF TakeGuids, storageVars
  <2>5. cache' = cache \/ cache' = [cache EXCEPT ![s] = taken.left]
    BY <1>4 DEF TakeGuids
  <2> HIDE DEF s, taken
  <2>6. \A t \in Servers : RangesOf(cache'[t]) \subseteq RangesOf(cache[t])
    BY <2>2, <2>3, <2>5
  <2>7. \A t \in Servers : HeldGuids(t)' \subseteq HeldGuids(t) \cup {0}
    BY <2>4, <2>6 DEF HeldGuids
  <2>8. ReadsMax' /\ maxGuid' >= maxGuid
    BY <1>0, <2>4
  <2> QED BY <1>a, <2>7, <2>8
<1>5. ASSUME NEW s \in Servers, DispatchRequest(s) PROVE Reserved' /\ InstancesDisjoint'
  BY <1>5, <1>c DEF DispatchRequest, storageVars
<1>6. ASSUME NEW s \in Servers, DispatchResponse(s) PROVE Reserved' /\ InstancesDisjoint'
  <2> DEFINE ms == responseChan[s]
             d == Head(ms).newGuids
  <2>1. /\ ms \in Seq(Response) /\ ms # <<>> /\ Head(ms) \in Response
        /\ cache[s] \in Seq(GuidDiapasonWithState)
        /\ cache \in [Servers -> Seq(GuidDiapasonWithState)]
        /\ responseChan \in [Servers -> Seq(Response)]
    BY <1>6 DEF DispatchResponse, TypeOK
  <2>2. d \in GuidDiapason
    BY <2>1 DEF Response
  <2>3. /\ cache' = [cache EXCEPT ![s] = AddDiapason(@, d)]
        /\ responseChan' = [responseChan EXCEPT ![s] = Tail(@)]
        /\ UNCHANGED <<maxGuid, work, boot>>
    BY <1>6 DEF DispatchResponse, storageVars
  <2>4. RangesOf(AddDiapason(cache[s], d)) \subseteq RangesOf(cache[s]) \cup (d.start .. d.end)
    BY <2>1, <2>2, AddDiapasonRanges
  <2>5. d.start .. d.end \subseteq ArrivingIn(ms)
    <3>1. 1 \in DOMAIN ms /\ Head(ms) = ms[1]
      BY <2>1
    <3> QED BY <3>1, ArrivingInMembers
  <2>6. ArrivingIn(Tail(ms)) \subseteq ArrivingIn(ms)
    <3> DEFINE tl == Tail(ms)
    <3>1. \A i \in DOMAIN tl : i + 1 \in DOMAIN ms /\ tl[i] = ms[i + 1]
      BY <2>1
    <3> HIDE DEF tl, ms
    <3>2. ArrivingIn(tl) \subseteq ArrivingIn(ms)
      BY <3>1, ArrivingInMembers
    <3> QED BY <3>2 DEF tl
  <2> HIDE DEF d
  <2>7. ASSUME NEW t \in Servers PROVE HeldGuids(t)' \subseteq HeldGuids(t) \cup {0}
    <3>1. CASE t # s
      <4>1. cache'[t] = cache[t] /\ responseChan'[t] = responseChan[t]
        BY <2>1, <2>3, <3>1
      <4> QED BY <4>1 DEF HeldGuids
    <3>2. CASE t = s
      <4>1. cache'[t] = AddDiapason(cache[s], d) /\ responseChan'[t] = Tail(ms)
        BY <2>1, <2>3, <3>2
      <4>2. HeldGuids(t)' = RangesOf(AddDiapason(cache[s], d)) \cup ArrivingIn(Tail(ms))
        BY <4>1 DEF HeldGuids
      <4> QED BY <2>4, <2>5, <2>6, <3>2, <4>2 DEF HeldGuids
    <3> QED BY <3>1, <3>2
  <2>8. ReadsMax' /\ maxGuid' >= maxGuid
    BY <1>0, <2>3
  <2> QED BY <1>a, <2>7, <2>8
<1>7. ASSUME NEW p \in Servers \X Processors, StartWork(p) PROVE Reserved' /\ InstancesDisjoint'
  <2> DEFINE w == [pc |-> "watch", request |-> Head(workChan[p[1]]),
                   tries |-> 0, read |-> 0, dirty |-> FALSE]
  <2>1. work' = [work EXCEPT ![p] = w] /\ w.pc = "watch" /\ UNCHANGED <<maxGuid, boot, cache, responseChan>>
    BY <1>7 DEF StartWork
  <2> HIDE DEF w
  <2>2. ReadsMax'
    BY <1>0, <2>1 DEF TypeOK
  <2>3. maxGuid' >= maxGuid
    BY <1>0, <2>1
  <2> QED BY <1>b, <2>1, <2>2, <2>3
<1>8. ASSUME NEW p \in Servers \X Processors, Watch(p) PROVE Reserved' /\ InstancesDisjoint'
  <2> DEFINE w == [work[p] EXCEPT !.pc = "exec", !.read = maxGuid, !.dirty = FALSE]
  <2>1. work[p] \in WorkState
    BY <1>8, WorkingType DEF Watch
  <2>2. w.read = maxGuid
    BY <2>1 DEF WorkState
  <2>3. work' = [work EXCEPT ![p] = w] /\ UNCHANGED <<maxGuid, boot, cache, responseChan>>
    BY <1>8 DEF Watch, instanceVars
  <2> HIDE DEF w
  <2>4. ReadsMax'
    BY <1>0, <2>2, <2>3 DEF TypeOK
  <2>5. maxGuid' >= maxGuid
    BY <1>0, <2>3
  <2> QED BY <1>b, <2>3, <2>4, <2>5
<1>9. ASSUME NEW p \in Servers \X Processors, ExecCommit(p) PROVE Reserved' /\ InstancesDisjoint'
  <2> DEFINE a == work[p].request.amount
  <2>1. work[p] \in WorkState /\ a \in Nat \ {0} /\ work[p].read = maxGuid
    BY <1>0, <1>9, WorkingType DEF ExecCommit
  <2> DEFINE newMax == work[p].read + a
             d == [start |-> newMax - a + 1, end |-> newMax]
  <2>2. /\ maxGuid' = newMax
        /\ work' = [Touch(work) EXCEPT ![p] = NoWork]
        /\ Respond(p, d)
        /\ UNCHANGED <<boot, cache>>
    BY <1>9, <2>1 DEF ExecCommit
  <2> HIDE DEF a
  <2>3. d \in GuidDiapason /\ d.start = maxGuid + 1 /\ d.end = maxGuid' /\ maxGuid' >= maxGuid
    BY <1>0, <2>1, <2>2 DEF GuidDiapason
  <2> HIDE DEF d
  <2>4. \A t \in Servers : HeldGuids(t)' \subseteq
             HeldGuids(t) \cup IF t = p[1] THEN (maxGuid + 1)..(maxGuid') ELSE {}
    BY <2>2, <2>3, HeldAfterRespond
  <2>5. /\ InstancesDisjoint'
        /\ \A t \in Servers : HeldGuids(t)' \subseteq 0..(maxGuid')
    BY <1>0, <1>k, <2>3, <2>4, HeldGrows
  <2>6. ReadsMax'
    BY <2>2, TouchedWork
  <2> QED BY <2>5, <2>6 DEF Reserved
<1>d. ASSUME NEW p \in Servers \X Processors, Respond(p, [start |-> 0, end |-> 0]), UNCHANGED cache
      PROVE  \A t \in Servers : HeldGuids(t)' \subseteq HeldGuids(t) \cup {0}
  <2> DEFINE d == [start |-> 0, end |-> 0]
  <2>1. d \in GuidDiapason /\ d.start .. d.end = {0}
    BY DEF GuidDiapason
  <2> HIDE DEF d
  <2>2. Respond(p, d)
    BY <1>d DEF d
  <2> QED BY <1>d, <2>1, <2>2, HeldAfterRespond
<1>10. ASSUME NEW p \in Servers \X Processors, ExecAbort(p) PROVE Reserved' /\ InstancesDisjoint'
  <2>1. UNCHANGED <<maxGuid, boot, cache>>
    BY <1>10 DEF ExecAbort
  <2>2. CASE work[p].tries + 1 < Retries
    <3> DEFINE w == [work[p] EXCEPT !.pc = "watch", !.tries = @ + 1]
    <3>1. work' = [work EXCEPT ![p] = w] /\ UNCHANGED responseChan
      BY <1>10, <2>2 DEF ExecAbort
    <3>2. work[p] \in WorkState
      BY <1>10, WorkingType DEF ExecAbort
    <3>3. w.pc = "watch"
      BY <3>2 DEF WorkState
    <3> HIDE DEF w
    <3>4. ReadsMax'
      BY <1>0, <2>1, <3>1, <3>3 DEF TypeOK
    <3> QED BY <1>0, <1>b, <2>1, <3>1, <3>4
  <2>3. CASE ~(work[p].tries + 1 < Retries)
    <3>1. work' = [work EXCEPT ![p] = NoWork] /\ Respond(p, [start |-> 0, end |-> 0])
      BY <1>10, <2>3 DEF ExecAbort
    <3>2. ReadsMax'
      BY <1>0, <2>1, <3>1 DEF TypeOK, NoWork
    <3> QED BY <1>0, <1>a, <1>d, <2>1, <3>1, <3>2
  <2> QED BY <2>2, <2>3
<1>11. ASSUME NEW p \in Servers \X Processors, RedisError(p) PROVE Reserved' /\ InstancesDisjoint'
  <2>1. UNCHANGED <<boot, cache>> /\ Respond(p, [start |-> 0, end |-> 0])
    BY <1>11 DEF RedisError
  <2>2. CASE UNCHANGED maxGuid /\ work' = [work EXCEPT ![p] = NoWork]
    <3>1. ReadsMax'
      BY <1>0, <2>2 DEF TypeOK, NoWork
    <3> QED BY <1>0, <1>a, <1>d, <2>1, <2>2, <3>1
  <2>3. CASE /\ work[p].pc = "exec" /\ ~work[p].dirty
             /\ maxGuid' = work[p].read + work[p].request.amount
             /\ work' = [Touch(work) EXCEPT ![p] = NoWork]
    <3>1. ReadsMax'
      BY <2>3, TouchedWork
    <3>2. work[p].request.amount \in Nat /\ work[p].read = maxGuid
      BY <1>0, <2>3, WorkingType
    <3>3. maxGuid' >= maxGuid
      BY <1>0, <2>3, <3>2
    <3> QED BY <1>0, <1>a, <1>d, <2>1, <3>1, <3>3
  <2> QED BY <1>11, <2>2, <2>3 DEF RedisError
<1>12. ASSUME NEW s \in Servers, Crash(s) PROVE Reserved' /\ InstancesDisjoint'
  <2>1. /\ cache' = [cache EXCEPT ![s] = <<>>]
        /\ responseChan' = [responseChan EXCEPT ![s] = <<>>]
        /\ boot' = [boot EXCEPT ![s] = "start"]
        /\ work' = [p \in Servers \X Processors |-> IF p[1] = s THEN NoWork ELSE work[p]]
        /\ UNCHANGED maxGuid
    BY <1>12 DEF Crash
  <2>2. ReadsMax'
    BY <1>0, <2>1 DEF TypeOK, NoWork
  <2>3. RangesOf(<<>>) = {} /\ ArrivingIn(<<>>) = {}
    BY DEF RangesOf, ArrivingIn
  <2>4. ASSUME NEW t \in Servers PROVE HeldGuids(t)' \subseteq HeldGuids(t) \cup {0}
    <3>1. \/ cache'[t] = cache[t] /\ responseChan'[t] = responseChan[t]
          \/ cache'[t] = <<>> /\ responseChan'[t] = <<>>
      BY <2>1 DEF TypeOK
    <3> QED BY <2>3, <3>1 DEF HeldGuids
  <2> QED BY <1>0, <1>a, <2>1, <2>2, <2>4
<1>13. CASE UNCHANGED vars
  BY <1>13, <1>c DEF vars
<1> QED
  BY <1>1, <1>2, <1>3, <1>4, <1>5, <1>6, <1>7, <1>8, <1>9, <1>10, <1>11, <1>12, <1>13
     DEF Next, HandlerStep, DispatcherStep, ProcessorStep

\* For any number of instances and any pool sizes: unless a first start writes the Redis key
\* after another instance has reserved from it, the optimistic transactions on the key never
\* let two instances hold the same GUID, with any interleaving of seeding starts, aborted,
\* failed and half-applied transactions and restarts.
THEOREM InstancesAreDisjoint == Spec => []InstancesDisjoint
<1>1. Init => TypeOK /\ Reserved /\ InstancesDisjoint
  BY InitTypeOK, InitReserved
<1>2. TypeOK /\ Reserved /\ InstancesDisjoint /\ [Next]_vars
        => TypeOK' /\ Reserved' /\ InstancesDisjoint'
  BY NextTypeOK, NextReserved
<1> QED BY <1>1, <1>2, PTL DEF Spec
-----------------------------------------------------------------------------
(* No GUID is handed out twice, if all game servers ask for pools of one   *)
(* size: the ranges are then multiples of the size, and a request is       *)
(* fulfilled from the first diapason of the buffer alone.                  *)

\* All game servers ask for n GUIDs, as those with one configuration do; when the sizes
\* differ, UseGuids hands the rest of a diapason out again with the next one.
OneSize(n) == Sizes = {n}

Multiple(n, x) == \E m \in Nat \ {0} : x = m * n

\* Ranges of whole pools can be joined, and lose a pool at a time.
LEMMA Multiples ==
  ASSUME NEW n \in Nat \ {0}
  PROVE  /\ \A m \in Nat \ {0} : Multiple(n, n * m)
         /\ \A x, y \in Int : Multiple(n, x) /\ Multiple(n, y) => Multiple(n, x + y)
         /\ \A x \in Int : Multiple(n, x) => x >= n /\ (x = n \/ Multiple(n, x - n))
<1>1. ASSUME NEW m \in Nat \ {0} PROVE Multiple(n, n * m)
  <2>1. n * m = m * n
    OBVIOUS
  <2> QED BY <2>1 DEF Multiple
<1>2. ASSUME NEW x \in Int, NEW y \in Int, Multiple(n, x), Multiple(n, y) PROVE Multiple(n, x + y)
  <2>1. PICK k \in Nat \ {0} : x = k * n
    BY <1>2 DEF Multiple
  <2>2. PICK l \in Nat \ {0} : y = l * n
    BY <1>2 DEF Multiple
  <2>3. x + y = (k + l) * n /\ k + l \in Nat \ {0}
    BY <2>1, <2>2
  <2> QED BY <2>3 DEF Multiple
<1>3. ASSUME NEW x \in Int, Multiple(n, x) PROVE x >= n /\ (x = n \/ Multiple(n, x - n))
  <2>1. PICK k \in Nat \ {0} : x = k * n
    BY <1>3 DEF Multiple
  <2>2. CASE k = 1
    BY <2>1, <2>2
  <2>3. CASE k # 1
    <3>1. k - 1 \in Nat \ {0} /\ x - n = (k - 1) * n
      BY <2>1, <2>3
    <3>2. (k - 1) * n >= 0
      BY <3>1
    <3> QED BY <3>1, <3>2 DEF Multiple
  <2> QED BY <2>2, <2>3
<1> QED BY <1>1, <1>2, <1>3

\* The unused GUIDs that an instance has or is about to get.
UnusedIn(ds) == UNION {ds[i].cur .. ds[i].end : i \in DOMAIN ds}
WaitingIn(ds, ms) == UnusedIn(ds) \cup ArrivingIn(ms)

\* They are ranges of whole pools, in increasing order.
Ordered(ds, ms, n) ==
  /\ \A i \in DOMAIN ds : Multiple(n, ds[i].end - ds[i].cur + 1)
  /\ \A i \in DOMAIN ms : Multiple(n, ms[i].newGuids.end - ms[i].newGuids.start + 1)
  /\ \A i, j \in DOMAIN ds : i < j => ds[i].end < ds[j].cur
  /\ \A i, j \in DOMAIN ms : i < j => ms[i].newGuids.end < ms[j].newGuids.start
  /\ \A i \in DOMAIN ds, j \in DOMAIN ms : ds[i].end < ms[j].newGuids.start

\* The ranges, member by member.
LEMMA WaitingMembers ==
  ASSUME NEW ds, NEW ms
  PROVE  \A g : g \in WaitingIn(ds, ms) <=> \/ \E i \in DOMAIN ds : g \in ds[i].cur .. ds[i].end
                                            \/ \E i \in DOMAIN ms : g \in ms[i].newGuids.start .. ms[i].newGuids.end
<1>1. \A g : g \in UnusedIn(ds) <=> \E i \in DOMAIN ds : g \in ds[i].cur .. ds[i].end
  BY DEF UnusedIn
<1>2. \A g : g \in ArrivingIn(ms) <=> \E i \in DOMAIN ms : g \in ms[i].newGuids.start .. ms[i].newGuids.end
  BY ArrivingInMembers
<1> QED BY <1>1, <1>2 DEF WaitingIn

\* The bounds of diapasons and responses are numbers.
LEMMA WaitingTypes ==
  ASSUME NEW ds \in Seq(GuidDiapasonWithState), NEW ms \in Seq(Response)
  PROVE  /\ \A i \in DOMAIN ds : ds[i] \in GuidDiapasonWithState /\ ds[i].cur \in Nat /\ ds[i].end \in Nat
         /\ \A i \in DOMAIN ms : ms[i].newGuids.start \in Nat /\ ms[i].newGuids.end \in Nat
<1>1. \A i \in DOMAIN ds : ds[i] \in GuidDiapasonWithState
  OBVIOUS
<1>2. \A i \in DOMAIN ms : ms[i] \in Response
  OBVIOUS
<1> QED BY <1>1, <1>2 DEF GuidDiapasonWithState, Response, GuidDiapason

\* UseGuids takes one pool, from the first diapason.
LEMMA UseOnePool ==
  ASSUME NEW ds \in Seq(GuidDiapasonWithState), ds # <<>>, NEW n \in Nat \ {0},
         \A i \in DOMAIN ds : Multiple(n, ds[i].end - ds[i].cur + 1)
  PROVE  /\ UseGuids(ds, n).guids = ds[1].cur .. (ds[1].cur + n - 1)
         /\ ds[1].cur + n - 1 <= ds[1].end
         /\ UseGuids(ds, n).left = IF ds[1].cur + n - 1 = ds[1].end THEN Tail(ds)
                                   ELSE [ds EXCEPT ![1].cur = @ + n]
<1>1. 1 \in 1..Len(ds) /\ Len(ds) \in Nat /\ Len(ds) > 0 /\ DOMAIN ds = 1..Len(ds)
  OBVIOUS
<1>2. \A i \in 1..Len(ds) : ds[i] \in GuidDiapasonWithState /\ ds[i].cur \in Nat /\ ds[i].end \in Nat
  <2>1. \A i \in 1..Len(ds) : ds[i] \in GuidDiapasonWithState
    OBVIOUS
  <2> QED BY <2>1 DEF GuidDiapasonWithState
<1>3. \A i \in 1..Len(ds) : GuidsLeft(ds[i]) = ds[i].end - ds[i].cur + 1 /\ GuidsLeft(ds[i]) >= n /\ GuidsLeft(ds[i]) \in Int
  <2> SUFFICES ASSUME NEW i \in 1..Len(ds) PROVE GuidsLeft(ds[i]) = ds[i].end - ds[i].cur + 1 /\ GuidsLeft(ds[i]) >= n /\ GuidsLeft(ds[i]) \in Int
    OBVIOUS
  <2> DEFINE x == ds[i].end - ds[i].cur + 1
  <2>1. x \in Int /\ Multiple(n, x)
    BY <1>1, <1>2
  <2>2. x >= n
    BY <2>1, Multiples
  <2> QED BY <1>2, <2>2 DEF GuidsLeft
<1>4. LeftBefore(ds, 1) = 0
  BY LeftBeforeFirst
<1>5. FulfilledIn(ds, n, 1)
  BY <1>1, <1>3, <1>4 DEF FulfilledIn
<1>6. ASSUME NEW k \in 1..Len(ds), FulfilledIn(ds, n, k) PROVE k = 1
  <2>1. CASE k # 1
    <3>1. 1 \in 1..(k-1)
      BY <2>1
    <3> QED BY <1>1, <1>3, <1>4, <1>6, <3>1 DEF FulfilledIn
  <2> QED BY <2>1
<1> DEFINE d == [ds[1] EXCEPT !.cur = @ + n]
           es == [ds EXCEPT ![1] = d]
<1>7. UseGuids(ds, n) = UseUpTo(ds, n, 1)
  <2>1. {k \in 1..Len(ds) : FulfilledIn(ds, n, k)} = {1}
    BY <1>1, <1>5, <1>6
  <2>2. (CHOOSE k \in {1} : TRUE) = 1
    OBVIOUS
  <2> QED BY <2>1, <2>2 DEF UseGuids
<1>8. Unused(ds, 1 - 1) = {}
  BY DEF Unused
<1>11. es = [ds EXCEPT ![1].cur = @ + n]
  BY <1>1
<1>9. /\ UseGuids(ds, n).guids = ds[1].cur .. (ds[1].cur + n - 1)
      /\ UseGuids(ds, n).left = CleanupEmpty(es)
  <2>1. n - LeftBefore(ds, 1) = n
    BY <1>4
  <2>2. UseUpTo(ds, n, 1).guids = Unused(ds, 1 - 1) \cup (ds[1].cur .. (ds[1].cur + (n - LeftBefore(ds, 1)) - 1))
    BY DEF UseUpTo
  <2>3. UseUpTo(ds, n, 1).left = CleanupEmpty([ds EXCEPT ![1].cur = @ + (n - LeftBefore(ds, 1))])
    BY DEF UseUpTo
  <2> HIDE DEF es
  <2>4. UseUpTo(ds, n, 1).left = CleanupEmpty(es)
    BY <1>11, <2>1, <2>3, Zenon
  <2>5. UseUpTo(ds, n, 1).guids = ds[1].cur .. (ds[1].cur + n - 1)
    BY <1>8, <2>1, <2>2
  <2> QED BY <1>7, <2>4, <2>5
<1>10. d \in GuidDiapasonWithState /\ d.cur = ds[1].cur + n /\ d.end = ds[1].end
  <2>1. ds[1] \in GuidDiapasonWithState /\ ds[1].cur + n \in Nat
    BY <1>1, <1>2
  <2> QED BY <2>1 DEF GuidDiapasonWithState
<1> HIDE DEF d
<1>12. es \in Seq(GuidDiapasonWithState) /\ Len(es) = Len(ds) /\ es[1] = d /\ \A i \in 2..Len(ds) : es[i] = ds[i]
  BY <1>1, <1>10
<1>13. ds[1].cur + n - 1 <= ds[1].end
  BY <1>1, <1>2, <1>3
<1> DEFINE nonEmpty == {i \in 1..Len(es) : GuidsLeft(es[i]) # 0}
<1>14. \A i \in 2..Len(ds) : i \in nonEmpty
  BY <1>3, <1>12
<1>15. CASE ds[1].cur + n - 1 = ds[1].end
  <2>1. GuidsLeft(es[1]) = 0
    BY <1>1, <1>2, <1>10, <1>12, <1>15 DEF GuidsLeft
  <2>2. nonEmpty = 2..Len(ds)
    BY <1>1, <1>12, <1>14, <2>1
  <2>3. CASE Len(ds) = 1
    <3>1. CleanupEmpty(es) = <<>>
      BY <2>2, <2>3 DEF CleanupEmpty
    <3>2. Tail(ds) = <<>>
      <4>1. Tail(ds) \in Seq(GuidDiapasonWithState) /\ Len(Tail(ds)) = 0
        BY <2>3
      <4> QED BY <4>1, EmptySeq
    <3> QED BY <1>9, <1>13, <1>15, <3>1, <3>2
  <2>4. CASE Len(ds) # 1
    <3>1. (CHOOSE i \in nonEmpty : \A j \in nonEmpty : i <= j) = 2
      BY <1>1, <2>2, <2>4
    <3>2. CleanupEmpty(es) = SubSeq(es, 2, Len(es))
      <4>1. nonEmpty # {}
        BY <1>1, <2>2, <2>4
      <4> QED BY <3>1, <4>1 DEF CleanupEmpty
    <3>3. SubSeq(es, 2, Len(es)) = Tail(ds)
      BY <1>1, <1>12, <2>4
    <3> QED BY <1>9, <1>13, <1>15, <3>2, <3>3
  <2> QED BY <2>3, <2>4
<1>16. CASE ds[1].cur + n - 1 # ds[1].end
  <2>1. GuidsLeft(es[1]) # 0
    BY <1>1, <1>2, <1>10, <1>12, <1>13, <1>16 DEF GuidsLeft
  <2>2. 1 \in nonEmpty /\ nonEmpty \subseteq 1..Len(es)
    BY <1>1, <1>12, <2>1
  <2>3. (CHOOSE i \in nonEmpty : \A j \in nonEmpty : i <= j) = 1
    BY <2>2
  <2>4. CleanupEmpty(es) = SubSeq(es, 1, Len(es))
    <3>1. nonEmpty # {}
      BY <2>2
    <3> QED BY <2>3, <3>1 DEF CleanupEmpty
  <2>5. SubSeq(es, 1, Len(es)) = es
    BY <1>12
  <2> QED BY <1>9, <1>11, <1>13, <1>16, <2>4, <2>5
<1> QED BY <1>15, <1>16

\* What TakeGuids takes is gone: the rest is in order and apart from it.
LEMMA TakenPool ==
  ASSUME NEW ds \in Seq(GuidDiapasonWithState), NEW ms \in Seq(Response), NEW n \in Nat \ {0}, ds # <<>>, Ordered(ds, ms, n)
  PROVE  /\ Ordered(UseGuids(ds, n).left, ms, n)
         /\ WaitingIn(UseGuids(ds, n).left, ms) \subseteq WaitingIn(ds, ms) \ UseGuids(ds, n).guids
         /\ UseGuids(ds, n).guids \subseteq WaitingIn(ds, ms)
<1> DEFINE left == UseGuids(ds, n).left
           guids == UseGuids(ds, n).guids
           c == ds[1].cur + n
<1>1. guids = ds[1].cur .. (c - 1) /\ c - 1 <= ds[1].end
      /\ left = IF c - 1 = ds[1].end THEN Tail(ds) ELSE [ds EXCEPT ![1].cur = @ + n]
  <2>1. \A i \in DOMAIN ds : Multiple(n, ds[i].end - ds[i].cur + 1)
    BY DEF Ordered
  <2>2. 1 \in DOMAIN ds
    OBVIOUS
  <2>3. ds[1] \in GuidDiapasonWithState
    BY <2>2
  <2>4. ds[1].cur \in Nat
    BY <2>3 DEF GuidDiapasonWithState
  <2>5. c - 1 = ds[1].cur + n - 1
    BY <2>4
  <2>6. /\ UseGuids(ds, n).guids = ds[1].cur .. (ds[1].cur + n - 1)
        /\ ds[1].cur + n - 1 <= ds[1].end
        /\ UseGuids(ds, n).left = IF ds[1].cur + n - 1 = ds[1].end THEN Tail(ds) ELSE [ds EXCEPT ![1].cur = @ + n]
    BY <2>1, UseOnePool
  <2> QED BY <2>5, <2>6
<1>2. /\ \A i \in DOMAIN ds : ds[i] \in GuidDiapasonWithState /\ ds[i].cur \in Nat /\ ds[i].end \in Nat
      /\ \A i \in DOMAIN ms : ms[i].newGuids.start \in Nat /\ ms[i].newGuids.end \in Nat
  BY WaitingTypes
<1>3. 1 \in DOMAIN ds /\ DOMAIN ds = 1..Len(ds) /\ Len(ds) \in Nat /\ c \in Nat
  <2>1. 1 \in DOMAIN ds /\ DOMAIN ds = 1..Len(ds) /\ Len(ds) \in Nat
    OBVIOUS
  <2> QED BY <1>2, <2>1
<1>4. \A g : g \in WaitingIn(ds, ms) <=> \/ \E i \in DOMAIN ds : g \in ds[i].cur .. ds[i].end
                                         \/ \E i \in DOMAIN ms : g \in ms[i].newGuids.start .. ms[i].newGuids.end
  BY WaitingMembers
<1>5. \A i \in DOMAIN ds : i # 1 => ds[1].end < ds[i].cur
  BY <1>3 DEF Ordered
<1>6. \A j \in DOMAIN ms : ds[1].end < ms[j].newGuids.start
  BY <1>3 DEF Ordered
<1> HIDE DEF left, guids
<1>7. guids \subseteq WaitingIn(ds, ms)
  <2> SUFFICES ASSUME NEW g \in guids PROVE g \in ds[1].cur .. ds[1].end
    BY <1>3, <1>4
  <2>1. ds[1].cur \in Nat /\ ds[1].end \in Nat
    BY <1>2, <1>3
  <2>2. g \in ds[1].cur .. (c - 1) /\ c - 1 <= ds[1].end
    BY <1>1
  <2> HIDE DEF c
  <2> QED BY <1>3, <2>1, <2>2
<1>8. ASSUME NEW es, Ordered(es, ms, n),
             \A i \in DOMAIN es : \E j \in DOMAIN ds : /\ es[i].end = ds[j].end
                                                       /\ es[i].cur = IF j = 1 THEN c ELSE ds[j].cur
      PROVE  WaitingIn(es, ms) \subseteq WaitingIn(ds, ms) \ guids
  <2> SUFFICES ASSUME NEW g \in WaitingIn(es, ms) PROVE g \in WaitingIn(ds, ms) /\ g \notin guids
    OBVIOUS
  <2>1. CASE \E i \in DOMAIN es : g \in es[i].cur .. es[i].end
    <3>1. PICK j \in DOMAIN ds : \/ g \in ds[j].cur .. ds[j].end /\ j # 1
                                 \/ g \in c .. ds[1].end /\ j = 1
      BY <1>8, <2>1
    <3>2. g \in ds[j].cur .. ds[j].end /\ g >= c
      <4>1. ds[j].cur \in Nat /\ ds[j].end \in Nat /\ ds[1].cur \in Nat /\ ds[1].end \in Nat
        BY <1>2, <1>3
      <4>2. c \in Nat /\ c >= ds[1].cur /\ c - 1 <= ds[1].end
        BY <1>1, <1>3, <4>1
      <4> HIDE DEF c
      <4>3. CASE j # 1
        <5>1. g \in ds[j].cur .. ds[j].end /\ ds[1].end < ds[j].cur
          BY <1>5, <3>1, <4>3
        <5> QED BY <4>1, <4>2, <5>1
      <4>4. CASE j = 1
        <5>1. g \in c .. ds[1].end
          BY <3>1, <4>4
        <5> QED BY <4>1, <4>2, <4>4, <5>1
      <4> QED BY <4>3, <4>4
    <3> QED BY <1>1, <1>2, <1>3, <1>4, <3>2
  <2>2. CASE \E i \in DOMAIN ms : g \in ms[i].newGuids.start .. ms[i].newGuids.end
    <3>1. g \in Nat /\ g > ds[1].end
      BY <1>2, <1>3, <1>6, <2>2
    <3> QED BY <1>1, <1>2, <1>3, <1>4, <2>2, <3>1
  <2> QED BY <2>1, <2>2, WaitingMembers
<1>9. CASE c - 1 = ds[1].end
  <2>1. left = Tail(ds)
    BY <1>1, <1>9
  <2>2. DOMAIN Tail(ds) = 1..(Len(ds) - 1) /\ \A i \in 1..(Len(ds) - 1) : Tail(ds)[i] = ds[i + 1] /\ i + 1 \in DOMAIN ds
    BY <1>3
  <2>3. DOMAIN left = 1..(Len(ds) - 1) /\ \A i \in DOMAIN left : left[i] = ds[i + 1] /\ i + 1 \in DOMAIN ds /\ i + 1 # 1 /\ i \in Nat
    BY <1>3, <2>1, <2>2
  <2>4. Ordered(left, ms, n)
    BY <2>3 DEF Ordered
  <2>5. \A i \in DOMAIN left : \E j \in DOMAIN ds : /\ left[i].end = ds[j].end
                                                     /\ left[i].cur = IF j = 1 THEN c ELSE ds[j].cur
    BY <2>3, Zenon
  <2>6. WaitingIn(left, ms) \subseteq WaitingIn(ds, ms) \ guids
    BY <1>8, <2>4, <2>5
  <2> QED BY <1>7, <2>4, <2>6 DEF left, guids
<1>10. CASE c - 1 # ds[1].end
  <2>1. left = [ds EXCEPT ![1].cur = @ + n]
    BY <1>1, <1>10
  <2>2. DOMAIN left = DOMAIN ds /\ left[1].cur = c /\ left[1].end = ds[1].end /\ \A i \in DOMAIN ds : i # 1 => left[i] = ds[i]
    <3>1. ds[1] \in GuidDiapasonWithState
      BY <1>2, <1>3
    <3> QED BY <1>3, <2>1, <3>1 DEF GuidDiapasonWithState
  <2>3. Ordered(left, ms, n)
    <3>1. Multiple(n, ds[1].end - c + 1)
      <4> DEFINE x == ds[1].end - ds[1].cur + 1
      <4>1. x \in Int /\ Multiple(n, x)
        BY <1>2, <1>3 DEF Ordered
      <4>2. x = n \/ Multiple(n, x - n)
        BY <4>1, Multiples
      <4>3. x # n /\ x - n = ds[1].end - c + 1
        <5> DEFINE a == ds[1].cur
                   b == ds[1].end
        <5>1. a \in Nat /\ b \in Nat /\ (a + n) - 1 # b
          BY <1>2, <1>3, <1>10
        <5> HIDE DEF a, b
        <5>2. b - a + 1 # n /\ (b - a + 1) - n = b - (a + n) + 1
          BY <5>1
        <5> QED BY <5>2 DEF a, b
      <4> QED BY <4>2, <4>3
    <3>2. \A i \in DOMAIN left : Multiple(n, left[i].end - left[i].cur + 1)
      BY <2>2, <3>1 DEF Ordered
    <3>3. \A i, j \in DOMAIN left : i < j => left[i].end < left[j].cur
      BY <1>3, <2>2 DEF Ordered
    <3>4. \A i \in DOMAIN left, j \in DOMAIN ms : left[i].end < ms[j].newGuids.start
      BY <2>2 DEF Ordered
    <3> QED BY <3>2, <3>3, <3>4 DEF Ordered
  <2>5. \A i \in DOMAIN left : \E j \in DOMAIN ds : /\ left[i].end = ds[j].end
                                                     /\ left[i].cur = IF j = 1 THEN c ELSE ds[j].cur
    <3> SUFFICES ASSUME NEW i \in DOMAIN ds
                 PROVE  /\ left[i].end = ds[i].end
                        /\ left[i].cur = IF i = 1 THEN c ELSE ds[i].cur
      BY <2>2
    <3>1. CASE i = 1
      BY <2>2, <3>1
    <3>2. CASE i # 1
      BY <2>2, <3>2
    <3> QED BY <3>1, <3>2
  <2>6. WaitingIn(left, ms) \subseteq WaitingIn(ds, ms) \ guids
    BY <1>8, <2>3, <2>5
  <2> QED BY <1>7, <2>3, <2>6 DEF left, guids
<1> QED BY <1>9, <1>10

\* A response moves to the buffer: AddDiapason appends or extends in order.
LEMMA AddedPool ==
  ASSUME NEW ds \in Seq(GuidDiapasonWithState), NEW ms \in Seq(Response), NEW n \in Nat \ {0}, ms # <<>>, Ordered(ds, ms, n)
  PROVE  /\ Ordered(AddDiapason(ds, Head(ms).newGuids), Tail(ms), n)
         /\ WaitingIn(AddDiapason(ds, Head(ms).newGuids), Tail(ms)) \subseteq WaitingIn(ds, ms)
<1> DEFINE d == Head(ms).newGuids
           k == Len(ds)
           new == AddDiapason(ds, d)
           rest == Tail(ms)
<1>1. /\ \A i \in DOMAIN ds : ds[i] \in GuidDiapasonWithState /\ ds[i].cur \in Nat /\ ds[i].end \in Nat
      /\ \A i \in DOMAIN ms : ms[i].newGuids.start \in Nat /\ ms[i].newGuids.end \in Nat
  BY WaitingTypes
<1>2. 1 \in DOMAIN ms /\ d = ms[1].newGuids /\ DOMAIN ms = 1..Len(ms) /\ Len(ms) \in Nat /\ DOMAIN ds = 1..k /\ k \in Nat
  OBVIOUS
<1>3. d.start \in Nat /\ d.end \in Nat /\ Multiple(n, d.end - d.start + 1) /\ d.start <= d.end
  <2>1. d.start \in Nat /\ d.end \in Nat /\ Multiple(n, d.end - d.start + 1)
    BY <1>1, <1>2 DEF Ordered
  <2> DEFINE x == d.end - d.start + 1
  <2>2. x \in Int
    BY <2>1
  <2>3. x >= n
    BY <2>1, <2>2, Multiples
  <2>4. ASSUME NEW a \in Nat, NEW b \in Nat, b - a + 1 >= n PROVE a <= b
    BY <2>4
  <2> QED BY <2>1, <2>3, <2>4
<1>4. DOMAIN rest = 1..(Len(ms) - 1) /\ \A i \in DOMAIN rest : rest[i] = ms[i + 1] /\ i + 1 \in DOMAIN ms /\ i \in Nat /\ i + 1 > 1
  BY <1>2
<1>5. (\A i \in DOMAIN ds : ds[i].end < d.start) /\ (\A i \in DOMAIN rest : d.end < rest[i].newGuids.start)
  BY <1>2, <1>4 DEF Ordered
<1> HIDE DEF d, rest
<1>6. ASSUME NEW g PROVE g \in WaitingIn(ds, ms) <=> \/ \E i \in DOMAIN ds : g \in ds[i].cur .. ds[i].end
                                                     \/ \E i \in DOMAIN ms : g \in ms[i].newGuids.start .. ms[i].newGuids.end
  BY WaitingMembers
<1>7. CASE ds # <<>> /\ ds[k].end = d.start - 1
  <2>1. k \in DOMAIN ds /\ ds[k] \in GuidDiapasonWithState /\ ds[k].cur \in Nat /\ ds[k].end \in Nat
    <3>1. k \in DOMAIN ds
      BY <1>7
    <3> QED BY <1>1, <3>1
  <2>2. DOMAIN new = DOMAIN ds /\ new[k].cur = ds[k].cur /\ new[k].end = d.end /\ \A i \in DOMAIN ds : i # k => new[i] = ds[i]
    BY <1>7, <2>1 DEF AddDiapason, GuidDiapasonWithState
  <2> HIDE DEF new
  <2>3. Multiple(n, d.end - ds[k].cur + 1)
    <3> DEFINE x == ds[k].end - ds[k].cur + 1
               y == d.end - d.start + 1
    <3>1. x \in Int /\ y \in Int /\ Multiple(n, x) /\ Multiple(n, y)
      BY <1>3, <2>1 DEF Ordered
    <3>2. Multiple(n, x + y)
      BY <3>1, Multiples
    <3>3. x + y = d.end - ds[k].cur + 1
      <4>1. ASSUME NEW a \in Nat, NEW b \in Nat, NEW u \in Nat, NEW v \in Nat, b = u - 1
            PROVE  (b - a + 1) + (v - u + 1) = v - a + 1
        BY <4>1
      <4> QED BY <1>3, <1>7, <2>1, <4>1
    <3> QED BY <3>2, <3>3
  <2>4. Ordered(new, rest, n)
    <3>1. \A i \in DOMAIN new : Multiple(n, new[i].end - new[i].cur + 1)
      BY <2>2, <2>3 DEF Ordered
    <3>2. \A i \in DOMAIN rest : Multiple(n, rest[i].newGuids.end - rest[i].newGuids.start + 1)
      BY <1>4 DEF Ordered
    <3>3. \A i, j \in DOMAIN new : i < j => new[i].end < new[j].cur
      BY <1>2, <2>2 DEF Ordered
    <3>4. \A i, j \in DOMAIN rest : i < j => rest[i].newGuids.end < rest[j].newGuids.start
      BY <1>4 DEF Ordered
    <3>5. \A i \in DOMAIN new, j \in DOMAIN rest : new[i].end < rest[j].newGuids.start
      BY <1>4, <1>5, <2>2 DEF Ordered
    <3> QED BY <3>1, <3>2, <3>3, <3>4, <3>5 DEF Ordered
  <2>5. WaitingIn(new, rest) \subseteq WaitingIn(ds, ms)
    <3> SUFFICES ASSUME NEW g \in WaitingIn(new, rest) PROVE g \in WaitingIn(ds, ms)
      OBVIOUS
    <3>1. CASE \E i \in DOMAIN new : g \in new[i].cur .. new[i].end
      <4>1. PICK i \in DOMAIN ds : g \in new[i].cur .. new[i].end
        BY <2>2, <3>1
      <4>2. CASE i # k
        BY <1>6, <2>2, <4>1, <4>2
      <4>3. CASE i = k
        <5>1. g \in ds[k].cur .. d.end
          BY <2>2, <4>1, <4>3
        <5>2. g \in ds[k].cur .. ds[k].end \/ g \in d.start .. d.end
          BY <1>3, <1>7, <2>1, <5>1
        <5> QED BY <1>2, <1>6, <2>1, <5>2 DEF d
      <4> QED BY <4>2, <4>3
    <3>2. CASE \E i \in DOMAIN rest : g \in rest[i].newGuids.start .. rest[i].newGuids.end
      BY <1>4, <1>6, <3>2
    <3> QED BY <3>1, <3>2, WaitingMembers
  <2> QED BY <2>4, <2>5 DEF new, d, rest
<1>8. CASE ~(ds # <<>> /\ ds[k].end = d.start - 1)
  <2> DEFINE e == [start |-> d.start, end |-> d.end, cur |-> d.start]
  <2>1. new = Append(ds, e)
    BY <1>8 DEF AddDiapason
  <2>2. e.cur = d.start /\ e.end = d.end
    OBVIOUS
  <2> HIDE DEF e
  <2>3. DOMAIN new = 1..(k + 1) /\ new[k + 1] = e /\ \A i \in 1..k : new[i] = ds[i]
    BY <1>2, <2>1
  <2> HIDE DEF new
  <2>4. Ordered(new, rest, n)
    <3>1. \A i \in DOMAIN new : Multiple(n, new[i].end - new[i].cur + 1)
      BY <1>2, <1>3, <2>2, <2>3 DEF Ordered
    <3>2. \A i \in DOMAIN rest : Multiple(n, rest[i].newGuids.end - rest[i].newGuids.start + 1)
      BY <1>4 DEF Ordered
    <3>3. \A i, j \in DOMAIN new : i < j => new[i].end < new[j].cur
      BY <1>2, <1>5, <2>2, <2>3 DEF Ordered
    <3>4. \A i, j \in DOMAIN rest : i < j => rest[i].newGuids.end < rest[j].newGuids.start
      BY <1>4 DEF Ordered
    <3>5. \A i \in DOMAIN new, j \in DOMAIN rest : new[i].end < rest[j].newGuids.start
      BY <1>2, <1>4, <1>5, <2>2, <2>3 DEF Ordered
    <3> QED BY <3>1, <3>2, <3>3, <3>4, <3>5 DEF Ordered
  <2>5. WaitingIn(new, rest) \subseteq WaitingIn(ds, ms)
    <3> SUFFICES ASSUME NEW g \in WaitingIn(new, rest) PROVE g \in WaitingIn(ds, ms)
      OBVIOUS
    <3>1. CASE \E i \in DOMAIN new : g \in new[i].cur .. new[i].end
      <4>1. (\E i \in DOMAIN ds : g \in ds[i].cur .. ds[i].end) \/ g \in d.start .. d.end
        BY <1>2, <2>2, <2>3, <3>1
      <4> QED BY <1>2, <1>6, <4>1 DEF d
    <3>2. CASE \E i \in DOMAIN rest : g \in rest[i].newGuids.start .. rest[i].newGuids.end
      BY <1>4, <1>6, <3>2
    <3> QED BY <3>1, <3>2, WaitingMembers
  <2> QED BY <2>4, <2>5 DEF new, d, rest
<1> QED BY <1>7, <1>8

\* A committed reservation arrives behind everything that its instance has.
LEMMA RespondedPool ==
  ASSUME NEW ds \in Seq(GuidDiapasonWithState), NEW ms \in Seq(Response), NEW n \in Nat \ {0},
         NEW m \in Response, NEW max \in Nat,
         Ordered(ds, ms, n), \A g \in WaitingIn(ds, ms) : g <= max,
         Multiple(n, m.newGuids.end - m.newGuids.start + 1), m.newGuids.start = max + 1
  PROVE  /\ Ordered(ds, Append(ms, m), n)
         /\ WaitingIn(ds, Append(ms, m)) \subseteq WaitingIn(ds, ms) \cup (m.newGuids.start .. m.newGuids.end)
<1> DEFINE new == Append(ms, m)
           l == Len(ms)
<1>1. /\ \A i \in DOMAIN ds : ds[i] \in GuidDiapasonWithState /\ ds[i].cur \in Nat /\ ds[i].end \in Nat
      /\ \A i \in DOMAIN ms : ms[i].newGuids.start \in Nat /\ ms[i].newGuids.end \in Nat
  BY WaitingTypes
<1>2. ASSUME NEW a \in Nat, NEW b \in Nat, Multiple(n, b - a + 1) PROVE b \in a .. b
  <2> DEFINE x == b - a + 1
  <2>1. x \in Int
    OBVIOUS
  <2>2. x >= n
    BY <1>2, <2>1, Multiples
  <2> QED BY <2>2
<1>3. \A i \in DOMAIN ds : ds[i].end < m.newGuids.start
  <2> SUFFICES ASSUME NEW i \in DOMAIN ds PROVE ds[i].end < m.newGuids.start
    OBVIOUS
  <2>1. ds[i].end \in ds[i].cur .. ds[i].end
    BY <1>1, <1>2 DEF Ordered
  <2>2. ds[i].end \in WaitingIn(ds, ms)
    BY <2>1, WaitingMembers
  <2> QED BY <1>1, <2>2
<1>4. \A i \in DOMAIN ms : ms[i].newGuids.end < m.newGuids.start
  <2> SUFFICES ASSUME NEW i \in DOMAIN ms PROVE ms[i].newGuids.end < m.newGuids.start
    OBVIOUS
  <2>1. ms[i].newGuids.end \in ms[i].newGuids.start .. ms[i].newGuids.end
    BY <1>1, <1>2 DEF Ordered
  <2>2. ms[i].newGuids.end \in WaitingIn(ds, ms)
    BY <2>1, WaitingMembers
  <2> QED BY <1>1, <2>2
<1>5. DOMAIN new = 1..(l + 1) /\ DOMAIN ms = 1..l /\ l \in Nat /\ new[l + 1] = m /\ \A i \in 1..l : new[i] = ms[i]
  OBVIOUS
<1> HIDE DEF new
<1>6. \A i \in DOMAIN new : Multiple(n, new[i].newGuids.end - new[i].newGuids.start + 1)
  <2> SUFFICES ASSUME NEW i \in DOMAIN new PROVE Multiple(n, new[i].newGuids.end - new[i].newGuids.start + 1)
    OBVIOUS
  <2>1. CASE i = l + 1
    BY <1>5, <2>1
  <2>2. CASE i # l + 1
    <3>1. i \in DOMAIN ms /\ new[i] = ms[i]
      BY <1>5, <2>2
    <3> QED BY <3>1 DEF Ordered
  <2> QED BY <2>1, <2>2
<1>7. \A i, j \in DOMAIN new : i < j => new[i].newGuids.end < new[j].newGuids.start
  <2> SUFFICES ASSUME NEW i \in DOMAIN new, NEW j \in DOMAIN new, i < j
               PROVE  new[i].newGuids.end < new[j].newGuids.start
    OBVIOUS
  <2>1. i \in DOMAIN ms /\ new[i] = ms[i]
    BY <1>5
  <2>2. CASE j = l + 1
    BY <1>4, <1>5, <2>1, <2>2
  <2>3. CASE j # l + 1
    <3>1. j \in DOMAIN ms /\ new[j] = ms[j]
      BY <1>5, <2>3
    <3> QED BY <2>1, <3>1 DEF Ordered
  <2> QED BY <2>2, <2>3
<1>8. \A i \in DOMAIN ds, j \in DOMAIN new : ds[i].end < new[j].newGuids.start
  <2> SUFFICES ASSUME NEW i \in DOMAIN ds, NEW j \in DOMAIN new
               PROVE  ds[i].end < new[j].newGuids.start
    OBVIOUS
  <2>2. CASE j = l + 1
    BY <1>3, <1>5, <2>2
  <2>3. CASE j # l + 1
    <3>1. j \in DOMAIN ms /\ new[j] = ms[j]
      BY <1>5, <2>3
    <3> QED BY <3>1 DEF Ordered
  <2> QED BY <2>2, <2>3
<1>9. Ordered(ds, new, n)
  BY <1>6, <1>7, <1>8 DEF Ordered
<1>10. WaitingIn(ds, new) \subseteq WaitingIn(ds, ms) \cup (m.newGuids.start .. m.newGuids.end)
  <2>1. \A i \in DOMAIN new : (i \in DOMAIN ms /\ new[i] = ms[i]) \/ new[i] = m
    BY <1>5
  <2> SUFFICES ASSUME NEW g \in WaitingIn(ds, new), g \notin m.newGuids.start .. m.newGuids.end
               PROVE  g \in WaitingIn(ds, ms)
    OBVIOUS
  <2>2. CASE \E i \in DOMAIN ds : g \in ds[i].cur .. ds[i].end
    BY <2>2, WaitingMembers
  <2>3. CASE \E i \in DOMAIN new : g \in new[i].newGuids.start .. new[i].newGuids.end
    <3>1. \E i \in DOMAIN ms : g \in ms[i].newGuids.start .. ms[i].newGuids.end
      BY <2>1, <2>3
    <3> QED BY <3>1, WaitingMembers
  <2> QED BY <2>2, <2>3, WaitingMembers
<1> QED BY <1>9, <1>10 DEF new

\* The GUIDs that an instance may still hand out.
Waiting(s) == WaitingIn(cache[s], responseChan[s])

\* They are reserved, of one instance only, and neither handed out nor of MySQL.
Apart ==
  /\ \A s \in Servers : Waiting(s) \subseteq (DBMax + 1)..maxGuid /\ Waiting(s) \cap used = {}
  /\ \A s, t \in Servers : s # t => Waiting(s) \cap Waiting(t) = {}
  /\ used \subseteq (DBMax + 1)..maxGuid
  /\ twice = {}

\* An instance that is up has seen the counter at or above what MySQL holds.
Seeded ==
  /\ maxGuid = 0 \/ maxGuid >= DBMax
  /\ \A s \in Servers : (boot[s] = "up" => maxGuid >= DBMax) /\ (boot[s] = "seed" => bootMax[s] >= DBMax)

\* Only an instance that is up has calls, requests and transactions.
Booted ==
  /\ \A h \in Handlers : call[h] # NoCall => boot[call[h].server] = "up"
  /\ \A p \in Servers \X Processors : work[p] # NoWork => boot[p[1]] = "up"
  /\ \A s \in Servers : requestChan[s] # <<>> \/ workChan[s] # <<>> => boot[s] = "up"

Healthy(n) ==
  mishaps = {} => /\ Apart /\ Seeded
                  /\ \A s \in Servers : Ordered(cache[s], responseChan[s], n)

\* Steps by which no instance gets a GUID to hand out.
LEMMA ApartShrinks ==
  ASSUME TypeOK, Apart, maxGuid' \in Nat, maxGuid' >= maxGuid, UNCHANGED <<used, twice>>,
         \A t \in Servers : Waiting(t)' \subseteq Waiting(t)
  PROVE  Apart'
<1>1. maxGuid \in Nat
  BY DEF TypeOK
<1>2. (DBMax + 1)..maxGuid \subseteq (DBMax + 1)..(maxGuid')
  BY <1>1, DBMaxAssumption
<1>3. \A t \in Servers : Waiting(t) \subseteq (DBMax + 1)..maxGuid /\ Waiting(t) \cap used = {}
  BY DEF Apart
<1>4. \A t \in Servers : Waiting(t)' \subseteq (DBMax + 1)..(maxGuid') /\ Waiting(t)' \cap used' = {}
  BY <1>2, <1>3
<1>5. \A t, u \in Servers : t # u => Waiting(t) \cap Waiting(u) = {}
  BY DEF Apart
<1>6. \A t, u \in Servers : t # u => Waiting(t)' \cap Waiting(u)' = {}
  BY <1>5
<1>7. used' \subseteq (DBMax + 1)..(maxGuid') /\ twice' = {}
  BY <1>2 DEF Apart
<1> QED BY <1>4, <1>6, <1>7 DEF Apart

\* A committed reservation is above everything that waits or is in use.
LEMMA ApartGrows ==
  ASSUME TypeOK, Apart, NEW s \in Servers, maxGuid' \in Nat, maxGuid' >= maxGuid, maxGuid >= DBMax,
         UNCHANGED <<used, twice>>,
         \A t \in Servers : Waiting(t)' \subseteq
             Waiting(t) \cup IF t = s THEN (maxGuid + 1)..(maxGuid') ELSE {}
  PROVE  Apart'
<1> DEFINE new == (maxGuid + 1)..(maxGuid')
           old == (DBMax + 1)..maxGuid
           all == (DBMax + 1)..(maxGuid')
<1>1. maxGuid \in Nat
  BY DEF TypeOK
<1>2. old \subseteq all /\ new \subseteq all /\ old \cap new = {}
  BY <1>1, DBMaxAssumption
<1>3. \A t \in Servers : Waiting(t) \subseteq old /\ Waiting(t) \cap used = {}
  BY DEF Apart
<1>4. \A t \in Servers : Waiting(t)' \subseteq Waiting(t) \cup IF t = s THEN new ELSE {}
  OBVIOUS
<1>5. \A t, u \in Servers : t # u => Waiting(t) \cap Waiting(u) = {}
  BY DEF Apart
<1>6. used \subseteq old /\ twice = {}
  BY DEF Apart
<1> HIDE DEF new, old, all
<1>7. \A t \in Servers : Waiting(t)' \subseteq all /\ Waiting(t)' \cap used' = {}
  BY <1>2, <1>3, <1>4, <1>6
<1>8. \A t, u \in Servers : t # u => Waiting(t)' \cap Waiting(u)' = {}
  <2> SUFFICES ASSUME NEW t \in Servers, NEW u \in Servers, t # u,
                      NEW g \in Waiting(t)', g \in Waiting(u)'
               PROVE  FALSE
    OBVIOUS
  <2>1. \/ g \in Waiting(t) /\ g \in Waiting(u)
        \/ g \in new /\ (g \in Waiting(t) \/ g \in Waiting(u))
    BY <1>4
  <2>2. ~(g \in new /\ (g \in Waiting(t) \/ g \in Waiting(u)))
    BY <1>2, <1>3
  <2> QED BY <1>5, <2>1, <2>2
<1>9. used' \subseteq all /\ twice' = {}
  BY <1>2, <1>6
<1> QED BY <1>7, <1>8, <1>9 DEF Apart, all

\* GUIDs handed out no longer wait.
LEMMA ApartTaken ==
  ASSUME TypeOK, Apart, NEW s \in Servers, NEW G, UNCHANGED maxGuid,
         G \subseteq Waiting(s), Waiting(s)' \subseteq Waiting(s) \ G,
         \A t \in Servers : t # s => Waiting(t)' \subseteq Waiting(t),
         used' = used \cup G, twice' = twice \cup (used \cap G)
  PROVE  Apart'
<1> DEFINE old == (DBMax + 1)..maxGuid
<1>1. \A t \in Servers : Waiting(t) \subseteq old /\ Waiting(t) \cap used = {}
  BY DEF Apart
<1>2. \A t, u \in Servers : t # u => Waiting(t) \cap Waiting(u) = {}
  BY DEF Apart
<1>3. used \subseteq old /\ twice = {} /\ old' = old
  BY DEF Apart
<1> HIDE DEF old
<1>4. \A t \in Servers : Waiting(t)' \subseteq Waiting(t)
  OBVIOUS
<1>5. \A t \in Servers : Waiting(t)' \cap G = {}
  BY <1>2
<1>6. \A t \in Servers : Waiting(t)' \subseteq old /\ Waiting(t)' \cap used' = {}
  BY <1>1, <1>4, <1>5
<1>7. \A t, u \in Servers : t # u => Waiting(t)' \cap Waiting(u)' = {}
  BY <1>2, <1>4
<1>8. used' \subseteq old /\ twice' = {}
  BY <1>1, <1>3
<1> QED BY <1>3, <1>6, <1>7, <1>8 DEF Apart, old

\* Every step keeps Booted: what an instance runs dies with it.
LEMMA NextBooted == TypeOK /\ Booted /\ [Next]_vars => Booted'
<1> SUFFICES ASSUME TypeOK, Booted, [Next]_vars PROVE Booted'
  OBVIOUS
<1> DEFINE Up(s) == boot[s] = "up"
<1>0. /\ \A h \in Handlers : call[h] # NoCall => Up(call[h].server) /\ call[h].server \in Servers
      /\ \A p \in Servers \X Processors : work[p] # NoWork => Up(p[1])
      /\ \A s \in Servers : requestChan[s] # <<>> \/ workChan[s] # <<>> => Up(s)
  BY CallingType DEF Booted, CallState
<1>t. /\ boot \in [Servers -> {"start", "mysql", "seed", "up"}]
      /\ call \in [Handlers -> CallState \cup {NoCall}]
      /\ work \in [Servers \X Processors -> WorkState \cup {NoWork}]
      /\ requestChan \in [Servers -> Seq(Request)] /\ workChan \in [Servers -> Seq(Request)]
  BY DEF TypeOK
<1>1. ASSUME NEW s \in Servers, BootStep(s) PROVE Booted'
  <2>1. (work' = work \/ work' = Touch(work)) /\ UNCHANGED <<call, requestChan, workChan>>
    BY <1>1 DEF BootStep, BootReadRedis, BootReadMysql, BootSetRedis
  <2>2. \A t \in Servers : boot[t] = "up" => boot'[t] = "up"
    BY <1>1, <1>t DEF BootStep, BootReadRedis, BootReadMysql, BootSetRedis
  <2>3. UNCHANGED <<call, requestChan, workChan>>
    BY <2>1
  <2>4. \A p \in Servers \X Processors : work'[p] # NoWork => work[p] # NoWork
    BY <1>t, <2>1 DEF Touch, NoWork
  <2> QED BY <1>0, <2>2, <2>3, <2>4 DEF Booted
<1>2. ASSUME NEW h \in Handlers, NEW s \in Servers, NEW n \in Sizes, GetGuids(h, s, n) PROVE Booted'
  <2> DEFINE c == [pc |-> "check", server |-> s, size |-> n]
  <2>1. boot[s] = "up" /\ call' = [call EXCEPT ![h] = c] /\ c.server = s /\ UNCHANGED <<boot, work, requestChan, workChan>>
    BY <1>2 DEF GetGuids, storageVars, instanceVars
  <2> HIDE DEF c
  <2>2. \A g \in Handlers : call'[g] # NoCall => boot'[call'[g].server] = "up"
    BY <1>0, <1>t, <2>1
  <2> QED BY <1>0, <2>1, <2>2 DEF Booted
<1>3. ASSUME NEW h \in Handlers, NEW c, call[h] # NoCall, c = NoCall \/ c.server = call[h].server, call' = [call EXCEPT ![h] = c], UNCHANGED boot
      PROVE  \A g \in Handlers : call'[g] # NoCall => boot'[call'[g].server] = "up"
  BY <1>0, <1>3, <1>t
<1>4. ASSUME NEW h \in Handlers, CheckUsage(h) PROVE Booted'
  <2>1. call[h] # NoCall
    BY <1>4 DEF CheckUsage, NoCall
  <2>2. call[h] \in CallState
    BY <2>1, CallingType
  <2>3. PICK pc : call' = [call EXCEPT ![h].pc = pc]
    BY <1>4 DEF CheckUsage
  <2> DEFINE c == [call[h] EXCEPT !.pc = pc]
  <2>4. call' = [call EXCEPT ![h] = c] /\ c.server = call[h].server
    BY <2>2, <2>3 DEF CallState
  <2>5. UNCHANGED <<boot, work, requestChan, workChan>>
    BY <1>4 DEF CheckUsage, storageVars, instanceVars
  <2> HIDE DEF c
  <2>6. \A g \in Handlers : call'[g] # NoCall => boot'[call'[g].server] = "up"
    BY <1>3, <2>1, <2>4, <2>5
  <2> QED BY <1>0, <2>5, <2>6 DEF Booted
<1>5. ASSUME NEW h \in Handlers, SendRequest(h) PROVE Booted'
  <2>1. call[h] # NoCall
    BY <1>5 DEF SendRequest, NoCall
  <2>2. call[h] \in CallState
    BY <2>1, CallingType
  <2>3. PICK pc : call' = [call EXCEPT ![h].pc = pc]
    BY <1>5 DEF SendRequest
  <2> DEFINE c == [call[h] EXCEPT !.pc = pc]
             s == call[h].server
  <2>4. call' = [call EXCEPT ![h] = c] /\ c.server = call[h].server
    BY <2>2, <2>3 DEF CallState
  <2>5. PICK r : requestChan' = [requestChan EXCEPT ![s] = Append(@, r)]
    BY <1>5 DEF SendRequest
  <2>7. UNCHANGED <<boot, work, workChan>>
    BY <1>5 DEF SendRequest, storageVars, instanceVars
  <2> HIDE DEF c
  <2>6. \A g \in Handlers : call'[g] # NoCall => boot'[call'[g].server] = "up"
    BY <1>3, <2>1, <2>4, <2>7
  <2>8. boot[s] = "up"
    BY <1>0, <2>1
  <2>9. \A t \in Servers : t # s => requestChan'[t] = requestChan[t]
    BY <1>t, <2>5
  <2> HIDE DEF s
  <2>10. \A t \in Servers : requestChan'[t] # <<>> \/ workChan'[t] # <<>> => boot'[t] = "up"
    BY <1>0, <2>7, <2>8, <2>9
  <2> QED BY <1>0, <2>6, <2>7, <2>10 DEF Booted
<1>6. ASSUME NEW h \in Handlers, TakeGuids(h) PROVE Booted'
  <2>1. call[h] # NoCall
    BY <1>6 DEF TakeGuids, NoCall
  <2>2. call[h] \in CallState
    BY <2>1, CallingType
  <2>3. \/ call' = [call EXCEPT ![h].pc = "check"]
        \/ call' = [call EXCEPT ![h] = NoCall]
    BY <1>6 DEF TakeGuids
  <2>5. UNCHANGED <<boot, work, requestChan, workChan>>
    BY <1>6 DEF TakeGuids, storageVars
  <2>4. CASE call' = [call EXCEPT ![h].pc = "check"]
    <3> DEFINE c == [call[h] EXCEPT !.pc = "check"]
    <3>1. call' = [call EXCEPT ![h] = c] /\ c.server = call[h].server
      BY <2>2, <2>4 DEF CallState
    <3> HIDE DEF c
    <3>2. \A g \in Handlers : call'[g] # NoCall => boot'[call'[g].server] = "up"
      BY <1>3, <2>1, <2>5, <3>1
    <3> QED BY <1>0, <2>5, <3>2 DEF Booted
  <2>6. CASE call' = [call EXCEPT ![h] = NoCall]
    <3>2. \A g \in Handlers : call'[g] # NoCall => boot'[call'[g].server] = "up"
      BY <1>3, <2>1, <2>5, <2>6
    <3> QED BY <1>0, <2>5, <3>2 DEF Booted
  <2> QED BY <2>3, <2>4, <2>6
<1>7. ASSUME NEW s \in Servers, DispatchRequest(s) PROVE Booted'
  <2>1. boot[s] = "up"
    BY <1>0, <1>7 DEF DispatchRequest
  <2>2. UNCHANGED <<boot, work, call>>
    BY <1>7 DEF DispatchRequest, storageVars
  <2>3. requestChan' = [requestChan EXCEPT ![s] = Tail(@)]
    BY <1>7 DEF DispatchRequest
  <2>4. \E r : workChan' = workChan \/ workChan' = [workChan EXCEPT ![s] = Append(@, r)]
    BY <1>7 DEF DispatchRequest
  <2>5. \A t \in Servers : t # s => requestChan'[t] = requestChan[t] /\ workChan'[t] = workChan[t]
    BY <1>t, <2>3, <2>4
  <2>6. \A t \in Servers : requestChan'[t] # <<>> \/ workChan'[t] # <<>> => boot'[t] = "up"
    BY <1>0, <2>1, <2>2, <2>5
  <2> QED BY <1>0, <2>2, <2>6 DEF Booted
<1>8. ASSUME NEW s \in Servers, DispatchResponse(s) PROVE Booted'
  <2> DEFINE woken == Woken(s, Head(responseChan[s]).request)
  <2>1. UNCHANGED <<boot, work, requestChan, workChan>>
    BY <1>8 DEF DispatchResponse, storageVars
  <2>2. /\ \A h \in Handlers \cap woken : call[h].pc = "wait"
        /\ call' = [h \in Handlers |-> IF h \in woken THEN [call[h] EXCEPT !.pc = "check"] ELSE call[h]]
    BY <1>8 DEF DispatchResponse
  <2> HIDE DEF woken
  <2>3. ASSUME NEW g \in Handlers, call'[g] # NoCall PROVE boot'[call'[g].server] = "up"
    <3>1. CASE g \in woken
      <4>1. call[g] # NoCall
        BY <2>2, <3>1 DEF NoCall
      <4>2. call[g] \in CallState
        BY <4>1, CallingType
      <4>3. call'[g] = [call[g] EXCEPT !.pc = "check"]
        BY <2>2, <3>1
      <4>4. call'[g].server = call[g].server
        BY <4>2, <4>3 DEF CallState
      <4> QED BY <1>0, <2>1, <4>1, <4>4
    <3>2. CASE g \notin woken
      BY <1>0, <2>1, <2>2, <2>3, <3>2
    <3> QED BY <3>1, <3>2
  <2> QED BY <1>0, <2>1, <2>3 DEF Booted
<1>9. ASSUME NEW p \in Servers \X Processors, NEW w, p[1] \in Servers, boot[p[1]] = "up", work' = [work EXCEPT ![p] = w], UNCHANGED boot
      PROVE  \A q \in Servers \X Processors : work'[q] # NoWork => boot'[q[1]] = "up"
  BY <1>0, <1>9, <1>t
<1>10. ASSUME NEW p \in Servers \X Processors, StartWork(p) PROVE Booted'
  <2>0. p[1] \in Servers
    OBVIOUS
  <2>1. boot[p[1]] = "up"
    BY <1>0, <1>10, <2>0 DEF StartWork
  <2>2. PICK w : work' = [work EXCEPT ![p] = w]
    BY <1>10 DEF StartWork
  <2>3. UNCHANGED <<boot, call, requestChan>> /\ workChan' = [workChan EXCEPT ![p[1]] = Tail(@)]
    BY <1>10 DEF StartWork
  <2>4. \A q \in Servers \X Processors : work'[q] # NoWork => boot'[q[1]] = "up"
    BY <1>9, <2>0, <2>1, <2>2, <2>3
  <2>5. \A t \in Servers : t # p[1] => workChan'[t] = workChan[t]
    BY <1>t, <2>3
  <2>6. \A t \in Servers : requestChan'[t] # <<>> \/ workChan'[t] # <<>> => boot'[t] = "up"
    BY <1>0, <2>1, <2>3, <2>5
  <2> QED BY <1>0, <2>3, <2>4, <2>6 DEF Booted
<1>11. ASSUME NEW p \in Servers \X Processors,
              Watch(p) \/ ExecCommit(p) \/ ExecAbort(p) \/ RedisError(p)
       PROVE  Booted'
  <2>0. p[1] \in Servers
    OBVIOUS
  <2>1. work[p] # NoWork
    BY <1>11 DEF Watch, ExecCommit, ExecAbort, RedisError, NoWork
  <2>2. \E w : work' = [work EXCEPT ![p] = w] \/ work' = [Touch(work) EXCEPT ![p] = w]
    <3>1. CASE Watch(p)
      <4> DEFINE w == [work[p] EXCEPT !.pc = "exec", !.read = maxGuid, !.dirty = FALSE]
      <4>1. work' = [work EXCEPT ![p] = w]
        BY <3>1 DEF Watch
      <4> QED BY <4>1
    <3>2. CASE ExecCommit(p)
      BY <3>2 DEF ExecCommit
    <3>3. CASE ExecAbort(p)
      <4> DEFINE w == [work[p] EXCEPT !.pc = "watch", !.tries = @ + 1]
      <4>1. work' = [work EXCEPT ![p] = w] \/ work' = [work EXCEPT ![p] = NoWork]
        BY <3>3 DEF ExecAbort
      <4> QED BY <4>1
    <3>4. CASE RedisError(p)
      BY <3>4 DEF RedisError
    <3> QED BY <1>11, <3>1, <3>2, <3>3, <3>4
  <2>3. UNCHANGED <<boot, call, requestChan, workChan>>
    BY <1>11 DEF Watch, ExecCommit, ExecAbort, RedisError, instanceVars
  <2>4. boot[p[1]] = "up"
    BY <1>0, <2>1
  <2>5. \A q \in Servers \X Processors : q # p /\ work'[q] # NoWork => work[q] # NoWork
    <3>1. \A q \in Servers \X Processors : Touch(work)[q] # NoWork => work[q] # NoWork
      BY <1>t DEF Touch, NoWork
    <3>2. DOMAIN Touch(work) = Servers \X Processors
      BY <1>t DEF Touch
    <3> QED BY <1>t, <2>2, <3>1, <3>2
  <2>6. \A q \in Servers \X Processors : work'[q] # NoWork => boot'[q[1]] = "up"
    BY <1>0, <2>3, <2>4, <2>5
  <2> QED BY <1>0, <2>3, <2>6 DEF Booted
<1>12. ASSUME NEW s \in Servers, Crash(s) PROVE Booted'
  <2>1. /\ boot' = [boot EXCEPT ![s] = "start"]
        /\ requestChan' = [requestChan EXCEPT ![s] = <<>>]
        /\ workChan' = [workChan EXCEPT ![s] = <<>>]
        /\ call' = [h \in Handlers |-> IF call[h] # NoCall /\ call[h].server = s THEN NoCall ELSE call[h]]
        /\ work' = [p \in Servers \X Processors |-> IF p[1] = s THEN NoWork ELSE work[p]]
    BY <1>12 DEF Crash
  <2>2. \A h \in Handlers : call'[h] # NoCall => boot'[call'[h].server] = "up"
    BY <1>0, <1>t, <2>1
  <2>3. \A p \in Servers \X Processors : work'[p] # NoWork => boot'[p[1]] = "up"
    BY <1>0, <1>t, <2>1
  <2>4. \A t \in Servers : requestChan'[t] # <<>> \/ workChan'[t] # <<>> => boot'[t] = "up"
    BY <1>0, <1>t, <2>1
  <2> QED BY <2>2, <2>3, <2>4 DEF Booted
<1>13. CASE UNCHANGED vars
  BY <1>0, <1>13 DEF vars, Booted
<1> QED
  BY <1>1, <1>2, <1>4, <1>5, <1>6, <1>7, <1>8, <1>10, <1>11, <1>12, <1>13
     DEF Next, HandlerStep, DispatcherStep, ProcessorStep

\* Steps that move no GUID and leave the counter alone.
LEMMA HealthyIdle ==
  ASSUME NEW n, TypeOK, Healthy(n), mishaps = {}, UNCHANGED <<cache, responseChan, maxGuid, used, twice>>, Seeded'
  PROVE  Healthy(n)'
<1>1. \A t \in Servers : Waiting(t)' \subseteq Waiting(t)
  BY DEF Waiting
<1>2. maxGuid' \in Nat /\ maxGuid' >= maxGuid
  BY DEF TypeOK
<1>3. Apart'
  BY <1>1, <1>2, ApartShrinks DEF Healthy
<1> QED BY <1>3 DEF Healthy

\* A start that finds MySQL's GUIDs, or a seed of them, leaves the counter at or above them.
LEMMA BootSeeded ==
  ASSUME TypeOK, Seeded, NEW s \in Servers, BootStep(s), mishaps' = {}
  PROVE  Seeded' /\ maxGuid' \in Nat /\ maxGuid' >= maxGuid
<1>1. /\ maxGuid \in Nat /\ boot \in [Servers -> {"start", "mysql", "seed", "up"}]
      /\ bootMax \in [Servers -> Nat]
  BY DEF TypeOK
<1>2. /\ maxGuid = 0 \/ maxGuid >= DBMax
      /\ \A t \in Servers : (boot[t] = "up" => maxGuid >= DBMax) /\ (boot[t] = "seed" => bootMax[t] >= DBMax)
  BY DEF Seeded
<1>3. CASE BootReadRedis(s)
  <2>1. boot' = [boot EXCEPT ![s] = IF maxGuid = 0 THEN "mysql" ELSE "up"] /\ UNCHANGED <<maxGuid, bootMax>>
    BY <1>3 DEF BootReadRedis
  <2>2. \A t \in Servers : (boot'[t] = "up" => maxGuid >= DBMax) /\ (boot'[t] = "seed" => bootMax[t] >= DBMax)
    BY <1>1, <1>2, <2>1
  <2> QED BY <1>1, <1>2, <2>1, <2>2 DEF Seeded
<1>4. CASE BootReadMysql(s)
  <2>1. PICK saved \in {DBMax} \cup used : saved >= DBMax /\ bootMax' = [bootMax EXCEPT ![s] = saved]
    BY <1>4 DEF BootReadMysql
  <2>2. boot' = [boot EXCEPT ![s] = "seed"] /\ UNCHANGED maxGuid
    BY <1>4 DEF BootReadMysql
  <2>3. \A t \in Servers : (boot'[t] = "up" => maxGuid >= DBMax) /\ (boot'[t] = "seed" => bootMax'[t] >= DBMax)
    BY <1>1, <1>2, <2>1, <2>2
  <2> QED BY <1>1, <1>2, <2>2, <2>3 DEF Seeded
<1>5. CASE BootSetRedis(s)
  <2>1. boot[s] = "seed" /\ maxGuid' = bootMax[s] /\ boot' = [boot EXCEPT ![s] = "up"] /\ UNCHANGED bootMax
    BY <1>5 DEF BootSetRedis
  <2>2. ~(bootMax[s] < maxGuid)
    BY <1>5 DEF BootSetRedis
  <2>3. bootMax[s] \in Nat /\ bootMax[s] >= DBMax
    BY <1>1, <1>2, <2>1
  <2>4. \A t \in Servers : boot'[t] = "seed" => bootMax'[t] >= DBMax
    BY <1>1, <1>2, <2>1
  <2>5. maxGuid' >= DBMax /\ maxGuid' \in Nat /\ maxGuid' >= maxGuid
    BY <1>1, <2>1, <2>2, <2>3
  <2> QED BY <2>4, <2>5 DEF Seeded
<1> QED BY <1>3, <1>4, <1>5 DEF BootStep

\* Every step preserves the invariant.
LEMMA NextHealthy ==
  ASSUME NEW n, OneSize(n), TypeOK, TypeOK', Booted, Reserved, Healthy(n), [Next]_vars
  PROVE  Healthy(n)'
<1> SUFFICES ASSUME mishaps' = {} PROVE Healthy(n)'
  BY DEF Healthy
<1>m. mishaps = {}
  BY MishapsStay
<1>n. n \in Nat \ {0}
  BY SizesAssumption DEF OneSize
<1>h. Apart /\ Seeded /\ \A s \in Servers : Ordered(cache[s], responseChan[s], n)
  BY <1>m DEF Healthy
<1>t. /\ maxGuid \in Nat /\ maxGuid' \in Nat
      /\ cache \in [Servers -> Seq(GuidDiapasonWithState)]
      /\ responseChan \in [Servers -> Seq(Response)]
  BY DEF TypeOK
<1>u. ASSUME UNCHANGED <<cache, responseChan, maxGuid, used, twice, boot, bootMax>> PROVE Healthy(n)'
  <2>1. Seeded'
    BY <1>h, <1>u DEF Seeded
  <2> QED BY <1>m, <1>u, <2>1, HealthyIdle
<1>1. ASSUME NEW s \in Servers, BootStep(s) PROVE Healthy(n)'
  <2>1. UNCHANGED <<cache, responseChan, used, twice>>
    BY <1>1 DEF BootStep, BootReadRedis, BootReadMysql, BootSetRedis
  <2>2. Seeded' /\ maxGuid' >= maxGuid
    BY <1>1, <1>h, BootSeeded
  <2>3. \A t \in Servers : Waiting(t)' \subseteq Waiting(t)
    BY <2>1 DEF Waiting
  <2>4. Apart'
    BY <1>h, <1>t, <2>1, <2>2, <2>3, ApartShrinks
  <2> QED BY <1>h, <2>1, <2>2, <2>4 DEF Healthy
<1>2. ASSUME NEW h \in Handlers, NEW s \in Servers, NEW k \in Sizes, GetGuids(h, s, k) PROVE Healthy(n)'
  BY <1>2, <1>u DEF GetGuids, storageVars, instanceVars
<1>3. ASSUME NEW h \in Handlers, CheckUsage(h) \/ SendRequest(h) PROVE Healthy(n)'
  BY <1>3, <1>u DEF CheckUsage, SendRequest, storageVars, instanceVars
<1>4. ASSUME NEW h \in Handlers, TakeGuids(h) PROVE Healthy(n)'
  <2>1. call[h] \in CallState
    BY <1>4, CallingType DEF TakeGuids, NoCall
  <2> DEFINE s == call[h].server
             taken == UseGuids(cache[s], n)
  <2>2. s \in Servers /\ call[h].size = n
    BY <2>1 DEF CallState, OneSize
  <2>3. UNCHANGED <<maxGuid, responseChan, boot, bootMax>>
    BY <1>4 DEF TakeGuids, storageVars
  <2>4. CASE cache[s] = <<>>
    <3>1. UNCHANGED <<cache, used, twice>>
      BY <1>4, <2>4 DEF TakeGuids
    <3> QED BY <1>u, <2>3, <3>1
  <2>5. CASE cache[s] # <<>>
    <3>1. /\ cache' = [cache EXCEPT ![s] = taken.left]
          /\ twice' = twice \cup (used \cap taken.guids)
          /\ used' = used \cup taken.guids
      BY <1>4, <2>2, <2>5 DEF TakeGuids
    <3>2. cache[s] \in Seq(GuidDiapasonWithState) /\ responseChan[s] \in Seq(Response) /\ Ordered(cache[s], responseChan[s], n)
      BY <1>h, <1>t, <2>2
    <3>3. /\ Ordered(taken.left, responseChan[s], n)
          /\ WaitingIn(taken.left, responseChan[s]) \subseteq WaitingIn(cache[s], responseChan[s]) \ taken.guids
          /\ taken.guids \subseteq WaitingIn(cache[s], responseChan[s])
      BY <1>n, <2>5, <3>2, TakenPool
    <3> DEFINE left == taken.left
               G == taken.guids
    <3> HIDE DEF s, taken
    <3>4. cache'[s] = taken.left /\ \A t \in Servers : t # s => cache'[t] = cache[t]
      BY <1>t, <2>2, <3>1
    <3>6. \A t \in Servers : t # s => Waiting(t)' \subseteq Waiting(t)
      BY <2>3, <3>4 DEF Waiting
    <3>7. \A t \in Servers : Ordered(cache'[t], responseChan'[t], n)
      BY <1>h, <2>3, <3>3, <3>4
    <3>8. Apart'
      <4> HIDE DEF G
      <4>1. used' = used \cup G /\ twice' = twice \cup (used \cap G)
        BY <3>1 DEF G
      <4>2. UNCHANGED maxGuid
        BY <2>3
      <4>3. PICK u \in Servers : u = s
        BY <2>2
      <4>4. Waiting(u)' \subseteq Waiting(u) \ G /\ G \subseteq Waiting(u)
        BY <2>3, <3>3, <3>4, <4>3 DEF Waiting, G
      <4>5. \A t \in Servers : t # u => Waiting(t)' \subseteq Waiting(t)
        BY <3>6, <4>3
      <4> QED BY <1>h, <4>1, <4>2, <4>4, <4>5, ApartTaken
    <3>9. Seeded'
      BY <1>h, <2>3 DEF Seeded
    <3> QED BY <3>7, <3>8, <3>9 DEF Healthy
  <2> QED BY <2>4, <2>5
<1>5. ASSUME NEW s \in Servers, DispatchRequest(s) PROVE Healthy(n)'
  BY <1>5, <1>u DEF DispatchRequest, storageVars
<1>6. ASSUME NEW s \in Servers, DispatchResponse(s) PROVE Healthy(n)'
  <2> DEFINE d == Head(responseChan[s]).newGuids
  <2>1. /\ responseChan[s] # <<>>
        /\ cache' = [cache EXCEPT ![s] = AddDiapason(@, d)]
        /\ responseChan' = [responseChan EXCEPT ![s] = Tail(@)]
        /\ UNCHANGED <<maxGuid, boot, bootMax, used, twice>>
    BY <1>6 DEF DispatchResponse, storageVars
  <2>2. cache[s] \in Seq(GuidDiapasonWithState) /\ responseChan[s] \in Seq(Response) /\ Ordered(cache[s], responseChan[s], n)
    BY <1>h, <1>t
  <2>3. /\ Ordered(AddDiapason(cache[s], d), Tail(responseChan[s]), n)
        /\ WaitingIn(AddDiapason(cache[s], d), Tail(responseChan[s])) \subseteq WaitingIn(cache[s], responseChan[s])
    BY <1>n, <2>1, <2>2, AddedPool
  <2> HIDE DEF d
  <2>4. /\ cache'[s] = AddDiapason(cache[s], d) /\ responseChan'[s] = Tail(responseChan[s])
        /\ \A t \in Servers : t # s => cache'[t] = cache[t] /\ responseChan'[t] = responseChan[t]
    BY <1>t, <2>1
  <2>5. \A t \in Servers : Waiting(t)' \subseteq Waiting(t)
    BY <2>3, <2>4 DEF Waiting
  <2>6. \A t \in Servers : Ordered(cache'[t], responseChan'[t], n)
    BY <1>h, <2>3, <2>4
  <2>7. maxGuid' >= maxGuid /\ UNCHANGED <<used, twice>>
    BY <1>t, <2>1
  <2>8. Apart'
    BY <1>h, <1>t, <2>5, <2>7, ApartShrinks
  <2>9. Seeded'
    BY <1>h, <2>1 DEF Seeded
  <2> QED BY <2>6, <2>8, <2>9 DEF Healthy
<1>7. ASSUME NEW p \in Servers \X Processors, StartWork(p) \/ Watch(p) PROVE Healthy(n)'
  BY <1>7, <1>u DEF StartWork, Watch, instanceVars
<1>8. ASSUME NEW p \in Servers \X Processors, ExecCommit(p) PROVE Healthy(n)'
  <2> DEFINE a == work[p].request.amount
  <2>0. p[1] \in Servers
    OBVIOUS
  <2>1. work[p] \in WorkState /\ work[p].request \in Request /\ a \in Amounts /\ a \in Nat \ {0}
    BY <1>8, WorkingType DEF ExecCommit, WorkState, Request
  <2>2. work[p].read = maxGuid
    BY <1>8, <1>m DEF ExecCommit, Reserved, CounterKept
  <2>3. boot[p[1]] = "up"
    BY <1>8, <2>0 DEF ExecCommit, NoWork, Booted
  <2>4. maxGuid >= DBMax
    BY <1>h, <2>0, <2>3 DEF Seeded
  <2>5. Multiple(n, a)
    <3>1. a = n * RequestGuidsBufferMultiplayer
      BY <2>1 DEF Amounts, OneSize
    <3> QED BY <1>n, <3>1, Multiples, MultiplierAssumption
  <2> DEFINE newMax == work[p].read + a
             d == [start |-> newMax - a + 1, end |-> newMax]
             m == [request |-> work[p].request, newGuids |-> d]
  <2>6. /\ maxGuid' = newMax
        /\ responseChan' = [responseChan EXCEPT ![p[1]] = Append(@, m)]
        /\ UNCHANGED <<boot, bootMax, cache, used, twice>>
    BY <1>8 DEF ExecCommit, Respond
  <2> HIDE DEF a
  <2>7. d \in GuidDiapason /\ d.start = maxGuid + 1 /\ d.end = maxGuid' /\ maxGuid' = maxGuid + a
    BY <1>t, <2>1, <2>2, <2>6 DEF GuidDiapason
  <2>8. d.end - d.start + 1 = a
    BY <1>t, <2>1, <2>7
  <2> HIDE DEF d
  <2>9. m \in Response /\ m.newGuids = d
    BY <2>1, <2>7 DEF Response
  <2> HIDE DEF m
  <2>10. PICK s \in Servers : s = p[1]
    BY <2>0
  <2>11. cache[s] \in Seq(GuidDiapasonWithState) /\ responseChan[s] \in Seq(Response) /\ Ordered(cache[s], responseChan[s], n)
    BY <1>h, <1>t
  <2>12. \A g \in WaitingIn(cache[s], responseChan[s]) : g <= maxGuid
    <3>1. WaitingIn(cache[s], responseChan[s]) \subseteq (DBMax + 1)..maxGuid
      BY <1>h DEF Apart, Waiting
    <3> QED BY <3>1, <1>t, DBMaxAssumption
  <2>13. Multiple(n, m.newGuids.end - m.newGuids.start + 1) /\ m.newGuids.start = maxGuid + 1
    BY <2>5, <2>7, <2>8, <2>9
  <2>14. /\ Ordered(cache[s], Append(responseChan[s], m), n)
         /\ WaitingIn(cache[s], Append(responseChan[s], m)) \subseteq
              WaitingIn(cache[s], responseChan[s]) \cup (m.newGuids.start .. m.newGuids.end)
    BY <1>n, <1>t, <2>9, <2>11, <2>12, <2>13, RespondedPool
  <2>15. responseChan'[s] = Append(responseChan[s], m) /\ \A t \in Servers : t # s => responseChan'[t] = responseChan[t]
    BY <1>t, <2>6, <2>10
  <2>16. \A t \in Servers : Waiting(t)' \subseteq Waiting(t) \cup IF t = s THEN (maxGuid + 1)..(maxGuid') ELSE {}
    <3>1. m.newGuids.start .. m.newGuids.end = (maxGuid + 1)..(maxGuid')
      BY <2>7, <2>9
    <3> QED BY <2>6, <2>14, <2>15, <3>1 DEF Waiting
  <2>17. \A t \in Servers : Ordered(cache'[t], responseChan'[t], n)
    BY <1>h, <2>6, <2>14, <2>15
  <2>18. maxGuid' >= maxGuid /\ maxGuid' >= DBMax
    BY <1>t, <2>1, <2>4, <2>7, DBMaxAssumption
  <2>19. Apart'
    BY <1>h, <1>t, <2>4, <2>6, <2>16, <2>18, ApartGrows
  <2>20. Seeded'
    BY <1>h, <2>6, <2>18 DEF Seeded
  <2> QED BY <2>17, <2>19, <2>20 DEF Healthy
<1>9. ASSUME NEW p \in Servers \X Processors, ExecAbort(p) PROVE Healthy(n)'
  <2>1. UNCHANGED responseChan
    BY <1>9 DEF ExecAbort
  <2> QED BY <1>9, <1>u, <2>1 DEF ExecAbort
<1>10. ASSUME NEW p \in Servers \X Processors, RedisError(p) PROVE FALSE
  BY <1>10 DEF RedisError
<1>11. ASSUME NEW s \in Servers, Crash(s) PROVE Healthy(n)'
  <2>1. /\ cache' = [cache EXCEPT ![s] = <<>>]
        /\ responseChan' = [responseChan EXCEPT ![s] = <<>>]
        /\ boot' = [boot EXCEPT ![s] = "start"]
        /\ bootMax' = [bootMax EXCEPT ![s] = 0]
        /\ UNCHANGED <<maxGuid, used, twice>>
    BY <1>11 DEF Crash
  <2>2. \A t \in Servers : \/ cache'[t] = cache[t] /\ responseChan'[t] = responseChan[t]
                           \/ cache'[t] = <<>> /\ responseChan'[t] = <<>>
    BY <1>t, <2>1
  <2>3. WaitingIn(<<>>, <<>>) = {} /\ Ordered(<<>>, <<>>, n)
    BY WaitingMembers DEF Ordered
  <2>4. \A t \in Servers : Waiting(t)' \subseteq Waiting(t)
    BY <2>2, <2>3 DEF Waiting
  <2>5. \A t \in Servers : Ordered(cache'[t], responseChan'[t], n)
    BY <1>h, <2>2, <2>3
  <2>6. maxGuid' >= maxGuid
    BY <1>t, <2>1
  <2>7. Apart'
    BY <1>h, <1>t, <2>1, <2>4, <2>6, ApartShrinks
  <2>8. Seeded'
    <3>1. boot \in [Servers -> {"start", "mysql", "seed", "up"}] /\ bootMax \in [Servers -> Nat]
      BY DEF TypeOK
    <3> QED BY <1>h, <2>1, <3>1 DEF Seeded
  <2> QED BY <2>5, <2>7, <2>8 DEF Healthy
<1>12. CASE UNCHANGED vars
  BY <1>12, <1>u DEF vars
<1> QED
  BY <1>1, <1>2, <1>3, <1>4, <1>5, <1>6, <1>7, <1>8, <1>9, <1>10, <1>11, <1>12
     DEF Next, HandlerStep, DispatcherStep, ProcessorStep

\* Init establishes the invariant.
LEMMA InitHealthy == ASSUME NEW n, Init PROVE Booted /\ Healthy(n)
<1>1. \A s \in Servers : cache[s] = <<>> /\ responseChan[s] = <<>> /\ requestChan[s] = <<>> /\ workChan[s] = <<>> /\ boot[s] = "start"
  BY DEF Init
<1>2. WaitingIn(<<>>, <<>>) = {} /\ Ordered(<<>>, <<>>, n)
  BY WaitingMembers DEF Ordered
<1>3. \A s \in Servers : Waiting(s) = {}
  BY <1>1, <1>2 DEF Waiting
<1>4. Apart
  BY <1>3 DEF Init, Apart
<1>5. Seeded
  BY <1>1, DBMaxAssumption DEF Init, Seeded
<1>6. Booted
  BY <1>1 DEF Init, Booted
<1> QED BY <1>1, <1>2, <1>4, <1>5, <1>6 DEF Healthy

\* For any number of instances, handlers and processors: when all game servers ask for pools
\* of one size, no GUID is handed out twice and none is one that MySQL held at the first
\* start, unless a reservation failed or a first start set the counter back.
THEOREM NoGuidTwice ==
  ASSUME NEW n, OneSize(n)
  PROVE  Spec => []UniqueWhileHealthy
<1> DEFINE Inv == TypeOK /\ Booted /\ Reserved /\ InstancesDisjoint /\ Healthy(n)
<1>1. Init => Inv
  BY InitTypeOK, InitReserved, InitHealthy
<1>2. Inv /\ [Next]_vars => Inv'
  BY NextTypeOK, NextBooted, NextReserved, NextHealthy
<1>3. Inv => UniqueWhileHealthy
  <2> SUFFICES ASSUME Inv, mishaps = {} PROVE twice = {} /\ \A g \in used : g > DBMax
    BY DEF UniqueWhileHealthy
  <2>1. twice = {} /\ used \subseteq (DBMax + 1)..maxGuid
    BY DEF Healthy, Apart
  <2>2. maxGuid \in Nat
    BY DEF TypeOK
  <2> QED BY <2>1, <2>2, DBMaxAssumption
<1> QED BY <1>1, <1>2, <1>3, PTL DEF Spec

-----------------------------------------------------------------------------
(* Waiting handlers. *)

\* The places in an instance where the callback of a handler can be.
Positions(q, h) == {i \in DOMAIN q : q[i].callback = h}
Requests(ms) == [i \in DOMAIN ms |-> ms[i].request]
Queued(s, h) == Positions(requestChan[s], h)
Assigned(s, h) == Positions(workChan[s], h)
Serving(s, h) == {p \in Processors : work[<<s, p>>] # NoWork /\ work[<<s, p>>].request.callback = h}
Answered(s, h) == Positions(Requests(responseChan[s]), h)
CalledBack(s, h) == {c \in callbacks[s] : c[2] = h}

Single(S) == \E x : S = {x}
Nowhere(a, b, c, d, e) == a = {} /\ b = {} /\ c = {} /\ d = {} /\ e = {}
OnePlace(a, b, c, d, e) ==
    \/ Single(a) /\ b = {} /\ c = {} /\ d = {} /\ e = {}
    \/ a = {} /\ Single(b) /\ c = {} /\ d = {} /\ e = {}
    \/ a = {} /\ b = {} /\ Single(c) /\ d = {} /\ e = {}
    \/ a = {} /\ b = {} /\ c = {} /\ Single(d) /\ e = {}
    \/ a = {} /\ b = {} /\ c = {} /\ d = {} /\ Single(e)

\* The callback of a waiting handler is in one place of its instance; no other
\* callback is anywhere; and what is in callbacksQueue waits for a request in process.
Waits(h, s) == call[h].pc = "wait" /\ call[h].server = s
Parked(s, h) ==
    /\ Waits(h, s) => OnePlace(Queued(s, h), Assigned(s, h), Serving(s, h), Answered(s, h), CalledBack(s, h))
    /\ ~Waits(h, s) => Nowhere(Queued(s, h), Assigned(s, h), Serving(s, h), Answered(s, h), CalledBack(s, h))
AllParked == \A s \in Servers, h \in Handlers : Parked(s, h)
CallbacksInProcess == \A s \in Servers : \A c \in callbacks[s] : c[1] \in inProcess[s]

\* Two sets that are both empty, or both have one element.
Alike(S, T) == (S = {} <=> T = {}) /\ (Single(S) <=> Single(T))

\* Moving places within a channel changes nothing.
LEMMA ParkedAlike ==
  ASSUME NEW s, NEW h, Parked(s, h), Waits(h, s)' <=> Waits(h, s),
         Alike(Queued(s, h), Queued(s, h)'), Alike(Assigned(s, h), Assigned(s, h)'),
         Alike(Serving(s, h), Serving(s, h)'), Alike(Answered(s, h), Answered(s, h)'),
         Alike(CalledBack(s, h), CalledBack(s, h)')
  PROVE  Parked(s, h)'
<1> DEFINE a == Queued(s, h)
           b == Assigned(s, h)
           c == Serving(s, h)
           d == Answered(s, h)
           e == CalledBack(s, h)
           a1 == Queued(s, h)'
           b1 == Assigned(s, h)'
           c1 == Serving(s, h)'
           d1 == Answered(s, h)'
           e1 == CalledBack(s, h)'
<1>1. Alike(a, a1) /\ Alike(b, b1) /\ Alike(c, c1) /\ Alike(d, d1) /\ Alike(e, e1)
  OBVIOUS
<1>2. (Waits(h, s) => OnePlace(a, b, c, d, e)) /\ (~Waits(h, s) => Nowhere(a, b, c, d, e))
  BY DEF Parked
<1>3. (Waits(h, s)' => OnePlace(a1, b1, c1, d1, e1)) /\ (~Waits(h, s)' => Nowhere(a1, b1, c1, d1, e1))
  <2> HIDE DEF a, b, c, d, e, a1, b1, c1, d1, e1
  <2>1. OnePlace(a, b, c, d, e) => OnePlace(a1, b1, c1, d1, e1)
    BY <1>1 DEF OnePlace, Alike
  <2>2. Nowhere(a, b, c, d, e) => Nowhere(a1, b1, c1, d1, e1)
    BY <1>1 DEF Nowhere, Alike
  <2> QED BY <1>2, <2>1, <2>2
<1> QED BY <1>3 DEF Parked

\* Receiving from a channel takes the first request out.
LEMMA TailPositions ==
  ASSUME NEW q \in Seq(Request), q # <<>>, NEW h
  PROVE  /\ Head(q).callback # h => Alike(Positions(q, h), Positions(Tail(q), h))
         /\ Head(q).callback = h =>
               Positions(q, h) # {} /\ (Single(Positions(q, h)) => Positions(Tail(q), h) = {})
<1>1. /\ Len(q) \in Nat \ {0} /\ DOMAIN q = 1..Len(q) /\ DOMAIN Tail(q) = 1..(Len(q) - 1)
      /\ Head(q) = q[1] /\ \A i \in 1..(Len(q) - 1) : Tail(q)[i] = q[i + 1]
  <2>1. Len(q) \in Nat \ {0}
    BY EmptySeq
  <2> QED BY <2>1, HeadTailProperties, LenProperties, ElementOfSeq
<1> DEFINE n == Len(q)
           A == Positions(q, h)
           B == Positions(Tail(q), h)
<1>2. \A i \in 1..(n - 1) : i \in B <=> i + 1 \in A
  BY <1>1 DEF Positions
<1>3. A \subseteq 1..n /\ B \subseteq 1..(n - 1) /\ (1 \in A <=> Head(q).callback = h)
  BY <1>1 DEF Positions
<1>4. n \in Nat \ {0}
  BY <1>1
<1> HIDE DEF n, A, B
<1>5. ASSUME Head(q).callback # h PROVE Alike(A, B)
  <2>1. \A i \in A : i - 1 \in B
    <3> SUFFICES ASSUME NEW i \in A PROVE i - 1 \in B
      OBVIOUS
    <3>1. i \in 1..n /\ i # 1
      BY <1>3, <1>5
    <3>2. i - 1 \in 1..(n - 1) /\ (i - 1) + 1 = i
      BY <3>1, <1>4
    <3> QED BY <3>2, <1>2
  <2>2. \A i \in B : i + 1 \in A
    BY <1>2, <1>3
  <2>3. A \subseteq Int /\ B \subseteq Int
    BY <1>3
  <2>4. A = {} <=> B = {}
    BY <2>1, <2>2
  <2>5. ASSUME NEW x, A = {x} PROVE B = {x - 1}
    <3>1. x - 1 \in B /\ x \in Int
      BY <2>1, <2>3, <2>5
    <3>2. \A i \in B : i = x - 1
      <4> SUFFICES ASSUME NEW i \in B PROVE i = x - 1
        OBVIOUS
      <4>1. i + 1 = x /\ i \in Int
        BY <2>2, <2>3, <2>5
      <4> QED BY <4>1, <3>1
    <3> QED BY <3>1, <3>2
  <2>6. ASSUME NEW x, B = {x} PROVE A = {x + 1}
    <3>1. x + 1 \in A /\ x \in Int
      BY <2>2, <2>3, <2>6
    <3>2. \A i \in A : i = x + 1
      <4> SUFFICES ASSUME NEW i \in A PROVE i = x + 1
        OBVIOUS
      <4>1. i - 1 = x /\ i \in Int
        BY <2>1, <2>3, <2>6
      <4> QED BY <4>1, <3>1
    <3> QED BY <3>1, <3>2
  <2> QED BY <2>4, <2>5, <2>6 DEF Alike, Single
<1>6. ASSUME Head(q).callback = h PROVE A # {} /\ (Single(A) => B = {})
  <2>1. 1 \in A
    BY <1>3, <1>6
  <2>2. ASSUME NEW x, A = {x}, NEW i \in B PROVE FALSE
    <3>1. i \in 1..(n - 1) /\ i + 1 \in A
      BY <1>2, <1>3, <2>2
    <3>2. i + 1 = 1
      BY <2>1, <2>2, <3>1
    <3> QED BY <3>1, <3>2, <1>4
  <2> QED BY <2>1, <2>2 DEF Single
<1> QED BY <1>5, <1>6 DEF A, B

\* Sending to a channel adds the request at the end.
LEMMA AppendPositions ==
  ASSUME NEW q \in Seq(Request), NEW m \in Request, NEW h
  PROVE  /\ m.callback # h => Positions(Append(q, m), h) = Positions(q, h)
         /\ m.callback = h /\ Positions(q, h) = {} => Single(Positions(Append(q, m), h))
<1>1. /\ Len(q) \in Nat /\ DOMAIN q = 1..Len(q) /\ DOMAIN Append(q, m) = 1..(Len(q) + 1)
      /\ Append(q, m)[Len(q) + 1] = m /\ \A i \in 1..Len(q) : Append(q, m)[i] = q[i]
  BY AppendProperties, LenProperties
<1> DEFINE n == Len(q)
           r == Append(q, m)
<1>2. /\ n \in Nat /\ DOMAIN q = 1..n /\ DOMAIN r = 1..(n + 1) /\ r[n + 1] = m
      /\ \A i \in 1..n : r[i] = q[i]
  BY <1>1
<1> HIDE DEF n, r
<1>3. \A i \in 1..(n + 1) : i \in Positions(r, h) <=> (i \in 1..n /\ i \in Positions(q, h)) \/ (i = n + 1 /\ m.callback = h)
  BY <1>2 DEF Positions
<1>4. Positions(r, h) \subseteq 1..(n + 1) /\ Positions(q, h) \subseteq 1..n /\ 1..n \subseteq 1..(n + 1)
  BY <1>2 DEF Positions
<1>5. m.callback # h => Positions(r, h) = Positions(q, h)
  BY <1>3, <1>4
<1>6. m.callback = h /\ Positions(q, h) = {} => Positions(r, h) = {n + 1}
  BY <1>2, <1>3, <1>4
<1> QED BY <1>5, <1>6 DEF Single, r

\* The requests of a channel of responses.
LEMMA RequestsOf ==
  ASSUME NEW ms \in Seq(Response)
  PROVE  /\ Requests(ms) \in Seq(Request)
         /\ \A m \in Response : Requests(Append(ms, m)) = Append(Requests(ms), m.request)
         /\ ms # <<>> => /\ Requests(ms) # <<>> /\ Head(Requests(ms)) = Head(ms).request
                         /\ Requests(Tail(ms)) = Tail(Requests(ms))
<1> DEFINE n == Len(ms)
           q == Requests(ms)
<1>1. n \in Nat /\ DOMAIN ms = 1..n /\ \A i \in 1..n : ms[i] \in Response
  BY LenProperties, ElementOfSeq
<1>2. \A i \in 1..n : ms[i].request \in Request
  BY <1>1 DEF Response
<1>3. q \in [1..n -> Request]
  BY <1>1, <1>2 DEF Requests
<1>4. q \in Seq(Request) /\ Len(q) = n
  <2> HIDE DEF q, n
  <2>1. q \in Seq(Request)
    BY <1>1, <1>3
  <2> QED BY <2>1, <1>1, <1>3, LenProperties
<1>5. ASSUME NEW m \in Response PROVE Requests(Append(ms, m)) = Append(q, m.request)
  <2>1. m.request \in Request
    BY DEF Response
  <2>2. /\ DOMAIN Append(ms, m) = 1..(n + 1) /\ Append(ms, m)[n + 1] = m
        /\ \A i \in 1..n : Append(ms, m)[i] = ms[i]
    BY AppendProperties, LenProperties
  <2> DEFINE r == m.request
  <2>3. /\ Append(q, r) \in Seq(Request) /\ DOMAIN Append(q, r) = 1..(n + 1) /\ Append(q, r)[n + 1] = r
        /\ \A i \in 1..n : Append(q, r)[i] = q[i]
    <3> HIDE DEF q, r, n
    <3>1. r \in Request
      BY <2>1 DEF r
    <3> QED BY <3>1, <1>4, AppendProperties, LenProperties
  <2>4. Append(q, r) = [i \in 1..(n + 1) |-> Append(q, r)[i]]
    <3> DEFINE z == Append(q, r)
    <3>1. z \in [1..Len(z) -> Request] /\ DOMAIN z = 1..(n + 1)
      BY <2>3, LenProperties
    <3> HIDE DEF z
    <3>2. z = [i \in 1..(n + 1) |-> z[i]]
      BY <3>1
    <3> QED BY <3>2 DEF z
  <2>5. \A i \in 1..(n + 1) : Append(q, r)[i] = Append(ms, m)[i].request
    <3> SUFFICES ASSUME NEW i \in 1..(n + 1) PROVE Append(q, r)[i] = Append(ms, m)[i].request
      OBVIOUS
    <3>1. CASE i = n + 1
      BY <3>1, <2>2, <2>3
    <3>2. CASE i # n + 1
      <4>1. i \in 1..n
        BY <3>2, <1>1
      <4>2. q[i] = ms[i].request
        BY <4>1, <1>1 DEF Requests
      <4> QED BY <4>1, <4>2, <2>2, <2>3
    <3> QED BY <3>1, <3>2
  <2> QED BY <2>2, <2>4, <2>5 DEF Requests
<1>6. ASSUME ms # <<>>
      PROVE  q # <<>> /\ Head(q) = Head(ms).request /\ Requests(Tail(ms)) = Tail(q)
  <2>1. n \in Nat \ {0}
    BY <1>1, <1>6, EmptySeq
  <2>2. q # <<>>
    <3> HIDE DEF q, n
    <3> QED BY <2>1, <1>4, EmptySeq
  <2>3. /\ Head(ms) = ms[1] /\ DOMAIN Tail(ms) = 1..(n - 1)
        /\ \A i \in 1..(n - 1) : Tail(ms)[i] = ms[i + 1]
    BY <1>6, HeadTailProperties, LenProperties, ElementOfSeq
  <2>4. /\ Head(q) = q[1] /\ Tail(q) \in Seq(Request) /\ DOMAIN Tail(q) = 1..(n - 1)
        /\ \A i \in 1..(n - 1) : Tail(q)[i] = q[i + 1]
    <3> HIDE DEF q, n
    <3> QED BY <1>4, <2>2, HeadTailProperties, LenProperties, ElementOfSeq
  <2>5. \A i \in 1..n : q[i] = ms[i].request
    BY <1>1 DEF Requests
  <2>6. Tail(q) = [i \in 1..(n - 1) |-> Tail(q)[i]]
    <3> DEFINE z == Tail(q)
    <3>1. z \in [1..Len(z) -> Request] /\ DOMAIN z = 1..(n - 1)
      BY <2>4, LenProperties
    <3> HIDE DEF z
    <3>2. z = [i \in 1..(n - 1) |-> z[i]]
      BY <3>1
    <3> QED BY <3>2 DEF z
  <2>7. \A i \in 1..(n - 1) : Tail(q)[i] = Tail(ms)[i].request
    <3> SUFFICES ASSUME NEW i \in 1..(n - 1) PROVE Tail(q)[i] = Tail(ms)[i].request
      OBVIOUS
    <3>1. i + 1 \in 1..n
      BY <2>1
    <3> QED BY <3>1, <2>3, <2>4, <2>5
  <2>8. 1 \in 1..n
    BY <2>1
  <2> QED BY <2>2, <2>3, <2>4, <2>5, <2>6, <2>7, <2>8 DEF Requests
<1> QED BY <1>4, <1>5, <1>6

\* The work of a processor stays work for the same request.
Kept(p) == (work'[p] = NoWork <=> work[p] = NoWork) /\ (work[p] # NoWork => work'[p].request = work[p].request)
ParkInv == TypeOK /\ AllParked /\ CallbacksInProcess

\* Marking transactions dirty keeps the work of all processors.
LEMMA TouchKeepsWork ==
  ASSUME TypeOK, NEW p \in Servers \X Processors
  PROVE  /\ Touch(work)[p] = NoWork <=> work[p] = NoWork
         /\ work[p] # NoWork => Touch(work)[p].request = work[p].request
<1> DEFINE w == work[p]
<1>1. work \in [Servers \X Processors -> WorkState \cup {NoWork}] /\ w \in WorkState \cup {NoWork}
  BY DEF TypeOK
<1>2. Touch(work)[p] = IF w.pc = "exec" THEN [w EXCEPT !.dirty = TRUE] ELSE w
  BY <1>1 DEF Touch
<1>3. ASSUME w.pc = "exec"
      PROVE  /\ w # NoWork /\ [w EXCEPT !.dirty = TRUE] # NoWork
             /\ [w EXCEPT !.dirty = TRUE].request = w.request
  <2> HIDE DEF w
  <2>1. w # NoWork
    BY <1>3 DEF NoWork
  <2>2. w \in WorkState
    BY <1>1, <2>1
  <2> DEFINE v == [w EXCEPT !.dirty = TRUE]
  <2>3. v \in WorkState /\ v.request = w.request /\ v.pc = w.pc
    BY <2>2 DEF WorkState
  <2>4. v # NoWork
    <3> HIDE DEF v
    <3> QED BY <2>3, <1>3 DEF NoWork
  <2> QED BY <2>1, <2>3, <2>4
<1> QED BY <1>2, <1>3

\* A step about other instances, or about other things.
LEMMA ParkedSame ==
  ASSUME NEW s \in Servers, NEW h, Parked(s, h), Waits(h, s)' <=> Waits(h, s),
         requestChan'[s] = requestChan[s], workChan'[s] = workChan[s], responseChan'[s] = responseChan[s],
         callbacks'[s] = callbacks[s], \A q \in Processors : Kept(<<s, q>>)
  PROVE  Parked(s, h)'
<1>1. /\ Queued(s, h)' = Queued(s, h) /\ Assigned(s, h)' = Assigned(s, h)
      /\ Answered(s, h)' = Answered(s, h) /\ CalledBack(s, h)' = CalledBack(s, h)
  BY DEF Queued, Assigned, Answered, CalledBack, Positions, Requests
<1>2. Serving(s, h)' = Serving(s, h)
  BY DEF Serving, Kept
<1>3. \A S : Alike(S, S)
  BY DEF Alike
<1> QED BY <1>1, <1>2, <1>3, ParkedAlike

\* A handler that neither waited nor will wait.
LEMMA WaitsSame ==
  ASSUME TypeOK, NEW k \in Handlers, NEW c, call' = [call EXCEPT ![k] = c], c.pc # "wait", call[k].pc # "wait"
  PROVE  \A h \in Handlers, s \in Servers : Waits(h, s)' <=> Waits(h, s)
<1>1. \A h \in Handlers : call'[h] = IF h = k THEN c ELSE call[h]
  BY DEF TypeOK
<1> QED BY <1>1 DEF Waits

\* Steps in which no callback moves.
LEMMA NobodyMoves ==
  ASSUME ParkInv, UNCHANGED <<requestChan, workChan, responseChan, callbacks, inProcess>>,
         \A p \in Servers \X Processors : Kept(p),
         \A h \in Handlers, s \in Servers : Waits(h, s)' <=> Waits(h, s)
  PROVE  AllParked' /\ CallbacksInProcess'
<1>1. ASSUME NEW s \in Servers, NEW h \in Handlers PROVE Parked(s, h)'
  <2>1. Parked(s, h)
    BY DEF ParkInv, AllParked
  <2>2. \A q \in Processors : Kept(<<s, q>>)
    OBVIOUS
  <2> QED BY <2>1, <2>2, ParkedSame
<1>2. AllParked'
  BY <1>1 DEF AllParked
<1> QED BY <1>2 DEF ParkInv, CallbacksInProcess

\* A handler that sends its request and waits has its callback in the request.
LEMMA SendRequestParks ==
  ASSUME ParkInv, NEW k \in Handlers, SendRequest(k)
  PROVE  AllParked' /\ CallbacksInProcess'
<1> DEFINE z == call[k].server
           wait == call[k].pc = "requestAndWait"
           m == [amount |-> call[k].size * RequestGuidsBufferMultiplayer,
                 callback |-> IF wait THEN k ELSE NoCallback]
           c == [call[k] EXCEPT !.pc = IF wait THEN "wait" ELSE "use"]
<1>1. TypeOK /\ call[k].pc \in {"request", "requestAndWait"} /\ call[k] \in CallState
  BY CallingType DEF ParkInv, SendRequest, NoCall
<1>2. /\ requestChan' = [requestChan EXCEPT ![z] = Append(@, m)]
      /\ call' = [call EXCEPT ![k] = c]
      /\ UNCHANGED <<work, workChan, responseChan, callbacks, inProcess>>
  BY DEF SendRequest, storageVars, instanceVars
<1>3. /\ c.pc = (IF wait THEN "wait" ELSE "use") /\ c.server = z /\ z \in Servers
      /\ call[k].size * RequestGuidsBufferMultiplayer \in Amounts
  BY <1>1 DEF CallState, Amounts
<1>4. m \in Request /\ m.callback = IF wait THEN k ELSE NoCallback
  BY <1>3 DEF Request
<1> HIDE DEF m, c
<1>5. \A h \in Handlers : call'[h] = IF h = k THEN c ELSE call[h]
  BY <1>1, <1>2 DEF TypeOK
<1>6. requestChan[z] \in Seq(Request) /\ \A s \in Servers : requestChan'[s] = IF s = z THEN Append(requestChan[z], m) ELSE requestChan[s]
  BY <1>1, <1>2, <1>3 DEF TypeOK
<1>7. \A p \in Servers \X Processors : Kept(p)
  BY <1>2 DEF Kept
<1>8. ASSUME NEW s \in Servers, NEW h \in Handlers PROVE Parked(s, h)'
  <2>1. Parked(s, h) /\ \A q \in Processors : Kept(<<s, q>>)
    BY <1>7 DEF ParkInv, AllParked
  <2>2. CASE s # z
    <3>1. Waits(h, s)' <=> Waits(h, s)
      BY <1>1, <1>3, <1>5, <2>2 DEF Waits
    <3> QED BY <2>1, <2>2, <3>1, <1>2, <1>6, ParkedSame
  <2>3. CASE s = z /\ (h # k \/ ~wait)
    <3>1. Waits(h, s)' <=> Waits(h, s)
      BY <1>1, <1>3, <1>5, <2>3 DEF Waits
    <3>2. m.callback # h
      BY <2>3, <1>4, NoCallbackAssumption
    <3>3. Queued(s, h)' = Queued(s, h)
      BY <3>2, <2>3, <1>4, <1>6, AppendPositions DEF Queued
    <3>4. /\ Assigned(s, h)' = Assigned(s, h) /\ Serving(s, h)' = Serving(s, h)
          /\ Answered(s, h)' = Answered(s, h) /\ CalledBack(s, h)' = CalledBack(s, h)
      BY <1>2 DEF Assigned, Serving, Answered, CalledBack
    <3>5. \A S : Alike(S, S)
      BY DEF Alike
    <3> QED BY <2>1, <3>1, <3>3, <3>4, <3>5, ParkedAlike
  <2>4. CASE s = z /\ h = k /\ wait
    <3>1. ~Waits(h, s) /\ Waits(h, s)'
      BY <1>1, <1>3, <1>5, <2>4 DEF Waits
    <3>2. Nowhere(Queued(s, h), Assigned(s, h), Serving(s, h), Answered(s, h), CalledBack(s, h))
      BY <2>1, <3>1 DEF Parked
    <3>3. Single(Queued(s, h)')
      <4>1. Positions(requestChan[s], h) = {} /\ m.callback = h /\ requestChan'[s] = Append(requestChan[s], m)
        BY <3>2, <2>4, <1>4, <1>6 DEF Nowhere, Queued
      <4>2. requestChan[s] \in Seq(Request)
        BY <1>6, <2>4
      <4> QED BY <4>1, <4>2, <1>4, AppendPositions DEF Queued
    <3>4. /\ Assigned(s, h)' = {} /\ Serving(s, h)' = {} /\ Answered(s, h)' = {} /\ CalledBack(s, h)' = {}
      BY <3>2, <1>2 DEF Nowhere, Assigned, Serving, Answered, CalledBack
    <3> QED BY <3>1, <3>3, <3>4 DEF Parked, OnePlace
  <2> QED BY <2>2, <2>3, <2>4
<1>9. AllParked'
  BY <1>8 DEF AllParked
<1> QED BY <1>2, <1>9 DEF ParkInv, CallbacksInProcess

\* The dispatcher hands a request to the processors, or keeps its callback.
LEMMA DispatchRequestParks ==
  ASSUME ParkInv, NEW z \in Servers, DispatchRequest(z)
  PROVE  AllParked' /\ CallbacksInProcess'
<1> DEFINE m == Head(requestChan[z])
<1>1. /\ TypeOK /\ requestChan[z] # <<>> /\ requestChan' = [requestChan EXCEPT ![z] = Tail(@)]
      /\ UNCHANGED <<work, responseChan, call>>
  BY DEF ParkInv, DispatchRequest, storageVars
<1>2. IF m.amount \in inProcess[z]
      THEN /\ callbacks' = [callbacks EXCEPT ![z] = IF m.callback = NoCallback THEN @
                                                   ELSE @ \cup {<<m.amount, m.callback>>}]
           /\ UNCHANGED <<inProcess, workChan>>
      ELSE /\ inProcess' = [inProcess EXCEPT ![z] = @ \cup {m.amount}]
           /\ workChan' = [workChan EXCEPT ![z] = Append(@, m)]
           /\ UNCHANGED callbacks
  BY DEF DispatchRequest
<1>3. requestChan[z] \in Seq(Request) /\ m \in Request /\ workChan[z] \in Seq(Request)
  BY <1>1, HeadTailProperties DEF TypeOK
<1>4. m.callback \in Handlers \cup {NoCallback}
  BY <1>3 DEF Request
<1>5. \A p \in Servers \X Processors : Kept(p)
  BY <1>1 DEF Kept
<1> DEFINE amount == m.amount
           back == m.callback
<1>6. \A s \in Servers : /\ requestChan'[s] = IF s = z THEN Tail(requestChan[z]) ELSE requestChan[s]
                         /\ workChan'[s] = IF s = z /\ amount \notin inProcess[z] THEN Append(workChan[z], m) ELSE workChan[s]
                         /\ callbacks'[s] = IF s = z /\ amount \in inProcess[z] /\ back # NoCallback
                                            THEN callbacks[z] \cup {<<amount, back>>} ELSE callbacks[s]
                         /\ inProcess'[s] = IF s = z THEN inProcess[z] \cup {amount} ELSE inProcess[s]
  <2>1. \A s \in Servers : requestChan'[s] = IF s = z THEN Tail(requestChan[z]) ELSE requestChan[s]
    BY <1>1 DEF TypeOK
  <2>2. IF amount \in inProcess[z]
        THEN /\ callbacks' = [callbacks EXCEPT ![z] = IF back = NoCallback THEN @ ELSE @ \cup {<<amount, back>>}]
             /\ UNCHANGED <<inProcess, workChan>>
        ELSE /\ inProcess' = [inProcess EXCEPT ![z] = @ \cup {amount}]
             /\ workChan' = [workChan EXCEPT ![z] = Append(@, m)]
             /\ UNCHANGED callbacks
    BY <1>2
  <2>3. /\ workChan \in [Servers -> Seq(Request)] /\ inProcess \in [Servers -> SUBSET Amounts]
        /\ callbacks \in [Servers -> SUBSET (Amounts \X Handlers)]
    BY <1>1 DEF TypeOK
  <2> HIDE DEF m, amount, back
  <2>4. CASE amount \in inProcess[z]
    <3>1. \A s \in Servers : callbacks'[s] = IF s = z /\ back # NoCallback
                                             THEN callbacks[z] \cup {<<amount, back>>} ELSE callbacks[s]
      BY <2>2, <2>3, <2>4
    <3>2. UNCHANGED <<inProcess, workChan>> /\ inProcess[z] = inProcess[z] \cup {amount}
      BY <2>2, <2>4
    <3> QED BY <2>1, <2>4, <3>1, <3>2
  <2>5. CASE amount \notin inProcess[z]
    <3>1. \A s \in Servers : inProcess'[s] = IF s = z THEN inProcess[z] \cup {amount} ELSE inProcess[s]
      BY <2>2, <2>3, <2>5
    <3>2. \A s \in Servers : workChan'[s] = IF s = z THEN Append(workChan[z], m) ELSE workChan[s]
      BY <2>2, <2>3, <2>5
    <3>3. UNCHANGED callbacks
      BY <2>2, <2>5
    <3> QED BY <2>1, <2>5, <3>1, <3>2, <3>3
  <2> QED BY <2>4, <2>5
<1>7. (back = NoCallback \/ back \in Handlers) /\ Head(requestChan[z]).callback = back
  BY <1>4
<1>8. ASSUME NEW h \in Handlers
      PROVE  /\ back # h => Positions(Append(workChan[z], m), h) = Positions(workChan[z], h)
             /\ back = h /\ Positions(workChan[z], h) = {} => Single(Positions(Append(workChan[z], m), h))
  <2> HIDE DEF m
  <2> QED BY <1>3, AppendPositions
<1> HIDE DEF m, amount, back
<1>9. ASSUME NEW s \in Servers, NEW h \in Handlers PROVE Parked(s, h)'
  <2>1. Parked(s, h) /\ (Waits(h, s)' <=> Waits(h, s)) /\ \A q \in Processors : Kept(<<s, q>>)
    BY <1>1, <1>5 DEF ParkInv, AllParked, Waits
  <2>2. CASE s # z
    BY <2>1, <2>2, <1>1, <1>6, ParkedSame
  <2>3. Serving(s, h)' = Serving(s, h) /\ Answered(s, h)' = Answered(s, h)
    BY <1>1 DEF Serving, Answered
  <2>4. CASE s = z /\ back # h
    <3>1. Alike(Queued(s, h), Queued(s, h)')
      <4>1. Head(requestChan[z]).callback # h
        BY <2>4, <1>7
      <4>2. Alike(Positions(requestChan[z], h), Positions(Tail(requestChan[z]), h))
        BY <4>1, <1>1, <1>3, TailPositions
      <4>3. requestChan'[z] = Tail(requestChan[z])
        BY <1>6
      <4> QED BY <4>2, <4>3, <2>4 DEF Queued
    <3>2. Assigned(s, h)' = Assigned(s, h)
      BY <2>4, <1>6, <1>8 DEF Assigned
    <3>3. CalledBack(s, h)' = CalledBack(s, h)
      BY <2>4, <1>6 DEF CalledBack
    <3>4. \A S : Alike(S, S)
      BY DEF Alike
    <3> QED BY <2>1, <2>3, <3>1, <3>2, <3>3, <3>4, ParkedAlike
  <2>5. CASE s = z /\ back = h
    <3>1. Queued(s, h) # {} /\ (Single(Queued(s, h)) => Queued(s, h)' = {})
      <4>1. Head(requestChan[z]).callback = h
        BY <2>5, <1>7
      <4>2. /\ Positions(requestChan[z], h) # {}
            /\ Single(Positions(requestChan[z], h)) => Positions(Tail(requestChan[z]), h) = {}
        BY <4>1, <1>1, <1>3, TailPositions
      <4>3. requestChan'[z] = Tail(requestChan[z])
        BY <1>6
      <4> QED BY <4>2, <4>3, <2>5 DEF Queued
    <3>2. /\ Waits(h, s) /\ Queued(s, h)' = {}
          /\ Assigned(s, h) = {} /\ Serving(s, h) = {} /\ Answered(s, h) = {} /\ CalledBack(s, h) = {}
      BY <2>1, <3>1 DEF Parked, Nowhere, OnePlace
    <3>3. CASE amount \in inProcess[z]
      <4>1. callbacks'[s] = callbacks[s] \cup {<<amount, h>>} /\ workChan'[s] = workChan[s]
        BY <2>5, <3>3, <1>6, NoCallbackAssumption
      <4>2. CalledBack(s, h)' = {<<amount, h>>}
        BY <4>1, <3>2 DEF CalledBack
      <4>3. Assigned(s, h)' = {}
        BY <4>1, <3>2 DEF Assigned
      <4> QED BY <4>2, <4>3, <3>2, <2>1, <2>3 DEF Parked, OnePlace, Single
    <3>4. CASE amount \notin inProcess[z]
      <4>1. callbacks'[s] = callbacks[s] /\ workChan'[s] = Append(workChan[s], m)
        BY <2>5, <3>4, <1>6
      <4>2. CalledBack(s, h)' = {}
        BY <4>1, <3>2 DEF CalledBack
      <4>3. Single(Assigned(s, h)')
        BY <4>1, <3>2, <2>5, <1>8 DEF Assigned
      <4> QED BY <4>2, <4>3, <3>2, <2>1, <2>3 DEF Parked, OnePlace
    <3> QED BY <3>3, <3>4
  <2> QED BY <2>2, <2>4, <2>5
<1>10. AllParked'
  BY <1>9 DEF AllParked
<1>11. CallbacksInProcess'
  BY <1>6 DEF ParkInv, CallbacksInProcess
<1> QED BY <1>10, <1>11

\* A processor that answers passes the callback on in its response.
LEMMA RespondParks ==
  ASSUME ParkInv, NEW p \in Servers \X Processors, NEW d \in GuidDiapason,
         work[p] # NoWork, work'[p] = NoWork, \A q \in Servers \X Processors : q # p => Kept(q),
         Respond(p, d), UNCHANGED <<requestChan, workChan, callbacks, inProcess, call>>
  PROVE  AllParked' /\ CallbacksInProcess'
<1> DEFINE z == p[1]
           k == p[2]
           r == work[p].request
           m == [request |-> r, newGuids |-> d]
<1>1. TypeOK /\ z \in Servers /\ k \in Processors /\ p = <<z, k>>
  BY DEF ParkInv
<1>2. r \in Request
  BY <1>1 DEF TypeOK, WorkState
<1>3. m \in Response /\ m.request = r
  BY <1>2 DEF Response
<1>4. responseChan[z] \in Seq(Response) /\ responseChan' = [responseChan EXCEPT ![z] = Append(@, m)]
  BY <1>1 DEF TypeOK, Respond
<1> HIDE DEF m
<1>5. \A s \in Servers : responseChan'[s] = IF s = z THEN Append(responseChan[z], m) ELSE responseChan[s]
  BY <1>1, <1>4 DEF TypeOK
<1> DEFINE q == Requests(responseChan[z])
<1>6. q \in Seq(Request) /\ Requests(responseChan'[z]) = Append(q, r)
  BY <1>1, <1>3, <1>4, <1>5, RequestsOf
<1> HIDE DEF q
<1>7. ASSUME NEW h PROVE /\ r.callback # h => Positions(Append(q, r), h) = Positions(q, h)
                         /\ r.callback = h /\ Positions(q, h) = {} => Single(Positions(Append(q, r), h))
  <2> HIDE DEF r
  <2> QED BY <1>2, <1>6, AppendPositions
<1>8. work[<<z, k>>] # NoWork /\ work'[<<z, k>>] = NoWork /\ work[<<z, k>>].request = r
  BY <1>1
<1>9. \A s \in Servers, j \in Processors : s # z \/ j # k => Kept(<<s, j>>)
  BY <1>1
<1> HIDE DEF r, z, k
<1>10. ASSUME NEW s \in Servers, NEW h \in Handlers PROVE Parked(s, h)'
  <2>1. Parked(s, h) /\ (Waits(h, s)' <=> Waits(h, s))
    BY DEF ParkInv, AllParked, Waits
  <2>2. CASE s # z
    BY <2>1, <2>2, <1>5, <1>9, ParkedSame
  <2>3. Queued(s, h)' = Queued(s, h) /\ Assigned(s, h)' = Assigned(s, h) /\ CalledBack(s, h)' = CalledBack(s, h)
    BY DEF Queued, Assigned, CalledBack
  <2>4. s = z => /\ Answered(s, h) = Positions(q, h)
                 /\ Answered(s, h)' = Positions(Append(q, r), h)
    BY <1>6 DEF Answered, q
  <2>5. CASE s = z /\ r.callback # h
    <3>1. Answered(s, h)' = Answered(s, h)
      BY <2>4, <2>5, <1>7
    <3>2. Serving(s, h)' = Serving(s, h)
      BY <2>5, <1>8, <1>9 DEF Serving, Kept
    <3>3. \A S : Alike(S, S)
      BY DEF Alike
    <3> QED BY <2>1, <2>3, <3>1, <3>2, <3>3, ParkedAlike
  <2>6. CASE s = z /\ r.callback = h
    <3>1. k \in Serving(s, h)
      BY <2>6, <1>1, <1>8 DEF Serving
    <3>2. /\ Waits(h, s) /\ Single(Serving(s, h))
          /\ Queued(s, h) = {} /\ Assigned(s, h) = {} /\ Answered(s, h) = {} /\ CalledBack(s, h) = {}
      BY <2>1, <3>1 DEF Parked, Nowhere, OnePlace
    <3>3. Serving(s, h) = {k}
      BY <3>1, <3>2 DEF Single
    <3>4. Serving(s, h)' = {}
      <4> SUFFICES ASSUME NEW j \in Processors, work'[<<s, j>>] # NoWork, work'[<<s, j>>].request.callback = h
                   PROVE  FALSE
        BY DEF Serving
      <4>1. j # k
        BY <1>8, <2>6
      <4>2. Kept(<<s, j>>)
        BY <4>1, <1>9
      <4>3. j \in Serving(s, h)
        BY <4>2 DEF Serving, Kept
      <4> QED BY <4>1, <4>3, <3>3
    <3>5. Single(Answered(s, h)')
      BY <3>2, <2>4, <2>6, <1>7
    <3> QED BY <2>1, <2>3, <3>2, <3>4, <3>5 DEF Parked, OnePlace
  <2> QED BY <2>2, <2>5, <2>6
<1>11. AllParked'
  BY <1>10 DEF AllParked
<1> QED BY <1>11 DEF ParkInv, CallbacksInProcess

\* A processor takes the next request over.
LEMMA StartWorkParks ==
  ASSUME ParkInv, NEW p \in Servers \X Processors, StartWork(p)
  PROVE  AllParked' /\ CallbacksInProcess'
<1> DEFINE z == p[1]
           k == p[2]
           r == Head(workChan[z])
           w == [pc |-> "watch", request |-> r, tries |-> 0, read |-> 0, dirty |-> FALSE]
<1>1. TypeOK /\ z \in Servers /\ k \in Processors /\ p = <<z, k>>
  BY DEF ParkInv
<1>2. /\ work[p] = NoWork /\ workChan[z] # <<>> /\ work' = [work EXCEPT ![p] = w]
      /\ workChan' = [workChan EXCEPT ![z] = Tail(@)]
      /\ UNCHANGED <<requestChan, responseChan, inProcess, callbacks, call>>
  BY DEF StartWork
<1>3. w # NoWork /\ w.request = r
  <2>1. w.pc = "watch" /\ w.request = r
    OBVIOUS
  <2> HIDE DEF w
  <2> QED BY <2>1 DEF NoWork
<1>4. workChan[z] \in Seq(Request) /\ Head(workChan[z]) = r
  BY <1>1 DEF TypeOK
<1> HIDE DEF w
<1>5. \A s \in Servers : workChan'[s] = IF s = z THEN Tail(workChan[z]) ELSE workChan[s]
  BY <1>1, <1>2 DEF TypeOK
<1>6. \A t \in Servers \X Processors : work'[t] = IF t = p THEN w ELSE work[t]
  BY <1>1, <1>2 DEF TypeOK
<1>7. \A s \in Servers, j \in Processors : s # z \/ j # k => Kept(<<s, j>>)
  BY <1>1, <1>6 DEF Kept
<1>8. work[<<z, k>>] = NoWork /\ work'[<<z, k>>] # NoWork /\ work'[<<z, k>>].request = r
  BY <1>1, <1>2, <1>3, <1>6
<1> HIDE DEF r, z, k
<1>9. ASSUME NEW s \in Servers, NEW h \in Handlers PROVE Parked(s, h)'
  <2>1. Parked(s, h) /\ (Waits(h, s)' <=> Waits(h, s))
    BY <1>2 DEF ParkInv, AllParked, Waits
  <2>2. CASE s # z
    BY <2>1, <2>2, <1>2, <1>5, <1>7, ParkedSame
  <2>3. Queued(s, h)' = Queued(s, h) /\ Answered(s, h)' = Answered(s, h) /\ CalledBack(s, h)' = CalledBack(s, h)
    BY <1>2 DEF Queued, Answered, CalledBack
  <2>4. CASE s = z /\ r.callback # h
    <3>1. Alike(Assigned(s, h), Assigned(s, h)')
      <4>1. Head(workChan[z]).callback # h
        BY <2>4, <1>4
      <4>2. Alike(Positions(workChan[z], h), Positions(Tail(workChan[z]), h))
        BY <4>1, <1>2, <1>4, TailPositions
      <4>3. workChan'[z] = Tail(workChan[z])
        BY <1>1, <1>5
      <4> QED BY <4>2, <4>3, <2>4 DEF Assigned
    <3>2. Serving(s, h)' = Serving(s, h)
      BY <2>4, <1>7, <1>8 DEF Serving, Kept
    <3>3. \A S : Alike(S, S)
      BY DEF Alike
    <3> QED BY <2>1, <2>3, <3>1, <3>2, <3>3, ParkedAlike
  <2>5. CASE s = z /\ r.callback = h
    <3>1. Assigned(s, h) # {} /\ (Single(Assigned(s, h)) => Assigned(s, h)' = {})
      <4>1. Head(workChan[z]).callback = h
        BY <2>5, <1>4
      <4>2. /\ Positions(workChan[z], h) # {}
            /\ Single(Positions(workChan[z], h)) => Positions(Tail(workChan[z]), h) = {}
        BY <4>1, <1>2, <1>4, TailPositions
      <4>3. workChan'[z] = Tail(workChan[z])
        BY <1>1, <1>5
      <4> QED BY <4>2, <4>3, <2>5 DEF Assigned
    <3>2. /\ Waits(h, s) /\ Assigned(s, h)' = {}
          /\ Queued(s, h) = {} /\ Serving(s, h) = {} /\ Answered(s, h) = {} /\ CalledBack(s, h) = {}
      BY <2>1, <3>1 DEF Parked, Nowhere, OnePlace
    <3>3. Serving(s, h)' = {k}
      <4>1. k \in Serving(s, h)'
        BY <2>5, <1>1, <1>8 DEF Serving
      <4>2. ASSUME NEW j \in Processors, j # k, work'[<<s, j>>] # NoWork, work'[<<s, j>>].request.callback = h
            PROVE  FALSE
        <5>1. Kept(<<s, j>>)
          BY <4>2, <1>7
        <5>2. j \in Serving(s, h)
          BY <5>1, <4>2 DEF Serving, Kept
        <5> QED BY <5>2, <3>2
      <4> QED BY <4>1, <4>2 DEF Serving
    <3> QED BY <2>1, <2>3, <3>2, <3>3 DEF Parked, OnePlace, Single
  <2> QED BY <2>2, <2>4, <2>5
<1>10. AllParked'
  BY <1>9 DEF AllParked
<1> QED BY <1>10, <1>2 DEF ParkInv, CallbacksInProcess

\* A response wakes everybody whose callback it finds, and nobody else.
LEMMA DispatchResponseParks ==
  ASSUME ParkInv, NEW z \in Servers, DispatchResponse(z)
  PROVE  AllParked' /\ CallbacksInProcess'
<1> DEFINE r == Head(responseChan[z]).request
           q == Requests(responseChan[z])
           amount == r.amount
           back == r.callback
           wakes(h) == h = back \/ <<amount, h>> \in callbacks[z]
<1>1. /\ TypeOK /\ responseChan[z] # <<>> /\ responseChan' = [responseChan EXCEPT ![z] = Tail(@)]
      /\ callbacks' = [callbacks EXCEPT ![z] = {c \in @ : c[1] # amount}]
      /\ inProcess' = [inProcess EXCEPT ![z] = @ \ {amount}]
      /\ UNCHANGED <<work, requestChan, workChan>>
  BY DEF ParkInv, DispatchResponse, storageVars
<1>2. call' = [h \in Handlers |-> IF h \in Woken(z, r) THEN [call[h] EXCEPT !.pc = "check"] ELSE call[h]]
  BY DEF DispatchResponse
<1>3. \A h \in Handlers : call'[h] = IF wakes(h) THEN [call[h] EXCEPT !.pc = "check"] ELSE call[h]
  BY <1>2 DEF Woken
<1>4. responseChan[z] \in Seq(Response) /\ callbacks[z] \subseteq Amounts \X Handlers
  BY <1>1 DEF TypeOK
<1>5. q \in Seq(Request) /\ q # <<>> /\ Head(q) = r /\ Requests(Tail(responseChan[z])) = Tail(q)
  BY <1>1, <1>4, RequestsOf
<1>6. /\ \A s \in Servers : responseChan'[s] = IF s = z THEN Tail(responseChan[z]) ELSE responseChan[s]
      /\ \A s \in Servers : callbacks'[s] = IF s = z THEN {c \in callbacks[z] : c[1] # amount} ELSE callbacks[s]
      /\ \A s \in Servers : inProcess'[s] = IF s = z THEN inProcess[z] \ {amount} ELSE inProcess[s]
  <2> HIDE DEF amount
  <2>1. /\ responseChan \in [Servers -> Seq(Response)] /\ callbacks \in [Servers -> SUBSET (Amounts \X Handlers)]
        /\ inProcess \in [Servers -> SUBSET Amounts]
    BY <1>1 DEF TypeOK
  <2>2. \A s \in Servers : responseChan'[s] = IF s = z THEN Tail(responseChan[z]) ELSE responseChan[s]
    BY <1>1, <2>1
  <2>3. \A s \in Servers : callbacks'[s] = IF s = z THEN {c \in callbacks[z] : c[1] # amount} ELSE callbacks[s]
    BY <1>1, <2>1
  <2>4. \A s \in Servers : inProcess'[s] = IF s = z THEN inProcess[z] \ {amount} ELSE inProcess[s]
    BY <1>1, <2>1
  <2> QED BY <2>2, <2>3, <2>4
<1>7. \A p \in Servers \X Processors : Kept(p)
  BY <1>1 DEF Kept
<1> HIDE DEF q
<1>8. ASSUME NEW h
      PROVE  /\ back # h => Alike(Positions(q, h), Positions(Tail(q), h))
             /\ back = h => /\ Positions(q, h) # {}
                            /\ Single(Positions(q, h)) => Positions(Tail(q), h) = {}
  BY <1>5, TailPositions
<1> HIDE DEF r, amount, back
<1>9. ASSUME NEW h \in Handlers
      PROVE  /\ Answered(z, h) = Positions(q, h)
             /\ Answered(z, h)' = Positions(Tail(q), h)
             /\ CalledBack(z, h)' = {c \in CalledBack(z, h) : c[1] # amount}
  BY <1>5, <1>6 DEF Answered, CalledBack, q
<1>10. ASSUME NEW h \in Handlers, wakes(h)
       PROVE  /\ Waits(h, z) /\ Answered(z, h)' = {} /\ CalledBack(z, h)' = {}
              /\ Queued(z, h) = {} /\ Assigned(z, h) = {} /\ Serving(z, h) = {}
  <2>1. Parked(z, h)
    BY DEF ParkInv, AllParked
  <2>2. CASE back = h
    <3>1. Answered(z, h) # {}
      BY <1>8, <1>9, <2>2
    <3>2. /\ Waits(h, z) /\ Single(Answered(z, h)) /\ CalledBack(z, h) = {}
          /\ Queued(z, h) = {} /\ Assigned(z, h) = {} /\ Serving(z, h) = {}
      BY <2>1, <3>1 DEF Parked, Nowhere, OnePlace
    <3>3. Answered(z, h)' = {} /\ CalledBack(z, h)' = {}
      BY <3>2, <1>8, <1>9, <2>2
    <3> QED BY <3>2, <3>3
  <2>3. CASE back # h
    <3>1. <<amount, h>> \in CalledBack(z, h)
      BY <1>10, <2>3 DEF CalledBack
    <3>2. /\ Waits(h, z) /\ Single(CalledBack(z, h)) /\ Answered(z, h) = {}
          /\ Queued(z, h) = {} /\ Assigned(z, h) = {} /\ Serving(z, h) = {}
      BY <2>1, <3>1 DEF Parked, Nowhere, OnePlace
    <3>3. CalledBack(z, h) = {<<amount, h>>}
      BY <3>1, <3>2 DEF Single
    <3>4. CalledBack(z, h)' = {}
      BY <3>3, <1>9
    <3>5. Answered(z, h)' = {}
      BY <3>2, <1>8, <1>9, <2>3 DEF Alike
    <3> QED BY <3>2, <3>4, <3>5
  <2> QED BY <2>2, <2>3
<1>11. ASSUME NEW h \in Handlers, wakes(h) PROVE \A s \in Servers : ~Waits(h, s)' /\ (Waits(h, s) => s = z)
  <2>1. call[h].pc = "wait" /\ call[h].server = z
    BY <1>10, <1>11 DEF Waits
  <2>2. call[h] \in CallState
    BY <1>1, <2>1, CallingType DEF NoCall
  <2>3. call'[h].pc = "check"
    BY <1>3, <1>11, <2>2 DEF CallState
  <2> QED BY <2>1, <2>3 DEF Waits
<1>12. ASSUME NEW s \in Servers, NEW h \in Handlers PROVE Parked(s, h)'
  <2>1. Parked(s, h) /\ \A j \in Processors : Kept(<<s, j>>)
    BY <1>7 DEF ParkInv, AllParked
  <2>2. ~wakes(h) => (Waits(h, s)' <=> Waits(h, s))
    BY <1>3 DEF Waits
  <2>3. CASE s # z
    <3>1. Waits(h, s)' <=> Waits(h, s)
      BY <2>2, <2>3, <1>11
    <3> QED BY <2>1, <2>3, <3>1, <1>1, <1>6, ParkedSame
  <2>4. Queued(s, h)' = Queued(s, h) /\ Assigned(s, h)' = Assigned(s, h) /\ Serving(s, h)' = Serving(s, h)
    BY <1>1 DEF Queued, Assigned, Serving
  <2>5. CASE s = z /\ wakes(h)
    <3>1. ~Waits(h, s)'
      BY <2>5, <1>11
    <3> QED BY <3>1, <2>4, <2>5, <1>10 DEF Parked, Nowhere
  <2>6. CASE s = z /\ ~wakes(h)
    <3>1. Alike(Answered(s, h), Answered(s, h)')
      BY <2>6, <1>8, <1>9
    <3>2. \A c \in CalledBack(s, h) : c[1] # amount
      <4> SUFFICES ASSUME NEW c \in CalledBack(s, h), c[1] = amount PROVE FALSE
        OBVIOUS
      <4>1. c \in callbacks[z] /\ c[2] = h /\ c = <<c[1], c[2]>>
        BY <1>4, <2>6 DEF CalledBack
      <4>2. <<amount, h>> \in callbacks[z]
        BY <4>1
      <4> QED BY <4>2, <2>6
    <3>3. CalledBack(s, h)' = CalledBack(s, h)
      BY <3>2, <2>6, <1>9
    <3>4. \A S : Alike(S, S)
      BY DEF Alike
    <3> QED BY <2>1, <2>2, <2>4, <2>6, <3>1, <3>3, <3>4, ParkedAlike
  <2> QED BY <2>3, <2>5, <2>6
<1>13. AllParked'
  BY <1>12 DEF AllParked
<1>14. CallbacksInProcess'
  <2> SUFFICES ASSUME NEW s \in Servers, NEW c \in callbacks'[s] PROVE c[1] \in inProcess'[s]
    BY DEF CallbacksInProcess
  <2>1. c \in callbacks[s] /\ (s = z => c[1] # amount)
    BY <1>6
  <2>2. c[1] \in inProcess[s]
    BY <2>1 DEF ParkInv, CallbacksInProcess
  <2> QED BY <2>1, <2>2, <1>6
<1> QED BY <1>13, <1>14

\* A restart ends the calls of the instance and forgets their callbacks.
LEMMA CrashParks ==
  ASSUME ParkInv, NEW z \in Servers, Crash(z)
  PROVE  AllParked' /\ CallbacksInProcess'
<1>1. /\ TypeOK /\ requestChan' = [requestChan EXCEPT ![z] = <<>>] /\ workChan' = [workChan EXCEPT ![z] = <<>>]
      /\ responseChan' = [responseChan EXCEPT ![z] = <<>>] /\ inProcess' = [inProcess EXCEPT ![z] = {}]
      /\ callbacks' = [callbacks EXCEPT ![z] = {}]
      /\ call' = [h \in Handlers |-> IF call[h] # NoCall /\ call[h].server = z THEN NoCall ELSE call[h]]
      /\ work' = [p \in Servers \X Processors |-> IF p[1] = z THEN NoWork ELSE work[p]]
  BY DEF ParkInv, Crash
<1>2. /\ \A s \in Servers : requestChan'[s] = IF s = z THEN <<>> ELSE requestChan[s]
      /\ \A s \in Servers : workChan'[s] = IF s = z THEN <<>> ELSE workChan[s]
      /\ \A s \in Servers : responseChan'[s] = IF s = z THEN <<>> ELSE responseChan[s]
  BY <1>1 DEF TypeOK
<1>3. /\ \A s \in Servers : inProcess'[s] = IF s = z THEN {} ELSE inProcess[s]
      /\ \A s \in Servers : callbacks'[s] = IF s = z THEN {} ELSE callbacks[s]
  BY <1>1 DEF TypeOK
<1>4. \A s \in Servers, j \in Processors : work'[<<s, j>>] = IF s = z THEN NoWork ELSE work[<<s, j>>]
  BY <1>1
<1>5. \A h \in Handlers, s \in Servers : Waits(h, s)' <=> (Waits(h, s) /\ s # z)
  <2> SUFFICES ASSUME NEW h \in Handlers, NEW s \in Servers PROVE Waits(h, s)' <=> (Waits(h, s) /\ s # z)
    OBVIOUS
  <2>1. NoCall.pc = "idle" /\ call'[h] = IF call[h] # NoCall /\ call[h].server = z THEN NoCall ELSE call[h]
    BY <1>1 DEF NoCall
  <2> QED BY <2>1 DEF Waits
<1>6. ASSUME NEW s \in Servers, NEW h \in Handlers PROVE Parked(s, h)'
  <2>1. Parked(s, h) /\ (Waits(h, s)' <=> Waits(h, s) /\ s # z)
    BY <1>5 DEF ParkInv, AllParked
  <2>2. CASE s # z
    <3>1. \A j \in Processors : Kept(<<s, j>>)
      BY <1>4, <2>2 DEF Kept
    <3> QED BY <2>1, <2>2, <3>1, <1>2, <1>3, ParkedSame
  <2>3. CASE s = z
    <3>1. Queued(s, h)' = {} /\ Assigned(s, h)' = {} /\ Answered(s, h)' = {}
      <4>1. DOMAIN requestChan'[s] = {} /\ DOMAIN workChan'[s] = {} /\ DOMAIN responseChan'[s] = {}
        BY <1>2, <2>3
      <4> QED BY <4>1 DEF Queued, Assigned, Answered, Positions, Requests
    <3>2. Serving(s, h)' = {}
      BY <1>4, <2>3 DEF Serving
    <3>3. CalledBack(s, h)' = {}
      BY <1>3, <2>3 DEF CalledBack
    <3> QED BY <2>1, <2>3, <3>1, <3>2, <3>3 DEF Parked, Nowhere
  <2> QED BY <2>2, <2>3
<1>7. AllParked'
  BY <1>6 DEF AllParked
<1> QED BY <1>7, <1>3 DEF ParkInv, CallbacksInProcess

\* Everybody starts idle, with empty channels.
LEMMA InitParked == Init => AllParked /\ CallbacksInProcess
<1> SUFFICES ASSUME Init PROVE AllParked /\ CallbacksInProcess
  OBVIOUS
<1>1. \A s \in Servers : /\ requestChan[s] = <<>> /\ workChan[s] = <<>> /\ responseChan[s] = <<>>
                         /\ callbacks[s] = {} /\ \A j \in Processors : work[<<s, j>>] = NoWork
  BY DEF Init
<1>2. ASSUME NEW s \in Servers, NEW h \in Handlers PROVE Parked(s, h)
  <2>1. ~Waits(h, s)
    <3>1. call[h] = NoCall
      BY DEF Init
    <3> QED BY <3>1 DEF Waits, NoCall
  <2>2. Queued(s, h) = {} /\ Assigned(s, h) = {} /\ Answered(s, h) = {}
    <3>1. DOMAIN requestChan[s] = {} /\ DOMAIN workChan[s] = {} /\ DOMAIN responseChan[s] = {}
      BY <1>1
    <3> QED BY <3>1 DEF Queued, Assigned, Answered, Positions, Requests
  <2>3. Serving(s, h) = {} /\ CalledBack(s, h) = {}
    BY <1>1 DEF Serving, CalledBack
  <2> QED BY <2>1, <2>2, <2>3 DEF Parked, Nowhere
<1> QED BY <1>1, <1>2 DEF AllParked, CallbacksInProcess

\* A transaction that goes on keeps its request.
LEMMA RetryKeepsWork ==
  ASSUME TypeOK, NEW p \in Servers \X Processors, work[p] \in WorkState, NEW w \in WorkState,
         w.request = work[p].request, work' = [work EXCEPT ![p] = w]
  PROVE  \A q \in Servers \X Processors : Kept(q)
<1>1. \A q \in Servers \X Processors : work'[q] = IF q = p THEN w ELSE work[q]
  BY DEF TypeOK
<1>2. w # NoWork /\ work[p] # NoWork
  BY DEF WorkState, NoWork
<1> QED BY <1>1, <1>2 DEF Kept

\* A transaction that ends leaves the work of the others.
LEMMA EndKeepsWork ==
  ASSUME TypeOK, NEW p \in Servers \X Processors,
         work' = [work EXCEPT ![p] = NoWork] \/ work' = [Touch(work) EXCEPT ![p] = NoWork]
  PROVE  work'[p] = NoWork /\ \A q \in Servers \X Processors : q # p => Kept(q)
<1>1. work \in [Servers \X Processors -> WorkState \cup {NoWork}]
  BY DEF TypeOK
<1>2. Touch(work) \in [Servers \X Processors -> WorkState \cup {NoWork}]
  BY <1>1, TouchType
<1>3. CASE work' = [work EXCEPT ![p] = NoWork]
  BY <1>1, <1>3 DEF Kept
<1>4. CASE work' = [Touch(work) EXCEPT ![p] = NoWork]
  <2>1. work'[p] = NoWork /\ \A q \in Servers \X Processors : q # p => work'[q] = Touch(work)[q]
    BY <1>2, <1>4
  <2> QED BY <2>1, TouchKeepsWork DEF Kept
<1> QED BY <1>3, <1>4

\* Every step keeps the callback of each waiting handler in exactly one place.
LEMMA NextParked == ParkInv /\ [Next]_vars => AllParked' /\ CallbacksInProcess'
<1> SUFFICES ASSUME ParkInv, [Next]_vars PROVE AllParked' /\ CallbacksInProcess'
  OBVIOUS
<1>1. TypeOK
  BY DEF ParkInv
<1>2. [start |-> 0, end |-> 0] \in GuidDiapason
  BY DEF GuidDiapason
<1>3. ASSUME UNCHANGED <<work, call>>
      PROVE  /\ \A p \in Servers \X Processors : Kept(p)
             /\ \A h \in Handlers, s \in Servers : Waits(h, s)' <=> Waits(h, s)
  BY <1>3 DEF Kept, Waits
<1>4. ASSUME NEW s \in Servers, BootReadRedis(s) \/ BootReadMysql(s) PROVE AllParked' /\ CallbacksInProcess'
  BY <1>3, <1>4, NobodyMoves DEF BootReadRedis, BootReadMysql
<1>5. ASSUME NEW s \in Servers, BootSetRedis(s) PROVE AllParked' /\ CallbacksInProcess'
  <2>1. \A p \in Servers \X Processors : Kept(p)
    BY <1>1, <1>5, TouchKeepsWork DEF BootSetRedis, Kept
  <2>2. \A h \in Handlers, t \in Servers : Waits(h, t)' <=> Waits(h, t)
    BY <1>5 DEF BootSetRedis, Waits
  <2> QED BY <1>5, <2>1, <2>2, NobodyMoves DEF BootSetRedis
<1>6. ASSUME NEW k \in Handlers, NEW c, call[k].pc # "wait", c.pc # "wait", call' = [call EXCEPT ![k] = c],
             UNCHANGED <<requestChan, workChan, responseChan, callbacks, inProcess, work>>
      PROVE  AllParked' /\ CallbacksInProcess'
  <2>1. \A h \in Handlers, s \in Servers : Waits(h, s)' <=> Waits(h, s)
    BY <1>1, <1>6, WaitsSame
  <2>2. \A p \in Servers \X Processors : Kept(p)
    BY <1>6 DEF Kept
  <2> QED BY <1>6, <2>1, <2>2, NobodyMoves
<1>7. NoCall.pc # "wait"
  BY DEF NoCall
<1>8. ASSUME NEW h \in Handlers, NEW s \in Servers, NEW n \in Sizes, GetGuids(h, s, n)
      PROVE  AllParked' /\ CallbacksInProcess'
  <2> DEFINE c == [pc |-> "check", server |-> s, size |-> n]
  <2>1. c.pc # "wait" /\ call[h].pc # "wait" /\ call' = [call EXCEPT ![h] = c]
    BY <1>7, <1>8 DEF GetGuids
  <2>2. UNCHANGED <<requestChan, workChan, responseChan, callbacks, inProcess, work>>
    BY <1>8 DEF GetGuids, storageVars, instanceVars
  <2> HIDE DEF c
  <2> QED BY <2>1, <2>2, <1>6
<1>9. ASSUME NEW h \in Handlers, CheckUsage(h) PROVE AllParked' /\ CallbacksInProcess'
  <2> DEFINE ds == cache[call[h].server]
             pc == IF PctUsageAtLeast(ds, 99) THEN "requestAndWait" ELSE IF PctUsageAtLeast(ds, 70) THEN "request" ELSE "use"
             c == [call[h] EXCEPT !.pc = pc]
  <2>1. call[h].pc = "check" /\ call' = [call EXCEPT ![h] = c]
    BY <1>9 DEF CheckUsage
  <2>2. call[h] \in CallState
    BY <1>1, <2>1, CallingType DEF NoCall
  <2>3. pc # "wait"
    OBVIOUS
  <2>4. c.pc = pc
    <3> HIDE DEF pc
    <3> QED BY <2>2 DEF CallState
  <2>5. UNCHANGED <<requestChan, workChan, responseChan, callbacks, inProcess, work>>
    BY <1>9 DEF CheckUsage, storageVars, instanceVars
  <2> HIDE DEF c, pc
  <2>6. c.pc # "wait" /\ call[h].pc # "wait"
    BY <2>1, <2>3, <2>4
  <2> QED BY <2>1, <2>5, <2>6, <1>6
<1>10. ASSUME NEW h \in Handlers, TakeGuids(h) PROVE AllParked' /\ CallbacksInProcess'
  <2>1. call[h].pc = "use" /\ UNCHANGED <<requestChan, workChan, responseChan, callbacks, inProcess, work>>
    BY <1>10 DEF TakeGuids, storageVars
  <2>2. PICK c : call' = [call EXCEPT ![h] = c] /\ (c = NoCall \/ c = [call[h] EXCEPT !.pc = "check"])
    BY <1>10 DEF TakeGuids
  <2>3. call[h] \in CallState
    BY <1>1, <2>1, CallingType DEF NoCall
  <2>4. c.pc # "wait"
    BY <2>2, <2>3, <1>7 DEF CallState
  <2> QED BY <2>1, <2>2, <2>4, <1>6
<1>11. ASSUME NEW p \in Servers \X Processors, NEW w \in WorkState, work[p] \in WorkState,
              w.request = work[p].request, work' = [work EXCEPT ![p] = w],
              UNCHANGED <<requestChan, workChan, responseChan, callbacks, inProcess, call>>
       PROVE  AllParked' /\ CallbacksInProcess'
  <2>1. \A q \in Servers \X Processors : Kept(q)
    BY <1>1, <1>11, RetryKeepsWork
  <2>2. \A h \in Handlers, s \in Servers : Waits(h, s)' <=> Waits(h, s)
    BY <1>11 DEF Waits
  <2> QED BY <1>11, <2>1, <2>2, NobodyMoves
<1>12. ASSUME NEW p \in Servers \X Processors, Watch(p) PROVE AllParked' /\ CallbacksInProcess'
  <2> DEFINE w == [work[p] EXCEPT !.pc = "exec", !.read = maxGuid, !.dirty = FALSE]
  <2>1. work[p] \in WorkState /\ maxGuid \in Nat
    BY <1>1, <1>12, WorkingType DEF Watch, TypeOK
  <2>2. w \in WorkState /\ w.request = work[p].request
    BY <2>1 DEF WorkState
  <2>3. work' = [work EXCEPT ![p] = w]
        /\ UNCHANGED <<requestChan, workChan, responseChan, callbacks, inProcess, call>>
    BY <1>12 DEF Watch, instanceVars
  <2> HIDE DEF w
  <2> QED BY <2>1, <2>2, <2>3, <1>11
<1>13. ASSUME NEW p \in Servers \X Processors, NEW d \in GuidDiapason, work[p] \in WorkState, Respond(p, d),
              work' = [work EXCEPT ![p] = NoWork] \/ work' = [Touch(work) EXCEPT ![p] = NoWork],
              UNCHANGED <<requestChan, workChan, callbacks, inProcess, call>>
       PROVE  AllParked' /\ CallbacksInProcess'
  <2>1. work[p] # NoWork
    BY <1>13 DEF WorkState, NoWork
  <2>2. work'[p] = NoWork /\ \A q \in Servers \X Processors : q # p => Kept(q)
    BY <1>1, <1>13, EndKeepsWork
  <2> QED BY <1>13, <2>1, <2>2, RespondParks
<1>14. ASSUME NEW p \in Servers \X Processors, ExecCommit(p) PROVE AllParked' /\ CallbacksInProcess'
  <2>1. work[p] \in WorkState /\ work[p].request.amount \in Nat \ {0} /\ work[p].read \in Nat
    BY <1>1, <1>14, WorkingType DEF ExecCommit, WorkState
  <2> DEFINE a == work[p].read
             b == work[p].request.amount
             d == [start |-> (a + b) - b + 1, end |-> a + b]
  <2>2. a + b \in Nat /\ (a + b) - b + 1 \in Nat
    <3>1. a \in Nat /\ b \in Nat
      BY <2>1
    <3> HIDE DEF a, b
    <3> QED BY <3>1, AdvanceType
  <2>3. d \in GuidDiapason
    <3> HIDE DEF a, b
    <3> QED BY <2>2 DEF GuidDiapason
  <2>4. Respond(p, d) /\ work' = [Touch(work) EXCEPT ![p] = NoWork]
        /\ UNCHANGED <<requestChan, workChan, callbacks, inProcess, call>>
    BY <1>14 DEF ExecCommit
  <2> HIDE DEF d
  <2> QED BY <2>1, <2>3, <2>4, <1>13
<1>15. ASSUME NEW p \in Servers \X Processors, ExecAbort(p) PROVE AllParked' /\ CallbacksInProcess'
  <2>1. work[p] \in WorkState
    BY <1>1, <1>15, WorkingType DEF ExecAbort
  <2>2. UNCHANGED <<requestChan, workChan, callbacks, inProcess, call>>
    BY <1>15 DEF ExecAbort
  <2>3. CASE work[p].tries + 1 < Retries
    <3> DEFINE w == [work[p] EXCEPT !.pc = "watch", !.tries = @ + 1]
    <3>1. work[p].tries + 1 \in 0..(Retries - 1)
      BY <2>1, <2>3, RetriesAssumption DEF WorkState
    <3>2. w \in WorkState /\ w.request = work[p].request
      BY <2>1, <3>1 DEF WorkState
    <3>3. work' = [work EXCEPT ![p] = w] /\ UNCHANGED responseChan
      BY <1>15, <2>3 DEF ExecAbort
    <3> HIDE DEF w
    <3> QED BY <2>1, <2>2, <3>2, <3>3, <1>11
  <2>4. CASE ~(work[p].tries + 1 < Retries)
    <3>1. work' = [work EXCEPT ![p] = NoWork] /\ Respond(p, [start |-> 0, end |-> 0])
      BY <1>15, <2>4 DEF ExecAbort
    <3> QED BY <2>1, <2>2, <3>1, <1>2, <1>13
  <2> QED BY <2>3, <2>4
<1>16. ASSUME NEW p \in Servers \X Processors, RedisError(p) PROVE AllParked' /\ CallbacksInProcess'
  <2>1. work[p] \in WorkState
    BY <1>1, <1>16, WorkingType DEF RedisError
  <2>2. /\ UNCHANGED <<requestChan, workChan, callbacks, inProcess, call>>
        /\ work' = [work EXCEPT ![p] = NoWork] \/ work' = [Touch(work) EXCEPT ![p] = NoWork]
        /\ Respond(p, [start |-> 0, end |-> 0])
    BY <1>16 DEF RedisError
  <2> QED BY <2>1, <2>2, <1>2, <1>13
<1>17. CASE UNCHANGED vars
  <2>1. UNCHANGED <<requestChan, workChan, responseChan, callbacks, inProcess, work, call>>
    BY <1>17 DEF vars
  <2> QED BY <2>1, <1>3, NobodyMoves
<1> QED
  BY <1>4, <1>5, <1>8, <1>9, <1>10, <1>12, <1>14, <1>15, <1>16, <1>17, SendRequestParks,
     DispatchRequestParks, DispatchResponseParks, StartWorkParks, CrashParks
     DEF Next, HandlerStep, BootStep, DispatcherStep, ProcessorStep

\* One place among the five is one element of the tagged union.
LEMMA OnePlaceCount ==
  ASSUME NEW a, NEW b, NEW c, NEW d, NEW e, OnePlace(a, b, c, d, e)
  PROVE  Cardinality({<<"queue", i>> : i \in a} \cup {<<"work", i>> : i \in b} \cup {<<"processor", i>> : i \in c}
                     \cup {<<"response", i>> : i \in d} \cup {<<"callback", i>> : i \in e}) = 1
<1> DEFINE U == {<<"queue", i>> : i \in a} \cup {<<"work", i>> : i \in b} \cup {<<"processor", i>> : i \in c}
                \cup {<<"response", i>> : i \in d} \cup {<<"callback", i>> : i \in e}
<1>1. ASSUME NEW x, a = {x}, b = {}, c = {}, d = {}, e = {} PROVE U = {<<"queue", x>>}
  BY <1>1
<1>2. ASSUME NEW x, a = {}, b = {x}, c = {}, d = {}, e = {} PROVE U = {<<"work", x>>}
  BY <1>2
<1>3. ASSUME NEW x, a = {}, b = {}, c = {x}, d = {}, e = {} PROVE U = {<<"processor", x>>}
  BY <1>3
<1>4. ASSUME NEW x, a = {}, b = {}, c = {}, d = {x}, e = {} PROVE U = {<<"response", x>>}
  BY <1>4
<1>5. ASSUME NEW x, a = {}, b = {}, c = {}, d = {}, e = {x} PROVE U = {<<"callback", x>>}
  BY <1>5
<1> HIDE DEF U
<1>6. \E y : U = {y}
  BY <1>1, <1>2, <1>3, <1>4, <1>5 DEF OnePlace, Single
<1>7. PICK y : U = {y}
  BY <1>6
<1>8. Cardinality(U) = 1
  BY <1>7, FS_Singleton
<1> QED BY <1>8 DEF U

\* For any number of instances, handlers and processors, and however many calls, failures and
\* restarts there are: a handler that blocks on its callback channel is known to exactly one
\* party of its instance that will wake it.
THEOREM WaitersAreWoken == Spec => []WaitersAreKnown
<1> DEFINE Inv == TypeOK /\ AllParked /\ CallbacksInProcess
<1>1. Init => Inv
  BY InitTypeOK, InitParked
<1>2. Inv /\ [Next]_vars => Inv'
  BY NextTypeOK, NextParked DEF ParkInv
<1>3. Inv => WaitersAreKnown
  <2> SUFFICES ASSUME Inv, NEW h \in Handlers, call[h] # NoCall, call[h].pc = "wait"
               PROVE  LET s == call[h].server
                      IN  Cardinality(
                {<<"queue", i>> : i \in {i \in DOMAIN requestChan[s] : requestChan[s][i].callback = h}}
           \cup {<<"work", i>> : i \in {i \in DOMAIN workChan[s] : workChan[s][i].callback = h}}
           \cup {<<"processor", p>> : p \in {p \in Processors : /\ work[<<s, p>>] # NoWork
                                                               /\ work[<<s, p>>].request.callback = h}}
           \cup {<<"response", i>> : i \in {i \in DOMAIN responseChan[s] :
                                                responseChan[s][i].request.callback = h}}
           \cup {<<"callback", c>> : c \in {c \in callbacks[s] : c[2] = h /\ c[1] \in inProcess[s]}}) = 1
    BY DEF WaitersAreKnown
  <2> DEFINE s == call[h].server
  <2>1. s \in Servers /\ Waits(h, s)
    BY CallingType DEF CallState, Waits
  <2> HIDE DEF s
  <2>2. OnePlace(Queued(s, h), Assigned(s, h), Serving(s, h), Answered(s, h), CalledBack(s, h))
    BY <2>1 DEF AllParked, Parked
  <2>3. /\ {i \in DOMAIN requestChan[s] : requestChan[s][i].callback = h} = Queued(s, h)
        /\ {i \in DOMAIN workChan[s] : workChan[s][i].callback = h} = Assigned(s, h)
        /\ {p \in Processors : work[<<s, p>>] # NoWork /\ work[<<s, p>>].request.callback = h} = Serving(s, h)
    BY DEF Queued, Assigned, Serving, Positions
  <2>4. {i \in DOMAIN responseChan[s] : responseChan[s][i].request.callback = h} = Answered(s, h)
    BY DEF Answered, Positions, Requests
  <2>5. {c \in callbacks[s] : c[2] = h /\ c[1] \in inProcess[s]} = CalledBack(s, h)
    BY <2>1 DEF CalledBack, CallbacksInProcess
  <2>6. Cardinality({<<"queue", i>> : i \in Queued(s, h)} \cup {<<"work", i>> : i \in Assigned(s, h)}
                    \cup {<<"processor", i>> : i \in Serving(s, h)} \cup {<<"response", i>> : i \in Answered(s, h)}
                    \cup {<<"callback", i>> : i \in CalledBack(s, h)}) = 1
    BY <2>2, OnePlaceCount
  <2> QED BY <2>3, <2>4, <2>5, <2>6 DEF s
<1> QED BY <1>1, <1>2, <1>3, PTL DEF Spec
=============================================================================
