----------------------- MODULE ServersRegistryProofs -----------------------
(***************************************************************************)
(* Proofs about ServersRegistry, for any servers, maps, weights, layers,   *)
(* handlers and bounds:                                                    *)
(*   TypeCorrect         calls are at their own places and know what they  *)
(*                       use there;                                        *)
(*   GroupsStayTogether  GroupTogether;                                    *)
(*   ListedAreWatched    ListedAreChecked;                                 *)
(*   WorldsFollow        WorldFollows, when every server gets maps;        *)
(*   MapsHaveHosts       MapsAreHosted.                                    *)
(*                                                                         *)
(* For the first four a plan is any function from the listed servers to    *)
(* sets of maps.  MapsHaveHosts follows the packing and the layers pass by *)
(* pass.                                                                   *)
(***************************************************************************)
EXTENDS ServersRegistry, FiniteSetTheorems, SequenceTheorems, WellFoundedInduction, TLAPS

-----------------------------------------------------------------------------
(* Types *)

ServerRecord == [present : BOOLEAN, assigned : SUBSET Maps, pending : SUBSET Maps]
Snapshots == UNION {[S -> ServerRecord] : S \in SUBSET Servers}
Plans == UNION {[S -> SUBSET Maps] : S \in SUBSET Servers}
Somebody == Servers \cup {NoServer}
Statuses == {"down", "starting", "running"}
Reassignment == [new : SUBSET Maps, removed : SUBSET Maps]

Ops == {"none", "Register", "MapsLoaded", "Unhealthy", "Update", "Select", "BindGroup"}
Places == {"idle", "one", "set", "index", "remove", "delete", "members", "values", "config", "update",
           "lock", "binding", "bind", "answered", "setBinding"}
ThreadRecord == [op : Ops, pc : Places, server : Somebody, maps : SUBSET Maps, bound : Somebody,
                 ids : SUBSET Servers, snap : Snapshots, plan : Plans, todo : SUBSET Servers]

\* Where each call can be, and what it knows there.
WellFormed(t, r) ==
    /\ r.op = "none" => r.pc = "idle"
    /\ r.op = "Register" => r.pc \in {"set", "index", "members", "values", "config", "update"} /\ r.server \in Servers
    /\ r.op = "MapsLoaded" => r.pc \in {"one", "set", "index"} /\ r.server \in Servers
    /\ r.op = "Unhealthy" => r.pc \in {"remove", "delete", "members", "values", "config", "update"} /\ r.server \in Servers
    /\ r.op = "Update" => r.pc \in {"lock", "members", "values", "config", "update"}
    /\ r.op = "Select" => r.pc \in {"members", "values", "binding", "bind", "answered"}
    /\ r.op = "BindGroup" => r.pc \in {"members", "values", "setBinding"}
    /\ t = Checker => r.op \in {"none", "Unhealthy"}
    /\ t # Checker => r.op # "Unhealthy"
    /\ r.op = "MapsLoaded" /\ r.pc # "one" => DOMAIN r.snap = {r.server} /\ r.snap[r.server].present
    /\ r.pc = "update" => DOMAIN r.plan = DOMAIN r.snap /\ r.todo \subseteq DOMAIN r.plan

RedisOK ==
    /\ stored \in [Servers -> ServerRecord]
    /\ index \subseteq Servers
    /\ layerConfig \in Configs \cup {NoLayers}
    /\ realmLock \in Threads \cup {NoThread}
    /\ binding \in Somebody
    /\ checked \subseteq Servers
    /\ failedChecks \subseteq Servers

ThreadsOK ==
    /\ thread \in [Threads -> ThreadRecord]
    /\ \A t \in Threads : WellFormed(t, thread[t])

WorldOK ==
    /\ status \in [Servers -> Statuses]
    /\ loaded \in [Servers -> SUBSET Maps]
    /\ inbox \in [Servers -> Seq(Reassignment)]
    /\ reports \in [Servers -> SUBSET SUBSET Maps]
    /\ \A s \in Servers : status[s] # "running" => inbox[s] = <<>> /\ reports[s] = {}

RestOK ==
    /\ answers \subseteq Somebody
    /\ outdated \in BOOLEAN /\ disturbed \in BOOLEAN /\ escaped \subseteq Servers
    /\ starts \in Nat /\ calls \in Nat /\ faults \in Nat

TypeOK == RedisOK /\ ThreadsOK /\ WorldOK /\ RestOK

-----------------------------------------------------------------------------
(* Watched servers.  The parts below hold as long as the state is not      *)
(* disturbed.                                                              *)

\* One change of the servers runs at a time.
Alone == \A t, u \in Threads : Changing(t) /\ Changing(u) => t = u

\* The checker has forgotten s and is about to remove it.
Removing(s) == thread[Checker].op = "Unhealthy" /\ thread[Checker].pc \in {"remove", "delete"}
               /\ thread[Checker].server = s

Watched(s) == s \in checked \/ Removing(s)

\* A value without a place in the index: it is being added or removed.
HalfListed(s) ==
    \/ thread[Checker].op = "Unhealthy" /\ At(Checker, "delete") /\ thread[Checker].server = s
    \/ \E t \in Threads : thread[t].op \in {"Register", "MapsLoaded"} /\ At(t, "index") /\ thread[t].server = s

\* What t writes is watched: the server that registers is checked, and the one
\* that confirms maps is stored.
KeepsWatched(t) ==
    /\ thread[t].op = "Register" => thread[t].server \in checked
    /\ thread[t].op = "MapsLoaded" /\ thread[t].pc # "one" => stored[thread[t].server].present

\* Every stored server is watched, and listed but for the steps between the two
\* commands of Upsert and Remove: the restart of the registry relies on it.
WatchInv ==
    /\ Alone
    /\ \A s \in Servers : stored[s].present => Watched(s)
    /\ \A s \in Servers : stored[s].present => s \in index \/ HalfListed(s)
    /\ \A t \in Threads : KeepsWatched(t)

-----------------------------------------------------------------------------
(* Groups *)
\* The servers a lookup would find now.
Available == {s \in index : CanHandleMap(stored[s], GroupMap)}

\* What a lookup knows, if it is not outdated: the servers that are available,
\* and that the binding it wants to replace is not one of them.
LookupInv(t) ==
    thread[t].op = "Select" =>
      /\ At(t, "values") => thread[t].ids = index
      /\ thread[t].pc \in {"binding", "bind"} => AvailableIn(thread[t].snap, GroupMap) = Available
      /\ At(t, "bind") => thread[t].bound \notin Available /\ thread[t].server \in Available
      /\ At(t, "answered") => thread[t].server = binding /\ binding \in Available

\* Since the last change all members were sent to the server the group is bound to.
AnswersInv ==
    /\ outdated => answers = {}
    /\ ~outdated => /\ answers \subseteq {binding}
                    /\ answers # {} => binding \in Available
                    /\ \A t \in Handlers : LookupInv(t)

-----------------------------------------------------------------------------
(* Worldservers *)
\* No distribution leaves a server without maps.  The sidecar of a worldserver
\* ignores an event that says it had no maps (they come with the answer to its
\* registration), so one that runs without maps never loads those it gets later.
EveryServerGetsMaps ==
    \A S \in SUBSET Servers : \A c \in Configs \cup {NoLayers} :
        \A p \in PlansFor(S, c) : \A s \in S : p[s] # {}

Distributes(t) == thread[t].op \in {"Register", "Unhealthy", "Update"}
\* What Register stores.
Fresh == [present |-> TRUE, assigned |-> {}, pending |-> {}]

\* What a change read is still there: its snapshot is of the listed servers, the
\* stored records are those it read or those it has written, and a server that
\* registers does not run yet.
SnapshotInv(t) ==
    /\ Distributes(t) => 
         /\ At(t, "values") => thread[t].ids = index
         /\ At(t, "config") => DOMAIN thread[t].snap = Listed /\ \A s \in Listed : thread[t].snap[s] = stored[s]
         /\ At(t, "update") =>
              /\ DOMAIN thread[t].snap = Listed
              /\ \A s \in Listed : stored[s] = IF s \in thread[t].todo THEN thread[t].snap[s] ELSE Updated(t, s)
              /\ \A s \in Listed : thread[t].plan[s] # {}
    /\ thread[t].op = "MapsLoaded" /\ At(t, "set") => stored[thread[t].server] = thread[t].snap[thread[t].server]
    /\ thread[t].op = "Register" =>
         LET s == thread[t].server
         IN  /\ status[s] # "running"
             /\ thread[t].pc \in {"index", "members", "values", "config"} => stored[s] = Fresh
             /\ thread[t].pc \notin {"set", "index"} => s \in index
             /\ At(t, "update") => s \in Listed /\ thread[t].snap[s] = Fresh

\* t has written the assignment of s and not published it.
Unannounced(t, s) == Distributes(t) /\ At(t, "update") /\ s \in DOMAIN thread[t].plan \ thread[t].todo

\* t has a report of s to write.
Confirms(t, s) == thread[t].op = "MapsLoaded" /\ thread[t].server = s /\ thread[t].pc \in {"one", "set"}

\* The events q lead from the maps "from" to the maps "to".
Leads(q, from, to) ==
    \E h \in [1..Len(q) + 1 -> SUBSET Maps] :
       /\ h[1] = from
       /\ h[Len(q) + 1] = to
       /\ \A i \in 1..Len(q) : h[i+1] = (h[i] \ q[i].removed) \cup q[i].new

\* Map m is new in one of the events, in one of the reports, or soon will be.
GainedIn(q, m) == \E i \in 1..Len(q) : m \in q[i].new
ReportedIn(reported, m) == \E ms \in reported : m \in ms

Gains(t, s, m) ==
    \/ Confirms(t, s) /\ m \in thread[t].maps
    \/ Unannounced(t, s) /\ m \in thread[t].plan[s] \ thread[t].snap[s].assigned

\* The events that wait lead a running server to the assignment it was told or,
\* if none is being changed, to the stored one; every pending map waits in an
\* event, a report or a call.
Follows(s) ==
    /\ stored[s].assigned # {}
    /\ \A t \in Threads : Unannounced(t, s) =>
           thread[t].snap[s].assigned # {} /\ Leads(inbox[s], loaded[s], thread[t].snap[s].assigned)
    /\ (\A t \in Threads : ~Unannounced(t, s)) => Leads(inbox[s], loaded[s], stored[s].assigned)
    /\ \A m \in stored[s].pending :
           GainedIn(inbox[s], m) \/ ReportedIn(reports[s], m) \/ \E t \in Threads : Gains(t, s, m)

FollowInv ==
    /\ \A t \in Threads : SnapshotInv(t)
    /\ \A s \in Servers : stored[s].present /\ status[s] = "running" => Follows(s)

-----------------------------------------------------------------------------
(* Operators *)

\* A thread that has listed nothing has an empty snapshot and plan.
LEMMA EmptyTables == <<>> \in Snapshots /\ <<>> \in Plans /\ DOMAIN <<>> = {}
<1>1. \A S : <<>> \in [{} -> S]
  <2>1. \A S : <<>> \in Seq(S) /\ Len(<<>>) = 0
    OBVIOUS
  <2>2. \A S : <<>> \in [1..Len(<<>>) -> S]
    BY <2>1, LenProperties
  <2> QED BY <2>1, <2>2
<1> QED BY <1>1 DEF Snapshots, Plans

\* A thread between two calls is well formed.
LEMMA IdleOK == Idle \in ThreadRecord /\ \A t : WellFormed(t, Idle)
BY EmptyTables DEF Idle, ThreadRecord, Ops, Places, Somebody, WellFormed

\* Whatever the packing does, a plan gives each server of the realm a set of
\* maps.
LEMMA PlansAssign ==
    ASSUME NEW S, NEW c, NEW p \in PlansFor(S, c)
    PROVE  p \in [S -> SUBSET Maps]
BY DEF PlansFor, Distributions

\* One thread gets a well-formed record.
LEMMA ThreadMoves ==
    ASSUME ThreadsOK, NEW t \in Threads, NEW r \in ThreadRecord, WellFormed(t, r),
           thread' = [thread EXCEPT ![t] = r]
    PROVE  ThreadsOK'
BY DEF ThreadsOK, WellFormed

\* A call returns.
LEMMA Returns ==
    ASSUME ThreadsOK, NEW t \in Threads, Return(t)
    PROVE  ThreadsOK'
BY IdleOK, ThreadMoves DEF Return

\* The same call at another place.
LEMMA Goes ==
    ASSUME ThreadsOK, NEW t \in Threads, NEW pc \in Places, Goto(t, pc),
           WellFormed(t, [thread[t] EXCEPT !.pc = pc])
    PROVE  ThreadsOK'
<1> DEFINE r == [thread[t] EXCEPT !.pc = pc]
<1>1. r \in ThreadRecord
  BY DEF ThreadsOK, ThreadRecord
<1>2. thread' = [thread EXCEPT ![t] = r]
  BY DEF Goto, ThreadsOK
<1> QED BY <1>1, <1>2, ThreadMoves

\* Everything but the history of answers.
BoundsOK == disturbed \in BOOLEAN /\ starts \in Nat /\ calls \in Nat /\ faults \in Nat
CoreOK == RedisOK /\ ThreadsOK /\ WorldOK /\ BoundsOK

\* A call begins.
LEMMA Begins ==
    ASSUME CoreOK, NEW t \in Threads, NEW op \in Ops, NEW pc \in Places, NEW s \in Somebody, NEW ms \in SUBSET Maps,
           Begin(t, op, pc, s, ms),
           WellFormed(t, [Idle EXCEPT !.op = op, !.pc = pc, !.server = s, !.maps = ms])
    PROVE  ThreadsOK'
<1> DEFINE r == [Idle EXCEPT !.op = op, !.pc = pc, !.server = s, !.maps = ms]
<1>1. r \in ThreadRecord
  BY IdleOK DEF ThreadRecord
<1>2. thread' = [thread EXCEPT ![t] = r]
  BY DEF Begin
<1> QED BY <1>1, <1>2, ThreadMoves DEF CoreOK

\* A call that ends leaves a worldserver's process as it is, or down.
LEMMA GivesUp ==
    ASSUME WorldOK, NEW t \in Threads, GiveUp(t), UNCHANGED <<loaded, inbox, reports>>
    PROVE  WorldOK'
BY DEF WorldOK, GiveUp, Statuses

\* Unlocking leaves the lock with a thread, or free.
LEMMA Unlocks ==
    ASSUME RedisOK, NEW t \in Threads, Unlock(t)
    PROVE  realmLock' \in Threads \cup {NoThread}
BY DEF RedisOK, Unlock
-----------------------------------------------------------------------------
(* Types are kept *)

\* gRPC calls arrive.
LEMMA CallsBegin ==
    ASSUME CoreOK, NEW t \in Handlers,
           \/ \E s \in Servers : Register(t, s) \/ BindGroup(t, s)
           \/ \E s \in Servers : \E ms \in reports[s] : MapsLoaded(t, s, ms)
           \/ \E c \in Configs : UpdateConfiguration(t, c)
           \/ Select(t)
    PROVE  CoreOK'
<1>1. t \in Threads /\ t # Checker
  BY NobodyAssumption DEF Threads
<1> USE DEF CoreOK
<1>2. ASSUME NEW s \in Servers, Register(t, s) PROVE CoreOK'
  <2>1. Begin(t, "Register", "set", s, {})
    BY <1>2 DEF Register, BeginChange
  <2>2. ThreadsOK'
    BY <2>1, <1>1, Begins, EmptyTables DEF Ops, Places, Somebody, WellFormed, Idle
  <2>3. RedisOK'
    BY <1>2 DEF RedisOK, Register, redisVars
  <2>4. WorldOK'
    BY <1>2 DEF WorldOK, Register, Statuses
  <2>5. starts' \in Nat /\ UNCHANGED <<calls, faults>>
    BY <1>2 DEF BoundsOK, Register
  <2>6. disturbed' \in BOOLEAN
    BY <1>2 DEF Register, BeginChange
  <2> QED BY <2>2, <2>3, <2>4, <2>5, <2>6 DEF BoundsOK
<1>3. ASSUME NEW s \in Servers, BindGroup(t, s) PROVE CoreOK'
  <2>1. Begin(t, "BindGroup", "members", s, {})
    BY <1>3 DEF BindGroup
  <2>2. ThreadsOK'
    BY <2>1, <1>1, Begins, EmptyTables DEF Ops, Places, Somebody, WellFormed, Idle
  <2>3. RedisOK' /\ WorldOK'
    BY <1>3 DEF RedisOK, WorldOK, BindGroup, redisVars, worldVars
  <2>4. BoundsOK'
    BY <1>3 DEF BoundsOK, BindGroup
  <2> QED BY <2>2, <2>3, <2>4
<1>4. ASSUME NEW s \in Servers, NEW ms \in reports[s], MapsLoaded(t, s, ms) PROVE CoreOK'
  <2>1. ms \in SUBSET Maps
    BY DEF WorldOK
  <2>2. Begin(t, "MapsLoaded", "one", s, ms)
    BY <1>4 DEF MapsLoaded, BeginChange
  <2>3. ThreadsOK'
    BY <2>1, <2>2, <1>1, Begins, EmptyTables DEF Ops, Places, Somebody, WellFormed, Idle
  <2>4. RedisOK'
    BY <1>4 DEF RedisOK, MapsLoaded, redisVars
  <2>5. WorldOK'
    BY <1>4 DEF WorldOK, MapsLoaded
  <2>6. disturbed' \in BOOLEAN
    BY <1>4 DEF MapsLoaded, BeginChange
  <2>7. BoundsOK'
    BY <1>4, <2>6 DEF MapsLoaded, BoundsOK, boundVars
  <2> QED BY <2>3, <2>4, <2>5, <2>7
<1>5. ASSUME NEW c \in Configs, UpdateConfiguration(t, c) PROVE CoreOK'
  <2>1. Begin(t, "Update", "lock", NoServer, {})
    BY <1>5 DEF UpdateConfiguration, BeginChange
  <2>2. ThreadsOK'
    BY <2>1, <1>1, Begins, EmptyTables DEF Ops, Places, Somebody, WellFormed, Idle
  <2>3. RedisOK' /\ WorldOK'
    BY <1>5 DEF RedisOK, WorldOK, UpdateConfiguration, worldVars
  <2>4. calls' \in Nat /\ UNCHANGED <<starts, faults>>
    BY <1>5 DEF BoundsOK, UpdateConfiguration
  <2>5. disturbed' \in BOOLEAN
    BY <1>5 DEF UpdateConfiguration, BeginChange
  <2> QED BY <2>2, <2>3, <2>4, <2>5 DEF BoundsOK
<1>6. ASSUME Select(t) PROVE CoreOK'
  <2>1. Begin(t, "Select", "members", NoServer, {})
    BY <1>6 DEF Select
  <2>2. ThreadsOK'
    BY <2>1, <1>1, Begins, EmptyTables DEF Ops, Places, Somebody, WellFormed, Idle
  <2>3. RedisOK' /\ WorldOK'
    BY <1>6 DEF RedisOK, WorldOK, Select, redisVars, worldVars
  <2>4. BoundsOK'
    BY <1>6 DEF BoundsOK, Select
  <2> QED BY <2>2, <2>3, <2>4
<1> QED BY <1>2, <1>3, <1>4, <1>5, <1>6

\* What a step of the repository may leave alone.
LEMMA Leaves ==
    ASSUME CoreOK, ThreadsOK', UNCHANGED <<checked, failedChecks, worldVars, disturbed, boundVars>>,
           stored' \in [Servers -> ServerRecord], index' \subseteq Servers, UNCHANGED layerConfig,
           realmLock' \in Threads \cup {NoThread}, binding' \in Somebody
    PROVE  CoreOK'
BY DEF CoreOK, RedisOK, WorldOK, BoundsOK, worldVars, boundVars

\* The repository writes and removes servers.
LEMMA ServersAreWritten ==
    ASSUME CoreOK, NEW t \in Threads,
           MapsLoadedOne(t) \/ UpsertSet(t) \/ UpsertIndex(t) \/ RemoveIndex(t) \/ RemoveValue(t)
    PROVE  CoreOK'
<1>1. thread[t] \in ThreadRecord /\ WellFormed(t, thread[t])
  BY DEF CoreOK, ThreadsOK
<1>a. /\ stored \in [Servers -> ServerRecord] /\ index \subseteq Servers
      /\ realmLock \in Threads \cup {NoThread} /\ binding \in Somebody
      /\ thread \in [Threads -> ThreadRecord] /\ ThreadsOK
  BY DEF CoreOK, RedisOK, ThreadsOK
<1>2. ASSUME MapsLoadedOne(t) PROVE CoreOK'
  <2>1. thread[t].server \in Servers /\ thread[t].op = "MapsLoaded"
    BY <1>1, <1>2 DEF MapsLoadedOne, At, ThreadRecord, Ops, WellFormed
  <2>2. CASE stored[thread[t].server].present
    <3> DEFINE x == [y \in {thread[t].server} |-> stored[thread[t].server]]
               r == [thread[t] EXCEPT !.pc = "set", !.snap = x]
    <3>1. x \in Snapshots /\ DOMAIN x = {thread[t].server} /\ x[thread[t].server].present
      <4>1. stored[thread[t].server] \in ServerRecord /\ {thread[t].server} \in SUBSET Servers
        BY <2>1, <1>a
      <4>2. x \in [{thread[t].server} -> ServerRecord]
        BY <4>1
      <4> QED BY <4>1, <4>2, <2>2 DEF Snapshots
    <3>2. thread' = [thread EXCEPT ![t] = r]
      BY <1>2, <2>2, <1>a DEF MapsLoadedOne
    <3> HIDE DEF x
    <3>3. r \in ThreadRecord /\ r.op = thread[t].op /\ r.pc = "set" /\ r.snap = x /\ r.server = thread[t].server
      BY <3>1, <1>1 DEF ThreadRecord, Places
    <3>4. WellFormed(t, r)
      BY <3>1, <3>3, <2>1, <1>1 DEF WellFormed
    <3> HIDE DEF r
    <3>5. ThreadsOK'
      BY <3>2, <3>3, <3>4, ThreadMoves, <1>a
    <3> QED BY <3>5, <1>2, <1>a, Leaves DEF MapsLoadedOne, redisVars
  <2>3. CASE ~stored[thread[t].server].present
    <3>1. ThreadsOK'
      BY <1>2, <2>3, <1>a, Returns DEF MapsLoadedOne
    <3> QED BY <3>1, <1>2, <1>a, Leaves DEF MapsLoadedOne, redisVars
  <2> QED BY <2>2, <2>3
<1>3. ASSUME UpsertSet(t) PROVE CoreOK'
  <2>1. thread[t].op \in {"Register", "MapsLoaded"} /\ thread[t].server \in Servers
    BY <1>1, <1>3 DEF UpsertSet, At, ThreadRecord, Ops, WellFormed
  <2>2. ThreadsOK'
    <3>1. WellFormed(t, [thread[t] EXCEPT !.pc = "index"])
      BY <1>1, <1>3, <2>1 DEF WellFormed, ThreadRecord, UpsertSet, At
    <3> QED BY <3>1, <1>3, <1>a, Goes DEF UpsertSet, Places
  <2>3. stored' \in [Servers -> ServerRecord]
    <3>1. CASE thread[t].op = "Register"
      BY <3>1, <1>3, <1>a, <2>1 DEF UpsertSet, NoRecord, ServerRecord
    <3>2. CASE thread[t].op = "MapsLoaded"
      <4>1. thread[t].snap[thread[t].server] \in ServerRecord
        BY <3>2, <1>1, <1>3 DEF WellFormed, UpsertSet, At, ThreadRecord, Snapshots
      <4>2. [thread[t].snap[thread[t].server] EXCEPT !.pending = @ \ thread[t].maps] \in ServerRecord
        BY <4>1 DEF ServerRecord
      <4> QED BY <4>2, <3>2, <1>3, <1>a DEF UpsertSet
    <3> QED BY <3>1, <3>2, <2>1
  <2> QED BY <2>2, <2>3, <1>3, <1>a, Leaves DEF UpsertSet
<1>4. ASSUME UpsertIndex(t) PROVE CoreOK'
  <2>1. thread[t].op \in {"Register", "MapsLoaded"} /\ thread[t].server \in Servers
    BY <1>1, <1>4 DEF UpsertIndex, At, ThreadRecord, Ops, WellFormed
  <2>2. ThreadsOK'
    <3>1. CASE thread[t].op = "Register"
      <4>1. WellFormed(t, [thread[t] EXCEPT !.pc = "members"])
        BY <1>1, <1>4, <3>1 DEF WellFormed, ThreadRecord, UpsertIndex, At
      <4> QED BY <4>1, <3>1, <1>4, <1>a, Goes DEF UpsertIndex, Places
    <3>2. CASE thread[t].op # "Register"
      BY <3>2, <1>4, <1>a, Returns DEF UpsertIndex
    <3> QED BY <3>1, <3>2
  <2> QED BY <2>1, <2>2, <1>4, <1>a, Leaves DEF UpsertIndex
<1>5. ASSUME RemoveIndex(t) PROVE CoreOK'
  <2>1. thread[t].op = "Unhealthy"
    BY <1>1, <1>5 DEF RemoveIndex, At, ThreadRecord, Ops, WellFormed
  <2>2. WellFormed(t, [thread[t] EXCEPT !.pc = "delete"]) /\ WellFormed(t, [thread[t] EXCEPT !.pc = "members"])
    BY <1>1, <1>5, <2>1 DEF WellFormed, ThreadRecord, RemoveIndex, At
  <2>3. ThreadsOK' /\ index' \subseteq index
    BY <2>2, <1>5, <1>a, Goes DEF RemoveIndex, Places
  <2> QED BY <2>3, <1>5, <1>a, Leaves DEF RemoveIndex
<1>6. ASSUME RemoveValue(t) PROVE CoreOK'
  <2>1. thread[t].op = "Unhealthy"
    BY <1>1, <1>6 DEF RemoveValue, At, ThreadRecord, Ops, WellFormed
  <2>2. WellFormed(t, [thread[t] EXCEPT !.pc = "members"])
    BY <1>1, <1>6, <2>1 DEF WellFormed, ThreadRecord, RemoveValue, At
  <2>3. ThreadsOK'
    BY <2>2, <1>6, <1>a, Goes DEF RemoveValue, Places
  <2>4. stored' \in [Servers -> ServerRecord]
    BY <1>6, <1>a DEF RemoveValue, NoRecord, ServerRecord
  <2> QED BY <2>3, <2>4, <1>6, <1>a, Leaves DEF RemoveValue
<1> QED BY <1>2, <1>3, <1>4, <1>5, <1>6

\* The servers of the realm are read, and a plan is made.
LEMMA ServersAreListed ==
    ASSUME CoreOK, NEW t \in Threads, ListMembers(t) \/ ListValues(t) \/ Plan(t)
    PROVE  CoreOK'
<1>1. thread[t] \in ThreadRecord /\ WellFormed(t, thread[t])
  BY DEF CoreOK, ThreadsOK
<1>a. /\ stored \in [Servers -> ServerRecord] /\ index \subseteq Servers
      /\ realmLock \in Threads \cup {NoThread} /\ binding \in Somebody
      /\ thread \in [Threads -> ThreadRecord] /\ ThreadsOK
  BY DEF CoreOK, RedisOK, ThreadsOK
<1>2. ASSUME ListMembers(t) PROVE CoreOK'
  <2> DEFINE r == [thread[t] EXCEPT !.pc = "values", !.ids = index]
  <2>1. thread' = [thread EXCEPT ![t] = r]
    BY <1>2, <1>a DEF ListMembers
  <2>2. r \in ThreadRecord
    BY <1>1, <1>a DEF ThreadRecord, Places
  <2>3. WellFormed(t, r)
    BY <1>1, <1>2 DEF WellFormed, ThreadRecord, ListMembers, At, Ops
  <2> HIDE DEF r
  <2>4. ThreadsOK'
    BY <2>1, <2>2, <2>3, ThreadMoves, <1>a
  <2> QED BY <2>4, <1>2, <1>a, Leaves DEF ListMembers, redisVars
<1>3. ASSUME ListValues(t) PROVE CoreOK'
  <2> DEFINE found == {s \in thread[t].ids : stored[s].present}
             x == [s \in found |-> stored[s]]
             r == [thread[t] EXCEPT !.pc = AfterList(thread[t].op), !.ids = {}, !.snap = x]
  <2>1. thread' = [thread EXCEPT ![t] = r]
    BY <1>3, <1>a DEF ListValues
  <2>2. found \in SUBSET Servers
    BY <1>1 DEF ThreadRecord
  <2>3. x \in [found -> ServerRecord]
    BY <2>2, <1>a
  <2>4. x \in Snapshots
    BY <2>2, <2>3 DEF Snapshots
  <2>5. thread[t].op \in {"Register", "Unhealthy", "Update", "Select", "BindGroup"}
    BY <1>1, <1>3 DEF WellFormed, ThreadRecord, ListValues, At, Ops
  <2> HIDE DEF x
  <2>6. /\ thread[t].op = "Select" => AfterList(thread[t].op) = "binding"
        /\ thread[t].op = "BindGroup" => AfterList(thread[t].op) = "setBinding"
        /\ thread[t].op \notin {"Select", "BindGroup"} => AfterList(thread[t].op) = "config"
    BY <2>5 DEF AfterList
  <2>7. r \in ThreadRecord /\ r.op = thread[t].op /\ r.server = thread[t].server /\ r.pc = AfterList(thread[t].op)
    BY <1>1, <2>4, <2>5, <2>6 DEF ThreadRecord, Places
  <2>8. WellFormed(t, r)
    BY <1>1, <2>5, <2>6, <2>7 DEF WellFormed
  <2> HIDE DEF r
  <2>9. ThreadsOK'
    BY <2>1, <2>7, <2>8, ThreadMoves, <1>a
  <2> QED BY <2>9, <1>3, <1>a, Leaves DEF ListValues, redisVars
<1>4. ASSUME Plan(t) PROVE CoreOK'
  <2>1. PICK p \in PlansFor(DOMAIN thread[t].snap, layerConfig) :
          thread' = [thread EXCEPT ![t].pc = "update", ![t].plan = p, ![t].todo = DOMAIN p]
    BY <1>4 DEF Plan
  <2> DEFINE r == [thread[t] EXCEPT !.pc = "update", !.plan = p, !.todo = DOMAIN p]
  <2>2. thread' = [thread EXCEPT ![t] = r]
    BY <2>1, <1>a
  <2>3. p \in [DOMAIN thread[t].snap -> SUBSET Maps] /\ DOMAIN thread[t].snap \in SUBSET Servers
    BY <1>1, PlansAssign DEF ThreadRecord, Snapshots
  <2>4. p \in Plans /\ DOMAIN p = DOMAIN thread[t].snap
    BY <2>3 DEF Plans
  <2>5. thread[t].op \in {"Register", "Unhealthy", "Update"}
    BY <1>1, <1>4 DEF WellFormed, ThreadRecord, Plan, At, Ops
  <2>6. /\ r \in ThreadRecord /\ r.op = thread[t].op /\ r.server = thread[t].server /\ r.pc = "update"
        /\ r.plan = p /\ r.snap = thread[t].snap /\ r.todo = DOMAIN p
    BY <1>1, <2>3, <2>4 DEF ThreadRecord, Places
  <2>7. WellFormed(t, r)
    BY <1>1, <2>4, <2>5, <2>6 DEF WellFormed
  <2> HIDE DEF r
  <2>8. ThreadsOK'
    BY <2>2, <2>6, <2>7, ThreadMoves, <1>a
  <2> QED BY <2>8, <1>4, <1>a, Leaves DEF Plan, redisVars
<1> QED BY <1>2, <1>3, <1>4

\* What Update writes is a record of a server the plan knows.
LEMMA UpdatedOK ==
    ASSUME CoreOK, NEW t \in Threads, At(t, "update"), NEW s \in DOMAIN thread[t].plan
    PROVE  /\ Updated(t, s) \in ServerRecord
           /\ s \in Servers /\ thread[t].snap[s] \in ServerRecord /\ thread[t].plan[s] \in SUBSET Maps
<1>1. thread[t] \in ThreadRecord /\ WellFormed(t, thread[t])
  BY DEF CoreOK, ThreadsOK
<1>2. s \in Servers /\ thread[t].plan[s] \in SUBSET Maps
  BY <1>1 DEF ThreadRecord, Plans
<1>3. thread[t].snap[s] \in ServerRecord
  BY <1>1 DEF ThreadRecord, Snapshots, WellFormed, At
<1>4. PendingFor(thread[t].snap[s], thread[t].plan[s]) \in SUBSET Maps
  BY <1>2, <1>3 DEF PendingFor, OnlyNewMaps, ServerRecord
<1> QED BY <1>2, <1>3, <1>4 DEF Updated, ServerRecord

\* The event for a server is empty or one reassignment; a server that does not
\* run gets none.
LEMMA ReassignedOK ==
    ASSUME CoreOK, NEW t \in Threads, At(t, "update"), NEW s \in Servers
    PROVE  /\ Reassigned(t, s) \in Seq(Reassignment)
           /\ status[s] # "running" => Reassigned(t, s) = <<>>
<1> DEFINE old == thread[t].snap[s].assigned
           new == thread[t].plan[s]
           e == [new |-> OnlyNewMaps(old, new), removed |-> OnlyRemovedMaps(old, new)]
<1>1. CASE s \in DOMAIN thread[t].plan /\ old # {} /\ old # new /\ status[s] = "running"
  <2>1. old \in SUBSET Maps /\ new \in SUBSET Maps
    BY <1>1, UpdatedOK DEF ServerRecord
  <2>2. e \in Reassignment
    BY <2>1 DEF Reassignment, OnlyNewMaps, OnlyRemovedMaps
  <2>3. Reassigned(t, s) = <<e>>
    BY <1>1 DEF Reassigned
  <2> HIDE DEF e
  <2> QED BY <2>2, <2>3, <1>1
<1>2. CASE ~(s \in DOMAIN thread[t].plan /\ old # {} /\ old # new /\ status[s] = "running")
  <2>1. Reassigned(t, s) = <<>>
    BY <1>2 DEF Reassigned
  <2> QED BY <2>1
<1> QED BY <1>1, <1>2

\* A distribution is written and published.
LEMMA MapsAreAssigned ==
    ASSUME CoreOK, NEW t \in Threads, UpdateServer(t) \/ Publish(t)
    PROVE  CoreOK'
<1>1. thread[t] \in ThreadRecord /\ WellFormed(t, thread[t])
  BY DEF CoreOK, ThreadsOK
<1>a. /\ stored \in [Servers -> ServerRecord] /\ index \subseteq Servers
      /\ realmLock \in Threads \cup {NoThread} /\ binding \in Somebody
      /\ thread \in [Threads -> ThreadRecord] /\ ThreadsOK /\ RedisOK /\ WorldOK
  BY DEF CoreOK, RedisOK, ThreadsOK
<1>2. ASSUME UpdateServer(t) PROVE CoreOK'
  <2>1. PICK s \in thread[t].todo :
          IF stored[s].present
          THEN /\ stored' = [stored EXCEPT ![s] = Updated(t, s)]
               /\ thread' = [thread EXCEPT ![t].todo = @ \ {s}]
               /\ UNCHANGED <<realmLock, status>>
          ELSE /\ Return(t) /\ Unlock(t) /\ GiveUp(t)
               /\ UNCHANGED stored
    BY <1>2 DEF UpdateServer
  <2>2. At(t, "update") /\ s \in DOMAIN thread[t].plan
    BY <1>1, <1>2 DEF UpdateServer, At, WellFormed
  <2>3. CASE stored[s].present
    <3> DEFINE r == [thread[t] EXCEPT !.todo = @ \ {s}]
    <3>1. thread' = [thread EXCEPT ![t] = r]
      BY <2>1, <2>3, <1>a
    <3>2. r \in ThreadRecord /\ r.todo = thread[t].todo \ {s}
      BY <1>1 DEF ThreadRecord
    <3>3. WellFormed(t, r)
      BY <1>1 DEF WellFormed, ThreadRecord
    <3> HIDE DEF r
    <3>4. ThreadsOK'
      BY <3>1, <3>2, <3>3, ThreadMoves, <1>a
    <3>5. stored' \in [Servers -> ServerRecord]
      BY <2>1, <2>2, <2>3, <1>a, UpdatedOK
    <3> QED BY <2>1, <2>3, <3>4, <3>5, <1>2, <1>a, Leaves DEF UpdateServer, worldVars
  <2>4. CASE ~stored[s].present
    <3>1. Return(t) /\ Unlock(t) /\ GiveUp(t) /\ UNCHANGED stored
      BY <2>1, <2>4
    <3>2. ThreadsOK' /\ realmLock' \in Threads \cup {NoThread}
      BY <3>1, <1>a, Returns, Unlocks
    <3>3. WorldOK'
      BY <3>1, <1>2, <1>a, GivesUp DEF UpdateServer
    <3> QED BY <3>1, <3>2, <3>3, <1>2 DEF UpdateServer, CoreOK, RedisOK, BoundsOK, boundVars
  <2> QED BY <2>3, <2>4
<1>3. ASSUME Publish(t) PROVE CoreOK'
  <2>1. At(t, "update")
    BY <1>3 DEF Publish
  <2>2. ThreadsOK' /\ realmLock' \in Threads \cup {NoThread}
    BY <1>3, <1>a, Returns, Unlocks DEF Publish
  <2>3. RedisOK' /\ BoundsOK'
    BY <2>2, <1>3, <1>a DEF RedisOK, Publish, CoreOK, BoundsOK, boundVars
  <2>4. inbox' = [s \in Servers |-> inbox[s] \o Reassigned(t, s)]
    BY <1>3 DEF Publish
  <2>5. inbox' \in [Servers -> Seq(Reassignment)]
    BY <2>1, <2>4, <1>a, ReassignedOK DEF WorldOK
  <2>6. /\ status' \in [Servers -> Statuses] /\ loaded' \in [Servers -> SUBSET Maps]
        /\ \A s \in Servers : status'[s] # "running" => status[s] # "running"
    <3> DEFINE s == thread[t].server
    <3>1. CASE thread[t].op = "Register" /\ status[s] = "starting"
      <4>1. s \in Servers
        BY <3>1, <1>1 DEF WellFormed
      <4>2. (IF s \in DOMAIN thread[t].plan THEN thread[t].plan[s] ELSE {}) \in SUBSET Maps
        BY <2>1, UpdatedOK
      <4> DEFINE x == IF s \in DOMAIN thread[t].plan THEN thread[t].plan[s] ELSE {}
      <4>3. status' = [status EXCEPT ![s] = "running"] /\ loaded' = [loaded EXCEPT ![s] = x]
        BY <3>1, <1>3 DEF Publish
      <4> HIDE DEF x, s
      <4> QED BY <4>1, <4>2, <4>3, <1>a DEF WorldOK, Statuses, x
    <3>2. CASE ~(thread[t].op = "Register" /\ status[s] = "starting")
      BY <3>2, <1>3, <1>a DEF Publish, WorldOK
    <3> QED BY <3>1, <3>2
  <2>7. ASSUME NEW s \in Servers, status'[s] # "running" PROVE inbox'[s] = <<>> /\ reports'[s] = {}
    <3>1. inbox[s] = <<>> /\ reports[s] = {} /\ Reassigned(t, s) = <<>>
      BY <2>1, <2>6, <2>7, <1>a, ReassignedOK DEF WorldOK
    <3> QED BY <3>1, <2>4, <1>3 DEF Publish
  <2>8. WorldOK'
    BY <2>5, <2>6, <2>7, <1>3, <1>a DEF WorldOK, Publish
  <2> QED BY <2>2, <2>3, <2>8 DEF CoreOK
<1> QED BY <1>2, <1>3

\* The realm is locked, lookups go on and groups are bound.
LEMMA GroupsAreBound ==
    ASSUME CoreOK, NEW t \in Threads,
           LockRealm(t) \/ SelectBinding(t) \/ SelectBind(t) \/ SelectReturn(t) \/ SetGroupBinding(t)
    PROVE  CoreOK'
<1>1. thread[t] \in ThreadRecord /\ WellFormed(t, thread[t])
  BY DEF CoreOK, ThreadsOK
<1>a. /\ stored \in [Servers -> ServerRecord] /\ index \subseteq Servers
      /\ realmLock \in Threads \cup {NoThread} /\ binding \in Somebody
      /\ thread \in [Threads -> ThreadRecord] /\ ThreadsOK
  BY DEF CoreOK, RedisOK, ThreadsOK
<1>b. AvailableIn(thread[t].snap, GroupMap) \subseteq Servers
  BY <1>1 DEF AvailableIn, ThreadRecord, Snapshots
<1>c. ASSUME NEW s \in Somebody, Answer(t, s), thread[t].op = "Select" PROVE ThreadsOK'
  <2> DEFINE r == [Idle EXCEPT !.op = "Select", !.pc = "answered", !.server = s]
  <2>1. r \in ThreadRecord
    BY IdleOK DEF ThreadRecord, Ops, Places
  <2>2. WellFormed(t, r)
    BY <1>1, <1>c DEF WellFormed, Idle
  <2>3. thread' = [thread EXCEPT ![t] = r]
    BY <1>c DEF Answer
  <2> HIDE DEF r
  <2> QED BY <2>1, <2>2, <2>3, ThreadMoves, <1>a
<1>2. ASSUME LockRealm(t) PROVE CoreOK'
  <2>1. WellFormed(t, [thread[t] EXCEPT !.pc = "members"])
    BY <1>1, <1>2 DEF WellFormed, ThreadRecord, LockRealm, At, Ops
  <2>2. ThreadsOK'
    BY <2>1, <1>2, <1>a, Goes DEF LockRealm, Places
  <2> QED BY <2>2, <1>2, <1>a, Leaves DEF LockRealm
<1>3. ASSUME SelectBinding(t) PROVE CoreOK'
  <2>1. thread[t].op = "Select"
    BY <1>1, <1>3 DEF WellFormed, ThreadRecord, SelectBinding, At, Ops
  <2>2. CASE Return(t)
    BY <2>2, <1>3, <1>a, Returns, Leaves DEF SelectBinding, redisVars
  <2>3. CASE Answer(t, binding)
    BY <2>1, <2>3, <1>3, <1>a, <1>c, Leaves DEF SelectBinding, redisVars
  <2>4. CASE \E least \in AvailableIn(thread[t].snap, GroupMap) :
               thread' = [thread EXCEPT ![t].pc = "bind", ![t].server = least, ![t].bound = binding]
    <3>1. PICK s \in AvailableIn(thread[t].snap, GroupMap) :
               thread' = [thread EXCEPT ![t].pc = "bind", ![t].server = s, ![t].bound = binding]
      BY <2>4
    <3> DEFINE r == [thread[t] EXCEPT !.pc = "bind", !.server = s, !.bound = binding]
    <3>2. thread' = [thread EXCEPT ![t] = r]
      BY <3>1, <1>a
    <3>3. r \in ThreadRecord
      BY <1>1, <1>a, <1>b DEF ThreadRecord, Places, Somebody
    <3>4. WellFormed(t, r)
      BY <1>1, <2>1 DEF WellFormed, ThreadRecord
    <3> HIDE DEF r
    <3>5. ThreadsOK'
      BY <3>2, <3>3, <3>4, ThreadMoves, <1>a
    <3> QED BY <3>5, <1>3, <1>a, Leaves DEF SelectBinding, redisVars
  <2> QED BY <2>2, <2>3, <2>4, <1>3 DEF SelectBinding
<1>4. ASSUME SelectBind(t) PROVE CoreOK'
  <2>1. thread[t].op = "Select"
    BY <1>1, <1>4 DEF WellFormed, ThreadRecord, SelectBind, At, Ops
  <2>2. Winner(t) \in Somebody
    BY <1>1, <1>a DEF Winner, ThreadRecord
  <2>3. ThreadsOK'
    BY <2>1, <2>2, <1>4, <1>a, <1>c, Returns DEF SelectBind
  <2> QED BY <2>2, <2>3, <1>4, <1>a, Leaves DEF SelectBind
<1>5. ASSUME SelectReturn(t) PROVE CoreOK'
  BY <1>5, <1>a, Returns, Leaves DEF SelectReturn, redisVars
<1>6. ASSUME SetGroupBinding(t) PROVE CoreOK'
  <2>1. binding' \in Somebody
    BY <1>6, <1>1, <1>a DEF SetGroupBinding, ThreadRecord
  <2> QED BY <2>1, <1>6, <1>a, Returns, Leaves DEF SetGroupBinding
<1> QED BY <1>2, <1>3, <1>4, <1>5, <1>6

\* Faults are counted.
LEMMA FaultCounts ==
    ASSUME faults \in Nat, UNCHANGED faults \/ Fault
    PROVE  faults' \in Nat
BY DEF Fault

\* Checks fail and failed checks are handled.
LEMMA ServersAreChecked ==
    ASSUME CoreOK, NEW s \in Servers, CheckFails(s) \/ HandleResult(s)
    PROVE  CoreOK'
<1>1. ASSUME CheckFails(s) PROVE CoreOK'
  <2>1. faults' \in Nat
    <3>1. UNCHANGED faults \/ Fault
      BY <1>1 DEF CheckFails
    <3> QED BY <3>1, FaultCounts DEF CoreOK, BoundsOK
  <2> QED BY <2>1, <1>1 DEF CheckFails, CoreOK, RedisOK, ThreadsOK, WorldOK, BoundsOK, redisVars, worldVars
<1>2. ASSUME HandleResult(s) PROVE CoreOK'
  <2>1. Begin(Checker, "Unhealthy", "remove", s, {})
    BY <1>2 DEF HandleResult, BeginChange
  <2>2. ThreadsOK'
    BY <2>1, Begins, EmptyTables DEF Threads, Ops, Places, Somebody, WellFormed, Idle
  <2>3. disturbed' \in BOOLEAN
    BY <1>2 DEF HandleResult, BeginChange
  <2> QED BY <2>2, <2>3, <1>2 DEF HandleResult, CoreOK, RedisOK, WorldOK, BoundsOK, redisVars, worldVars, boundVars
<1> QED BY <1>1, <1>2

\* A worldserver handles an event.
LEMMA ReassignmentIsHandled ==
    ASSUME CoreOK, NEW s \in Servers, WorldReassigned(s)
    PROVE  CoreOK'
<1>1. inbox[s] \in Seq(Reassignment) /\ inbox[s] # <<>> /\ reports[s] \in SUBSET SUBSET Maps /\ loaded[s] \in SUBSET Maps
  BY DEF CoreOK, WorldOK, WorldReassigned
<1>2. PICK e \in Reassignment : e = Head(inbox[s])
  BY <1>1
<1>3. e.new \in SUBSET Maps /\ e.removed \in SUBSET Maps /\ Tail(inbox[s]) \in Seq(Reassignment)
  BY <1>1 DEF Reassignment
<1>4. /\ loaded' = [loaded EXCEPT ![s] = (@ \ e.removed) \cup e.new]
      /\ reports' = [reports EXCEPT ![s] = IF e.new = {} THEN @ ELSE @ \cup {e.new}]
      /\ inbox' = [inbox EXCEPT ![s] = Tail(@)]
      /\ UNCHANGED <<redisVars, checked, failedChecks, thread, status, disturbed, boundVars>>
  BY <1>2 DEF WorldReassigned
<1>5. loaded' \in [Servers -> SUBSET Maps] /\ inbox' \in [Servers -> Seq(Reassignment)]
  BY <1>3, <1>4 DEF CoreOK, WorldOK
<1>6. reports' \in [Servers -> SUBSET SUBSET Maps]
  BY <1>1, <1>3, <1>4 DEF CoreOK, WorldOK
<1>7. status[s] = "running"
  BY <1>1 DEF CoreOK, WorldOK
<1>8. WorldOK'
  BY <1>4, <1>5, <1>6, <1>7 DEF CoreOK, WorldOK
<1> QED BY <1>4, <1>8 DEF CoreOK, RedisOK, ThreadsOK, BoundsOK, redisVars, boundVars

\* Worldservers die, Redis commands fail, the lock expires and the registry
\* restarts.
LEMMA FailuresKeepTypes ==
    ASSUME CoreOK,
           \/ \E s \in Servers : WorldDies(s)
           \/ \E t \in Threads : RedisError(t)
           \/ LockExpires \/ RegistryRestarts
    PROVE  CoreOK'
<1>1. ASSUME NEW s \in Servers, WorldDies(s) PROVE CoreOK'
  <2>1. faults' \in Nat
    BY <1>1, FaultCounts DEF WorldDies, CoreOK, BoundsOK
  <2>2. WorldOK'
    BY <1>1 DEF WorldDies, CoreOK, WorldOK, Statuses
  <2> QED BY <2>1, <2>2, <1>1 DEF WorldDies, CoreOK, RedisOK, ThreadsOK, BoundsOK, redisVars
<1>2. ASSUME NEW t \in Threads, RedisError(t) PROVE CoreOK'
  <2>1. faults' \in Nat
    BY <1>2, FaultCounts DEF RedisError, CoreOK, BoundsOK
  <2>2. ThreadsOK' /\ realmLock' \in Threads \cup {NoThread}
    BY <1>2, Returns, Unlocks DEF RedisError, CoreOK
  <2>3. WorldOK'
    BY <1>2, GivesUp DEF RedisError, CoreOK
  <2>4. stored' \in [Servers -> ServerRecord]
    BY <1>2 DEF RedisError, CoreOK, RedisOK, NoRecord, ServerRecord
  <2>5. disturbed' \in BOOLEAN
    BY <1>2 DEF RedisError
  <2> QED BY <2>1, <2>2, <2>3, <2>4, <2>5, <1>2 DEF RedisError, CoreOK, RedisOK, BoundsOK
<1>3. ASSUME LockExpires PROVE CoreOK'
  BY <1>3 DEF LockExpires, CoreOK, RedisOK, ThreadsOK, WorldOK, BoundsOK, worldVars, boundVars
<1>4. ASSUME RegistryRestarts PROVE CoreOK'
  <2>1. faults' \in Nat
    BY <1>4, FaultCounts DEF RegistryRestarts, CoreOK, BoundsOK
  <2>2. ThreadsOK'
    BY <1>4, IdleOK DEF RegistryRestarts, ThreadsOK
  <2>3. WorldOK'
    BY <1>4 DEF RegistryRestarts, CoreOK, WorldOK, Statuses
  <2>4. checked' \subseteq Servers
    BY <1>4 DEF RegistryRestarts, Listed, CoreOK, RedisOK
  <2>5. disturbed' \in BOOLEAN
    BY <1>4 DEF RegistryRestarts
  <2> QED BY <2>1, <2>2, <2>3, <2>4, <2>5, <1>4 DEF RegistryRestarts, CoreOK, RedisOK, BoundsOK, redisVars
<1> QED BY <1>1, <1>2, <1>3, <1>4

\* Every step keeps the types, the history of answers aside.
LEMMA StepKeepsTypes ==
    ASSUME CoreOK, Step
    PROVE  CoreOK'
BY CallsBegin, ServersAreWritten, ServersAreListed, MapsAreAssigned, GroupsAreBound, ServersAreChecked,
   ReassignmentIsHandled, FailuresKeepTypes
   DEF Step, RepoStep

\* So does the history.
LEMMA NextKeepsTypes ==
    ASSUME TypeOK, [Next]_vars
    PROVE  TypeOK'
<1>1. CoreOK /\ answers \subseteq Somebody /\ outdated \in BOOLEAN
  BY DEF TypeOK, CoreOK, RestOK, BoundsOK
<1>2. CASE Step /\ Observe
  <2>1. CoreOK'
    BY <1>1, <1>2, StepKeepsTypes
  <2>2. outdated' \in BOOLEAN
    BY <1>2 DEF Observe, ObserveAnswers
  <2>3. \A t \in Handlers : thread'[t].server \in Somebody
    BY <2>1 DEF CoreOK, ThreadsOK, ThreadRecord, Threads
  <2>4. answers' \subseteq Somebody
    BY <1>1, <1>2, <2>3 DEF Observe, ObserveAnswers
  <2>5. escaped' \subseteq Servers
    BY <1>2 DEF Observe
  <2> QED BY <2>1, <2>2, <2>4, <2>5 DEF TypeOK, CoreOK, RestOK, BoundsOK
<1>3. CASE UNCHANGED vars
  BY <1>3 DEF TypeOK, RedisOK, ThreadsOK, WorldOK, RestOK, vars, redisVars, worldVars, boundVars
<1> QED BY <1>2, <1>3 DEF Next

\* The first state has the right types.
LEMMA InitialTypes ==
    ASSUME Init
    PROVE  TypeOK
<1>1. PICK plan \in PlansFor(InitialServers, NoLayers), o \in Openings :
         /\ stored = [s \in Servers |-> IF s \in InitialServers
                                        THEN [present |-> TRUE, assigned |-> plan[s], pending |-> {}] ELSE NoRecord]
         /\ loaded = [s \in Servers |-> IF s \in InitialServers \ o.down THEN plan[s] ELSE {}]
         /\ status = [s \in Servers |-> IF s \in InitialServers \ o.down THEN "running" ELSE "down"]
         /\ binding = o.binding /\ calls = o.calls
  BY DEF Init
<1>2. plan \in [InitialServers -> SUBSET Maps] /\ InitialServers \subseteq Servers
  BY PlansAssign, NobodyAssumption
<1>3. stored \in [Servers -> ServerRecord] /\ loaded \in [Servers -> SUBSET Maps]
  BY <1>1, <1>2 DEF ServerRecord, NoRecord
<1>4. RedisOK /\ calls \in Nat
  BY <1>1, <1>2, <1>3, NobodyAssumption, OpeningsAssumption DEF Init, RedisOK, Somebody
<1>5. ThreadsOK
  BY IdleOK DEF Init, ThreadsOK
<1>6. WorldOK
  BY <1>1, <1>3 DEF Init, WorldOK, Statuses
<1> QED BY <1>4, <1>5, <1>6 DEF TypeOK, Init, RestOK

\* Redis, the calls, the worldservers and their queues always have their types;
\* a call of each kind is only at its own places and knows there what the next
\* line of code uses, and a worldserver that does not run has no events and no
\* reports.
THEOREM TypeCorrect == Spec => []TypeOK
<1>1. Init => TypeOK
  BY InitialTypes
<1>2. TypeOK /\ [Next]_vars => TypeOK'
  BY NextKeepsTypes
<1> QED BY <1>1, <1>2, PTL DEF Spec
-----------------------------------------------------------------------------
(* Groups *)

\* What starts the history of answers again.
Change ==
    \/ index' # index
    \/ \E s \in Servers : CanHandleMap(stored'[s], GroupMap) # CanHandleMap(stored[s], GroupMap)
    \/ \E t \in Handlers : At(t, "setBinding") /\ thread'[t].pc = "idle"

\* A step of a call that is not a lookup.
OtherCall(t, r) ==
    /\ thread' = [thread EXCEPT ![t] = r] /\ r.op # "Select"
    /\ UNCHANGED binding \/ (At(t, "setBinding") /\ r = Idle)

\* A step of a lookup.
Lookup(t) == Select(t) \/ ListMembers(t) \/ ListValues(t) \/ SelectBinding(t) \/ SelectBind(t)

\* A step is one of another call, of a lookup, of none, or a restart.
LEMMA StepIsOfOneCall ==
    ASSUME CoreOK, Step
    PROVE  \/ UNCHANGED <<thread, binding>>
           \/ \E t \in Threads : \E r : OtherCall(t, r)
           \/ \E t \in Threads : Lookup(t)
           \/ thread' = [t \in Threads |-> Idle] /\ UNCHANGED binding
<1> DEFINE Goal == \/ UNCHANGED <<thread, binding>>
                   \/ \E t \in Threads : \E r : OtherCall(t, r)
                   \/ \E t \in Threads : Lookup(t)
                   \/ thread' = [t \in Threads |-> Idle] /\ UNCHANGED binding
<1>1. Handlers \subseteq Threads /\ Checker \in Threads
  BY DEF Threads
<1>b. ASSUME NEW t \in Threads, NEW op, NEW pc, NEW s, NEW ms, Begin(t, op, pc, s, ms), op # "Select", UNCHANGED binding
      PROVE  Goal
  <2> DEFINE r == [Idle EXCEPT !.op = op, !.pc = pc, !.server = s, !.maps = ms]
  <2>1. thread' = [thread EXCEPT ![t] = r] /\ r.op = op
    BY <1>b DEF Begin, Idle
  <2> HIDE DEF r
  <2> QED BY <2>1, <1>b DEF OtherCall
<1>r. ASSUME NEW t \in Threads, Return(t), UNCHANGED binding \/ At(t, "setBinding") PROVE Goal
  <2>1. Idle.op # "Select"
    BY DEF Idle
  <2>2. OtherCall(t, Idle)
    BY <1>r, <2>1 DEF Return, OtherCall
  <2> QED BY <2>2
<1>2. ASSUME NEW t \in Handlers,
             \/ \E s \in Servers : Register(t, s) \/ BindGroup(t, s)
             \/ \E s \in Servers : \E ms \in reports[s] : MapsLoaded(t, s, ms)
             \/ \E c \in Configs : UpdateConfiguration(t, c)
      PROVE  Goal
  <2>1. ASSUME NEW s \in Servers, Register(t, s) PROVE Goal
    <3>1. Begin(t, "Register", "set", s, {}) /\ UNCHANGED binding
      BY <2>1 DEF Register, BeginChange, redisVars
    <3> QED BY <3>1, <1>b, <1>1
  <2>2. ASSUME NEW s \in Servers, BindGroup(t, s) PROVE Goal
    <3>1. Begin(t, "BindGroup", "members", s, {}) /\ UNCHANGED binding
      BY <2>2 DEF BindGroup, redisVars
    <3> QED BY <3>1, <1>b, <1>1
  <2>3. ASSUME NEW s \in Servers, NEW ms \in reports[s], MapsLoaded(t, s, ms) PROVE Goal
    <3>1. Begin(t, "MapsLoaded", "one", s, ms) /\ UNCHANGED binding
      BY <2>3 DEF MapsLoaded, BeginChange, redisVars
    <3> QED BY <3>1, <1>b, <1>1
  <2>4. ASSUME NEW c \in Configs, UpdateConfiguration(t, c) PROVE Goal
    <3>1. Begin(t, "Update", "lock", NoServer, {}) /\ UNCHANGED binding
      BY <2>4 DEF UpdateConfiguration, BeginChange
    <3> QED BY <3>1, <1>b, <1>1
  <2> QED BY <1>2, <2>1, <2>2, <2>3, <2>4
<1>3. ASSUME NEW t \in Threads, RepoStep(t) PROVE Goal
  <2>1. thread[t] \in ThreadRecord /\ WellFormed(t, thread[t]) /\ thread \in [Threads -> ThreadRecord]
    BY DEF CoreOK, ThreadsOK
  <2>a. ASSUME NEW pc, Goto(t, pc), thread[t].op # "Select", UNCHANGED binding PROVE Goal
    <3> DEFINE r == [thread[t] EXCEPT !.pc = pc]
    <3>1. thread' = [thread EXCEPT ![t] = r] /\ r.op # "Select"
      BY <2>1, <2>a DEF Goto, ThreadRecord
    <3> HIDE DEF r
    <3> QED BY <3>1, <2>a DEF OtherCall
  <2>2. CASE MapsLoadedOne(t)
    <3>1. thread[t].op # "Select" /\ UNCHANGED binding
      BY <2>1, <2>2 DEF MapsLoadedOne, At, WellFormed, redisVars
    <3> DEFINE r == [thread[t] EXCEPT !.pc = "set", !.snap = [x \in {thread[t].server} |-> stored[thread[t].server]]]
    <3>2. CASE Return(t)
      BY <3>1, <3>2, <1>r
    <3>3. CASE ~Return(t)
      <4>1. thread' = [thread EXCEPT ![t] = r] /\ r.op # "Select"
        BY <2>1, <2>2, <3>1, <3>3 DEF MapsLoadedOne, ThreadRecord
      <4> HIDE DEF r
      <4> QED BY <4>1, <3>1 DEF OtherCall
    <3> QED BY <3>2, <3>3
  <2>3. CASE UpsertSet(t)
    BY <2>1, <2>3, <2>a DEF UpsertSet, At, WellFormed
  <2>4. CASE UpsertIndex(t)
    BY <2>1, <2>4, <2>a, <1>r DEF UpsertIndex, At, WellFormed
  <2>5. CASE RemoveIndex(t)
    BY <2>1, <2>5, <2>a DEF RemoveIndex, At, WellFormed
  <2>6. CASE RemoveValue(t)
    BY <2>1, <2>6, <2>a DEF RemoveValue, At, WellFormed
  <2>7. CASE Plan(t)
    <3>1. thread[t].op # "Select" /\ UNCHANGED binding
      BY <2>1, <2>7 DEF Plan, At, WellFormed, redisVars
    <3>2. PICK p \in PlansFor(DOMAIN thread[t].snap, layerConfig) :
            thread' = [thread EXCEPT ![t].pc = "update", ![t].plan = p, ![t].todo = DOMAIN p]
      BY <2>7 DEF Plan
    <3> DEFINE r == [thread[t] EXCEPT !.pc = "update", !.plan = p, !.todo = DOMAIN p]
    <3>3. thread' = [thread EXCEPT ![t] = r] /\ r.op # "Select"
      BY <2>1, <3>1, <3>2 DEF ThreadRecord
    <3> HIDE DEF r
    <3> QED BY <3>1, <3>3 DEF OtherCall
  <2>8. CASE UpdateServer(t)
    <3>1. thread[t].op # "Select" /\ UNCHANGED binding
      BY <2>1, <2>8 DEF UpdateServer, At, WellFormed
    <3>2. CASE Return(t)
      BY <3>1, <3>2, <1>r
    <3>3. CASE \E s : thread' = [thread EXCEPT ![t].todo = @ \ {s}]
      <4>1. PICK s : thread' = [thread EXCEPT ![t].todo = @ \ {s}]
        BY <3>3
      <4> DEFINE r == [thread[t] EXCEPT !.todo = @ \ {s}]
      <4>2. thread' = [thread EXCEPT ![t] = r] /\ r.op # "Select"
        BY <2>1, <3>1, <4>1 DEF ThreadRecord
      <4> HIDE DEF r
      <4> QED BY <3>1, <4>2 DEF OtherCall
    <3> QED BY <3>2, <3>3, <2>8 DEF UpdateServer
  <2>9. CASE Publish(t)
    BY <2>9, <1>r DEF Publish
  <2>10. CASE LockRealm(t)
    BY <2>1, <2>10, <2>a DEF LockRealm, At, WellFormed
  <2>11. CASE SelectReturn(t)
    BY <2>11, <1>r DEF SelectReturn, redisVars
  <2>12. CASE SetGroupBinding(t)
    BY <2>12, <1>r DEF SetGroupBinding
  <2> QED BY <1>3, <2>2, <2>3, <2>4, <2>5, <2>6, <2>7, <2>8, <2>9, <2>10, <2>11, <2>12 DEF RepoStep, Lookup
<1>4. ASSUME NEW t \in Threads, RedisError(t) PROVE Goal
  BY <1>4, <1>r DEF RedisError
<1>5. ASSUME NEW s \in Servers, HandleResult(s) PROVE Goal
  <2>1. Begin(Checker, "Unhealthy", "remove", s, {}) /\ UNCHANGED binding
    BY <1>5 DEF HandleResult, BeginChange, redisVars
  <2> QED BY <2>1, <1>b, <1>1
<1>6. ASSUME \/ \E s \in Servers : CheckFails(s) \/ WorldReassigned(s) \/ WorldDies(s)
             \/ LockExpires
      PROVE  Goal
  BY <1>6 DEF CheckFails, WorldReassigned, WorldDies, LockExpires, redisVars
<1>7. ASSUME RegistryRestarts PROVE Goal
  BY <1>7 DEF RegistryRestarts, redisVars
<1> HIDE DEF Goal
<1>8. Goal
  <2>1. ASSUME NEW t \in Handlers, Select(t) PROVE Goal
    BY <2>1, <1>1 DEF Goal, Lookup
  <2> QED BY <1>2, <1>3, <1>4, <1>5, <1>6, <1>7, <2>1 DEF Step
<1> QED BY <1>8 DEF Goal

\* When availability changes, the history is emptied and the lookups that run
\* are outdated; it stays empty until they are gone.
LEMMA HistoryRestarts ==
    ASSUME CoreOK, CoreOK', AnswersInv, Observe, Change \/ outdated
    PROVE  AnswersInv'
<1>1. /\ outdated' = ((Change \/ outdated) /\ Lookups(thread') # {})
      /\ answers' = IF Change \/ outdated' THEN {}
                    ELSE answers \cup {thread'[t].server : t \in {u \in Handlers : thread'[u].pc = "answered"}}
  BY DEF Observe, ObserveAnswers, Change
<1>2. outdated' => answers' = {}
  BY <1>1
<1>3. ASSUME ~outdated' PROVE answers' = {} /\ \A t \in Handlers : thread'[t].op # "Select"
  <2>1. \A t \in Handlers : thread'[t].op # "Select"
    BY <1>1, <1>3 DEF Lookups
  <2>2. \A t \in Handlers : thread'[t].pc # "answered"
    BY <2>1 DEF CoreOK, ThreadsOK, WellFormed, ThreadRecord, Ops, Threads
  <2>3. CASE Change
    BY <1>1, <2>1, <2>3
  <2>4. CASE ~Change
    <3>1. answers = {}
      BY <2>4 DEF AnswersInv
    <3>2. {thread'[t].server : t \in {u \in Handlers : thread'[u].pc = "answered"}} = {}
      BY <2>2
    <3> QED BY <1>1, <1>3, <2>1, <2>4, <3>1, <3>2
  <2> QED BY <2>3, <2>4
<1> QED BY <1>2, <1>3 DEF AnswersInv, LookupInv

\* Otherwise the same servers are available.
LEMMA SameAvailable ==
    ASSUME CoreOK, CoreOK', ~Change
    PROVE  index' = index /\ Available' = Available
<1>1. index' = index /\ \A s \in Servers : CanHandleMap(stored'[s], GroupMap) = CanHandleMap(stored[s], GroupMap)
  BY DEF Change
<1>2. Available' = {s \in index' : CanHandleMap(stored'[s], GroupMap)}
  BY DEF Available
<1> QED BY <1>1, <1>2 DEF CoreOK, RedisOK, Available

\* A lookup that does not move keeps what it knows, unless the group is bound
\* to an available server and the binding is changed.
LEMMA OtherLookups ==
    ASSUME NEW t \in Handlers, LookupInv(t), thread'[t] = thread[t], index' = index, Available' = Available,
           binding' = binding \/ binding \notin Available
    PROVE  LookupInv(t)'
BY DEF LookupInv, At

\* A lookup that is not outdated knows the servers that are available now.
LEMMA LookupKnows ==
    ASSUME CoreOK, NEW t \in Handlers, Lookup(t), LookupInv(t), index' = index, Available' = Available
    PROVE  /\ LookupInv(t)'
           /\ \A u \in Handlers : u # t => thread'[u] = thread[u]
           /\ binding' = binding \/ binding \notin Available
<1>1. t \in Threads /\ Handlers \subseteq Threads
  BY DEF Threads
<1>a. thread \in [Threads -> ThreadRecord] /\ thread[t] \in ThreadRecord /\ WellFormed(t, thread[t])
  BY <1>1 DEF CoreOK, ThreadsOK
<1>2. ASSUME Select(t) PROVE LookupInv(t)' /\ (\A u \in Handlers : u # t => thread'[u] = thread[u]) /\ UNCHANGED binding
  <2> DEFINE r == [Idle EXCEPT !.op = "Select", !.pc = "members", !.server = NoServer, !.maps = {}]
  <2>1. thread' = [thread EXCEPT ![t] = r] /\ r.pc = "members" /\ UNCHANGED binding
    BY <1>2 DEF Select, Begin, Idle, redisVars
  <2> HIDE DEF r
  <2> QED BY <2>1, <1>1, <1>a DEF LookupInv, At
<1>3. ASSUME ListMembers(t) PROVE LookupInv(t)' /\ (\A u \in Handlers : u # t => thread'[u] = thread[u]) /\ UNCHANGED binding
  <2> DEFINE r == [thread[t] EXCEPT !.pc = "values", !.ids = index]
  <2>1. thread' = [thread EXCEPT ![t] = r] /\ r.pc = "values" /\ r.ids = index /\ UNCHANGED binding
    BY <1>3, <1>a DEF ListMembers, redisVars, ThreadRecord
  <2> HIDE DEF r
  <2> QED BY <2>1, <1>1, <1>a DEF LookupInv, At
<1>4. ASSUME ListValues(t) PROVE LookupInv(t)' /\ (\A u \in Handlers : u # t => thread'[u] = thread[u]) /\ UNCHANGED binding
  <2> DEFINE found == {s \in thread[t].ids : stored[s].present}
             x == [s \in found |-> stored[s]]
             r == [thread[t] EXCEPT !.pc = AfterList(thread[t].op), !.ids = {}, !.snap = x]
  <2>1. thread' = [thread EXCEPT ![t] = r] /\ UNCHANGED binding
    BY <1>4, <1>a DEF ListValues, redisVars
  <2>2. thread[t].op = "Select" => AvailableIn(x, GroupMap) = Available
    <3>1. ASSUME thread[t].op = "Select" PROVE found = {s \in index : stored[s].present}
      BY <1>4, <3>1 DEF LookupInv, ListValues
    <3> QED BY <3>1 DEF AvailableIn, Available, CanHandleMap
  <2> HIDE DEF x
  <2>3. r.op = thread[t].op /\ r.pc = AfterList(thread[t].op) /\ r.snap = x
    BY <1>a DEF ThreadRecord
  <2>4. thread[t].op = "Select" => AfterList(thread[t].op) = "binding"
    BY DEF AfterList
  <2> HIDE DEF r
  <2>5. thread'[t] = r /\ \A u \in Handlers : u # t => thread'[u] = thread[u]
    BY <2>1, <1>1, <1>a
  <2> QED BY <2>1, <2>2, <2>3, <2>4, <2>5 DEF LookupInv, At
<1>5. ASSUME SelectBinding(t) PROVE LookupInv(t)' /\ (\A u \in Handlers : u # t => thread'[u] = thread[u]) /\ UNCHANGED binding
  <2>1. thread[t].op = "Select" /\ AvailableIn(thread[t].snap, GroupMap) = Available /\ UNCHANGED binding
    BY <1>a, <1>5 DEF WellFormed, ThreadRecord, SelectBinding, At, Ops, LookupInv, redisVars
  <2>2. CASE Return(t)
    BY <2>1, <2>2, <1>1, <1>a DEF Return, LookupInv, Idle
  <2>3. CASE binding \in Available /\ Answer(t, binding)
    <3> DEFINE r == [Idle EXCEPT !.op = "Select", !.pc = "answered", !.server = binding]
    <3>1. thread' = [thread EXCEPT ![t] = r] /\ r.pc = "answered" /\ r.server = binding
      BY <2>3 DEF Answer, Idle
    <3> HIDE DEF r
    <3> QED BY <2>1, <2>3, <3>1, <1>1, <1>a DEF LookupInv, At
  <2>4. CASE /\ binding \notin Available
             /\ \E least \in Available :
                  thread' = [thread EXCEPT ![t].pc = "bind", ![t].server = least, ![t].bound = binding]
    <3>1. PICK s \in Available :
               thread' = [thread EXCEPT ![t].pc = "bind", ![t].server = s, ![t].bound = binding]
      BY <2>4
    <3> DEFINE r == [thread[t] EXCEPT !.pc = "bind", !.server = s, !.bound = binding]
    <3>2. /\ thread' = [thread EXCEPT ![t] = r] /\ r.pc = "bind" /\ r.server = s /\ r.bound = binding
          /\ r.snap = thread[t].snap
      BY <3>1, <1>a DEF ThreadRecord
    <3> HIDE DEF r
    <3> QED BY <2>1, <2>4, <3>2, <1>1, <1>a DEF LookupInv, At
  <2> QED BY <1>5, <2>1, <2>2, <2>3, <2>4 DEF SelectBinding
<1>6. ASSUME SelectBind(t)
      PROVE  /\ LookupInv(t)' /\ \A u \in Handlers : u # t => thread'[u] = thread[u]
             /\ binding' = binding \/ binding \notin Available
  <2>1. /\ thread[t].op = "Select" /\ AvailableIn(thread[t].snap, GroupMap) = Available
        /\ thread[t].bound \notin Available /\ thread[t].server \in Available
    BY <1>a, <1>6 DEF WellFormed, ThreadRecord, SelectBind, At, Ops, LookupInv
  <2>2. binding' = Winner(t) /\ (binding' = binding \/ binding \notin Available)
    BY <2>1, <1>6 DEF SelectBind, Winner
  <2>3. CASE Return(t)
    BY <2>2, <2>3, <1>1, <1>a DEF Return, LookupInv, Idle
  <2>4. CASE Winner(t) \in Available /\ Answer(t, Winner(t))
    <3> DEFINE r == [Idle EXCEPT !.op = "Select", !.pc = "answered", !.server = Winner(t)]
    <3>1. thread' = [thread EXCEPT ![t] = r] /\ r.pc = "answered" /\ r.server = Winner(t)
      BY <2>4 DEF Answer, Idle
    <3> HIDE DEF r
    <3> QED BY <2>2, <2>4, <3>1, <1>1, <1>a DEF LookupInv, At
  <2> QED BY <1>6, <2>1, <2>3, <2>4 DEF SelectBind
<1> QED BY <1>2, <1>3, <1>4, <1>5, <1>6 DEF Lookup

\* So do all of them, and a binding to an available server is not changed:
\* compare-and-set finds that its stale value is gone.
LEMMA LookupsKnow ==
    ASSUME CoreOK, CoreOK', Step, ~Change, \A t \in Handlers : LookupInv(t)
    PROVE  /\ \A t \in Handlers : LookupInv(t)'
           /\ binding' = binding \/ binding \notin Available
<1>1. index' = index /\ Available' = Available /\ Handlers \subseteq Threads
  BY SameAvailable DEF Threads
<1>a. thread \in [Threads -> ThreadRecord] /\ \A t \in Threads : WellFormed(t, thread[t])
  BY DEF CoreOK, ThreadsOK
<1>2. CASE UNCHANGED <<thread, binding>>
  BY <1>1, <1>2, OtherLookups
<1>3. ASSUME NEW t \in Threads, NEW r, OtherCall(t, r)
      PROVE  /\ \A u \in Handlers : LookupInv(u)'
             /\ binding' = binding \/ binding \notin Available
  <2>1. thread'[t] = r /\ r.op # "Select" /\ \A u \in Threads : u # t => thread'[u] = thread[u]
    BY <1>3, <1>a DEF OtherCall
  <2>2. UNCHANGED binding
    <3>1. SUFFICES ASSUME At(t, "setBinding"), r = Idle PROVE FALSE
      BY <1>3 DEF OtherCall
    <3>2. t \in Handlers
      BY <3>1, <1>a DEF At, WellFormed, Threads
    <3> QED BY <3>1, <3>2, <2>1 DEF Change, Idle
  <2> QED BY <1>1, <2>1, <2>2, OtherLookups DEF LookupInv
<1>4. ASSUME NEW t \in Threads, Lookup(t)
      PROVE  /\ \A u \in Handlers : LookupInv(u)'
             /\ binding' = binding \/ binding \notin Available
  <2>1. CASE t \in Handlers
    BY <1>1, <1>4, <2>1, LookupKnows, OtherLookups
  <2>2. CASE t \notin Handlers
    <3>1. t = Checker /\ thread[t].op \in {"none", "Unhealthy"} /\ thread[t] \in ThreadRecord
      BY <2>2, <1>a DEF Threads, WellFormed
    <3>2. CASE Select(t)
      <4>1. UNCHANGED binding /\ \A u \in Threads : u # t => thread'[u] = thread[u]
        BY <3>2, <1>a DEF Select, Begin, redisVars
      <4> QED BY <4>1, <1>1, <2>2, OtherLookups
    <3>3. CASE ListMembers(t) \/ ListValues(t) \/ SelectBinding(t)
      <4>1. UNCHANGED binding /\ \A u \in Threads : u # t => thread'[u] = thread[u]
        BY <3>3, <1>a DEF ListMembers, ListValues, SelectBinding, Return, Answer, redisVars
      <4> QED BY <4>1, <1>1, <2>2, OtherLookups
    <3>4. CASE SelectBind(t)
      BY <3>1, <3>4, <1>a DEF WellFormed, SelectBind, At
    <3> QED BY <1>4, <3>2, <3>3, <3>4 DEF Lookup
  <2> QED BY <2>1, <2>2
<1>5. CASE thread' = [t \in Threads |-> Idle] /\ UNCHANGED binding
  BY <1>1, <1>5 DEF LookupInv, Idle
<1> QED BY <1>2, <1>3, <1>4, <1>5, StepIsOfOneCall

\* All answers since the last change are the binding.
LEMMA NextKeepsAnswers ==
    ASSUME TypeOK, TypeOK', AnswersInv, [Next]_vars
    PROVE  AnswersInv'
<1>1. CoreOK /\ CoreOK' /\ outdated \in BOOLEAN
  BY DEF TypeOK, CoreOK, RestOK, BoundsOK
<1>2. CASE UNCHANGED vars
  BY <1>2 DEF AnswersInv, LookupInv, At, Available, CanHandleMap, AvailableIn, vars, redisVars
<1>3. CASE Next /\ (Change \/ outdated)
  BY <1>1, <1>3, HistoryRestarts DEF Next
<1>4. CASE Next /\ ~Change /\ ~outdated
  <2>1. (\A t \in Handlers : LookupInv(t)') /\ (binding' = binding \/ binding \notin Available)
    BY <1>1, <1>4, LookupsKnow DEF Next, AnswersInv
  <2>2. Available' = Available
    BY <1>1, <1>4, SameAvailable
  <2>3. ~outdated' /\ answers' = answers \cup {thread'[t].server : t \in {u \in Handlers : thread'[u].pc = "answered"}}
    BY <1>4 DEF Next, Observe, ObserveAnswers, Change
  <2>4. answers \subseteq {binding'} /\ (answers # {} => binding' \in Available)
    BY <1>4, <2>1 DEF AnswersInv
  <2>5. \A t \in Handlers : thread'[t].pc = "answered" => thread'[t].server = binding' /\ binding' \in Available'
    <3>1. \A t \in Handlers : thread'[t].pc = "answered" => thread'[t].op = "Select"
      BY <1>1 DEF CoreOK, ThreadsOK, WellFormed, ThreadRecord, Ops, Threads
    <3> QED BY <2>1, <3>1 DEF LookupInv, At
  <2>6. answers' \subseteq {binding'} /\ (answers' # {} => binding' \in Available')
    BY <2>2, <2>3, <2>4, <2>5
  <2> QED BY <2>1, <2>3, <2>6 DEF AnswersInv
<1> QED BY <1>2, <1>3, <1>4

\* Members of a group are sent to one server as long as the servers that handle
\* its map stay the same, however many lookups and bindings run at once: SETNX
\* and compare-and-set let one of them win (layer.go, layers_redis.go).
THEOREM GroupsStayTogether == Spec => []GroupTogether
<1>1. Init => TypeOK /\ AnswersInv
  <2>1. Init => AnswersInv
    BY DEF Init, AnswersInv, LookupInv, Idle, Threads
  <2> QED BY <2>1, InitialTypes
<1>2. (TypeOK /\ AnswersInv) /\ [Next]_vars => (TypeOK /\ AnswersInv)'
  BY NextKeepsTypes, NextKeepsAnswers
<1>3. TypeOK /\ AnswersInv => GroupTogether
  <2> SUFFICES ASSUME TypeOK, AnswersInv PROVE GroupTogether
    OBVIOUS
  <2>1. answers \subseteq {binding}
    BY DEF AnswersInv, TypeOK, RestOK
  <2>2. answers = {} \/ answers = {binding}
    BY <2>1
  <2>3. Cardinality({}) = 0 /\ Cardinality({binding}) = 1
    BY FS_EmptySet, FS_Singleton
  <2> QED BY <2>2, <2>3 DEF GroupTogether
<1> QED BY <1>1, <1>2, <1>3, PTL DEF Spec
-----------------------------------------------------------------------------
(* Changes that do not overlap *)

\* The steps of a change, and how one begins.
ChangeStep(t) ==
    \/ MapsLoadedOne(t) \/ UpsertSet(t) \/ UpsertIndex(t) \/ RemoveIndex(t) \/ RemoveValue(t)
    \/ ListMembers(t) \/ ListValues(t) \/ Plan(t) \/ UpdateServer(t) \/ Publish(t) \/ LockRealm(t)

ChangeBegins ==
    \/ \E t \in Handlers : \E s \in Servers : Register(t, s)
    \/ \E t \in Handlers : \E s \in Servers : \E ms \in reports[s] : MapsLoaded(t, s, ms)
    \/ \E t \in Handlers : \E c \in Configs : UpdateConfiguration(t, c)
    \/ \E s \in Servers : HandleResult(s)

\* What the thread u does to servers stays as it is.
SameChange(u) == thread'[u] = thread[u] \/ (~Changing(u) /\ ~Changing(u)')

ChangesStay ==
    /\ \A u \in Threads : SameChange(u)
    /\ UNCHANGED <<stored, index, layerConfig, checked, status, loaded, inbox, reports>>

\* A step that leaves the state undisturbed concerns no change, begins the only
\* one, moves the only one on, is one of a worldserver, or restarts a registry
\* that changes nothing.
LEMMA UndisturbedSteps ==
    ASSUME CoreOK, Step, ~disturbed'
    PROVE  /\ ~disturbed
           /\ \/ ChangesStay
              \/ ChangeBegins /\ Quiet
              \/ \E t \in Threads : Changing(t) /\ ChangeStep(t)
              \/ \E s \in Servers : WorldReassigned(s) \/ WorldDies(s)
              \/ RegistryRestarts /\ Quiet
<1> DEFINE Goal == /\ ~disturbed
                   /\ \/ ChangesStay
                      \/ ChangeBegins /\ Quiet
                      \/ \E t \in Threads : Changing(t) /\ ChangeStep(t)
                      \/ \E s \in Servers : WorldReassigned(s) \/ WorldDies(s)
                      \/ RegistryRestarts /\ Quiet
<1>1. Handlers \subseteq Threads
  BY DEF Threads
<1>a. thread \in [Threads -> ThreadRecord] /\ \A t \in Threads : WellFormed(t, thread[t])
  BY DEF CoreOK, ThreadsOK
<1>b. ASSUME NEW t \in Threads, NEW r, thread' = [thread EXCEPT ![t] = r], ~Changing(t),
             r.op \notin {"Register", "MapsLoaded", "Unhealthy", "Update"}
      PROVE  \A u \in Threads : SameChange(u)
  BY <1>a, <1>b DEF SameChange, Changing
<1>r. ASSUME NEW t \in Threads, Return(t), ~Changing(t)
      PROVE  \A u \in Threads : SameChange(u)
  BY <1>b, <1>r DEF Return, Idle
<1>c. ASSUME NEW t \in Threads, NEW op, NEW pc, NEW s, NEW ms, BeginChange(t, op, pc, s, ms)
      PROVE  Quiet /\ ~disturbed
  BY <1>c DEF BeginChange, Quiet
<1>2. ASSUME ChangeBegins PROVE Goal
  <2>1. Quiet /\ ~disturbed
    BY <1>1, <1>2, <1>c DEF ChangeBegins, Register, MapsLoaded, UpdateConfiguration, HandleResult, Threads
  <2> QED BY <1>2, <2>1
<1>3. ASSUME NEW t \in Handlers, Select(t) \/ \E s \in Servers : BindGroup(t, s) PROVE Goal
  <2>1. PICK op \in {"Select", "BindGroup"}, pc \in Places, s \in Somebody : Begin(t, op, pc, s, {})
    BY <1>3 DEF Select, BindGroup, Places, Somebody
  <2>2. thread[t].op = "none"
    <3>1. thread[t].pc = "idle"
      BY <2>1 DEF Begin, At
    <3> QED BY <1>1, <1>a, <3>1 DEF WellFormed, ThreadRecord, Ops
  <2> DEFINE r == [Idle EXCEPT !.op = op, !.pc = pc, !.server = s, !.maps = {}]
  <2>3. thread' = [thread EXCEPT ![t] = r] /\ r.op = op
    BY <2>1 DEF Begin, Idle
  <2> HIDE DEF r
  <2>4. \A u \in Threads : SameChange(u)
    BY <1>1, <1>b, <2>1, <2>2, <2>3 DEF Changing
  <2>5. UNCHANGED <<stored, index, layerConfig, checked, status, loaded, inbox, reports, disturbed>>
    BY <1>3 DEF Select, BindGroup, redisVars, worldVars
  <2> QED BY <2>4, <2>5 DEF ChangesStay
<1>4. ASSUME NEW t \in Threads, RepoStep(t) PROVE Goal
  <2>1. UNCHANGED disturbed
    BY <1>4 DEF RepoStep, MapsLoadedOne, UpsertSet, UpsertIndex, RemoveIndex, RemoveValue, ListMembers, ListValues,
                Plan, UpdateServer, Publish, LockRealm, SelectBinding, SelectBind, SelectReturn, SetGroupBinding
  <2>2. CASE Changing(t) /\ ChangeStep(t)
    BY <2>1, <2>2
  <2>3. CASE ~Changing(t) /\ (ListMembers(t) \/ ListValues(t))
    <3>1. PICK r \in ThreadRecord : thread' = [thread EXCEPT ![t] = r] /\ r.op = thread[t].op
      <4>1. CASE ListMembers(t)
        <5> DEFINE r == [thread[t] EXCEPT !.pc = "values", !.ids = index]
        <5>1. thread' = [thread EXCEPT ![t] = r] /\ r.op = thread[t].op
          BY <1>a, <4>1 DEF ListMembers, ThreadRecord
        <5>2. r \in ThreadRecord
          BY <1>a DEF ThreadRecord, Places, CoreOK, RedisOK
        <5> QED BY <5>1, <5>2
      <4>2. CASE ListValues(t)
        <5> DEFINE r == [thread[t] EXCEPT !.pc = AfterList(thread[t].op), !.ids = {},
                            !.snap = [s \in {s \in thread[t].ids : stored[s].present} |-> stored[s]]]
        <5>1. thread' = [thread EXCEPT ![t] = r] /\ r.op = thread[t].op
          BY <1>a, <4>2 DEF ListValues, ThreadRecord
        <5>2. CoreOK'
          BY <4>2, ServersAreListed
        <5> HIDE DEF r
        <5>3. r \in ThreadRecord
          BY <1>a, <5>1, <5>2 DEF CoreOK, ThreadsOK
        <5> QED BY <5>1, <5>3
      <4> QED BY <2>3, <4>1, <4>2
    <3>2. \A u \in Threads : SameChange(u)
      BY <1>b, <2>3, <3>1 DEF Changing
    <3> QED BY <2>1, <2>3, <3>2 DEF ChangesStay, ListMembers, ListValues, redisVars, worldVars
  <2>4. CASE ~Changing(t) /\ ChangeStep(t) /\ ~ListMembers(t) /\ ~ListValues(t)
    <3>1. thread[t].pc \in {"one", "set", "index", "remove", "delete", "config", "update", "lock"}
      BY <2>4 DEF ChangeStep, MapsLoadedOne, UpsertSet, UpsertIndex, RemoveIndex, RemoveValue, Plan, UpdateServer,
                  Publish, LockRealm, At
    <3> QED BY <1>a, <2>4, <3>1 DEF WellFormed, ThreadRecord, Ops, Changing
  <2>5. CASE SelectBinding(t) \/ SelectBind(t) \/ SelectReturn(t) \/ SetGroupBinding(t)
    <3>1. thread[t].op \in {"Select", "BindGroup"} /\ ~Changing(t)
      BY <1>a, <2>5 DEF SelectBinding, SelectBind, SelectReturn, SetGroupBinding, At, WellFormed, ThreadRecord, Ops, Changing
    <3>2. \A u \in Threads : SameChange(u)
      <4>1. CASE Return(t)
        BY <1>r, <3>1, <4>1
      <4>2. ASSUME NEW s, Answer(t, s) PROVE \A u \in Threads : SameChange(u)
        BY <1>b, <3>1, <4>2 DEF Answer, Idle
      <4>3. CASE \E s : thread' = [thread EXCEPT ![t].pc = "bind", ![t].server = s, ![t].bound = binding]
        <5>1. PICK s : thread' = [thread EXCEPT ![t].pc = "bind", ![t].server = s, ![t].bound = binding]
          BY <4>3
        <5> DEFINE r == [thread[t] EXCEPT !.pc = "bind", !.server = s, !.bound = binding]
        <5>2. thread' = [thread EXCEPT ![t] = r] /\ r.op = thread[t].op
          BY <1>a, <5>1 DEF ThreadRecord
        <5> HIDE DEF r
        <5> QED BY <1>b, <3>1, <5>2
      <4> QED BY <2>5, <4>1, <4>2, <4>3 DEF SelectBinding, SelectBind, SelectReturn, SetGroupBinding
    <3> QED BY <2>1, <2>5, <3>2
            DEF ChangesStay, SelectBinding, SelectBind, SelectReturn, SetGroupBinding, redisVars, worldVars
  <2> QED BY <1>4, <2>2, <2>3, <2>4, <2>5 DEF RepoStep, ChangeStep
<1>5. ASSUME NEW t \in Threads, RedisError(t) PROVE Goal
  <2>1. ~Changing(t) /\ ~disturbed
    BY <1>5 DEF RedisError
  <2>2. \A u \in Threads : SameChange(u)
    BY <1>5, <1>r, <2>1 DEF RedisError
  <2>3. thread[t].pc # "index" /\ thread[t].op # "Register"
    BY <1>a, <2>1 DEF WellFormed, ThreadRecord, Ops, Changing
  <2>4. UNCHANGED <<stored, index, layerConfig, checked, loaded, inbox, reports>>
    BY <1>5, <2>3 DEF RedisError, At
  <2>5. UNCHANGED status
    BY <1>5, <2>3 DEF RedisError, GiveUp, CoreOK, WorldOK
  <2> QED BY <2>1, <2>2, <2>4, <2>5 DEF ChangesStay
<1>6. ASSUME NEW s \in Servers, CheckFails(s) PROVE Goal
  BY <1>6 DEF CheckFails, ChangesStay, SameChange, redisVars, worldVars
<1>7. ASSUME LockExpires PROVE Goal
  BY <1>7 DEF LockExpires, ChangesStay, SameChange, worldVars
<1>8. ASSUME NEW s \in Servers, WorldReassigned(s) \/ WorldDies(s) PROVE Goal
  <2>1. ~disturbed
    BY <1>8 DEF WorldReassigned, WorldDies
  <2> QED BY <1>8, <2>1
<1>9. ASSUME RegistryRestarts PROVE Goal
  <2>1. Quiet /\ ~disturbed
    BY <1>9 DEF RegistryRestarts, Quiet
  <2> QED BY <1>9, <2>1
<1> HIDE DEF Goal
<1>10. Goal
  BY <1>2, <1>3, <1>4, <1>5, <1>6, <1>7, <1>8, <1>9 DEF Step, ChangeBegins
<1> QED BY <1>10 DEF Goal

\* How a change moves on.
LEMMA ChangeMoves ==
    ASSUME CoreOK, NEW t \in Threads, ChangeStep(t)
    PROVE  /\ \A u \in Threads : u # t => thread'[u] = thread[u]
           /\ \/ thread'[t] = Idle
              \/ /\ thread'[t].op = thread[t].op /\ thread'[t].server = thread[t].server
                 /\ thread'[t].maps = thread[t].maps
<1> DEFINE Goal == /\ \A u \in Threads : u # t => thread'[u] = thread[u]
                   /\ \/ thread'[t] = Idle
                      \/ /\ thread'[t].op = thread[t].op /\ thread'[t].server = thread[t].server
                         /\ thread'[t].maps = thread[t].maps
<1>a. thread \in [Threads -> ThreadRecord] /\ thread[t] \in ThreadRecord
  BY DEF CoreOK, ThreadsOK
<1>r. ASSUME Return(t) PROVE Goal
  BY <1>a, <1>r DEF Return
<1>g. ASSUME NEW pc, Goto(t, pc) PROVE Goal
  BY <1>a, <1>g DEF Goto, ThreadRecord
<1>1. CASE MapsLoadedOne(t)
  BY <1>a, <1>1, <1>r DEF MapsLoadedOne, ThreadRecord
<1>2. CASE UpsertSet(t) \/ UpsertIndex(t) \/ RemoveIndex(t) \/ RemoveValue(t) \/ Publish(t) \/ LockRealm(t)
  BY <1>2, <1>r, <1>g DEF UpsertSet, UpsertIndex, RemoveIndex, RemoveValue, Publish, LockRealm
<1>3. CASE ListMembers(t)
  BY <1>a, <1>3 DEF ListMembers, ThreadRecord
<1>4. CASE ListValues(t)
  <2> DEFINE x == [s \in {s \in thread[t].ids : stored[s].present} |-> stored[s]]
  <2>1. thread' = [thread EXCEPT ![t].pc = AfterList(thread[t].op), ![t].ids = {}, ![t].snap = x]
    BY <1>4 DEF ListValues
  <2> HIDE DEF x
  <2> QED BY <1>a, <2>1 DEF ThreadRecord
<1>5. CASE Plan(t)
  <2>1. PICK p : thread' = [thread EXCEPT ![t].pc = "update", ![t].plan = p, ![t].todo = DOMAIN p]
    BY <1>5 DEF Plan
  <2> QED BY <1>a, <2>1 DEF ThreadRecord
<1>6. CASE UpdateServer(t)
  <2>1. CASE \E s : thread' = [thread EXCEPT ![t].todo = @ \ {s}]
    BY <1>a, <2>1 DEF ThreadRecord
  <2> QED BY <1>6, <1>r, <2>1 DEF UpdateServer
<1> QED BY <1>1, <1>2, <1>3, <1>4, <1>5, <1>6 DEF ChangeStep

\* The change that moves on is the only one.
LEMMA Sole ==
    ASSUME CoreOK, Alone, NEW t \in Threads, Changing(t), ChangeStep(t)
    PROVE  \A u \in Threads : u # t => thread'[u] = thread[u] /\ ~Changing(u) /\ ~Changing(u)'
BY ChangeMoves DEF Alone, Changing

-----------------------------------------------------------------------------
(* Listed servers are watched *)

\* What has to be shown when t alone may be changing servers.
LEMMA WatchBySole ==
    ASSUME NEW t \in Threads, \A u \in Threads : u # t => ~Changing(u)',
           \A s \in Servers : stored'[s].present => Watched(s)' /\ (s \in index' \/ HalfListed(s)'),
           KeepsWatched(t)'
    PROVE  WatchInv'
BY DEF WatchInv, Alone, KeepsWatched, Changing

\* Steps of other calls.
LEMMA WatchStays ==
    ASSUME WatchInv, ChangesStay
    PROVE  WatchInv'
<1>1. Checker \in Threads
  BY DEF Threads
<1>2. Alone'
  BY DEF WatchInv, Alone, ChangesStay, SameChange, Changing
<1>3. \A s \in Servers : Watched(s) => Watched(s)'
  BY <1>1 DEF Watched, Removing, ChangesStay, SameChange, Changing
<1>4. \A s \in Servers : HalfListed(s) => HalfListed(s)'
  BY <1>1 DEF HalfListed, ChangesStay, SameChange, Changing, At
<1>5. \A t \in Threads : KeepsWatched(t)'
  BY DEF WatchInv, KeepsWatched, ChangesStay, SameChange, Changing
<1> QED BY <1>2, <1>3, <1>4, <1>5 DEF WatchInv, ChangesStay

\* When nothing changes, every stored server is in the index and is checked.
LEMMA QuietlyWatched ==
    ASSUME WatchInv, Quiet
    PROVE  \A s \in Servers : stored[s].present => s \in checked /\ s \in index
BY DEF WatchInv, Quiet, Watched, Removing, HalfListed, Changing, Threads

\* A change begins at t when no other one runs.
LEMMA Opens ==
    ASSUME CoreOK, Quiet, NEW t \in Threads, NEW op, NEW pc, NEW s, NEW ms, Begin(t, op, pc, s, ms)
    PROVE  /\ \A u \in Threads : u # t => thread'[u] = thread[u] /\ ~Changing(u)'
           /\ thread'[t].op = op /\ thread'[t].pc = pc /\ thread'[t].server = s /\ thread'[t].maps = ms
           /\ thread'[t].snap = <<>> /\ thread'[t].plan = <<>>
<1> DEFINE r == [Idle EXCEPT !.op = op, !.pc = pc, !.server = s, !.maps = ms]
<1>1. thread' = [thread EXCEPT ![t] = r]
  BY DEF Begin
<1>2. r.op = op /\ r.pc = pc /\ r.server = s /\ r.maps = ms /\ r.snap = <<>> /\ r.plan = <<>>
  BY DEF Idle
<1> HIDE DEF r
<1>3. thread'[t] = r /\ \A u \in Threads : u # t => thread'[u] = thread[u]
  BY <1>1 DEF CoreOK, ThreadsOK
<1> QED BY <1>2, <1>3 DEF Quiet, Changing

\* A server that registers is checked from the start; one that is unhealthy is
\* forgotten by the checker, which goes on to remove it.
LEMMA WatchBegins ==
    ASSUME CoreOK, WatchInv, Quiet, ChangeBegins
    PROVE  WatchInv'
<1>1. Handlers \subseteq Threads /\ Checker \in Threads /\ Checker \notin Handlers
  BY NobodyAssumption DEF Threads
<1>a. \A s \in Servers : stored[s].present => s \in checked /\ s \in index
  BY QuietlyWatched
<1>2. ASSUME NEW t \in Handlers, NEW s \in Servers, Register(t, s) PROVE WatchInv'
  <2>1. Begin(t, "Register", "set", s, {}) /\ UNCHANGED <<stored, index>> /\ checked' = checked \cup {s}
    BY <1>2 DEF Register, BeginChange, redisVars
  <2>2. \A u \in Threads : u # t => ~Changing(u)'
    BY <1>1, <2>1, Opens
  <2>3. thread'[t].op = "Register" /\ thread'[t].server = s
    BY <1>1, <2>1, Opens
  <2>4. KeepsWatched(t)'
    BY <2>1, <2>3 DEF KeepsWatched
  <2> QED BY <1>1, <1>a, <2>1, <2>2, <2>4, WatchBySole DEF Watched
<1>3. ASSUME NEW t \in Handlers, NEW s \in Servers, NEW ms \in reports[s], MapsLoaded(t, s, ms) PROVE WatchInv'
  <2>1. Begin(t, "MapsLoaded", "one", s, ms) /\ UNCHANGED <<stored, index, checked>>
    BY <1>3 DEF MapsLoaded, BeginChange, redisVars
  <2>2. \A u \in Threads : u # t => ~Changing(u)'
    BY <1>1, <2>1, Opens
  <2>3. thread'[t].op = "MapsLoaded" /\ thread'[t].pc = "one"
    BY <1>1, <2>1, Opens
  <2>4. KeepsWatched(t)'
    BY <2>3 DEF KeepsWatched
  <2> QED BY <1>1, <1>a, <2>1, <2>2, <2>4, WatchBySole DEF Watched
<1>4. ASSUME NEW t \in Handlers, NEW c \in Configs, UpdateConfiguration(t, c) PROVE WatchInv'
  <2>1. Begin(t, "Update", "lock", NoServer, {}) /\ UNCHANGED <<stored, index, checked>>
    BY <1>4 DEF UpdateConfiguration, BeginChange
  <2>2. \A u \in Threads : u # t => ~Changing(u)'
    BY <1>1, <2>1, Opens
  <2>3. thread'[t].op = "Update"
    BY <1>1, <2>1, Opens
  <2>4. KeepsWatched(t)'
    BY <2>3 DEF KeepsWatched
  <2> QED BY <1>1, <1>a, <2>1, <2>2, <2>4, WatchBySole DEF Watched
<1>5. ASSUME NEW s \in Servers, HandleResult(s) PROVE WatchInv'
  <2>1. Begin(Checker, "Unhealthy", "remove", s, {}) /\ UNCHANGED <<stored, index>> /\ checked' = checked \ {s}
    BY <1>5 DEF HandleResult, BeginChange, redisVars
  <2>2. \A u \in Threads : u # Checker => ~Changing(u)'
    BY <1>1, <2>1, Opens
  <2>3. thread'[Checker].op = "Unhealthy" /\ thread'[Checker].pc = "remove" /\ thread'[Checker].server = s
    BY <1>1, <2>1, Opens
  <2>4. KeepsWatched(Checker)'
    BY <2>3 DEF KeepsWatched
  <2>5. \A x \in Servers : stored'[x].present => Watched(x)' /\ x \in index'
    BY <1>a, <2>1, <2>3 DEF Watched, Removing
  <2> QED BY <1>1, <2>2, <2>4, <2>5, WatchBySole
<1> QED BY <1>2, <1>3, <1>4, <1>5 DEF ChangeBegins

\* Upsert writes a checked server, and Remove deletes the value before the
\* checker turns to the distribution.
LEMMA WatchGoesOn ==
    ASSUME CoreOK, WatchInv, NEW t \in Threads, Changing(t), ChangeStep(t)
    PROVE  WatchInv'
<1>1. Checker \in Threads
  BY DEF Threads
<1>a. /\ thread \in [Threads -> ThreadRecord] /\ thread[t] \in ThreadRecord /\ WellFormed(t, thread[t])
      /\ stored \in [Servers -> ServerRecord]
  BY DEF CoreOK, ThreadsOK, RedisOK
<1>b. \A u \in Threads : u # t => thread'[u] = thread[u] /\ ~Changing(u) /\ ~Changing(u)'
  BY Sole DEF WatchInv
<1>c. \/ thread'[t] = Idle
      \/ thread'[t].op = thread[t].op /\ thread'[t].server = thread[t].server
  BY ChangeMoves
<1>d. \A s \in Servers : stored[s].present => Watched(s) /\ (s \in index \/ HalfListed(s))
  BY DEF WatchInv
<1>e. KeepsWatched(t) /\ Idle.op = "none"
  BY DEF WatchInv, Idle
<1>f. \A s : HalfListed(s) => thread[t].server = s /\ thread[t].pc \in {"delete", "index"}
  BY <1>1, <1>b DEF HalfListed, Changing, At
<1>g. \A s : Removing(s) => t = Checker /\ thread[t].server = s /\ thread[t].pc \in {"remove", "delete"}
  BY <1>1, <1>b DEF Removing, Changing
<1>2. CASE UpsertSet(t)
  <2>1. /\ thread[t].op \in {"Register", "MapsLoaded"} /\ thread[t].server \in Servers /\ t # Checker
        /\ thread[t].pc = "set" /\ UNCHANGED <<index, checked>>
    BY <1>a, <1>2 DEF UpsertSet, At, WellFormed, ThreadRecord, Ops
  <2>2. \A s \in Servers : s # thread[t].server => stored'[s] = stored[s]
    BY <1>a, <1>2 DEF UpsertSet
  <2>3. thread'[t].pc = "index" /\ thread'[t].op = thread[t].op /\ thread'[t].server = thread[t].server
    BY <1>a, <1>2 DEF UpsertSet, Goto, ThreadRecord
  <2>4. stored'[thread[t].server].present
    <3>1. CASE thread[t].op = "Register"
      BY <1>a, <1>2, <2>1, <3>1 DEF UpsertSet, NoRecord
    <3>2. CASE thread[t].op = "MapsLoaded"
      <4>1. thread[t].snap[thread[t].server] \in ServerRecord /\ thread[t].snap[thread[t].server].present
        BY <1>a, <2>1, <3>2 DEF WellFormed, ThreadRecord, Snapshots
      <4>2. stored'[thread[t].server] = [thread[t].snap[thread[t].server] EXCEPT !.pending = @ \ thread[t].maps]
        BY <1>a, <1>2, <2>1, <3>2 DEF UpsertSet
      <4> QED BY <4>1, <4>2 DEF ServerRecord
    <3> QED BY <2>1, <3>1, <3>2
  <2>5. Watched(thread[t].server)
    BY <1>d, <1>e, <2>1 DEF KeepsWatched, Watched
  <2>6. \A s : Watched(s) => Watched(s)'
    BY <1>1, <1>b, <2>1 DEF Watched, Removing
  <2>7. \A s : s = thread[t].server => HalfListed(s)'
    BY <2>1, <2>3 DEF HalfListed, At
  <2>8. KeepsWatched(t)'
    BY <1>e, <2>1, <2>3, <2>4 DEF KeepsWatched
  <2>9. ASSUME NEW s \in Servers, stored'[s].present PROVE Watched(s)' /\ (s \in index' \/ HalfListed(s)')
    <3>1. CASE s = thread[t].server
      BY <2>5, <2>6, <2>7, <3>1
    <3>2. CASE s # thread[t].server
      BY <1>d, <1>f, <2>1, <2>2, <2>6, <2>9, <3>2
    <3> QED BY <3>1, <3>2
  <2> QED BY <1>b, <2>8, <2>9, WatchBySole
<1>3. CASE UpsertIndex(t)
  <2>1. /\ thread[t].op \in {"Register", "MapsLoaded"} /\ t # Checker
        /\ UNCHANGED <<stored, checked>> /\ index' = index \cup {thread[t].server}
    BY <1>a, <1>3 DEF UpsertIndex, At, WellFormed, ThreadRecord, Ops
  <2>2. \A s : Watched(s) => Watched(s)'
    BY <1>1, <1>b, <2>1 DEF Watched, Removing
  <2>3. KeepsWatched(t)'
    BY <1>c, <1>e, <1>3, <2>1 DEF KeepsWatched, UpsertIndex, Return, At
  <2> QED BY <1>b, <1>d, <1>f, <2>1, <2>2, <2>3, WatchBySole
<1>4. CASE RemoveIndex(t)
  <2>1. /\ thread[t].op = "Unhealthy" /\ t = Checker /\ thread[t].pc = "remove"
        /\ UNCHANGED <<stored, checked>>
    BY <1>a, <1>4 DEF RemoveIndex, At, WellFormed, ThreadRecord, Ops
  <2>2. KeepsWatched(t)'
    BY <1>c, <1>e, <2>1 DEF KeepsWatched
  <2>3. CASE stored[thread[t].server].present
    <3>1. /\ index' = index \ {thread[t].server}
          /\ thread'[t].op = "Unhealthy" /\ thread'[t].pc = "delete" /\ thread'[t].server = thread[t].server
      BY <1>a, <1>4, <2>1, <2>3 DEF RemoveIndex, Goto, ThreadRecord
    <3>2. \A s : Watched(s) => Watched(s)'
      BY <1>g, <2>1, <3>1 DEF Watched, Removing
    <3>3. \A s : s = thread[t].server => HalfListed(s)'
      BY <2>1, <3>1 DEF HalfListed, At
    <3> QED BY <1>b, <1>d, <1>f, <2>1, <2>2, <3>1, <3>2, <3>3, WatchBySole
  <2>4. CASE ~stored[thread[t].server].present
    <3>1. UNCHANGED index
      BY <1>4, <2>4 DEF RemoveIndex
    <3>2. \A s \in Servers : stored[s].present => s \in checked
      BY <1>d, <1>g, <2>4 DEF Watched
    <3> QED BY <1>b, <1>d, <1>f, <2>1, <2>2, <3>1, <3>2, WatchBySole DEF Watched
  <2> QED BY <2>3, <2>4
<1>5. CASE RemoveValue(t)
  <2>1. /\ thread[t].op = "Unhealthy" /\ t = Checker /\ thread[t].pc = "delete" /\ thread[t].server \in Servers
        /\ UNCHANGED <<index, checked>>
    BY <1>a, <1>5 DEF RemoveValue, At, WellFormed, ThreadRecord, Ops
  <2>2. KeepsWatched(t)'
    BY <1>c, <1>e, <2>1 DEF KeepsWatched
  <2>3. ~stored'[thread[t].server].present /\ \A s \in Servers : s # thread[t].server => stored'[s] = stored[s]
    BY <1>a, <1>5, <2>1 DEF RemoveValue, NoRecord
  <2> QED BY <1>b, <1>d, <1>f, <1>g, <2>1, <2>2, <2>3, WatchBySole DEF Watched
<1>6. CASE MapsLoadedOne(t) \/ ListMembers(t) \/ ListValues(t) \/ Plan(t) \/ UpdateServer(t) \/ Publish(t) \/ LockRealm(t)
  <2>1. thread[t].pc \notin {"remove", "delete", "index", "set"} /\ UNCHANGED <<index, checked>>
    BY <1>6 DEF MapsLoadedOne, ListMembers, ListValues, Plan, UpdateServer, Publish, LockRealm, At, redisVars
  <2>2. \A s \in Servers : stored'[s].present = stored[s].present
    <3>1. CASE UpdateServer(t)
      <4>1. CASE UNCHANGED stored
        BY <4>1
      <4>2. CASE \E s \in Servers : stored[s].present /\ stored' = [stored EXCEPT ![s] = Updated(t, s)]
        <5>1. PICK s \in Servers : stored[s].present /\ stored' = [stored EXCEPT ![s] = Updated(t, s)]
          BY <4>2
        <5>2. stored'[s].present = TRUE /\ stored[s].present = TRUE
          BY <1>a, <5>1 DEF Updated, ServerRecord
        <5>3. \A x \in Servers : x # s => stored'[x] = stored[x]
          BY <1>a, <5>1
        <5> QED BY <5>2, <5>3
      <4>3. thread[t].todo \subseteq Servers
        BY <1>a DEF ThreadRecord
      <4> QED BY <3>1, <4>1, <4>2, <4>3 DEF UpdateServer
    <3>2. CASE ~UpdateServer(t)
      BY <1>6, <3>2 DEF MapsLoadedOne, ListMembers, ListValues, Plan, Publish, LockRealm, redisVars
    <3> QED BY <3>1, <3>2
  <2>3. \A s \in Servers : stored'[s].present => s \in checked /\ s \in index
    BY <1>d, <1>f, <1>g, <2>1, <2>2 DEF Watched
  <2>4. KeepsWatched(t)'
    <3>1. CASE MapsLoadedOne(t)
      <4>1. thread[t].op = "MapsLoaded"
        BY <1>a, <3>1 DEF MapsLoadedOne, At, WellFormed, ThreadRecord, Ops
      <4>2. thread'[t] = Idle \/ stored'[thread[t].server].present
        BY <1>a, <3>1 DEF MapsLoadedOne, Return, redisVars
      <4> QED BY <1>c, <1>e, <4>1, <4>2 DEF KeepsWatched
    <3>2. CASE ~MapsLoadedOne(t)
      <4>1. thread[t].op # "MapsLoaded"
        BY <1>a, <1>6, <3>2 DEF ListMembers, ListValues, Plan, UpdateServer, Publish, LockRealm, At, WellFormed
      <4> QED BY <1>c, <1>e, <2>1, <4>1 DEF KeepsWatched
    <3> QED BY <3>1, <3>2
  <2> QED BY <1>b, <2>1, <2>3, <2>4, WatchBySole DEF Watched
<1> QED BY <1>2, <1>3, <1>4, <1>5, <1>6 DEF ChangeStep

\* After a restart the checker watches the servers it finds listed: all that
\* are stored.
LEMMA StepKeepsWatch ==
    ASSUME CoreOK, Step, ~disturbed', ~disturbed => WatchInv
    PROVE  WatchInv'
<1>1. WatchInv /\ Checker \in Threads
  BY UndisturbedSteps DEF Threads
<1>2. CASE ChangesStay
  BY <1>1, <1>2, WatchStays
<1>3. CASE ChangeBegins /\ Quiet
  BY <1>1, <1>3, WatchBegins
<1>4. ASSUME NEW t \in Threads, Changing(t), ChangeStep(t) PROVE WatchInv'
  BY <1>1, <1>4, WatchGoesOn
<1>5. ASSUME NEW s \in Servers, WorldReassigned(s) \/ WorldDies(s) PROVE WatchInv'
  <2>1. UNCHANGED <<stored, index, checked, thread>>
    BY <1>5 DEF WorldReassigned, WorldDies, redisVars
  <2> QED BY <1>1, <2>1 DEF WatchInv, Alone, Watched, Removing, HalfListed, KeepsWatched, Changing, At
<1>6. CASE RegistryRestarts /\ Quiet
  <2>1. \A t \in Threads : thread'[t] = Idle /\ ~Changing(t)'
    BY <1>6 DEF RegistryRestarts, Changing, Idle
  <2>2. UNCHANGED <<stored, index>> /\ checked' = Listed
    BY <1>6 DEF RegistryRestarts, redisVars
  <2>3. \A s \in Servers : stored'[s].present => s \in index' /\ s \in checked'
    BY <1>1, <1>6, <2>2, QuietlyWatched DEF Listed
  <2>4. KeepsWatched(Checker)'
    BY <1>1, <2>1 DEF KeepsWatched, Idle
  <2> QED BY <1>1, <2>1, <2>3, <2>4, WatchBySole DEF Watched
<1> QED BY <1>2, <1>3, <1>4, <1>5, <1>6, UndisturbedSteps

\* The invariant.
WatchedUnlessDisturbed == ~disturbed => WatchInv

\* The invariant is kept.
LEMMA NextKeepsWatch ==
    ASSUME TypeOK, WatchedUnlessDisturbed, [Next]_vars
    PROVE  WatchedUnlessDisturbed'
<1>1. CoreOK
  BY DEF TypeOK, CoreOK, RestOK, BoundsOK
<1>2. CASE UNCHANGED vars
  <2>1. UNCHANGED <<stored, index, checked, thread, disturbed>>
    BY <1>2 DEF vars, redisVars
  <2> QED BY <2>1 DEF WatchedUnlessDisturbed, WatchInv, Alone, Watched, Removing, HalfListed, KeepsWatched, Changing, At
<1>3. CASE Next
  BY <1>1, <1>3, StepKeepsWatch DEF Next, WatchedUnlessDisturbed
<1> QED BY <1>2, <1>3

\* It holds at first.
LEMMA InitialWatch ==
    ASSUME Init
    PROVE  WatchedUnlessDisturbed
<1>1. \A t \in Threads : thread[t] = Idle /\ ~Changing(t)
  BY DEF Init, Idle, Changing
<1>2. Alone /\ \A t \in Threads : KeepsWatched(t)
  BY <1>1 DEF Alone, KeepsWatched, Idle
<1>3. \A s \in Servers : stored[s].present => s \in index /\ s \in checked
  BY DEF Init, NoRecord
<1> QED BY <1>2, <1>3 DEF WatchedUnlessDisturbed, WatchInv, Watched

\* As long as changes do not overlap and Redis answers, every listed server is
\* watched by the health checker or about to be removed by it, also after a
\* restart of the registry (RegisterServer, onServerUnhealthy and NewGameServer
\* in game-server.go).
THEOREM ListedAreWatched == Spec => []ListedAreChecked
<1>1. Init => TypeOK /\ WatchedUnlessDisturbed
  BY InitialTypes, InitialWatch
<1>2. (TypeOK /\ WatchedUnlessDisturbed) /\ [Next]_vars => (TypeOK /\ WatchedUnlessDisturbed)'
  BY NextKeepsTypes, NextKeepsWatch
<1>3. TypeOK /\ WatchedUnlessDisturbed => ListedAreChecked
  BY DEF TypeOK, RedisOK, WatchedUnlessDisturbed, WatchInv, ListedAreChecked, Listed, Watched, Removing
<1> QED BY <1>1, <1>2, <1>3, PTL DEF Spec
-----------------------------------------------------------------------------
(* Events lead worldservers to what the registry assigned *)

\* Without events nothing changes.
LEMMA NothingWaits ==
    ASSUME NEW x \in SUBSET Maps, NEW y
    PROVE  /\ Leads(<<>>, x, x)
           /\ Leads(<<>>, x, y) => x = y
           /\ \A m : ~GainedIn(<<>>, m)
<1>1. Len(<<>>) = 0 /\ 1..0 = {} /\ 0 + 1 = 1
  OBVIOUS
<1>2. Leads(<<>>, x, x)
  <2> DEFINE h == [i \in 1..1 |-> x]
  <2>1. h \in [1..Len(<<>>) + 1 -> SUBSET Maps] /\ h[1] = x /\ h[Len(<<>>) + 1] = x
    BY <1>1
  <2> HIDE DEF h
  <2> QED BY <1>1, <2>1 DEF Leads
<1>3. Leads(<<>>, x, y) => x = y
  BY <1>1 DEF Leads
<1> QED BY <1>1, <1>2, <1>3 DEF GainedIn

\* Handling the first event leaves a shorter way to the same maps.
LEMMA FirstIsHandled ==
    ASSUME NEW q \in Seq(Reassignment), q # <<>>, NEW x \in SUBSET Maps, NEW y, Leads(q, x, y)
    PROVE  /\ Leads(Tail(q), (x \ Head(q).removed) \cup Head(q).new, y)
           /\ \A m : GainedIn(q, m) => GainedIn(Tail(q), m) \/ m \in Head(q).new
<1>1. PICK n \in Nat : n = Len(q)
  OBVIOUS
<1>2. /\ n > 0 /\ Head(q) = q[1] /\ Tail(q) \in Seq(Reassignment) /\ Len(Tail(q)) = n - 1
      /\ \A i \in 1..(n - 1) : Tail(q)[i] = q[i + 1]
  BY <1>1, EmptySeq, LenProperties, HeadTailProperties
<1>3. PICK h \in [1..n + 1 -> SUBSET Maps] :
         h[1] = x /\ h[n + 1] = y /\ \A i \in 1..n : h[i+1] = (h[i] \ q[i].removed) \cup q[i].new
  BY <1>1 DEF Leads
<1> DEFINE g == [i \in 1..n |-> h[i + 1]]
<1>4. g \in [1..(n - 1) + 1 -> SUBSET Maps]
  BY <1>2
<1>5. g[1] = (x \ q[1].removed) \cup q[1].new /\ g[(n - 1) + 1] = y
  BY <1>2, <1>3
<1>6. ASSUME NEW i \in 1..(n - 1)
      PROVE  g[i + 1] = (g[i] \ Tail(q)[i].removed) \cup Tail(q)[i].new
  <2>1. i + 1 \in 1..n /\ g[i + 1] = h[(i + 1) + 1] /\ g[i] = h[i + 1] /\ Tail(q)[i] = q[i + 1]
    BY <1>2
  <2> HIDE DEF g
  <2> QED BY <1>3, <2>1
<1> HIDE DEF g
<1>7. Leads(Tail(q), (x \ Head(q).removed) \cup Head(q).new, y)
  BY <1>2, <1>4, <1>5, <1>6 DEF Leads
<1>8. ASSUME NEW m, GainedIn(q, m) PROVE GainedIn(Tail(q), m) \/ m \in Head(q).new
  <2>1. PICK i \in 1..n : m \in q[i].new
    BY <1>1, <1>8 DEF GainedIn
  <2>2. CASE i = 1
    BY <1>2, <2>1, <2>2
  <2>3. CASE i # 1
    <3>1. i - 1 \in 1..(n - 1) /\ Tail(q)[i - 1] = q[i]
      BY <1>2, <2>3
    <3> QED BY <1>2, <2>1, <3>1 DEF GainedIn
  <2> QED BY <2>2, <2>3
<1> QED BY <1>7, <1>8

\* One more event, with the difference of two assignments, leads to the new
\* one.
LEMMA OneMoreEvent ==
    ASSUME NEW q \in Seq(Reassignment), NEW x, NEW y \in SUBSET Maps, NEW z \in SUBSET Maps, Leads(q, x, y),
           NEW e \in Reassignment, e = [new |-> OnlyNewMaps(y, z), removed |-> OnlyRemovedMaps(y, z)]
    PROVE  /\ Leads(q \o <<e>>, x, z)
           /\ \A m : GainedIn(q, m) \/ m \in z \ y => GainedIn(q \o <<e>>, m)
<1>1. PICK n \in Nat : n = Len(q)
  OBVIOUS
<1> DEFINE p == q \o <<e>>
<1>2. /\ Len(p) = n + 1 /\ p[n + 1] = e
      /\ \A i \in 1..n : p[i] = q[i]
  BY <1>1
<1>3. e.new = z \ y /\ e.removed = y \ z
  BY DEF OnlyNewMaps, OnlyRemovedMaps
<1>4. PICK h \in [1..n + 1 -> SUBSET Maps] :
         h[1] = x /\ h[n + 1] = y /\ \A i \in 1..n : h[i+1] = (h[i] \ q[i].removed) \cup q[i].new
  BY <1>1 DEF Leads
<1> DEFINE g == [i \in 1..(n + 1) + 1 |-> IF i = n + 2 THEN z ELSE h[i]]
<1>5. g \in [1..(n + 1) + 1 -> SUBSET Maps]
  OBVIOUS
<1>6. g[1] = x /\ g[(n + 1) + 1] = z /\ g[n + 1] = y
  BY <1>4
<1>7. ASSUME NEW i \in 1..(n + 1) PROVE g[i + 1] = (g[i] \ p[i].removed) \cup p[i].new
  <2>1. CASE i = n + 1
    BY <1>2, <1>3, <1>6, <2>1
  <2>2. CASE i # n + 1
    <3>1. i \in 1..n /\ g[i + 1] = h[i + 1] /\ g[i] = h[i] /\ p[i] = q[i]
      BY <1>2, <2>2
    <3> HIDE DEF g, p
    <3> QED BY <1>4, <3>1
  <2> QED BY <2>1, <2>2
<1> HIDE DEF g, p
<1>8. Leads(p, x, z)
  BY <1>2, <1>5, <1>6, <1>7 DEF Leads
<1>9. ASSUME NEW m, GainedIn(q, m) \/ m \in z \ y PROVE GainedIn(p, m)
  <2>1. CASE m \in z \ y
    BY <1>2, <1>3, <2>1 DEF GainedIn
  <2>2. CASE GainedIn(q, m)
    BY <1>1, <1>2, <2>2 DEF GainedIn
  <2> QED BY <1>9, <2>1, <2>2
<1> QED BY <1>8, <1>9 DEF p

\* What Follows says when no thread but t changes servers.
FollowsBy(t, s) ==
    /\ stored[s].assigned # {}
    /\ Unannounced(t, s) =>
           thread[t].snap[s].assigned # {} /\ Leads(inbox[s], loaded[s], thread[t].snap[s].assigned)
    /\ ~Unannounced(t, s) => Leads(inbox[s], loaded[s], stored[s].assigned)
    /\ \A m \in stored[s].pending :
           GainedIn(inbox[s], m) \/ ReportedIn(reports[s], m) \/ Gains(t, s, m)

\* Follows, when no thread but t changes servers.
LEMMA FollowsOfSole ==
    ASSUME NEW t \in Threads, \A u \in Threads : u # t => ~Changing(u), NEW s, Follows(s)
    PROVE  FollowsBy(t, s)
<1>1. \A u \in Threads : u # t => ~Unannounced(u, s) /\ \A m : ~Gains(u, s, m)
  BY DEF Changing, Unannounced, Gains, Confirms, Distributes
<1> QED BY <1>1 DEF Follows, FollowsBy

\* What has to be shown when t alone may be changing servers.
LEMMA FollowBySole ==
    ASSUME NEW t \in Threads, \A u \in Threads : u # t => ~Changing(u)',
           SnapshotInv(t)',
           \A s \in Servers : stored'[s].present /\ status'[s] = "running" => FollowsBy(t, s)'
    PROVE  FollowInv'
<1>1. \A u \in Threads : u # t => SnapshotInv(u)' /\ \A s : ~Unannounced(u, s)' /\ \A m : ~Gains(u, s, m)'
  BY DEF Changing, Unannounced, Gains, Confirms, Distributes, SnapshotInv
<1>2. \A s \in Servers : FollowsBy(t, s)' => Follows(s)'
  BY <1>1 DEF Follows, FollowsBy
<1> QED BY <1>1, <1>2 DEF FollowInv

\* When nothing changes, the events that wait lead to the stored assignment.
LEMMA QuietlyFollows ==
    ASSUME FollowInv, Quiet, NEW s \in Servers, stored[s].present, status[s] = "running"
    PROVE  /\ stored[s].assigned # {} /\ Leads(inbox[s], loaded[s], stored[s].assigned)
           /\ \A m \in stored[s].pending : GainedIn(inbox[s], m) \/ ReportedIn(reports[s], m)
<1>1. \A u \in Threads : ~Unannounced(u, s) /\ \A m : ~Gains(u, s, m)
  BY DEF Quiet, Changing, Unannounced, Gains, Confirms, Distributes
<1> QED BY <1>1 DEF FollowInv, Follows

\* Steps of other calls.
LEMMA FollowStays ==
    ASSUME FollowInv, ChangesStay
    PROVE  FollowInv'
<1>1. ASSUME NEW t \in Threads
      PROVE  /\ SnapshotInv(t)'
             /\ \A s : (Unannounced(t, s)' <=> Unannounced(t, s)) /\ \A m : (Gains(t, s, m)' <=> Gains(t, s, m))
             /\ \A s : Unannounced(t, s) => thread'[t] = thread[t]
  <2>1. CASE thread'[t] = thread[t]
    <3>1. SnapshotInv(t)'
      BY <2>1 DEF FollowInv, SnapshotInv, ChangesStay, Distributes, At, Listed, Updated, PendingFor, OnlyNewMaps
    <3> QED BY <2>1, <3>1 DEF Unannounced, Gains, Confirms, Distributes, At
  <2>2. CASE ~Changing(t) /\ ~Changing(t)'
    BY <2>2 DEF SnapshotInv, Unannounced, Gains, Confirms, Distributes, Changing
  <2> QED BY <2>1, <2>2 DEF ChangesStay, SameChange
<1>2. ASSUME NEW s \in Servers, Follows(s) PROVE Follows(s)'
  BY <1>1, <1>2 DEF Follows, ChangesStay
<1> QED BY <1>1, <1>2 DEF FollowInv, ChangesStay

\* A server that registers does not run yet; a report that is taken is
\* confirmed by its call.
LEMMA FollowBegins ==
    ASSUME CoreOK, FollowInv, Quiet, ChangeBegins
    PROVE  FollowInv'
<1>1. Handlers \subseteq Threads /\ Checker \in Threads
  BY DEF Threads
<1>2. ASSUME NEW t \in Handlers, NEW s \in Servers, Register(t, s) PROVE FollowInv'
  <2>1. Begin(t, "Register", "set", s, {}) /\ UNCHANGED <<stored, index, loaded, inbox, reports>>
    BY <1>2 DEF Register, BeginChange, redisVars
  <2>2. status'[s] = "starting" /\ \A x \in Servers : x # s => status'[x] = status[x]
    BY <1>2 DEF Register, CoreOK, WorldOK
  <2>3. \A u \in Threads : u # t => ~Changing(u)'
    BY <1>1, <2>1, Opens
  <2>4. thread'[t].op = "Register" /\ thread'[t].pc = "set" /\ thread'[t].server = s
    BY <1>1, <2>1, Opens
  <2>5. SnapshotInv(t)'
    BY <2>2, <2>4 DEF SnapshotInv, Distributes, At
  <2>6. ASSUME NEW x \in Servers, stored'[x].present, status'[x] = "running" PROVE FollowsBy(t, x)'
    <3>1. stored[x].present /\ status[x] = "running"
      BY <2>1, <2>2, <2>6
    <3>2. ~Unannounced(t, x)'
      BY <2>4 DEF Unannounced, At
    <3> QED BY <2>1, <3>1, <3>2, QuietlyFollows DEF FollowsBy
  <2> QED BY <1>1, <2>3, <2>5, <2>6, FollowBySole
<1>3. ASSUME NEW t \in Handlers, NEW s \in Servers, NEW ms \in reports[s], MapsLoaded(t, s, ms) PROVE FollowInv'
  <2>1. /\ Begin(t, "MapsLoaded", "one", s, ms) /\ UNCHANGED <<stored, index, status, loaded, inbox>>
        /\ reports' = [reports EXCEPT ![s] = @ \ {ms}]
    BY <1>3 DEF MapsLoaded, BeginChange, redisVars
  <2>2. \A u \in Threads : u # t => ~Changing(u)'
    BY <1>1, <2>1, Opens
  <2>3. thread'[t].op = "MapsLoaded" /\ thread'[t].pc = "one" /\ thread'[t].server = s /\ thread'[t].maps = ms
    BY <1>1, <2>1, Opens
  <2>4. SnapshotInv(t)'
    BY <2>3 DEF SnapshotInv, Distributes, At
  <2>5. ASSUME NEW x \in Servers, stored'[x].present, status'[x] = "running" PROVE FollowsBy(t, x)'
    <3>1. /\ stored[x].assigned # {} /\ Leads(inbox[x], loaded[x], stored[x].assigned)
          /\ \A m \in stored[x].pending : GainedIn(inbox[x], m) \/ ReportedIn(reports[x], m)
      BY <2>1, <2>5, QuietlyFollows
    <3>2. ~Unannounced(t, x)'
      BY <2>3 DEF Unannounced, At
    <3>3. \A m : ReportedIn(reports[x], m) => ReportedIn(reports'[x], m) \/ Gains(t, x, m)'
      <4>1. CASE x = s
        <5>1. reports'[x] = reports[x] \ {ms}
          BY <2>1, <4>1 DEF CoreOK, WorldOK
        <5>2. \A m \in ms : Gains(t, x, m)'
          BY <2>3, <4>1 DEF Gains, Confirms
        <5> QED BY <5>1, <5>2 DEF ReportedIn
      <4>2. CASE x # s
        BY <2>1, <4>2 DEF CoreOK, WorldOK
      <4> QED BY <4>1, <4>2
    <3> QED BY <2>1, <3>1, <3>2, <3>3 DEF FollowsBy
  <2> QED BY <1>1, <2>2, <2>4, <2>5, FollowBySole
<1>4. ASSUME NEW t \in Threads, NEW op \in {"Update", "Unhealthy"}, NEW pc \in {"lock", "remove"}, NEW s,
             Begin(t, op, pc, s, {}), UNCHANGED <<stored, index, worldVars>>
      PROVE  FollowInv'
  <2>1. \A u \in Threads : u # t => ~Changing(u)'
    BY <1>4, Opens
  <2>2. thread'[t].op = op /\ thread'[t].pc = pc
    BY <1>4, Opens
  <2>3. SnapshotInv(t)'
    BY <2>2 DEF SnapshotInv, Distributes, At
  <2>4. ASSUME NEW x \in Servers, stored'[x].present, status'[x] = "running" PROVE FollowsBy(t, x)'
    <3>1. stored[x].present /\ status[x] = "running" /\ ~Unannounced(t, x)'
      BY <1>4, <2>2, <2>4 DEF Unannounced, At, worldVars
    <3> QED BY <1>4, <3>1, QuietlyFollows DEF FollowsBy, worldVars
  <2> QED BY <2>1, <2>3, <2>4, FollowBySole
<1>5. ASSUME NEW t \in Handlers, NEW c \in Configs, UpdateConfiguration(t, c) PROVE FollowInv'
  <2>1. Begin(t, "Update", "lock", NoServer, {}) /\ UNCHANGED <<stored, index, worldVars>>
    BY <1>5 DEF UpdateConfiguration, BeginChange
  <2> QED BY <1>1, <1>4, <2>1
<1>6. ASSUME NEW s \in Servers, HandleResult(s) PROVE FollowInv'
  <2>1. Begin(Checker, "Unhealthy", "remove", s, {}) /\ UNCHANGED <<stored, index, worldVars>>
    BY <1>6 DEF HandleResult, BeginChange, redisVars
  <2> QED BY <1>1, <1>4, <2>1
<1> QED BY <1>2, <1>3, <1>5, <1>6 DEF ChangeBegins

\* A step of the change t that neither confirms maps nor announces them.
LEMMA FollowedQuietly ==
    ASSUME NEW t \in Threads, NEW s \in Servers, FollowsBy(t, s), UNCHANGED worldVars,
           stored'[s] = stored[s], ~Unannounced(t, s), ~Unannounced(t, s)',
           Confirms(t, s) => Confirms(t, s)' /\ thread'[t].maps = thread[t].maps
    PROVE  FollowsBy(t, s)'
<1>1. \A m : Gains(t, s, m) => Gains(t, s, m)'
  BY DEF Gains
<1> QED BY <1>1 DEF FollowsBy, worldVars

\* Upsert and Remove: a confirmation is written over the value it was read
\* from.
LEMMA FollowServersWritten ==
    ASSUME CoreOK, WatchInv, FollowInv, NEW t \in Threads, Changing(t),
           MapsLoadedOne(t) \/ UpsertSet(t) \/ UpsertIndex(t) \/ RemoveIndex(t) \/ RemoveValue(t)
    PROVE  FollowInv'
<1>a. /\ thread \in [Threads -> ThreadRecord] /\ thread[t] \in ThreadRecord /\ WellFormed(t, thread[t])
      /\ stored \in [Servers -> ServerRecord]
  BY DEF CoreOK, ThreadsOK, RedisOK
<1>b. \A u \in Threads : u # t => thread'[u] = thread[u] /\ ~Changing(u) /\ ~Changing(u)'
  BY Sole DEF WatchInv, ChangeStep
<1>c. \/ thread'[t] = Idle
      \/ /\ thread'[t].op = thread[t].op /\ thread'[t].server = thread[t].server
         /\ thread'[t].maps = thread[t].maps
  BY ChangeMoves DEF ChangeStep
<1>d. \A s \in Servers : stored[s].present /\ status[s] = "running" => FollowsBy(t, s)
  BY <1>b, FollowsOfSole DEF FollowInv
<1>e. SnapshotInv(t) /\ Idle.op = "none" /\ Idle.pc = "idle"
  BY DEF FollowInv, Idle
<1>f. UNCHANGED worldVars
  BY DEF MapsLoadedOne, UpsertSet, UpsertIndex, RemoveIndex, RemoveValue
<1>g. thread'[t] = Idle => SnapshotInv(t)'
  BY <1>e DEF SnapshotInv, Distributes
<1>h. thread[t].pc # "update"
  BY DEF MapsLoadedOne, UpsertSet, UpsertIndex, RemoveIndex, RemoveValue, At
<1>1. CASE MapsLoadedOne(t)
  <2>1. thread[t].op = "MapsLoaded" /\ thread[t].server \in Servers /\ thread[t].pc = "one" /\ UNCHANGED <<stored, index>>
    BY <1>a, <1>1 DEF MapsLoadedOne, At, WellFormed, ThreadRecord, Ops, redisVars
  <2>2. CASE stored[thread[t].server].present
    <3> DEFINE x == [y \in {thread[t].server} |-> stored[thread[t].server]]
    <3>1. thread' = [thread EXCEPT ![t].pc = "set", ![t].snap = x] /\ x[thread[t].server] = stored[thread[t].server]
      BY <1>1, <2>2 DEF MapsLoadedOne
    <3> HIDE DEF x
    <3>2. thread'[t].op = "MapsLoaded" /\ thread'[t].pc = "set" /\ thread'[t].server = thread[t].server /\ thread'[t].snap = x
      BY <1>a, <2>1, <3>1 DEF ThreadRecord
    <3>3. SnapshotInv(t)'
      BY <2>1, <3>1, <3>2 DEF SnapshotInv, Distributes, At
    <3>4. ASSUME NEW s \in Servers, stored'[s].present, status'[s] = "running" PROVE FollowsBy(t, s)'
      <4>1. FollowsBy(t, s) /\ stored'[s] = stored[s]
        BY <1>d, <1>f, <2>1, <3>4 DEF worldVars
      <4>2. ~Unannounced(t, s) /\ ~Unannounced(t, s)'
        BY <1>h, <3>2 DEF Unannounced, At
      <4>3. Confirms(t, s) => Confirms(t, s)' /\ thread'[t].maps = thread[t].maps
        BY <1>c, <1>e, <2>1, <3>2 DEF Confirms
      <4> QED BY <1>f, <4>1, <4>2, <4>3, FollowedQuietly
    <3> QED BY <1>b, <3>3, <3>4, FollowBySole
  <2>3. CASE ~stored[thread[t].server].present
    <3>1. thread'[t] = Idle
      BY <1>1, <1>a, <2>3 DEF MapsLoadedOne, Return
    <3>2. ASSUME NEW s \in Servers, stored'[s].present, status'[s] = "running" PROVE FollowsBy(t, s)'
      <4>1. FollowsBy(t, s) /\ stored'[s] = stored[s] /\ s # thread[t].server
        BY <1>d, <1>f, <2>1, <2>3, <3>2 DEF worldVars
      <4>2. ~Unannounced(t, s) /\ ~Unannounced(t, s)' /\ ~Confirms(t, s)
        BY <1>e, <1>h, <3>1, <4>1 DEF Unannounced, At, Confirms
      <4> QED BY <1>f, <4>1, <4>2, FollowedQuietly
    <3> QED BY <1>b, <1>g, <3>1, <3>2, FollowBySole
  <2> QED BY <2>2, <2>3
<1>2. CASE UpsertSet(t)
  <2>1. thread[t].op \in {"Register", "MapsLoaded"} /\ thread[t].server \in Servers /\ thread[t].pc = "set" /\ UNCHANGED index
    BY <1>a, <1>2 DEF UpsertSet, At, WellFormed, ThreadRecord, Ops
  <2>2. thread'[t].op = thread[t].op /\ thread'[t].server = thread[t].server /\ thread'[t].pc = "index"
    BY <1>a, <1>2 DEF UpsertSet, Goto, ThreadRecord
  <2>3. \A s \in Servers : s # thread[t].server => stored'[s] = stored[s]
    BY <1>2, <1>a DEF UpsertSet
  <2>4. ASSUME NEW s \in Servers, s # thread[t].server, stored'[s].present, status'[s] = "running" PROVE FollowsBy(t, s)'
    <3>1. FollowsBy(t, s) /\ stored'[s] = stored[s]
      BY <1>d, <1>f, <2>3, <2>4 DEF worldVars
    <3>2. ~Unannounced(t, s) /\ ~Unannounced(t, s)' /\ ~Confirms(t, s)
      BY <1>h, <2>2, <2>4 DEF Unannounced, At, Confirms
    <3> QED BY <1>f, <3>1, <3>2, FollowedQuietly
  <2>5. CASE thread[t].op = "Register"
    <3>1. stored'[thread[t].server] = Fresh
      BY <1>2, <1>a, <2>1, <2>5 DEF UpsertSet, NoRecord, Fresh
    <3>2. status'[thread[t].server] # "running"
      BY <1>e, <1>f, <2>5 DEF SnapshotInv, worldVars
    <3>3. SnapshotInv(t)'
      BY <2>2, <2>5, <3>1, <3>2 DEF SnapshotInv, Distributes, At
    <3> QED BY <1>b, <2>4, <3>2, <3>3, FollowBySole
  <2>6. CASE thread[t].op = "MapsLoaded"
    <3>1. PICK s \in Servers : s = thread[t].server
      BY <2>1
    <3>2. stored[s] = thread[t].snap[s] /\ stored[s].present
      BY <1>e, <2>1, <2>6, <3>1 DEF SnapshotInv, At, WatchInv, KeepsWatched
    <3>3. /\ stored'[s] = [stored[s] EXCEPT !.pending = @ \ thread[t].maps]
      BY <1>2, <1>a, <2>6, <3>1, <3>2 DEF UpsertSet
    <3>4. stored'[s].assigned = stored[s].assigned /\ stored'[s].pending = stored[s].pending \ thread[t].maps
      BY <1>a, <3>3 DEF ServerRecord
    <3>5. SnapshotInv(t)'
      BY <2>2, <2>6 DEF SnapshotInv, Distributes, At
    <3>6. ASSUME status'[s] = "running" PROVE FollowsBy(t, s)'
      <4>1. FollowsBy(t, s)
        BY <1>d, <1>f, <3>2, <3>6 DEF worldVars
      <4>2. ~Unannounced(t, s) /\ ~Unannounced(t, s)'
        BY <1>h, <2>2 DEF Unannounced, At
      <4>3. \A m \in stored'[s].pending : ~Gains(t, s, m)
        BY <3>4, <4>2 DEF Gains
      <4> QED BY <1>f, <3>4, <4>1, <4>2, <4>3 DEF FollowsBy, worldVars
    <3> QED BY <1>b, <2>4, <3>1, <3>5, <3>6, FollowBySole
  <2> QED BY <2>1, <2>5, <2>6
<1>3. CASE UpsertIndex(t)
  <2>1. /\ thread[t].op \in {"Register", "MapsLoaded"} /\ thread[t].pc = "index" /\ thread[t].server \in Servers
        /\ UNCHANGED stored /\ index' = index \cup {thread[t].server}
    BY <1>a, <1>3 DEF UpsertIndex, At, WellFormed, ThreadRecord, Ops
  <2>2. thread'[t].pc \in {"members", "idle"}
    BY <1>a, <1>e, <1>3 DEF UpsertIndex, Goto, Return, ThreadRecord
  <2>3. SnapshotInv(t)'
    <3>1. CASE thread[t].op = "Register"
      <4>1. thread'[t].op = "Register" /\ thread'[t].server = thread[t].server /\ thread'[t].pc = "members"
        BY <1>a, <1>3, <3>1 DEF UpsertIndex, Goto, ThreadRecord
      <4>2. status[thread[t].server] # "running" /\ stored[thread[t].server] = Fresh
        BY <1>e, <2>1, <3>1 DEF SnapshotInv
      <4> QED BY <1>f, <2>1, <4>1, <4>2 DEF SnapshotInv, Distributes, At, worldVars
    <3>2. CASE thread[t].op = "MapsLoaded"
      BY <1>a, <1>g, <1>3, <3>2 DEF UpsertIndex, Return
    <3> QED BY <2>1, <3>1, <3>2
  <2>4. ASSUME NEW s \in Servers, stored'[s].present, status'[s] = "running" PROVE FollowsBy(t, s)'
    <3>1. FollowsBy(t, s) /\ stored'[s] = stored[s]
      BY <1>d, <1>f, <2>1, <2>4 DEF worldVars
    <3>2. ~Unannounced(t, s) /\ ~Unannounced(t, s)' /\ ~Confirms(t, s)
      BY <1>h, <2>1, <2>2 DEF Unannounced, At, Confirms
    <3> QED BY <1>f, <3>1, <3>2, FollowedQuietly
  <2> QED BY <1>b, <2>3, <2>4, FollowBySole
<1>4. CASE RemoveIndex(t) \/ RemoveValue(t)
  <2>1. thread[t].op = "Unhealthy" /\ thread[t].server \in Servers
    BY <1>a, <1>4 DEF RemoveIndex, RemoveValue, At, WellFormed, ThreadRecord, Ops
  <2>2. thread'[t].pc \in {"delete", "members"} /\ thread'[t].op = "Unhealthy"
    BY <1>a, <1>4, <2>1 DEF RemoveIndex, RemoveValue, Goto, ThreadRecord
  <2>3. SnapshotInv(t)'
    BY <2>2 DEF SnapshotInv, Distributes, At
  <2>4. \A s \in Servers : stored'[s].present => stored'[s] = stored[s]
    BY <1>a, <1>4, <2>1 DEF RemoveIndex, RemoveValue, NoRecord
  <2>5. ASSUME NEW s \in Servers, stored'[s].present, status'[s] = "running" PROVE FollowsBy(t, s)'
    <3>1. FollowsBy(t, s) /\ stored'[s] = stored[s]
      BY <1>d, <1>f, <2>4, <2>5 DEF worldVars
    <3>2. ~Unannounced(t, s) /\ ~Unannounced(t, s)' /\ ~Confirms(t, s)
      BY <1>h, <2>1, <2>2 DEF Unannounced, At, Confirms
    <3> QED BY <1>f, <3>1, <3>2, FollowedQuietly
  <2> QED BY <1>b, <2>3, <2>5, FollowBySole
<1> QED BY <1>1, <1>2, <1>3, <1>4

\* The snapshot and the plan are about the servers that are listed.
LEMMA FollowServersListed ==
    ASSUME CoreOK, WatchInv, FollowInv, EveryServerGetsMaps, NEW t \in Threads, Changing(t),
           ListMembers(t) \/ ListValues(t) \/ Plan(t) \/ LockRealm(t)
    PROVE  FollowInv'
<1>a. /\ thread \in [Threads -> ThreadRecord] /\ thread[t] \in ThreadRecord /\ WellFormed(t, thread[t])
      /\ stored \in [Servers -> ServerRecord] /\ index \subseteq Servers /\ layerConfig \in Configs \cup {NoLayers}
  BY DEF CoreOK, ThreadsOK, RedisOK
<1>b. \A u \in Threads : u # t => thread'[u] = thread[u] /\ ~Changing(u) /\ ~Changing(u)'
  BY Sole DEF WatchInv, ChangeStep
<1>d. \A s \in Servers : stored[s].present /\ status[s] = "running" => FollowsBy(t, s)
  BY <1>b, FollowsOfSole DEF FollowInv
<1>e. SnapshotInv(t)
  BY DEF FollowInv
<1>f. UNCHANGED worldVars /\ UNCHANGED <<stored, index>> /\ (Listed)' = Listed
  BY DEF ListMembers, ListValues, Plan, LockRealm, Listed, redisVars
<1>g. Distributes(t) /\ thread[t].op # "MapsLoaded" /\ thread[t].pc # "update" /\ (thread[t].op = "Register" => thread[t].server \in Servers)
  BY <1>a DEF ListMembers, ListValues, Plan, LockRealm, At, WellFormed, Changing, Distributes
<1>h. thread[t].op = "Register" =>
        status[thread[t].server] # "running" /\ stored[thread[t].server] = Fresh /\ thread[t].server \in index
  <2>1. thread[t].op = "Register" => thread[t].pc \in {"members", "values", "config"}
    BY <1>a DEF ListMembers, ListValues, Plan, LockRealm, At, WellFormed
  <2> QED BY <1>e, <2>1 DEF SnapshotInv
<1>q. ASSUME \A s \in Servers : ~Unannounced(t, s)', SnapshotInv(t)' PROVE FollowInv'
  <2>1. ASSUME NEW s \in Servers, stored'[s].present, status'[s] = "running" PROVE FollowsBy(t, s)'
    <3>1. FollowsBy(t, s) /\ stored'[s] = stored[s]
      BY <1>d, <1>f, <2>1 DEF worldVars
    <3>2. ~Unannounced(t, s) /\ ~Unannounced(t, s)' /\ ~Confirms(t, s)
      BY <1>g, <1>q DEF Unannounced, At, Confirms
    <3> QED BY <1>f, <3>1, <3>2, FollowedQuietly
  <2> QED BY <1>b, <1>q, <2>1, FollowBySole
<1>1. CASE ListMembers(t)
  <2>1. /\ thread'[t].op = thread[t].op /\ thread'[t].pc = "values" /\ thread'[t].server = thread[t].server
        /\ thread'[t].ids = index
    BY <1>a, <1>1 DEF ListMembers, ThreadRecord
  <2>2. SnapshotInv(t)'
    BY <1>f, <1>g, <1>h, <2>1 DEF SnapshotInv, Distributes, At, worldVars
  <2> QED BY <1>q, <2>1, <2>2 DEF Unannounced, At
<1>2. CASE LockRealm(t)
  <2>1. thread'[t].op = thread[t].op /\ thread'[t].pc = "members" /\ thread'[t].server = thread[t].server
    BY <1>a, <1>2 DEF LockRealm, Goto, ThreadRecord
  <2>2. SnapshotInv(t)'
    BY <1>f, <1>g, <1>h, <2>1 DEF SnapshotInv, Distributes, At, worldVars
  <2> QED BY <1>q, <2>1, <2>2 DEF Unannounced, At
<1>3. CASE ListValues(t)
  <2> DEFINE x == [s \in {s \in thread[t].ids : stored[s].present} |-> stored[s]]
  <2>1. thread' = [thread EXCEPT ![t].pc = AfterList(thread[t].op), ![t].ids = {}, ![t].snap = x]
    BY <1>3 DEF ListValues
  <2>2. thread[t].ids = index
    BY <1>e, <1>g, <1>3 DEF SnapshotInv, ListValues
  <2>3. DOMAIN x = Listed /\ \A s \in Listed : x[s] = stored[s]
    BY <2>2 DEF Listed
  <2>4. AfterList(thread[t].op) = "config"
    BY <1>g DEF AfterList, Distributes
  <2> HIDE DEF x
  <2>5. thread'[t].op = thread[t].op /\ thread'[t].pc = "config" /\ thread'[t].server = thread[t].server /\ thread'[t].snap = x
    BY <1>a, <2>1, <2>4 DEF ThreadRecord
  <2>6. SnapshotInv(t)'
    BY <1>f, <1>g, <1>h, <2>3, <2>5 DEF SnapshotInv, Distributes, At, worldVars
  <2> QED BY <1>q, <2>5, <2>6 DEF Unannounced, At
<1>4. CASE Plan(t)
  <2>1. PICK p \in PlansFor(DOMAIN thread[t].snap, layerConfig) :
          thread' = [thread EXCEPT ![t].pc = "update", ![t].plan = p, ![t].todo = DOMAIN p]
    BY <1>4 DEF Plan
  <2>2. DOMAIN thread[t].snap = Listed /\ \A s \in Listed : thread[t].snap[s] = stored[s]
    BY <1>e, <1>g, <1>4 DEF SnapshotInv, Plan
  <2>3. DOMAIN p = Listed /\ Listed \subseteq Servers
    BY <1>a, <2>2, PlansAssign DEF Listed
  <2>4. \A s \in Listed : p[s] # {}
    BY <1>a, <2>2, <2>3 DEF EveryServerGetsMaps
  <2>5. /\ thread'[t].op = thread[t].op /\ thread'[t].pc = "update" /\ thread'[t].server = thread[t].server
        /\ thread'[t].snap = thread[t].snap /\ thread'[t].plan = p /\ thread'[t].todo = Listed
    BY <1>a, <2>1, <2>3 DEF ThreadRecord
  <2>6. thread[t].op = "Register" => thread[t].server \in Listed /\ thread[t].snap[thread[t].server] = Fresh
    BY <1>h, <2>2 DEF Listed, Fresh
  <2>7. SnapshotInv(t)'
    BY <1>f, <1>g, <1>h, <2>2, <2>4, <2>5, <2>6 DEF SnapshotInv, Distributes, At, worldVars
  <2> QED BY <1>q, <2>3, <2>5, <2>7 DEF Unannounced
<1> QED BY <1>1, <1>2, <1>3, <1>4

\* An assignment is written; the worldserver has not been told yet, and its new
\* maps are pending.
LEMMA FollowUpdates ==
    ASSUME CoreOK, WatchInv, FollowInv, NEW t \in Threads, Changing(t), UpdateServer(t)
    PROVE  FollowInv'
<1>a. /\ thread \in [Threads -> ThreadRecord] /\ thread[t] \in ThreadRecord /\ WellFormed(t, thread[t])
      /\ stored \in [Servers -> ServerRecord] /\ index \subseteq Servers
  BY DEF CoreOK, ThreadsOK, RedisOK
<1>b. \A u \in Threads : u # t => thread'[u] = thread[u] /\ ~Changing(u) /\ ~Changing(u)'
  BY Sole DEF WatchInv, ChangeStep
<1>d. \A s \in Servers : stored[s].present /\ status[s] = "running" => FollowsBy(t, s)
  BY <1>b, FollowsOfSole DEF FollowInv
<1>e. SnapshotInv(t)
  BY DEF FollowInv
<1>g. Distributes(t) /\ thread[t].pc = "update" /\ thread[t].op # "MapsLoaded"
  BY <1>a DEF UpdateServer, At, WellFormed, Changing, Distributes
<1>h. /\ DOMAIN thread[t].snap = Listed /\ DOMAIN thread[t].plan = Listed /\ thread[t].todo \subseteq Listed
      /\ \A s \in Listed : stored[s] = IF s \in thread[t].todo THEN thread[t].snap[s] ELSE Updated(t, s)
      /\ \A s \in Listed : thread[t].plan[s] # {}
  BY <1>a, <1>e, <1>g DEF SnapshotInv, At, WellFormed
<1>1. PICK s \in thread[t].todo :
        /\ stored' = [stored EXCEPT ![s] = Updated(t, s)]
        /\ thread' = [thread EXCEPT ![t].todo = @ \ {s}]
        /\ UNCHANGED status
  BY <1>h DEF UpdateServer, Listed
<1>2. UNCHANGED <<index, loaded, inbox, reports>>
  BY DEF UpdateServer
<1>3. /\ thread'[t].op = thread[t].op /\ thread'[t].pc = "update" /\ thread'[t].server = thread[t].server
      /\ thread'[t].snap = thread[t].snap /\ thread'[t].plan = thread[t].plan /\ thread'[t].todo = thread[t].todo \ {s}
      /\ thread'[t].maps = thread[t].maps
  BY <1>a, <1>1, <1>g DEF ThreadRecord
<1>4. s \in Listed /\ s \in Servers /\ stored[s].present /\ stored[s] = thread[t].snap[s]
  BY <1>a, <1>h DEF Listed
<1>5. stored'[s] = Updated(t, s) /\ Updated(t, s).present /\ \A x \in Servers : x # s => stored'[x] = stored[x]
  BY <1>a, <1>1, <1>4 DEF Updated
<1>6. Listed' = Listed
  BY <1>a, <1>2, <1>4, <1>5 DEF Listed
<1>7. \A x : Updated(t, x)' = Updated(t, x)
  BY <1>3 DEF Updated
<1>8. SnapshotInv(t)'
  <2>1. \A x \in Listed : stored'[x] = IF x \in thread'[t].todo THEN thread'[t].snap[x] ELSE Updated(t, x)'
    <3> TAKE x \in Listed
    <3>1. CASE x = s
      BY <1>3, <1>5, <1>7, <3>1
    <3>2. CASE x # s
      BY <1>a, <1>3, <1>5, <1>7, <1>h, <3>2 DEF Listed
    <3> QED BY <3>1, <3>2
  <2>2. thread[t].op = "Register" =>
           /\ status[thread[t].server] # "running" /\ thread[t].server \in index
           /\ thread[t].server \in Listed /\ thread[t].snap[thread[t].server] = Fresh
    BY <1>e, <1>g DEF SnapshotInv, At
  <2> QED BY <1>1, <1>2, <1>3, <1>6, <1>g, <1>h, <2>1, <2>2 DEF SnapshotInv, Distributes, At
<1>9. ASSUME NEW x \in Servers, stored'[x].present, status'[x] = "running" PROVE FollowsBy(t, x)'
  <2>1. CASE x = s
    <3>1. FollowsBy(t, x) /\ ~Unannounced(t, x)
      BY <1>d, <1>1, <1>4, <1>9, <2>1 DEF Unannounced
    <3>2. stored[x].assigned # {} /\ Leads(inbox[x], loaded[x], stored[x].assigned)
      BY <3>1 DEF FollowsBy
    <3>3. Unannounced(t, x)'
      BY <1>3, <1>4, <1>g, <1>h, <2>1 DEF Unannounced, Distributes, At
    <3>4. stored'[x].assigned = thread[t].plan[x] /\ stored'[x].pending = thread[t].plan[x] \ thread[t].snap[x].assigned
      BY <1>4, <1>5, <2>1, <3>2 DEF Updated, PendingFor, OnlyNewMaps
    <3>5. \A m \in stored'[x].pending : Gains(t, x, m)'
      BY <1>3, <3>3, <3>4 DEF Gains
    <3> QED BY <1>2, <1>3, <1>4, <1>h, <2>1, <3>2, <3>3, <3>4, <3>5 DEF FollowsBy
  <2>2. CASE x # s
    <3>1. FollowsBy(t, x) /\ stored'[x] = stored[x]
      BY <1>d, <1>1, <1>5, <1>9, <2>2
    <3>2. Unannounced(t, x)' <=> Unannounced(t, x)
      BY <1>3, <1>g, <2>2 DEF Unannounced, Distributes, At
    <3>3. \A m : Gains(t, x, m) => Gains(t, x, m)'
      BY <1>3, <1>g, <3>2 DEF Gains, Confirms
    <3> QED BY <1>2, <1>3, <3>1, <3>2, <3>3 DEF FollowsBy
  <2> QED BY <2>1, <2>2
<1> QED BY <1>8, <1>9, <1>b, FollowBySole

\* The events tell each worldserver the difference; the one that registered
\* starts with its maps.
LEMMA FollowPublishes ==
    ASSUME CoreOK, WatchInv, FollowInv, NEW t \in Threads, Changing(t), Publish(t)
    PROVE  FollowInv'
<1>a. /\ thread \in [Threads -> ThreadRecord] /\ thread[t] \in ThreadRecord /\ WellFormed(t, thread[t])
      /\ stored \in [Servers -> ServerRecord] /\ index \subseteq Servers /\ WorldOK
  BY DEF CoreOK, ThreadsOK, RedisOK
<1>b. \A u \in Threads : u # t => thread'[u] = thread[u] /\ ~Changing(u) /\ ~Changing(u)'
  BY Sole DEF WatchInv, ChangeStep
<1>d. \A s \in Servers : stored[s].present /\ status[s] = "running" => FollowsBy(t, s)
  BY <1>b, FollowsOfSole DEF FollowInv
<1>e. SnapshotInv(t)
  BY DEF FollowInv
<1>g. Distributes(t) /\ At(t, "update") /\ thread[t].op # "MapsLoaded" /\ thread[t].todo = {}
  BY <1>a DEF Publish, At, WellFormed, Changing, Distributes
<1>h. /\ DOMAIN thread[t].snap = Listed /\ DOMAIN thread[t].plan = Listed
      /\ \A s \in Listed : stored[s] = Updated(t, s)
      /\ \A s \in Listed : thread[t].plan[s] # {}
  BY <1>a, <1>e, <1>g DEF SnapshotInv, At, WellFormed
<1>i. \A s \in Servers : stored[s].present => s \in Listed
  <2>1. \A s : ~HalfListed(s)
    BY <1>b, <1>g DEF HalfListed, Changing, At, Threads
  <2> QED BY <2>1 DEF WatchInv, Listed
<1>1. thread'[t] = Idle /\ UNCHANGED <<stored, index, reports>> /\ inbox' = [s \in Servers |-> inbox[s] \o Reassigned(t, s)]
  BY <1>a DEF Publish, Return
<1>2. SnapshotInv(t)' /\ \A s : ~Unannounced(t, s)'
  BY <1>1 DEF SnapshotInv, Distributes, Idle, Unannounced
<1>3. ASSUME NEW s \in Servers, stored'[s].present, status'[s] = "running" PROVE FollowsBy(t, s)'
  <2>1. s \in Listed /\ stored[s] = Updated(t, s) /\ stored'[s] = stored[s] /\ thread[t].plan[s] # {}
    BY <1>1, <1>3, <1>h, <1>i
  <2>p. thread[t].plan[s] \in SUBSET Maps /\ thread[t].snap[s] \in ServerRecord
    BY <1>g, <1>h, <2>1, UpdatedOK
  <2>s. stored[s].assigned = thread[t].plan[s] /\ stored[s].pending = PendingFor(thread[t].snap[s], thread[t].plan[s])
    BY <2>1 DEF Updated
  <2>2. CASE thread[t].op = "Register" /\ status[thread[t].server] = "starting" /\ s = thread[t].server
    <3>1. inbox[s] = <<>> /\ Reassigned(t, s) = <<>>
      BY <1>a, <1>g, <2>2, ReassignedOK DEF WorldOK
    <3>2. inbox'[s] = <<>>
      BY <1>1, <3>1
    <3>3. loaded'[s] = thread[t].plan[s]
      BY <1>a, <1>h, <2>1, <2>2 DEF Publish, WorldOK
    <3>4. thread[t].snap[s] = Fresh
      BY <1>e, <1>g, <2>2 DEF SnapshotInv
    <3>5. stored[s].pending = {}
      BY <2>s, <3>4 DEF PendingFor, Fresh
    <3>6. Leads(inbox'[s], loaded'[s], stored'[s].assigned)
      BY <2>1, <2>p, <2>s, <3>2, <3>3, NothingWaits
    <3> QED BY <1>2, <2>1, <2>s, <3>5, <3>6 DEF FollowsBy
  <2>3. CASE ~(thread[t].op = "Register" /\ status[thread[t].server] = "starting" /\ s = thread[t].server)
    <3>1. status[s] = "running" /\ loaded'[s] = loaded[s]
      BY <1>a, <1>3, <2>3 DEF Publish, WorldOK
    <3>2. FollowsBy(t, s) /\ Unannounced(t, s)
      BY <1>d, <1>g, <1>h, <1>1, <1>3, <2>1, <3>1 DEF Unannounced
    <3> DEFINE old == thread[t].snap[s].assigned
               new == thread[t].plan[s]
               e == [new |-> OnlyNewMaps(old, new), removed |-> OnlyRemovedMaps(old, new)]
    <3>3. old # {} /\ Leads(inbox[s], loaded[s], old) /\ old \in SUBSET Maps
      BY <2>p, <3>2 DEF FollowsBy, ServerRecord
    <3>4. \A m \in stored[s].pending : GainedIn(inbox[s], m) \/ ReportedIn(reports[s], m) \/ m \in new \ old
      BY <1>g, <3>2 DEF FollowsBy, Gains, Confirms
    <3>5. CASE old = new
      <4>1. Reassigned(t, s) = <<>>
        BY <3>5 DEF Reassigned
      <4>2. inbox'[s] = inbox[s]
        BY <1>a, <1>1, <4>1 DEF WorldOK
      <4> QED BY <1>1, <1>2, <2>1, <2>s, <3>1, <3>3, <3>4, <3>5, <4>2 DEF FollowsBy
    <3>6. CASE old # new
      <4>1. Reassigned(t, s) = <<e>>
        BY <1>h, <2>1, <3>1, <3>3, <3>6 DEF Reassigned
      <4>2. inbox'[s] = inbox[s] \o <<e>> /\ inbox[s] \in Seq(Reassignment)
        BY <1>a, <1>1, <4>1 DEF WorldOK
      <4>3. e \in Reassignment
        BY <2>p, <3>3 DEF Reassignment, OnlyNewMaps, OnlyRemovedMaps
      <4> HIDE DEF old, new
      <4>4. /\ Leads(inbox[s] \o <<e>>, loaded[s], new)
            /\ \A m : GainedIn(inbox[s], m) \/ m \in new \ old => GainedIn(inbox[s] \o <<e>>, m)
        BY <2>p, <3>3, <4>2, <4>3, OneMoreEvent DEF new
      <4>5. Leads(inbox'[s], loaded'[s], stored'[s].assigned)
        BY <2>1, <2>s, <3>1, <4>2, <4>4 DEF new
      <4>6. \A m \in stored'[s].pending : GainedIn(inbox'[s], m) \/ ReportedIn(reports'[s], m)
        BY <1>1, <3>4, <4>2, <4>4
      <4> QED BY <1>2, <2>1, <2>s, <4>5, <4>6 DEF FollowsBy
    <3> QED BY <3>5, <3>6
  <2> QED BY <2>2, <2>3
<1> QED BY <1>2, <1>3, <1>b, FollowBySole

\* A worldserver handles an event or dies.
LEMMA FollowWorlds ==
    ASSUME CoreOK, FollowInv, NEW s \in Servers, WorldReassigned(s) \/ WorldDies(s)
    PROVE  FollowInv'
<1>a. WorldOK
  BY DEF CoreOK
<1>1. UNCHANGED <<stored, index, thread>>
  BY DEF WorldReassigned, WorldDies, redisVars
<1>2. \A x \in Servers : status'[x] = "running" => status[x] = "running"
  BY <1>a DEF WorldReassigned, WorldDies, WorldOK
<1>3. \A x \in Servers : x # s => inbox'[x] = inbox[x] /\ loaded'[x] = loaded[x] /\ reports'[x] = reports[x]
  BY <1>a DEF WorldReassigned, WorldDies, WorldOK
<1>4. \A t \in Threads : SnapshotInv(t)'
  <2> TAKE t \in Threads
  <2>1. SnapshotInv(t) /\ (thread[t].op = "Register" => thread[t].server \in Servers)
    BY DEF FollowInv, CoreOK, ThreadsOK, WellFormed
  <2> QED BY <1>1, <1>2, <2>1 DEF SnapshotInv, Distributes, At, Listed, Updated, PendingFor, OnlyNewMaps
<1>5. \A t \in Threads : \A x : (Unannounced(t, x)' <=> Unannounced(t, x)) /\ \A m : (Gains(t, x, m)' <=> Gains(t, x, m))
  BY <1>1 DEF Unannounced, Gains, Confirms, Distributes, At
<1>6. ASSUME NEW x \in Servers, x # s, Follows(x) PROVE Follows(x)'
  BY <1>1, <1>3, <1>5, <1>6 DEF Follows
<1>7. ASSUME status'[s] = "running", Follows(s) PROVE Follows(s)'
  <2>1. WorldReassigned(s)
    BY <1>a, <1>7 DEF WorldDies, WorldOK
  <2>2. /\ inbox[s] \in Seq(Reassignment) /\ inbox[s] # <<>> /\ loaded[s] \in SUBSET Maps
        /\ reports[s] \in SUBSET SUBSET Maps
    BY <1>a, <2>1 DEF WorldReassigned, WorldOK
  <2>3. /\ inbox'[s] = Tail(inbox[s])
        /\ loaded'[s] = (loaded[s] \ Head(inbox[s]).removed) \cup Head(inbox[s]).new
        /\ reports'[s] = IF Head(inbox[s]).new = {} THEN reports[s] ELSE reports[s] \cup {Head(inbox[s]).new}
    BY <1>a, <2>1 DEF WorldReassigned, WorldOK
  <2>4. \A y : Leads(inbox[s], loaded[s], y) => Leads(inbox'[s], loaded'[s], y)
    <3> SUFFICES ASSUME NEW y, Leads(inbox[s], loaded[s], y) PROVE Leads(inbox'[s], loaded'[s], y)
      OBVIOUS
    <3> DEFINE q == inbox[s]
               x == loaded[s]
    <3>1. q \in Seq(Reassignment) /\ q # <<>> /\ x \in SUBSET Maps /\ Leads(q, x, y)
      BY <2>2
    <3> HIDE DEF q, x
    <3>2. Leads(Tail(q), (x \ Head(q).removed) \cup Head(q).new, y)
      BY <3>1, FirstIsHandled
    <3> QED BY <2>3, <3>2 DEF q, x
  <2>5. \A m : ReportedIn(reports[s], m) => ReportedIn(reports'[s], m)
    BY <2>3 DEF ReportedIn
  <2>6. Leads(inbox[s], loaded[s], stored[s].assigned) \/ \E t \in Threads : Leads(inbox[s], loaded[s], thread[t].snap[s].assigned)
    BY <1>7 DEF Follows
  <2>7. \A m : GainedIn(inbox[s], m) => GainedIn(inbox'[s], m) \/ ReportedIn(reports'[s], m)
    <3> TAKE m
    <3>1. HAVE GainedIn(inbox[s], m)
    <3>2. GainedIn(Tail(inbox[s]), m) \/ m \in Head(inbox[s]).new
      BY <2>2, <2>6, <3>1, FirstIsHandled
    <3>3. m \in Head(inbox[s]).new => ReportedIn(reports'[s], m)
      BY <2>3 DEF ReportedIn
    <3> QED BY <2>3, <3>2, <3>3
  <2> QED BY <1>1, <1>5, <1>7, <2>4, <2>5, <2>7 DEF Follows
<1> QED BY <1>1, <1>2, <1>4, <1>6, <1>7 DEF FollowInv

\* Every undisturbed step keeps the invariant.
LEMMA StepKeepsFollowing ==
    ASSUME CoreOK, EveryServerGetsMaps, Step, ~disturbed', ~disturbed => WatchInv /\ FollowInv
    PROVE  FollowInv'
<1>1. WatchInv /\ FollowInv /\ Checker \in Threads
  BY UndisturbedSteps DEF Threads
<1>2. CASE ChangesStay
  BY <1>1, <1>2, FollowStays
<1>3. CASE ChangeBegins /\ Quiet
  BY <1>1, <1>3, FollowBegins
<1>4. ASSUME NEW t \in Threads, Changing(t), ChangeStep(t) PROVE FollowInv'
  BY <1>1, <1>4, FollowServersWritten, FollowServersListed, FollowUpdates, FollowPublishes DEF ChangeStep
<1>5. ASSUME NEW s \in Servers, WorldReassigned(s) \/ WorldDies(s) PROVE FollowInv'
  BY <1>1, <1>5, FollowWorlds
<1>6. CASE RegistryRestarts /\ Quiet
  <2>1. \A t \in Threads : thread'[t] = Idle /\ ~Changing(t)' /\ \A s : ~Unannounced(t, s)'
    BY <1>6 DEF RegistryRestarts, Changing, Idle, Unannounced, Distributes
  <2>2. UNCHANGED <<stored, index, loaded, inbox, reports>> /\ \A s \in Servers : status'[s] = "running" => status[s] = "running"
    BY <1>6 DEF RegistryRestarts, redisVars
  <2>3. SnapshotInv(Checker)'
    BY <1>1, <2>1 DEF SnapshotInv, Distributes, Idle
  <2>4. \A s \in Servers : stored'[s].present /\ status'[s] = "running" => FollowsBy(Checker, s)'
    BY <1>1, <1>6, <2>1, <2>2, QuietlyFollows DEF FollowsBy
  <2> QED BY <1>1, <2>1, <2>3, <2>4, FollowBySole
<1> QED BY <1>2, <1>3, <1>4, <1>5, <1>6, UndisturbedSteps

\* The invariant.
FollowedUnlessDisturbed == ~disturbed => FollowInv

\* The invariant is kept.
LEMMA NextKeepsFollowing ==
    ASSUME TypeOK, WatchedUnlessDisturbed, FollowedUnlessDisturbed, EveryServerGetsMaps, [Next]_vars
    PROVE  FollowedUnlessDisturbed'
<1>1. CoreOK
  BY DEF TypeOK, CoreOK, RestOK, BoundsOK
<1>2. CASE UNCHANGED vars
  <2>1. ChangesStay /\ UNCHANGED disturbed
    BY <1>2 DEF vars, redisVars, worldVars, ChangesStay, SameChange
  <2> QED BY <2>1, FollowStays DEF FollowedUnlessDisturbed
<1>3. CASE Next
  BY <1>1, <1>3, StepKeepsFollowing DEF Next, WatchedUnlessDisturbed, FollowedUnlessDisturbed
<1> QED BY <1>2, <1>3

\* It holds at first.
LEMMA InitialFollowing ==
    ASSUME Init, EveryServerGetsMaps
    PROVE  FollowInv
<1>1. PICK plan \in PlansFor(InitialServers, NoLayers), o \in Openings :
         /\ stored = [s \in Servers |-> IF s \in InitialServers
                                        THEN [present |-> TRUE, assigned |-> plan[s], pending |-> {}] ELSE NoRecord]
         /\ loaded = [s \in Servers |-> IF s \in InitialServers \ o.down THEN plan[s] ELSE {}]
         /\ status = [s \in Servers |-> IF s \in InitialServers \ o.down THEN "running" ELSE "down"]
         /\ binding = o.binding /\ calls = o.calls
  BY DEF Init
<1>2. InitialServers \subseteq Servers /\ plan \in [InitialServers -> SUBSET Maps]
  BY NobodyAssumption, PlansAssign
<1>3. \A s \in InitialServers : plan[s] # {}
  BY <1>1, <1>2 DEF EveryServerGetsMaps
<1>4. \A t \in Threads : thread[t] = Idle /\ SnapshotInv(t) /\ \A s : ~Unannounced(t, s)
  BY DEF Init, SnapshotInv, Unannounced, Distributes, Idle
<1>5. ASSUME NEW s \in Servers, stored[s].present, status[s] = "running" PROVE Follows(s)
  <2>1. s \in InitialServers /\ s \notin o.down
    BY <1>1, <1>5 DEF NoRecord
  <2>2. stored[s].assigned = plan[s] /\ stored[s].pending = {} /\ loaded[s] = plan[s] /\ inbox[s] = <<>>
    BY <1>1, <1>2, <2>1 DEF Init
  <2>3. Leads(inbox[s], loaded[s], stored[s].assigned)
    BY <1>2, <2>1, <2>2, NothingWaits
  <2> QED BY <1>3, <1>4, <2>1, <2>2, <2>3 DEF Follows
<1> QED BY <1>4, <1>5 DEF FollowInv

\* As long as changes do not overlap and Redis answers, a worldserver that has
\* handled its events and whose reports have arrived runs exactly the maps that
\* are assigned to it, and none is pending (distributeMapsToServers and
\* MapsLoadedForServer in game-server.go, the event handler of the sidecar).
\* Required: no distribution leaves a server without maps.
THEOREM WorldsFollow ==
    ASSUME EveryServerGetsMaps
    PROVE  Spec => []WorldFollows
<1> DEFINE Inv == TypeOK /\ WatchedUnlessDisturbed /\ FollowedUnlessDisturbed
<1>1. Init => Inv
  BY InitialTypes, InitialWatch, InitialFollowing DEF FollowedUnlessDisturbed
<1>2. Inv /\ [Next]_vars => Inv'
  BY NextKeepsTypes, NextKeepsWatch, NextKeepsFollowing
<1>3. Inv => WorldFollows
  <2> SUFFICES ASSUME Inv, ~disturbed, Quiet, NEW s \in Listed,
                      status[s] = "running", inbox[s] = <<>>, reports[s] = {}
               PROVE  stored[s].assigned = loaded[s] /\ stored[s].pending = {}
    BY DEF WorldFollows
  <2>1. s \in Servers /\ stored[s].present /\ FollowInv /\ loaded[s] \in SUBSET Maps
    BY DEF Listed, TypeOK, RedisOK, WorldOK, FollowedUnlessDisturbed
  <2>2. /\ Leads(<<>>, loaded[s], stored[s].assigned)
        /\ \A m \in stored[s].pending : GainedIn(<<>>, m) \/ ReportedIn({}, m)
    BY <2>1, QuietlyFollows
  <2> QED BY <2>1, <2>2, NothingWaits DEF ReportedIn
<1> QED BY <1>1, <1>2, <1>3, PTL DEF Spec

-----------------------------------------------------------------------------
(* Loops *)

\* A set of naturals with an element has a least one.
LEMMA LeastNat ==
    ASSUME NEW T \in SUBSET Nat, T # {}
    PROVE  \E x \in T : \A y \in T : x <= y
<1> DEFINE R == OpToRel(<, Nat)
<1>1. IsWellFoundedOn(R, Nat)
  BY NatLessThanWellFounded
<1> HIDE DEF R
<1>2. PICK x \in T : \A y \in T : ~ (<<y, x>> \in R)
  BY <1>1, WFMin
<1>3. \A y \in T : ~ (y < x)
  BY <1>2 DEF R, OpToRel
<1> QED BY <1>3

\* What holds at first and is kept by every pass of a loop holds after the last.
LEMMA LoopInduction ==
    ASSUME NEW n \in Nat, NEW T, 0 \in T, \A i \in 1..n : i - 1 \in T => i \in T
    PROVE  \A i \in 0..n : i \in T
<1> DEFINE missing == (0..n) \ T
<1> SUFFICES ASSUME missing # {} PROVE FALSE
  OBVIOUS
<1>1. PICK x \in missing : \A y \in missing : x <= y
  <2>1. missing \in SUBSET Nat
    OBVIOUS
  <2> HIDE DEF missing
  <2> QED BY <2>1, LeastNat
<1>2. x \in 1..n /\ x - 1 \in 0..n /\ x - 1 \in T
  BY <1>1
<1> QED BY <1>1, <1>2

\* f records what n passes F of a loop make of c.
Records(f, n, V, c, F) == f \in [0..n -> V] /\ f[0] = c /\ \A i \in 1..n : f[i] = F[<<f[i-1], i>>]

\* A loop has an outcome after every pass.
LEMMA LoopOutcome ==
    ASSUME NEW n \in Nat, NEW V, NEW c \in V, NEW F \in [V \X (1..n) -> V]
    PROVE  \E f : Records(f, n, V, c, F)
<1> DEFINE Runs(f, k) == f = [i \in 0..k |-> IF i = 0 THEN c ELSE F[<<f[i-1], i>>]]
           T == {k \in 0..n : \E f \in [0..k -> V] : Runs(f, k)}
<1>1. 0 \in T
  <2> DEFINE f == [i \in 0..0 |-> c]
  <2>1. f \in [0..0 -> V] /\ Runs(f, 0)
    OBVIOUS
  <2>2. 0 \in 0..n
    OBVIOUS
  <2> HIDE DEF f, Runs
  <2> QED BY <2>1, <2>2
<1>2. ASSUME NEW k \in 1..n, k - 1 \in T PROVE k \in T
  <2>1. PICK f \in [0..(k-1) -> V] : Runs(f, k-1)
    BY <1>2
  <2> DEFINE g == [i \in 0..k |-> IF i = k THEN F[<<f[k-1], k>>] ELSE f[i]]
  <2>2. F[<<f[k-1], k>>] \in V
    OBVIOUS
  <2>3. g \in [0..k -> V]
    BY <2>2
  <2>4. \A i \in 0..k : g[i] = IF i = 0 THEN c ELSE F[<<g[i-1], i>>]
    <3> TAKE i \in 0..k
    <3>1. CASE i = k
      <4>1. k # 0 /\ k - 1 \in 0..k /\ k - 1 # k
        OBVIOUS
      <4>2. g[k] = F[<<f[k-1], k>>] /\ g[k-1] = f[k-1]
        BY <4>1
      <4> QED BY <3>1, <4>1, <4>2
    <3>2. CASE i # k
      <4>1. i \in 0..(k-1) /\ g[i] = f[i] /\ (i # 0 => g[i-1] = f[i-1])
        BY <3>2
      <4>2. f[i] = IF i = 0 THEN c ELSE F[<<f[i-1], i>>]
        BY <2>1, <4>1
      <4> QED BY <4>1, <4>2
    <3> QED BY <3>1, <3>2
  <2>5. Runs(g, k)
    BY <2>4
  <2> HIDE DEF g, Runs
  <2> QED BY <2>3, <2>5
<1> HIDE DEF T
<1>3. n \in T
  BY <1>1, <1>2, LoopInduction
<1>4. PICK f \in [0..n -> V] : Runs(f, n)
  BY <1>3 DEF T
<1>5. Records(f, n, V, c, F)
  BY <1>4 DEF Records
<1> QED BY <1>5

-----------------------------------------------------------------------------
(* Orders *)

\* Lining up a set names every element once.
LEMMA OrdersFacts ==
    ASSUME NEW S, IsFiniteSet(S), NEW o \in Orders(S)
    PROVE  /\ Cardinality(S) \in Nat
           /\ o \in Seq(S) /\ Len(o) = Cardinality(S) /\ DOMAIN o = 1..Cardinality(S)
           /\ \A i, j \in DOMAIN o : o[i] = o[j] => i = j
           /\ ElementsOf(o) = S
<1> DEFINE n == Cardinality(S)
<1>1. n \in Nat
  BY FS_CardinalityType
<1>2. o \in [1..n -> S] /\ \A i, j \in DOMAIN o : o[i] = o[j] => i = j
  BY DEF Orders
<1>3. o \in Injection(1..n, S)
  BY <1>2 DEF Injection, IsInjective
<1>4. IsFiniteSet(1..n) /\ Cardinality(1..n) = n
  BY <1>1, FS_Interval
<1>5. o \in Surjection(1..n, S)
  BY <1>3, <1>4, FS_Injection
<1>6. ElementsOf(o) = S
  BY <1>2, <1>5 DEF Surjection, ElementsOf
<1> QED BY <1>1, <1>2, <1>6

\* A finite set of naturals that is not empty has a greatest element.
LEMMA GreatestNat ==
    ASSUME NEW T \in SUBSET Nat, IsFiniteSet(T), T # {}
    PROVE  \E x \in T : \A y \in T : y <= x
<1> DEFINE n == Cardinality(T)
           Left(x) == {y \in T : y > x}
           counts == {Cardinality(Left(x)) : x \in T}
<1>1. \A x \in T : IsFiniteSet(Left(x)) /\ Cardinality(Left(x)) \in Nat
  BY FS_Subset, FS_CardinalityType
<1>2. counts \in SUBSET Nat /\ counts # {}
  BY <1>1
<1> HIDE DEF counts
<1>3. PICK k \in counts : \A j \in counts : k <= j
  BY <1>2, LeastNat
<1>4. PICK x \in T : k = Cardinality(Left(x))
  BY DEF counts
<1>5. ASSUME NEW y \in T, y > x PROVE FALSE
  <2>1. Left(y) \subseteq Left(x) /\ y \in Left(x) /\ y \notin Left(y)
    <3>1. x \in Nat /\ y \in Nat /\ \A z \in T : z \in Nat
      OBVIOUS
    <3>2. \A z \in T : z > y => z > x
      BY <1>5, <3>1
    <3>3. ~ (y > y) /\ y > x
      BY <1>5, <3>1
    <3> QED BY <3>2, <3>3
  <2>2. Cardinality(Left(y)) < Cardinality(Left(x))
    <3> HIDE DEF Left
    <3>1. Cardinality(Left(y)) <= Cardinality(Left(x)) /\ Cardinality(Left(y)) # Cardinality(Left(x))
      BY <1>1, <2>1, FS_Subset
    <3> QED BY <1>1, <3>1
  <2>3. Cardinality(Left(y)) \in counts
    BY DEF counts
  <2> QED BY <1>1, <1>3, <1>4, <2>2, <2>3
<1> QED BY <1>4, <1>5

\* A finite set of naturals can be sorted.
LEMMA SortedFacts ==
    ASSUME NEW S \in SUBSET Nat, IsFiniteSet(S)
    PROVE  Sorted(S) \in Seq(S) /\ ElementsOf(Sorted(S)) = S /\ Len(Sorted(S)) \in Nat
<1> DEFINE Ascends(o) == \A i, j \in DOMAIN o : i < j => o[i] < o[j]
           n == Cardinality(S)
           T == {k \in 0..n : \A X \in SUBSET S : Cardinality(X) = k => \E o \in Orders(X) : Ascends(o)}
<1>1. n \in Nat /\ \A X \in SUBSET S : IsFiniteSet(X) /\ Cardinality(X) \in Nat
  BY FS_CardinalityType, FS_Subset
<1>2. 0 \in T
  <2>1. ASSUME NEW X \in SUBSET S, Cardinality(X) = 0 PROVE \E o \in Orders(X) : Ascends(o)
    <3>1. X = {}
      BY <1>1, <2>1, FS_EmptySet
    <3> DEFINE o == [i \in 1..0 |-> i]
    <3>2. o \in Orders(X) /\ Ascends(o)
      BY <2>1, <3>1 DEF Orders
    <3> QED BY <3>2
  <2> QED BY <1>1, <2>1
<1>3. ASSUME NEW k \in 1..n, k - 1 \in T PROVE k \in T
  <2>1. ASSUME NEW X \in SUBSET S, Cardinality(X) = k PROVE \E o \in Orders(X) : Ascends(o)
    <3>1. X # {}
      BY <1>1, <2>1, FS_EmptySet
    <3>2. PICK x \in X : \A y \in X : y <= x
      BY <1>1, <3>1, GreatestNat
    <3> DEFINE Y == X \ {x}
    <3>3. Y \in SUBSET S /\ Cardinality(Y) = k - 1
      BY <1>1, <2>1, FS_RemoveElement
    <3>4. PICK p \in Orders(Y) : Ascends(p)
      BY <1>3, <3>3
    <3>5. /\ p \in [1..(k-1) -> Y] /\ \A i, j \in 1..(k-1) : p[i] = p[j] => i = j
          /\ \A i, j \in 1..(k-1) : i < j => p[i] < p[j]
      BY <3>3, <3>4 DEF Orders
    <3> DEFINE o == [i \in 1..k |-> IF i = k THEN x ELSE p[i]]
    <3>6. o \in [1..k -> X] /\ o[k] = x /\ \A i \in 1..(k-1) : o[i] = p[i] /\ o[i] \in Y
      BY <3>5
    <3> HIDE DEF o
    <3>7. \A i, j \in 1..k : o[i] = o[j] => i = j
      <4> TAKE i, j \in 1..k
      <4>1. (i = k \/ i \in 1..(k-1)) /\ (j = k \/ j \in 1..(k-1))
        OBVIOUS
      <4> QED BY <3>5, <3>6, <4>1
    <3>8. \A i, j \in 1..k : i < j => o[i] < o[j]
      <4> SUFFICES ASSUME NEW i \in 1..k, NEW j \in 1..k, i < j PROVE o[i] < o[j]
        OBVIOUS
      <4>1. i \in 1..(k-1) /\ (j = k \/ j \in 1..(k-1))
        OBVIOUS
      <4>2. CASE j = k
        <5>1. o[i] \in X /\ o[i] # x /\ o[j] = x
          BY <3>6, <4>1, <4>2
        <5>2. o[i] <= x /\ o[i] \in Nat /\ x \in Nat
          BY <3>2, <5>1
        <5> QED BY <5>1, <5>2
      <4>3. CASE j \in 1..(k-1)
        BY <3>5, <3>6, <4>1, <4>3
      <4> QED BY <4>1, <4>2, <4>3
    <3>9. o \in Orders(X) /\ Ascends(o)
      BY <2>1, <3>6, <3>7, <3>8 DEF Orders
    <3> QED BY <3>9
  <2> QED BY <2>1
<1> HIDE DEF T
<1>4. n \in T
  BY <1>1, <1>2, <1>3, LoopInduction
<1>5. \E o \in Orders(S) : Ascends(o)
  BY <1>4 DEF T
<1>6. Sorted(S) \in Orders(S)
  BY <1>5 DEF Sorted
<1> QED BY <1>6, OrdersFacts

-----------------------------------------------------------------------------
(* Packing *)

\* A bin, and what a row of bins holds.
Bin == [free : Int, maps : SUBSET Maps]
Packed(bins) == UNION {bins[i].maps : i \in DOMAIN bins}

\* The weights of a set of maps add up to a number.
LEMMA SumIsNat ==
    ASSUME NEW S \in SUBSET Maps
    PROVE  SumOf(MapsWeight, S) \in Nat
<1> DEFINE column(x) == {x} \X (1..MapsWeight[x])
           columns == {column(x) : x \in S}
           f == [x \in S |-> column(x)]
<1>1. IsFiniteSet(S)
  BY MapsAssumption, FS_Subset
<1>2. \A x \in S : IsFiniteSet(column(x))
  <2> TAKE x \in S
  <2>1. MapsWeight[x] \in Int /\ 1 \in Int
    BY WeightAssumption
  <2>2. IsFiniteSet({x}) /\ IsFiniteSet(1..MapsWeight[x])
    BY <2>1, FS_Singleton, FS_Interval
  <2> QED BY <2>2, FS_Product
<1>3. f \in Surjection(S, columns)
  BY DEF Surjection
<1> HIDE DEF f
<1>4. IsFiniteSet(columns)
  BY <1>1, <1>3, FS_Surjection
<1>5. \A c \in columns : IsFiniteSet(c)
  BY <1>2
<1> HIDE DEF columns
<1>6. IsFiniteSet(UNION columns)
  BY <1>4, <1>5, FS_UNION
<1> QED BY <1>6, FS_CardinalityType DEF SumOf, columns

\* The size of a bin and the weight that counts for it are numbers.
LEMMA WeightsAreInts ==
    ASSUME NEW S \in SUBSET Maps, NEW n \in Nat \ {0}
    PROVE  WeightPerServer(S, n) \in Int
<1>1. SumOf(MapsWeight, S) \in Nat
  BY SumIsNat
<1> DEFINE x == SumOf(MapsWeight, S) + n - 1
<1>2. x \in Int
  BY <1>1
<1> HIDE DEF x
<1>3. x \div n \in Int
  BY <1>2
<1> QED BY <1>3 DEF WeightPerServer, x

\* First fit puts the map into one of the bins.
LEMMA FirstFitPacks ==
    ASSUME NEW bins \in Seq(Bin), NEW m \in Maps, NEW cap \in Int
    PROVE  /\ FirstFit(bins, m, cap) \in Seq(Bin)
           /\ Packed(FirstFit(bins, m, cap)) = Packed(bins) \cup {m}
<1> DEFINE w == CappedWeight(m, cap)
           room == {b \in DOMAIN bins : bins[b].free >= w}
           k == CHOOSE b \in room : \A c \in room : b <= c
           fresh == [free |-> cap - w, maps |-> {m}]
           fuller == [free |-> bins[k].free - w, maps |-> bins[k].maps \cup {m}]
<1>1. w \in Int
  BY WeightAssumption DEF CappedWeight
<1>2. /\ Len(bins) \in Nat /\ DOMAIN bins = 1..Len(bins)
      /\ \A i \in 1..Len(bins) : bins[i] \in Bin
  BY LenProperties
<1> HIDE DEF w
<1>3. CASE room = {}
  <2>1. FirstFit(bins, m, cap) = Append(bins, fresh)
    BY <1>3 DEF FirstFit, w
  <2>2. fresh \in Bin /\ fresh.maps = {m}
    BY <1>1 DEF Bin
  <2> HIDE DEF fresh
  <2> DEFINE new == Append(bins, fresh)
  <2>3. /\ new \in Seq(Bin) /\ DOMAIN new = 1..(Len(bins) + 1)
        /\ \A i \in 1..Len(bins) : new[i] = bins[i]
        /\ new[Len(bins) + 1] = fresh
    BY <2>2, AppendProperties, LenProperties
  <2> HIDE DEF new
  <2>4. Packed(new) = Packed(bins) \cup {m}
    <3>1. ASSUME NEW x \in Packed(new) PROVE x \in Packed(bins) \cup {m}
      <4>1. PICK i \in DOMAIN new : x \in new[i].maps
        BY <3>1 DEF Packed
      <4> QED BY <1>2, <2>2, <2>3, <4>1 DEF Packed
    <3>2. ASSUME NEW x \in Packed(bins) PROVE x \in Packed(new)
      <4>1. PICK i \in DOMAIN bins : x \in bins[i].maps
        BY <3>2 DEF Packed
      <4> QED BY <1>2, <2>3, <4>1 DEF Packed
    <3>3. m \in Packed(new)
      <4>1. Len(bins) + 1 \in DOMAIN new
        BY <1>2, <2>3
      <4> QED BY <2>2, <2>3, <4>1 DEF Packed
    <3> QED BY <3>1, <3>2, <3>3
  <2> QED BY <2>1, <2>3, <2>4 DEF new
<1>4. CASE room # {}
  <2>1. \E b \in room : \A c \in room : b <= c
    <3>1. room \in SUBSET Nat
      BY <1>2
    <3> HIDE DEF room
    <3> QED BY <1>4, <3>1, LeastNat
  <2>2. k \in room
    <3> HIDE DEF room
    <3> QED BY <2>1
  <2>3. FirstFit(bins, m, cap) = [bins EXCEPT ![k] = fuller]
    BY <1>4 DEF FirstFit, w
  <2> HIDE DEF k
  <2>4. k \in 1..Len(bins) /\ bins[k] \in Bin
    BY <1>2, <2>2
  <2>5. fuller \in Bin /\ fuller.maps = bins[k].maps \cup {m}
    BY <1>1, <2>4 DEF Bin
  <2> HIDE DEF fuller, room
  <2> DEFINE new == [bins EXCEPT ![k] = fuller]
  <2>6. /\ new \in Seq(Bin) /\ DOMAIN new = 1..Len(bins)
        /\ \A i \in 1..Len(bins) : new[i] = IF i = k THEN fuller ELSE bins[i]
    BY <2>4, <2>5, ExceptSeq, LenProperties
  <2> HIDE DEF new
  <2>7. Packed(new) = Packed(bins) \cup {m}
    <3>1. ASSUME NEW x \in Packed(new) PROVE x \in Packed(bins) \cup {m}
      <4>1. PICK i \in DOMAIN new : x \in new[i].maps
        BY <3>1 DEF Packed
      <4> QED BY <1>2, <2>4, <2>5, <2>6, <4>1 DEF Packed
    <3>2. ASSUME NEW x \in Packed(bins) PROVE x \in Packed(new)
      <4>1. PICK i \in DOMAIN bins : x \in bins[i].maps
        BY <3>2 DEF Packed
      <4>2. x \in new[i].maps
        BY <1>2, <2>5, <2>6, <4>1
      <4> QED BY <1>2, <2>6, <4>1, <4>2 DEF Packed
    <3>3. m \in Packed(new)
      BY <2>4, <2>5, <2>6 DEF Packed
    <3> QED BY <3>1, <3>2, <3>3
  <2> QED BY <2>3, <2>6, <2>7 DEF new
<1> QED BY <1>3, <1>4

\* The bins after each map.
LEMMA PackingRuns ==
    ASSUME NEW n \in Nat, NEW order \in [1..n -> Maps], Len(order) = n, NEW cap \in Int
    PROVE  \E f :
              /\ f[0] = <<>> /\ \A i \in 1..n : f[i] = FirstFit(f[i-1], order[i], cap)
              /\ Packing(order, cap) = f[n]
<1> DEFINE F == [x \in Seq(Bin) \X (1..n) |-> FirstFit(x[1], order[x[2]], cap)]
           Runs(f) == f = [i \in 0..n |-> IF i = 0 THEN <<>> ELSE FirstFit(f[i-1], order[i], cap)]
<1>1. <<>> \in Seq(Bin) /\ \A i \in 1..n : order[i] \in Maps
  BY EmptySeq
<1>2. F \in [Seq(Bin) \X (1..n) -> Seq(Bin)]
  BY <1>1, FirstFitPacks
<1>3. \A b \in Seq(Bin), i \in 1..n : F[<<b, i>>] = FirstFit(b, order[i], cap)
  OBVIOUS
<1> HIDE DEF F
<1>4. PICK f : f \in [0..n -> Seq(Bin)] /\ f[0] = <<>> /\ \A i \in 1..n : f[i] = F[<<f[i-1], i>>]
  <2> HIDE DEF Runs
  <2>1. \E f : Records(f, n, Seq(Bin), <<>>, F)
    BY <1>1, <1>2, LoopOutcome
  <2> QED BY <2>1 DEF Records
<1>5. \A i \in 1..n : f[i] = FirstFit(f[i-1], order[i], cap)
  <2> TAKE i \in 1..n
  <2>1. i - 1 \in 0..n
    OBVIOUS
  <2> QED BY <1>3, <1>4, <2>1
<1>6. Runs(f)
  <2>1. \A i \in 0..n : f[i] = IF i = 0 THEN <<>> ELSE FirstFit(f[i-1], order[i], cap)
    BY <1>4, <1>5
  <2>2. DOMAIN f = 0..n /\ f = [i \in DOMAIN f |-> f[i]]
    BY <1>4
  <2> QED BY <2>1, <2>2
<1> DEFINE bins == CHOOSE g : Runs(g)
<1>7. Runs(bins)
  <2> HIDE DEF Runs
  <2> QED BY <1>6
<1>8. Packing(order, cap) = bins[n]
  BY DEF Packing
<1> HIDE DEF bins
<1>9. bins[0] = <<>> /\ \A i \in 1..n : bins[i] = FirstFit(bins[i-1], order[i], cap)
  BY <1>7
<1> QED BY <1>8, <1>9

\* Every map that is lined up is in a bin.
LEMMA PackingPacks ==
    ASSUME NEW S \in SUBSET Maps, NEW order \in Orders(S), NEW cap \in Int
    PROVE  Packing(order, cap) \in Seq(Bin) /\ Packed(Packing(order, cap)) = S
<1>1. PICK n \in Nat : /\ n = Len(order) /\ order \in [1..n -> Maps]
                       /\ ElementsOf(order) = S /\ DOMAIN order = 1..n
  BY MapsAssumption, FS_Subset, OrdersFacts DEF Orders
<1>2. PICK f :
         /\ f[0] = <<>> /\ \A i \in 1..n : f[i] = FirstFit(f[i-1], order[i], cap)
         /\ Packing(order, cap) = f[n]
  BY <1>1, PackingRuns
<1> DEFINE Done(i) == {order[j] : j \in 1..i}
           T == {i \in 0..n : f[i] \in Seq(Bin) /\ Packed(f[i]) = Done(i)}
<1>3. 0 \in T
  <2>1. DOMAIN <<>> = {}
    BY EmptySeq, LenProperties
  <2>2. f[0] \in Seq(Bin) /\ Packed(f[0]) = {} /\ Done(0) = {}
    BY <1>2, <2>1, EmptySeq DEF Packed
  <2>3. 0 \in 0..n
    OBVIOUS
  <2> HIDE DEF Done
  <2> QED BY <2>2, <2>3
<1>4. ASSUME NEW i \in 1..n, i - 1 \in T PROVE i \in T
  <2>1. Packed(f[i-1]) = Done(i-1) /\ f[i-1] \in Seq(Bin) /\ order[i] \in Maps /\ i \in 0..n
    <3>1. f[i-1] \in Seq(Bin) /\ Packed(f[i-1]) = Done(i-1) /\ i \in 0..n
      BY <1>4
    <3>2. order[i] \in Maps
      BY <1>1
    <3> QED BY <3>1, <3>2
  <2>2. f[i] = FirstFit(f[i-1], order[i], cap)
    BY <1>2
  <2>3. f[i] \in Seq(Bin) /\ Packed(f[i]) = Packed(f[i-1]) \cup {order[i]}
    <3>1. FirstFit(f[i-1], order[i], cap) \in Seq(Bin) /\ Packed(FirstFit(f[i-1], order[i], cap)) = Packed(f[i-1]) \cup {order[i]}
      BY <2>1, FirstFitPacks
    <3> QED BY <2>2, <3>1
  <2>4. Done(i) = Done(i-1) \cup {order[i]}
    <3>1. 1..i = (1..(i-1)) \cup {i}
      OBVIOUS
    <3> QED BY <3>1
  <2> QED BY <2>1, <2>3, <2>4
<1> HIDE DEF T
<1>5. n \in T
  BY <1>3, <1>4, LoopInduction
<1>6. Done(n) = S
  BY <1>1 DEF ElementsOf
<1> QED BY <1>2, <1>5, <1>6 DEF T

\* Every server gets a bin, and every map a server, if no bin is cut off.
LEMMA PackedMapsHaveHosts ==
    ASSUME NEW B \in SUBSET Servers, B # {}, NEW R \in SUBSET Maps, NEW l \in Orders(B),
           \A o \in HeavyFirst(R, WeightPerServer(R, Cardinality(B))) :
               Len(Packing(o, WeightPerServer(R, Cardinality(B)))) <= Cardinality(B),
           NEW packed \in GreedyBinPack(R, l)
    PROVE  packed \in [B -> SUBSET Maps] /\ \A m \in R : \E s \in B : m \in packed[s]
<1> DEFINE n == Cardinality(B)
           cap == WeightPerServer(R, n)
           binOf(s) == CHOOSE i \in 1..n : l[i] = s
<1>1. IsFiniteSet(B) /\ n \in Nat \ {0}
  <2>1. IsFiniteSet(B)
    BY ServersAssumption, FS_Subset
  <2> QED BY <2>1, FS_EmptySet, FS_CardinalityType
<1>2. /\ Len(l) = n /\ DOMAIN l = 1..n /\ ElementsOf(l) = B
      /\ \A i, j \in 1..n : l[i] = l[j] => i = j
  BY <1>1, OrdersFacts
<1>3. {l[i] : i \in 1..n} = B
  BY <1>2 DEF ElementsOf
<1>4. cap \in Int
  BY <1>1, WeightsAreInts
<1>5. PICK o \in HeavyFirst(R, cap) :
         packed = [s \in B |-> IF binOf(s) <= Len(Packing(o, cap)) THEN Packing(o, cap)[binOf(s)].maps ELSE {}]
  <2> DEFINE k == Len(l)
             c == WeightPerServer(R, k)
             bin(s) == CHOOSE i \in 1..k : l[i] = s
  <2>1. PICK p \in {Packing(o, c) : o \in HeavyFirst(R, c)} :
           packed = [s \in {l[i] : i \in 1..k} |-> IF bin(s) <= Len(p) THEN p[bin(s)].maps ELSE {}]
    BY DEF GreedyBinPack
  <2>2. PICK o \in HeavyFirst(R, c) : p = Packing(o, c)
    BY <2>1
  <2>3. k = n
    BY <1>2
  <2>4. packed = [s \in B |-> IF bin(s) <= Len(p) THEN p[bin(s)].maps ELSE {}]
    BY <1>3, <2>1, <2>3
  <2> QED BY <2>2, <2>3, <2>4
<1>6. o \in Orders(R) /\ Len(Packing(o, cap)) <= n
  BY <1>5 DEF HeavyFirst
<1> DEFINE p == Packing(o, cap)
<1>7. p \in Seq(Bin) /\ Packed(p) = R
  BY <1>4, <1>6, PackingPacks
<1>8. Len(p) \in Nat /\ DOMAIN p = 1..Len(p) /\ \A i \in 1..Len(p) : p[i] \in Bin
  BY <1>7, LenProperties
<1> HIDE DEF p, cap, n
<1>9. \A i \in 1..n : l[i] \in B /\ binOf(l[i]) = i
  BY <1>2, <1>3
<1>10. \A s \in B : binOf(s) \in 1..n /\ l[binOf(s)] = s
  BY <1>3
<1>11. packed = [s \in B |-> IF binOf(s) <= Len(p) THEN p[binOf(s)].maps ELSE {}]
  BY <1>5 DEF p
<1> HIDE DEF binOf
<1>12. packed \in [B -> SUBSET Maps]
  <2>1. ASSUME NEW s \in B PROVE packed[s] \in SUBSET Maps
    <3>1. CASE binOf(s) <= Len(p)
      <4>1. binOf(s) \in 1..Len(p)
        BY <1>1, <1>8, <1>10, <3>1 DEF n
      <4> QED BY <1>8, <1>11, <3>1, <4>1 DEF Bin
    <3>2. CASE ~(binOf(s) <= Len(p))
      BY <1>11, <3>2
    <3> QED BY <3>1, <3>2
  <2>2. packed = [s \in B |-> packed[s]]
    BY <1>11
  <2> QED BY <2>1, <2>2
<1>13. ASSUME NEW m \in R PROVE \E s \in B : m \in packed[s]
  <2>1. PICK i \in 1..Len(p) : m \in p[i].maps
    BY <1>7, <1>8, <1>13 DEF Packed
  <2>2. i \in 1..n /\ i <= Len(p)
    BY <1>1, <1>6, <1>8, <2>1 DEF p, n
  <2>3. l[i] \in B /\ binOf(l[i]) = i
    BY <1>9, <2>2
  <2>4. packed[l[i]] = p[i].maps
    BY <1>11, <2>2, <2>3
  <2> QED BY <2>1, <2>3, <2>4
<1> QED BY <1>12, <1>13

\* Every map has a host after Distribute, if the servers suffice.
LEMMA DistributedMapsHaveHosts ==
    ASSUME NEW S \in SUBSET Servers, ToBalance(S) # {}, Fits(S), NEW d \in Distribute(S)
    PROVE  d \in [S -> SUBSET Maps] /\ \A m \in Maps : \E s \in S : m \in d[s]
<1> DEFINE B == ToBalance(S)
           R == RestOfMaps(S)
<1>1. B \in SUBSET Servers /\ B \subseteq S /\ B # {} /\ R \in SUBSET Maps
  BY DEF ToBalance, RestOfMaps
<1>2. IsFiniteSet(B)
  BY <1>1, ServersAssumption, FS_Subset
<1>3. Cardinality(B) > 0
  BY <1>1, <1>2, FS_EmptySet, FS_CardinalityType
<1>4. \A o \in HeavyFirst(R, WeightPerServer(R, Cardinality(B))) :
         Len(Packing(o, WeightPerServer(R, Cardinality(B)))) <= Cardinality(B)
  BY <1>3 DEF Fits
<1>5. PICK l \in Orders(B) : \E packed \in GreedyBinPack(R, l) :
         d = [s \in S |-> IF s \in B THEN packed[s] ELSE AvailableMaps[s]]
  BY DEF Distribute
<1>6. PICK packed \in GreedyBinPack(R, l) : d = [s \in S |-> IF s \in B THEN packed[s] ELSE AvailableMaps[s]]
  BY <1>5
<1>7. packed \in [B -> SUBSET Maps] /\ \A m \in R : \E s \in B : m \in packed[s]
  <2> HIDE DEF B, R
  <2> QED BY <1>1, <1>4, <1>5, <1>6, PackedMapsHaveHosts
<1>8. d \in [S -> SUBSET Maps]
  <2>1. \A s \in S : AvailableMaps[s] \in SUBSET Maps
    BY AvailableAssumption
  <2> HIDE DEF B, R
  <2> QED BY <1>6, <1>7, <2>1
<1>9. ASSUME NEW m \in Maps PROVE \E s \in S : m \in d[s]
  <2>1. CASE m \in R
    BY <1>1, <1>6, <1>7, <2>1
  <2>2. CASE m \notin R
    <3>1. PICK s \in S : m \in AvailableMaps[s]
      BY <2>2 DEF RestOfMaps
    <3>2. s \notin B
      BY <3>1 DEF ToBalance, IsAllMapsAvailable
    <3> QED BY <1>6, <3>1, <3>2
  <2> QED BY <2>1, <2>2
<1> QED BY <1>8, <1>9

-----------------------------------------------------------------------------
(* Layers *)

\* What the layers work on: the lists of maps of the servers, in their arrays.
MapList == [assigned : Seq(Maps), spare : Seq(Maps)]

\* The servers that are assigned map m.
HostsIn(arrays, m) == {s \in DOMAIN arrays : m \in ElementsOf(arrays[s].assigned)}

\* The elements of a list of maps are maps, and can be sorted.
LEMMA SortedMaps ==
    ASSUME NEW X \in SUBSET Maps
    PROVE  Sorted(X) \in Seq(Maps) /\ ElementsOf(Sorted(X)) = X
<1>1. X \in SUBSET Nat /\ IsFiniteSet(X)
  BY MapsAssumption, FS_Subset
<1>2. Sorted(X) \in Seq(X) /\ ElementsOf(Sorted(X)) = X
  BY <1>1, SortedFacts
<1> QED BY <1>2, SeqMonotonic

\* A list of maps holds maps.
LEMMA ListedMaps ==
    ASSUME NEW s \in Seq(Maps)
    PROVE  ElementsOf(s) \in SUBSET Maps
BY LenProperties DEF ElementsOf

\* removeMap takes the map out of the list.
LEMMA MapIsRemoved ==
    ASSUME NEW a \in MapList, NEW m \in Maps
    PROVE  RemoveMap(a, m) \in MapList /\ ElementsOf(RemoveMap(a, m).assigned) = ElementsOf(a.assigned) \ {m}
<1> DEFINE X == ElementsOf(a.assigned) \ {m}
           kept == Sorted(X)
           array == a.assigned \o a.spare
           spare == SubSeq(array, Len(kept) + 1, Len(array))
<1>1. a.assigned \in Seq(Maps) /\ a.spare \in Seq(Maps)
  BY DEF MapList
<1>2. X \in SUBSET Maps
  BY <1>1, ListedMaps
<1>3. kept \in Seq(Maps) /\ ElementsOf(kept) = X
  BY <1>2, SortedMaps
<1>4. array \in Seq(Maps) /\ Len(array) \in Nat /\ \A i \in 1..Len(array) : array[i] \in Maps
  BY <1>1, ConcatProperties, LenProperties
<1>5. Len(kept) \in Nat
  BY <1>3, LenProperties
<1> HIDE DEF X, kept, array
<1>6. spare \in Seq(Maps)
  <2>1. Len(kept) + 1 \in Int /\ Len(array) \in Int /\ \A i \in (Len(kept) + 1)..Len(array) : array[i] \in Maps
    BY <1>4, <1>5
  <2> QED BY <2>1, SubSeqProperties
<1>7. RemoveMap(a, m) = [assigned |-> kept, spare |-> spare]
  BY DEF RemoveMap, kept, array, X
<1> HIDE DEF spare
<1> QED BY <1>3, <1>6, <1>7 DEF MapList, X

\* append and sort add it.
LEMMA MapIsAppended ==
    ASSUME NEW a \in MapList, NEW m \in Maps
    PROVE  AppendMap(a, m) \in MapList /\ ElementsOf(AppendMap(a, m).assigned) = ElementsOf(a.assigned) \cup {m}
<1> DEFINE X == ElementsOf(a.assigned) \cup {m}
           spare == IF a.spare = <<>> THEN <<>> ELSE Tail(a.spare)
<1>1. a.assigned \in Seq(Maps) /\ a.spare \in Seq(Maps)
  BY DEF MapList
<1>2. X \in SUBSET Maps
  BY <1>1, ListedMaps
<1>3. Sorted(X) \in Seq(Maps) /\ ElementsOf(Sorted(X)) = X
  BY <1>2, SortedMaps
<1>4. spare \in Seq(Maps)
  BY <1>1, EmptySeq, HeadTailProperties
<1>5. AppendMap(a, m) = [assigned |-> Sorted(X), spare |-> spare]
  BY DEF AppendMap
<1> HIDE DEF spare, X
<1>6. AppendMap(a, m).assigned = Sorted(X) /\ AppendMap(a, m) \in MapList
  BY <1>3, <1>4, <1>5 DEF MapList
<1> QED BY <1>3, <1>6 DEF X

\* A replica goes to a server that has none; only if every server that can run
\* all maps has one, none may be added.
LEMMA ReplicaIsAdded ==
    ASSUME NEW S \in SUBSET Servers, NEW arrays \in [S -> MapList], NEW m \in Maps
    PROVE  /\ AddReplica(arrays, m) \in [S -> MapList]
           /\ \A x \in Maps : x # m => HostsIn(AddReplica(arrays, m), x) = HostsIn(arrays, x)
           /\ \/ \E s \in S : s \notin HostsIn(arrays, m) /\ HostsIn(AddReplica(arrays, m), m) = HostsIn(arrays, m) \cup {s}
              \/ ToBalance(S) \subseteq HostsIn(arrays, m) /\ HostsIn(AddReplica(arrays, m), m) = HostsIn(arrays, m)
<1> DEFINE candidates == {s \in S : /\ MapAvailable(s, arrays[s], m)
                                    /\ m \notin ElementsOf(arrays[s].assigned)}
           load(s) == Len(arrays[s].assigned)
           Best(s) == \A r \in candidates : load(s) < load(r) \/ (load(s) = load(r) /\ s <= r)
           best == CHOOSE s \in candidates : Best(s)
           r == AddReplica(arrays, m)
<1>1. DOMAIN arrays = S /\ \A s \in S : arrays[s] \in MapList /\ load(s) \in Nat
  BY LenProperties DEF MapList
<1>2. CASE candidates = {}
  <2>1. r = arrays
    BY <1>1, <1>2 DEF AddReplica
  <2>2. ToBalance(S) \subseteq HostsIn(arrays, m)
    BY <1>1, <1>2 DEF ToBalance, HostsIn, MapAvailable
  <2> QED BY <2>1, <2>2
<1>3. CASE candidates # {}
  <2>1. \E s \in candidates : Best(s)
    <3> DEFINE loads == {load(s) : s \in candidates}
    <3>1. loads \in SUBSET Nat /\ loads # {}
      BY <1>1, <1>3
    <3>2. PICK low \in loads : \A y \in loads : low <= y
      <4> HIDE DEF loads
      <4> QED BY <3>1, LeastNat
    <3> DEFINE lightest == {s \in candidates : load(s) = low}
    <3>3. lightest \in SUBSET Nat /\ lightest # {}
      BY <3>2, ServersAssumption
    <3>4. PICK s \in lightest : \A y \in lightest : s <= y
      <4> HIDE DEF lightest
      <4> QED BY <3>3, LeastNat
    <3>5. ASSUME NEW y \in candidates PROVE load(s) < load(y) \/ (load(s) = load(y) /\ s <= y)
      <4>1. load(s) = low /\ load(y) \in loads /\ low \in Nat /\ load(y) \in Nat /\ low <= load(y)
        BY <1>1, <3>1, <3>2, <3>4
      <4>2. CASE load(y) = low
        BY <3>4, <3>5, <4>1, <4>2
      <4>3. CASE load(y) # low
        BY <4>1, <4>3
      <4> QED BY <4>2, <4>3
    <3> QED BY <3>4, <3>5
  <2>2. best \in candidates
    <3> HIDE DEF candidates, Best
    <3> QED BY <2>1
  <2>3. r = [arrays EXCEPT ![best] = AppendMap(arrays[best], m)]
    BY <1>1, <1>3 DEF AddReplica
  <2> HIDE DEF best, r
  <2>4. best \in S /\ arrays[best] \in MapList /\ best \notin HostsIn(arrays, m)
    BY <1>1, <2>2 DEF HostsIn
  <2>5. /\ AppendMap(arrays[best], m) \in MapList
        /\ ElementsOf(AppendMap(arrays[best], m).assigned) = ElementsOf(arrays[best].assigned) \cup {m}
    BY <2>4, MapIsAppended
  <2>6. r \in [S -> MapList] /\ \A s \in S : r[s] = IF s = best THEN AppendMap(arrays[best], m) ELSE arrays[s]
    BY <2>3, <2>4, <2>5
  <2>7. \A s \in S : ElementsOf(r[s].assigned) = IF s = best THEN ElementsOf(arrays[s].assigned) \cup {m}
                                                             ELSE ElementsOf(arrays[s].assigned)
    BY <2>5, <2>6
  <2>8. DOMAIN r = S
    BY <2>6
  <2>9. \A x \in Maps : x # m => HostsIn(r, x) = HostsIn(arrays, x)
    <3> SUFFICES ASSUME NEW x \in Maps, x # m PROVE HostsIn(r, x) = HostsIn(arrays, x)
      OBVIOUS
    <3>1. \A s \in S : x \in ElementsOf(r[s].assigned) <=> x \in ElementsOf(arrays[s].assigned)
      BY <2>7
    <3> QED BY <1>1, <2>8, <3>1 DEF HostsIn
  <2>10. HostsIn(r, m) = HostsIn(arrays, m) \cup {best}
    <3>1. \A s \in S : m \in ElementsOf(r[s].assigned) <=> s = best \/ m \in ElementsOf(arrays[s].assigned)
      BY <2>7
    <3> QED BY <1>1, <2>4, <2>8, <3>1 DEF HostsIn
  <2> QED BY <2>4, <2>6, <2>9, <2>10 DEF r
<1> QED BY <1>2, <1>3

\* Enough servers, and no more than count, are assigned map m.
IsLayered(S, arrays, m, count) ==
    /\ Cardinality(HostsIn(arrays, m)) <= count
    /\ Cardinality(HostsIn(arrays, m)) = count \/ ToBalance(S) \subseteq HostsIn(arrays, m)

\* The lists after each replica.
LEMMA LayerMapRuns ==
    ASSUME NEW S \in SUBSET Servers, NEW arrays \in [S -> MapList], NEW m \in Maps, NEW count \in Nat
    PROVE  \E f : /\ f[0] = [s \in S |-> RemoveMap(arrays[s], m)]
                  /\ \A i \in 1..count : f[i] = AddReplica(f[i-1], m)
                  /\ LayerMap(arrays, m, count) = f[count]
<1> DEFINE V == [S -> MapList]
           c == [s \in S |-> RemoveMap(arrays[s], m)]
           F == [x \in V \X (1..count) |-> AddReplica(x[1], m)]
           Runs(f) == f = [i \in 0..count |-> IF i = 0 THEN c ELSE AddReplica(f[i-1], m)]
<1>1. c \in V /\ \A a \in V : AddReplica(a, m) \in V
  BY MapIsRemoved, ReplicaIsAdded
<1>2. DOMAIN arrays = S
  OBVIOUS
<1> HIDE DEF V, c
<1>3. F \in [V \X (1..count) -> V] /\ \A a \in V, i \in 1..count : F[<<a, i>>] = AddReplica(a, m)
  BY <1>1
<1> HIDE DEF F
<1>4. PICK f : f \in [0..count -> V] /\ f[0] = c /\ \A i \in 1..count : f[i] = F[<<f[i-1], i>>]
  <2> HIDE DEF Runs
  <2>1. \E f : Records(f, count, V, c, F)
    BY <1>1, <1>3, LoopOutcome
  <2> QED BY <2>1 DEF Records
<1>5. Runs(f)
  <2>1. ASSUME NEW i \in 0..count PROVE f[i] = IF i = 0 THEN c ELSE AddReplica(f[i-1], m)
    <3>1. CASE i = 0
      BY <1>4, <3>1
    <3>2. CASE i # 0
      <4>1. i - 1 \in 0..count /\ i \in 1..count
        BY <3>2
      <4> QED BY <1>3, <1>4, <3>2, <4>1
    <3> QED BY <3>1, <3>2
  <2>2. DOMAIN f = 0..count /\ f = [i \in DOMAIN f |-> f[i]]
    BY <1>4
  <2> QED BY <2>1, <2>2
<1> DEFINE replicas == CHOOSE g : Runs(g)
<1>6. Runs(replicas)
  <2> HIDE DEF Runs
  <2> QED BY <1>5
<1>7. LayerMap(arrays, m, count) = replicas[count]
  BY <1>2 DEF LayerMap, c
<1> HIDE DEF replicas
<1>8. replicas[0] = c /\ \A i \in 1..count : replicas[i] = AddReplica(replicas[i-1], m)
  BY <1>6
<1> QED BY <1>7, <1>8 DEF c

\* Layering a map leaves the others where they are.
LEMMA MapIsLayered ==
    ASSUME NEW S \in SUBSET Servers, NEW arrays \in [S -> MapList], NEW m \in Maps, NEW count \in Nat
    PROVE  /\ LayerMap(arrays, m, count) \in [S -> MapList]
           /\ \A x \in Maps : x # m => HostsIn(LayerMap(arrays, m, count), x) = HostsIn(arrays, x)
           /\ IsLayered(S, LayerMap(arrays, m, count), m, count)
<1>1. PICK f : /\ f[0] = [s \in S |-> RemoveMap(arrays[s], m)]
               /\ \A i \in 1..count : f[i] = AddReplica(f[i-1], m)
               /\ LayerMap(arrays, m, count) = f[count]
  BY LayerMapRuns
<1> DEFINE Same(a) == \A x \in Maps : x # m => HostsIn(a, x) = HostsIn(arrays, x)
           T == {i \in 0..count : f[i] \in [S -> MapList] /\ Same(f[i]) /\ IsLayered(S, f[i], m, i)}
<1>a. \A a \in [S -> MapList] : HostsIn(a, m) \in SUBSET S /\ IsFiniteSet(HostsIn(a, m)) /\ Cardinality(HostsIn(a, m)) \in Nat
  <2> TAKE a \in [S -> MapList]
  <2>1. HostsIn(a, m) \in SUBSET Servers /\ HostsIn(a, m) \in SUBSET S
    BY DEF HostsIn
  <2> QED BY <2>1, ServersAssumption, FS_Subset, FS_CardinalityType
<1>2. 0 \in T
  <2>1. \A s \in S : /\ f[0][s] \in MapList
                     /\ ElementsOf(f[0][s].assigned) = ElementsOf(arrays[s].assigned) \ {m}
    BY <1>1, MapIsRemoved
  <2>2. f[0] \in [S -> MapList]
    BY <1>1, <2>1
  <2>3. Same(f[0])
    <3> SUFFICES ASSUME NEW x \in Maps, x # m PROVE HostsIn(f[0], x) = HostsIn(arrays, x)
      OBVIOUS
    <3>1. \A s \in S : x \in ElementsOf(f[0][s].assigned) <=> x \in ElementsOf(arrays[s].assigned)
      BY <2>1
    <3>2. DOMAIN f[0] = S /\ DOMAIN arrays = S
      BY <2>2
    <3> QED BY <3>1, <3>2 DEF HostsIn
  <2>4. HostsIn(f[0], m) = {}
    <3>1. \A s \in S : m \notin ElementsOf(f[0][s].assigned)
      BY <2>1
    <3>2. DOMAIN f[0] = S
      BY <2>2
    <3> QED BY <3>1, <3>2 DEF HostsIn
  <2>5. IsLayered(S, f[0], m, 0)
    BY <2>4, FS_EmptySet DEF IsLayered
  <2> HIDE DEF Same
  <2> QED BY <2>2, <2>3, <2>5
<1>3. ASSUME NEW i \in 1..count, i - 1 \in T PROVE i \in T
  <2> DEFINE a == f[i-1]
             b == f[i]
  <2>1. a \in [S -> MapList] /\ Same(a) /\ IsLayered(S, a, m, i - 1)
    BY <1>3
  <2>2. b = AddReplica(a, m)
    BY <1>1
  <2> HIDE DEF a, b
  <2>3. /\ b \in [S -> MapList]
        /\ \A x \in Maps : x # m => HostsIn(b, x) = HostsIn(a, x)
        /\ \/ \E s \in S : s \notin HostsIn(a, m) /\ HostsIn(b, m) = HostsIn(a, m) \cup {s}
           \/ ToBalance(S) \subseteq HostsIn(a, m) /\ HostsIn(b, m) = HostsIn(a, m)
    BY <2>1, <2>2, ReplicaIsAdded
  <2>4. Same(b)
    BY <2>1, <2>3
  <2>5. IsLayered(S, b, m, i)
    <3>1. /\ IsFiniteSet(HostsIn(a, m)) /\ Cardinality(HostsIn(a, m)) \in Nat
          /\ Cardinality(HostsIn(a, m)) <= i - 1
          /\ Cardinality(HostsIn(a, m)) = i - 1 \/ ToBalance(S) \subseteq HostsIn(a, m)
      BY <1>a, <2>1 DEF IsLayered
    <3>2. CASE \E s \in S : s \notin HostsIn(a, m) /\ HostsIn(b, m) = HostsIn(a, m) \cup {s}
      <4>1. Cardinality(HostsIn(b, m)) = Cardinality(HostsIn(a, m)) + 1 /\ HostsIn(a, m) \subseteq HostsIn(b, m)
        BY <3>1, <3>2, FS_AddElement
      <4> QED BY <3>1, <4>1 DEF IsLayered
    <3>3. CASE ToBalance(S) \subseteq HostsIn(a, m) /\ HostsIn(b, m) = HostsIn(a, m)
      BY <3>1, <3>3 DEF IsLayered
    <3> QED BY <2>3, <3>2, <3>3
  <2>6. i \in 0..count
    OBVIOUS
  <2> HIDE DEF Same
  <2> QED BY <2>3, <2>4, <2>5, <2>6 DEF b
<1> HIDE DEF T
<1>4. count \in T
  BY <1>2, <1>3, LoopInduction
<1>5. f[count] \in [S -> MapList] /\ Same(f[count]) /\ IsLayered(S, f[count], m, count)
  BY <1>4 DEF T
<1> QED BY <1>1, <1>5

\* f: the lists after each layered map.
LayerRun(f, arrays, order, config) ==
    /\ f[0] = arrays
    /\ \A i \in 1..Len(order) : f[i] = LayerMap(f[i-1], order[i], config[order[i]])
    /\ LayerMaps(arrays, order, config) = f[Len(order)]

\* The layers are laid map by map.
LEMMA LayerMapsRuns ==
    ASSUME NEW S \in SUBSET Servers, NEW arrays \in [S -> MapList], NEW n \in Nat, NEW order \in [1..n -> Maps],
           Len(order) = n, NEW config \in [Maps -> Nat]
    PROVE  \E f : LayerRun(f, arrays, order, config)
<1> DEFINE V == [S -> MapList]
           Pass(a, i) == LayerMap(a, order[i], config[order[i]])
           F == [x \in V \X (1..n) |-> Pass(x[1], x[2])]
           Runs(f) == f = [i \in 0..n |-> IF i = 0 THEN arrays ELSE Pass(f[i-1], i)]
<1>1. arrays \in V /\ \A a \in V, i \in 1..n : Pass(a, i) \in V
  <2>1. \A i \in 1..n : order[i] \in Maps /\ config[order[i]] \in Nat
    OBVIOUS
  <2> QED BY <2>1, MapIsLayered
<1> HIDE DEF V, Pass
<1>2. F \in [V \X (1..n) -> V] /\ \A a \in V, i \in 1..n : F[<<a, i>>] = Pass(a, i)
  BY <1>1
<1> HIDE DEF F
<1>3. PICK f : f \in [0..n -> V] /\ f[0] = arrays /\ \A i \in 1..n : f[i] = F[<<f[i-1], i>>]
  <2> HIDE DEF Runs
  <2>1. \E f : Records(f, n, V, arrays, F)
    BY <1>1, <1>2, LoopOutcome
  <2> QED BY <2>1 DEF Records
<1>4. Runs(f)
  <2>1. ASSUME NEW i \in 0..n PROVE f[i] = IF i = 0 THEN arrays ELSE Pass(f[i-1], i)
    <3>1. CASE i = 0
      BY <1>3, <3>1
    <3>2. CASE i # 0
      <4>1. i - 1 \in 0..n /\ i \in 1..n
        BY <3>2
      <4> QED BY <1>2, <1>3, <3>2, <4>1
    <3> QED BY <3>1, <3>2
  <2>2. DOMAIN f = 0..n /\ f = [i \in DOMAIN f |-> f[i]]
    BY <1>3
  <2> QED BY <2>1, <2>2
<1> DEFINE step == CHOOSE g : Runs(g)
<1>5. Runs(step)
  <2> HIDE DEF Runs
  <2> QED BY <1>4
<1>6. LayerMaps(arrays, order, config) = step[n]
  BY DEF LayerMaps, Pass
<1> HIDE DEF step
<1>7. step[0] = arrays /\ \A i \in 1..n : step[i] = Pass(step[i-1], i)
  BY <1>5
<1>8. LayerRun(step, arrays, order, config)
  BY <1>6, <1>7 DEF Pass, LayerRun
<1> QED BY <1>8

\* Every layered map is layered, the others stay where they are.
LEMMA MapsAreLayered ==
    ASSUME NEW S \in SUBSET Servers, NEW arrays \in [S -> MapList], NEW L \in SUBSET Maps, NEW order \in Orders(L),
           NEW config \in [Maps -> Nat]
    PROVE  /\ LayerMaps(arrays, order, config) \in [S -> MapList]
           /\ \A m \in L : IsLayered(S, LayerMaps(arrays, order, config), m, config[m])
           /\ \A m \in Maps \ L : HostsIn(LayerMaps(arrays, order, config), m) = HostsIn(arrays, m)
<1>1. PICK n \in Nat : /\ n = Len(order) /\ order \in [1..n -> Maps]
                       /\ ElementsOf(order) = L /\ DOMAIN order = 1..n
                       /\ \A i, j \in 1..n : order[i] = order[j] => i = j
  <2>1. IsFiniteSet(L)
    BY MapsAssumption, FS_Subset
  <2>2. /\ Cardinality(L) \in Nat /\ Len(order) = Cardinality(L) /\ DOMAIN order = 1..Cardinality(L)
        /\ ElementsOf(order) = L /\ \A i, j \in DOMAIN order : order[i] = order[j] => i = j
    BY <2>1, OrdersFacts
  <2>3. order \in [1..Cardinality(L) -> Maps]
    BY DEF Orders
  <2> QED BY <2>2, <2>3
<1>a. PICK f : LayerRun(f, arrays, order, config)
  <2>1. n \in Nat /\ order \in [1..n -> Maps] /\ Len(order) = n
    BY <1>1
  <2> QED BY <2>1, LayerMapsRuns
<1>2. /\ f[0] = arrays
      /\ \A i \in 1..n : f[i] = LayerMap(f[i-1], order[i], config[order[i]])
      /\ LayerMaps(arrays, order, config) = f[n]
  BY <1>1, <1>a DEF LayerRun
<1> DEFINE Kept(i) == \A m \in Maps : (\A j \in 1..i : order[j] # m) => HostsIn(f[i], m) = HostsIn(arrays, m)
           Done(i) == \A j \in 1..i : IsLayered(S, f[i], order[j], config[order[j]])
           T == {i \in 0..n : f[i] \in [S -> MapList] /\ Kept(i) /\ Done(i)}
<1>3. 0 \in T
  <2>1. f[0] \in [S -> MapList] /\ Kept(0) /\ Done(0) /\ 0 \in 0..n
    BY <1>2
  <2> HIDE DEF Kept, Done
  <2> QED BY <2>1
<1>4. ASSUME NEW i \in 1..n, i - 1 \in T PROVE i \in T
  <2> DEFINE a == f[i-1]
             b == f[i]
             m == order[i]
             k == config[m]
  <2>1. a \in [S -> MapList] /\ Kept(i-1) /\ Done(i-1)
    BY <1>4
  <2>2. b = LayerMap(a, m, k) /\ m \in Maps /\ k \in Nat
    BY <1>1, <1>2
  <2>3. /\ \A x \in Maps : (\A j \in 1..(i-1) : order[j] # x) => HostsIn(a, x) = HostsIn(arrays, x)
        /\ \A j \in 1..(i-1) : IsLayered(S, a, order[j], config[order[j]])
    BY <2>1
  <2> HIDE DEF a, b, m, k
  <2>4. /\ b \in [S -> MapList] /\ IsLayered(S, b, m, k)
        /\ \A x \in Maps : x # m => HostsIn(b, x) = HostsIn(a, x)
    <3>1. a \in [S -> MapList] /\ m \in Maps /\ k \in Nat
      BY <2>1, <2>2
    <3>2. /\ LayerMap(a, m, k) \in [S -> MapList]
          /\ \A x \in Maps : x # m => HostsIn(LayerMap(a, m, k), x) = HostsIn(a, x)
          /\ IsLayered(S, LayerMap(a, m, k), m, k)
      BY <3>1, MapIsLayered
    <3> QED BY <2>2, <3>2
  <2>5. \A x \in Maps : (\A j \in 1..i : order[j] # x) => HostsIn(b, x) = HostsIn(arrays, x)
    <3>1. 1..(i-1) \subseteq 1..i /\ i \in 1..i
      OBVIOUS
    <3> QED BY <2>3, <2>4, <3>1 DEF m
  <2>6. \A j \in 1..i : IsLayered(S, b, order[j], config[order[j]])
    <3> TAKE j \in 1..i
    <3>1. CASE j = i
      BY <2>4, <3>1 DEF m, k
    <3>2. CASE j # i
      <4>1. j \in 1..(i-1) /\ j \in 1..n /\ order[j] # m /\ order[j] \in Maps
        BY <1>1, <3>2 DEF m
      <4>2. IsLayered(S, a, order[j], config[order[j]]) /\ HostsIn(b, order[j]) = HostsIn(a, order[j])
        BY <2>3, <2>4, <4>1
      <4> QED BY <4>2 DEF IsLayered
    <3> QED BY <3>1, <3>2
  <2>7. f[i] \in [S -> MapList] /\ Kept(i) /\ Done(i) /\ i \in 0..n
    BY <2>4, <2>5, <2>6 DEF b
  <2> HIDE DEF Kept, Done
  <2> QED BY <2>7
<1> HIDE DEF T
<1>5. n \in T
  BY <1>3, <1>4, LoopInduction
<1>6. f[n] \in [S -> MapList] /\ Kept(n) /\ Done(n)
  BY <1>5 DEF T
<1>7. \A m \in L : \E j \in 1..n : order[j] = m
  BY <1>1 DEF ElementsOf
<1>8. \A j \in 1..n : order[j] \in L
  BY <1>1 DEF ElementsOf
<1>9. \A m \in L : IsLayered(S, f[n], m, config[m])
  BY <1>6, <1>7
<1>10. \A m \in Maps \ L : HostsIn(f[n], m) = HostsIn(arrays, m)
  BY <1>6, <1>8
<1> QED BY <1>2, <1>6, <1>9, <1>10

\* What the layers leave: every map that is not layered is where Distribute put
\* it, every layered one on as many servers as the configuration says.
LEMMA PlansHostMaps ==
    ASSUME NEW S \in Sufficient, NEW c \in Configs \cup {NoLayers}, NEW plan \in PlansFor(S, c)
    PROVE  plan \in [S -> SUBSET Maps] /\ HostsMaps(plan, c)
<1> DEFINE B == ToBalance(S)
           L == {m \in DOMAIN c : c[m] >= 2}
<1>1. S \in SUBSET Servers /\ Fits(S)
  BY DEF Sufficient
<1>2. c \in [Maps -> Nat]
  BY ConfigsAssumption DEF NoLayers
<1>3. plan \in [S -> SUBSET Maps] /\ plan \in Assignments(S, c)
  BY DEF PlansFor, Distributions
<1>4. DOMAIN plan = S
  BY <1>3
<1>5. CASE B = {}
  <2>1. Cardinality(B) = 0
    BY <1>5, FS_EmptySet
  <2> HIDE DEF B
  <2>2. ~(Cardinality(B) > 0)
    BY <2>1
  <2> QED BY <1>3, <1>4, <2>2 DEF HostsMaps, B
<1>6. CASE B # {}
  <2>1. PICK d \in Distribute(S) : plan \in ApplyLayerAssignments(d, c)
    BY <1>3 DEF Assignments
  <2>2. d \in [S -> SUBSET Maps] /\ \A m \in Maps : \E s \in S : m \in d[s]
    BY <1>1, <1>6, <2>1, DistributedMapsHaveHosts
  <2> DEFINE arrays == [s \in S |-> [assigned |-> Sorted(d[s]), spare |-> <<>>]]
  <2>3. \A s \in S : Sorted(d[s]) \in Seq(Maps) /\ ElementsOf(Sorted(d[s])) = d[s]
    BY <2>2, SortedMaps
  <2>4. arrays \in [S -> MapList] /\ \A s \in S : ElementsOf(arrays[s].assigned) = d[s]
    <3>1. <<>> \in Seq(Maps)
      BY EmptySeq
    <3> QED BY <2>3, <3>1 DEF MapList
  <2>5. PICK o \in Orders(L) : plan = [s \in S |-> ElementsOf(LayerMaps(arrays, o, c)[s].assigned)]
    <3>1. DOMAIN d = S
      BY <2>2
    <3>2. \E o \in Orders(L) : plan = [s \in DOMAIN d |->
            ElementsOf(LayerMaps([x \in DOMAIN d |-> [assigned |-> Sorted(d[x]), spare |-> <<>>]], o, c)[s].assigned)]
      BY <2>1 DEF ApplyLayerAssignments
    <3> QED BY <3>1, <3>2
  <2> DEFINE r == LayerMaps(arrays, o, c)
  <2>6. L \in SUBSET Maps
    BY <1>2
  <2> HIDE DEF arrays, L
  <2>7. /\ r \in [S -> MapList]
        /\ \A m \in L : IsLayered(S, r, m, c[m])
        /\ \A m \in Maps \ L : HostsIn(r, m) = HostsIn(arrays, m)
    <3> HIDE DEF r
    <3>1. /\ LayerMaps(arrays, o, c) \in [S -> MapList]
          /\ \A m \in L : IsLayered(S, LayerMaps(arrays, o, c), m, c[m])
          /\ \A m \in Maps \ L : HostsIn(LayerMaps(arrays, o, c), m) = HostsIn(arrays, m)
      <4>1. S \in SUBSET Servers /\ arrays \in [S -> MapList] /\ L \in SUBSET Maps /\ o \in Orders(L) /\ c \in [Maps -> Nat]
        BY <1>1, <1>2, <2>4, <2>5, <2>6
      <4> QED BY <4>1, MapsAreLayered
    <3> QED BY <3>1 DEF r
  <2>8. plan = [s \in S |-> ElementsOf(r[s].assigned)]
    BY <2>5
  <2> HIDE DEF r
  <2>9. \A m \in Maps : {s \in DOMAIN plan : m \in plan[s]} = HostsIn(r, m)
    <3>1. DOMAIN r = S
      BY <2>7
    <3> QED BY <1>4, <2>8, <3>1 DEF HostsIn
  <2>10. ASSUME NEW m \in Maps
         PROVE  LET hosts == Cardinality({s \in DOMAIN plan : m \in plan[s]})
                IN  /\ hosts >= c[m] \/ hosts >= Cardinality(B)
                    /\ c[m] >= 2 => hosts <= c[m]
    <3> DEFINE H == HostsIn(r, m)
    <3>1. H \in SUBSET S /\ IsFiniteSet(S) /\ IsFiniteSet(H) /\ Cardinality(H) \in Nat /\ c[m] \in Nat
      <4>1. H \in SUBSET S
        BY <2>7 DEF HostsIn
      <4>2. IsFiniteSet(S)
        BY <1>1, ServersAssumption, FS_Subset
      <4> HIDE DEF H
      <4> QED BY <1>2, <4>1, <4>2, FS_Subset, FS_CardinalityType
    <3>2. CASE m \in L
      <4>1. Cardinality(H) <= c[m] /\ (Cardinality(H) = c[m] \/ B \subseteq H)
        BY <2>7, <3>2 DEF IsLayered
      <4> HIDE DEF H, B
      <4>2. B \subseteq H => Cardinality(B) <= Cardinality(H) /\ Cardinality(B) \in Nat
        BY <3>1, FS_Subset, FS_CardinalityType
      <4>3. Cardinality(H) <= c[m] /\ (Cardinality(H) >= c[m] \/ Cardinality(H) >= Cardinality(B))
        BY <3>1, <4>1, <4>2
      <4> QED BY <2>9, <4>3 DEF H
    <3>3. CASE m \notin L
      <4>1. H = HostsIn(arrays, m)
        BY <2>7, <3>3
      <4>2. PICK s \in S : m \in d[s]
        BY <2>2
      <4>3. s \in H
        <5>1. DOMAIN arrays = S
          BY <2>4
        <5> QED BY <2>4, <4>1, <4>2, <5>1 DEF HostsIn
      <4>4. ~(c[m] >= 2)
        BY <1>2, <3>3 DEF L
      <4> HIDE DEF H
      <4>5. Cardinality(H) >= 1
        <5>1. Cardinality(H) # 0
          BY <3>1, <4>3, FS_EmptySet
        <5> QED BY <3>1, <5>1
      <4>6. Cardinality(H) >= c[m]
        BY <3>1, <4>4, <4>5
      <4> QED BY <2>9, <4>4, <4>6 DEF H
    <3> QED BY <3>2, <3>3
  <2>11. B = ToBalance(DOMAIN plan)
    BY <1>4
  <2> HIDE DEF B
  <2> QED BY <1>3, <2>10, <2>11 DEF HostsMaps
<1> QED BY <1>5, <1>6

-----------------------------------------------------------------------------
(* Every map has a host *)

\* What the change t knows about the distribution: the plan is one for the
\* servers that are listed, and what is not left to do has been written.  A
\* confirmation keeps the assignment of a listed server.
PlanInv(t) ==
    /\ Distributes(t) =>
         /\ At(t, "values") => thread[t].ids = index
         /\ At(t, "config") => DOMAIN thread[t].snap = Listed
         /\ At(t, "update") =>
              /\ thread[t].plan \in PlansFor(Listed, layerConfig)
              /\ \A s \in Listed \ thread[t].todo : stored[s].assigned = thread[t].plan[s]
    /\ thread[t].op = "MapsLoaded" =>
         /\ At(t, "set") => stored[thread[t].server].assigned = thread[t].snap[thread[t].server].assigned
         /\ thread[t].pc \in {"set", "index"} => thread[t].server \in index

AssignedMaps == [s \in Listed |-> stored[s].assigned]
Hosted == Listed \in Sufficient => HostsMaps(AssignedMaps, layerConfig)

\* Between two distributions the assignments are those of a plan.
HostInv ==
    /\ \A t \in Threads : PlanInv(t)
    /\ (\A t \in Threads : ~Distributes(t)) => Hosted

\* What has to be shown when t alone may be changing servers.
LEMMA HostBySole ==
    ASSUME NEW t \in Threads, \A u \in Threads : u # t => ~Changing(u)',
           PlanInv(t)', Distributes(t)' \/ Hosted'
    PROVE  HostInv'
BY DEF HostInv, PlanInv, Distributes, Changing

\* Steps of other calls.
LEMMA HostStays ==
    ASSUME HostInv, ChangesStay
    PROVE  HostInv'
<1>1. UNCHANGED <<stored, index, layerConfig>> /\ Listed' = Listed /\ (Hosted' <=> Hosted)
  BY DEF ChangesStay, Listed, Hosted, AssignedMaps
<1>2. ASSUME NEW t \in Threads PROVE PlanInv(t)' /\ (Distributes(t)' <=> Distributes(t))
  <2>1. CASE thread'[t] = thread[t]
    BY <1>1, <2>1 DEF HostInv, PlanInv, Distributes, At
  <2>2. CASE ~Changing(t) /\ ~Changing(t)'
    BY <2>2 DEF PlanInv, Distributes, Changing
  <2> QED BY <2>1, <2>2 DEF ChangesStay, SameChange
<1> QED BY <1>1, <1>2 DEF HostInv

\* A change begins with nothing read.
LEMMA HostBegins ==
    ASSUME CoreOK, HostInv, Quiet, ChangeBegins
    PROVE  HostInv'
<1>1. Handlers \subseteq Threads /\ Checker \in Threads
  BY DEF Threads
<1>2. ASSUME NEW t \in Threads, NEW op \in {"Register", "Update", "Unhealthy"}, NEW pc \in {"set", "lock", "remove"},
             NEW s, NEW ms, Begin(t, op, pc, s, ms)
      PROVE  HostInv'
  <2>1. \A u \in Threads : u # t => ~Changing(u)'
    BY <1>2, Opens
  <2>2. thread'[t].op = op /\ thread'[t].pc = pc
    BY <1>2, Opens
  <2>3. PlanInv(t)' /\ Distributes(t)'
    BY <2>2 DEF PlanInv, Distributes, At
  <2> QED BY <2>1, <2>3, HostBySole
<1>3. ASSUME NEW t \in Handlers, NEW s \in Servers, NEW ms \in reports[s], MapsLoaded(t, s, ms) PROVE HostInv'
  <2>1. Begin(t, "MapsLoaded", "one", s, ms) /\ UNCHANGED <<stored, index, layerConfig>>
    BY <1>3 DEF MapsLoaded, BeginChange, redisVars
  <2>2. \A u \in Threads : u # t => ~Changing(u)'
    BY <1>1, <2>1, Opens
  <2>3. thread'[t].op = "MapsLoaded" /\ thread'[t].pc = "one"
    BY <1>1, <2>1, Opens
  <2>4. PlanInv(t)'
    BY <2>3 DEF PlanInv, Distributes, At
  <2>5. Hosted
    BY DEF HostInv, Quiet, Changing, Distributes
  <2>6. Hosted'
    BY <2>1, <2>5 DEF Hosted, AssignedMaps, Listed
  <2> QED BY <1>1, <2>2, <2>4, <2>6, HostBySole
<1>4. ASSUME NEW t \in Handlers, NEW s \in Servers, Register(t, s) PROVE HostInv'
  <2>1. Begin(t, "Register", "set", s, {})
    BY <1>4 DEF Register, BeginChange
  <2> QED BY <1>1, <1>2, <2>1
<1>5. ASSUME NEW t \in Handlers, NEW c \in Configs, UpdateConfiguration(t, c) PROVE HostInv'
  <2>1. Begin(t, "Update", "lock", NoServer, {})
    BY <1>5 DEF UpdateConfiguration, BeginChange
  <2> QED BY <1>1, <1>2, <2>1
<1>6. ASSUME NEW s \in Servers, HandleResult(s) PROVE HostInv'
  <2>1. Begin(Checker, "Unhealthy", "remove", s, {})
    BY <1>6 DEF HandleResult, BeginChange
  <2> QED BY <1>1, <1>2, <2>1
<1> QED BY <1>3, <1>4, <1>5, <1>6 DEF ChangeBegins

\* Upsert and Remove: a confirmation leaves the assignments alone.
LEMMA HostServersWritten ==
    ASSUME CoreOK, WatchInv, HostInv, NEW t \in Threads, Changing(t),
           MapsLoadedOne(t) \/ UpsertSet(t) \/ UpsertIndex(t) \/ RemoveIndex(t) \/ RemoveValue(t)
    PROVE  HostInv'
<1>a. /\ thread \in [Threads -> ThreadRecord] /\ thread[t] \in ThreadRecord /\ WellFormed(t, thread[t])
      /\ stored \in [Servers -> ServerRecord] /\ index \subseteq Servers
  BY DEF CoreOK, ThreadsOK, RedisOK
<1>b. \A u \in Threads : u # t => thread'[u] = thread[u] /\ ~Changing(u) /\ ~Changing(u)'
  BY Sole DEF WatchInv, ChangeStep
<1>c. \/ thread'[t] = Idle
      \/ /\ thread'[t].op = thread[t].op /\ thread'[t].server = thread[t].server
         /\ thread'[t].maps = thread[t].maps
  BY ChangeMoves DEF ChangeStep
<1>e. PlanInv(t) /\ Idle.op = "none" /\ Idle.pc = "idle"
  BY DEF HostInv, Idle
<1>1. CASE thread[t].op = "MapsLoaded"
  <2>1. ~Distributes(t) /\ ~RemoveIndex(t) /\ ~RemoveValue(t) /\ thread[t].server \in Servers
    BY <1>1, <1>a DEF Distributes, RemoveIndex, RemoveValue, At, WellFormed
  <2>h. Hosted
    BY <1>b, <2>1 DEF HostInv, Distributes, Changing
  <2>2. CASE MapsLoadedOne(t)
    <3>1. UNCHANGED <<stored, index, layerConfig>> /\ thread[t].pc = "one"
      BY <2>2 DEF MapsLoadedOne, redisVars, At
    <3>2. Hosted'
      BY <2>h, <3>1 DEF Hosted, AssignedMaps, Listed
    <3>3. PlanInv(t)'
      <4>1. CASE stored[thread[t].server].present
        <5> DEFINE x == [y \in {thread[t].server} |-> stored[thread[t].server]]
        <5>1. thread' = [thread EXCEPT ![t].pc = "set", ![t].snap = x] /\ x[thread[t].server] = stored[thread[t].server]
          BY <2>2, <4>1 DEF MapsLoadedOne
        <5> HIDE DEF x
        <5>2. /\ thread'[t].op = "MapsLoaded" /\ thread'[t].pc = "set" /\ thread'[t].server = thread[t].server
              /\ thread'[t].snap = x
          BY <1>a, <1>1, <5>1 DEF ThreadRecord
        <5>3. thread[t].server \in index
          <6>1. ~HalfListed(thread[t].server)
            BY <1>1, <1>b, <3>1 DEF HalfListed, At, Changing, Threads
          <6> QED BY <2>1, <4>1, <6>1 DEF WatchInv
        <5> QED BY <3>1, <5>1, <5>2, <5>3 DEF PlanInv, Distributes, At
      <4>2. CASE ~stored[thread[t].server].present
        <5>1. thread'[t] = Idle
          BY <1>a, <2>2, <4>2 DEF MapsLoadedOne, Return
        <5> QED BY <1>e, <5>1 DEF PlanInv, Distributes
      <4> QED BY <4>1, <4>2
    <3> QED BY <1>b, <3>2, <3>3, HostBySole
  <2>3. CASE UpsertSet(t)
    <3>1. thread[t].pc = "set" /\ UNCHANGED <<index, layerConfig>>
      BY <2>3 DEF UpsertSet, At
    <3>2. thread'[t].op = "MapsLoaded" /\ thread'[t].server = thread[t].server /\ thread'[t].pc = "index"
      BY <1>a, <1>1, <2>3 DEF UpsertSet, Goto, ThreadRecord
    <3>3. PICK s \in Servers : s = thread[t].server
      BY <2>1
    <3>4. /\ thread[t].snap[s] \in ServerRecord /\ thread[t].snap[s].present /\ stored[s].present
          /\ thread[t].snap[s].assigned = stored[s].assigned /\ s \in index
      <4>1. thread[t].snap[s] \in ServerRecord /\ thread[t].snap[s].present
        BY <1>a, <1>1, <3>1, <3>3 DEF WellFormed, ThreadRecord, Snapshots
      <4>2. stored[s].present
        BY <1>1, <3>1, <3>3 DEF WatchInv, KeepsWatched
      <4> QED BY <1>e, <1>1, <3>1, <3>3, <4>1, <4>2 DEF PlanInv, At
    <3>5. stored' = [stored EXCEPT ![s] = [thread[t].snap[s] EXCEPT !.pending = @ \ thread[t].maps]]
      BY <1>1, <2>3, <3>3 DEF UpsertSet
    <3>6. \A x \in Servers : stored'[x].present = stored[x].present /\ stored'[x].assigned = stored[x].assigned
      <4>1. \A x \in Servers : x # s => stored'[x] = stored[x]
        BY <1>a, <3>5
      <4>2. stored'[s].present = TRUE /\ stored[s].present = TRUE /\ stored'[s].assigned = stored[s].assigned
        BY <1>a, <3>4, <3>5 DEF ServerRecord
      <4> QED BY <4>1, <4>2
    <3>7. Listed' = Listed /\ AssignedMaps' = AssignedMaps
      BY <1>a, <3>1, <3>6 DEF Listed, AssignedMaps
    <3>8. Hosted'
      BY <2>h, <3>1, <3>7 DEF Hosted
    <3>9. PlanInv(t)'
      BY <3>1, <3>2, <3>3, <3>4 DEF PlanInv, Distributes, At
    <3> QED BY <1>b, <3>8, <3>9, HostBySole
  <2>4. CASE UpsertIndex(t)
    <3>1. UNCHANGED <<stored, layerConfig>> /\ index' = index
      BY <1>e, <1>1, <2>4 DEF UpsertIndex, PlanInv, At
    <3>2. thread'[t] = Idle
      BY <1>a, <1>1, <2>4 DEF UpsertIndex, Return
    <3>3. Hosted'
      BY <2>h, <3>1 DEF Hosted, AssignedMaps, Listed
    <3>4. PlanInv(t)'
      BY <1>e, <3>2 DEF PlanInv, Distributes
    <3> QED BY <1>b, <3>3, <3>4, HostBySole
  <2> QED BY <2>1, <2>2, <2>3, <2>4
<1>2. CASE thread[t].op # "MapsLoaded"
  <2>1. Distributes(t) /\ ~MapsLoadedOne(t)
    BY <1>2, <1>a DEF Changing, Distributes, MapsLoadedOne, At, WellFormed
  <2>2. thread'[t].op = thread[t].op /\ thread'[t].pc \in {"index", "members", "delete"}
    <3>1. CASE UpsertSet(t)
      BY <1>a, <3>1 DEF UpsertSet, Goto, ThreadRecord
    <3>2. CASE UpsertIndex(t)
      <4>1. thread[t].op = "Register"
        BY <1>a, <1>2, <3>2 DEF UpsertIndex, At, WellFormed, ThreadRecord, Ops
      <4> QED BY <1>a, <3>2, <4>1 DEF UpsertIndex, Goto, ThreadRecord
    <3>3. CASE RemoveIndex(t) \/ RemoveValue(t)
      BY <1>a, <3>3 DEF RemoveIndex, RemoveValue, Goto, ThreadRecord
    <3> QED BY <2>1, <3>1, <3>2, <3>3
  <2>3. PlanInv(t)' /\ Distributes(t)'
    BY <1>2, <2>1, <2>2 DEF PlanInv, Distributes, At
  <2> QED BY <1>b, <2>3, HostBySole
<1> QED BY <1>1, <1>2

\* The plan is made for the servers that are listed, and written one by one.
LEMMA HostPlans ==
    ASSUME CoreOK, WatchInv, HostInv, NEW t \in Threads, Changing(t),
           ListMembers(t) \/ ListValues(t) \/ Plan(t) \/ LockRealm(t) \/ UpdateServer(t) \/ Publish(t)
    PROVE  HostInv'
<1>a. /\ thread \in [Threads -> ThreadRecord] /\ thread[t] \in ThreadRecord /\ WellFormed(t, thread[t])
      /\ stored \in [Servers -> ServerRecord] /\ index \subseteq Servers /\ layerConfig \in Configs \cup {NoLayers}
  BY DEF CoreOK, ThreadsOK, RedisOK
<1>b. \A u \in Threads : u # t => thread'[u] = thread[u] /\ ~Changing(u) /\ ~Changing(u)'
  BY Sole DEF WatchInv, ChangeStep
<1>e. PlanInv(t) /\ Idle.op = "none"
  BY DEF HostInv, Idle
<1>f. Listed \subseteq Servers
  BY <1>a DEF Listed
<1>g. Distributes(t)
  BY <1>a DEF ListMembers, ListValues, Plan, LockRealm, UpdateServer, Publish, At, WellFormed, Changing, Distributes
<1>1. CASE ListMembers(t)
  <2>1. thread'[t].op = thread[t].op /\ thread'[t].pc = "values" /\ thread'[t].ids = index /\ index' = index
    BY <1>a, <1>1 DEF ListMembers, ThreadRecord, redisVars
  <2>2. PlanInv(t)' /\ Distributes(t)'
    BY <1>g, <2>1 DEF PlanInv, Distributes, At
  <2> QED BY <1>b, <2>2, HostBySole
<1>2. CASE LockRealm(t)
  <2>1. thread'[t].op = thread[t].op /\ thread'[t].pc = "members"
    BY <1>a, <1>2 DEF LockRealm, Goto, ThreadRecord
  <2>2. PlanInv(t)' /\ Distributes(t)'
    BY <1>g, <2>1 DEF PlanInv, Distributes, At
  <2> QED BY <1>b, <2>2, HostBySole
<1>3. CASE ListValues(t)
  <2> DEFINE x == [s \in {s \in thread[t].ids : stored[s].present} |-> stored[s]]
  <2>1. thread' = [thread EXCEPT ![t].pc = AfterList(thread[t].op), ![t].ids = {}, ![t].snap = x]
    BY <1>3 DEF ListValues
  <2>2. thread[t].ids = index
    BY <1>e, <1>g, <1>3 DEF PlanInv, ListValues
  <2>3. DOMAIN x = Listed
    BY <2>2 DEF Listed
  <2>4. AfterList(thread[t].op) = "config"
    BY <1>g DEF AfterList, Distributes
  <2> HIDE DEF x
  <2>5. thread'[t].op = thread[t].op /\ thread'[t].pc = "config" /\ thread'[t].snap = x
    BY <1>a, <2>1, <2>4 DEF ThreadRecord
  <2>6. Listed' = Listed
    BY <1>3 DEF ListValues, Listed, redisVars
  <2>7. PlanInv(t)' /\ Distributes(t)'
    BY <1>g, <2>3, <2>5, <2>6 DEF PlanInv, Distributes, At
  <2> QED BY <1>b, <2>7, HostBySole
<1>4. CASE Plan(t)
  <2>1. PICK p \in PlansFor(DOMAIN thread[t].snap, layerConfig) :
          thread' = [thread EXCEPT ![t].pc = "update", ![t].plan = p, ![t].todo = DOMAIN p]
    BY <1>4 DEF Plan
  <2>2. DOMAIN thread[t].snap = Listed
    BY <1>e, <1>g, <1>4 DEF PlanInv, Plan
  <2>3. DOMAIN p = Listed
    BY <1>f, <2>2, PlansAssign
  <2>4. thread'[t].op = thread[t].op /\ thread'[t].pc = "update" /\ thread'[t].plan = p /\ thread'[t].todo = Listed
    BY <1>a, <2>1, <2>3 DEF ThreadRecord
  <2>5. Listed' = Listed /\ layerConfig' = layerConfig
    BY <1>4 DEF Plan, Listed, redisVars
  <2>6. PlanInv(t)' /\ Distributes(t)'
    <3>1. p \in PlansFor(Listed, layerConfig)
      BY <2>1, <2>2
    <3> QED BY <1>g, <2>4, <2>5, <3>1 DEF PlanInv, Distributes, At
  <2> QED BY <1>b, <2>6, HostBySole
<1>5. ASSUME At(t, "update")
      PROVE  /\ thread[t].plan \in PlansFor(Listed, layerConfig) /\ thread[t].plan \in [Listed -> SUBSET Maps]
             /\ \A s \in Listed \ thread[t].todo : stored[s].assigned = thread[t].plan[s]
             /\ thread[t].todo \subseteq Listed
  <2>1. /\ thread[t].plan \in PlansFor(Listed, layerConfig)
        /\ \A s \in Listed \ thread[t].todo : stored[s].assigned = thread[t].plan[s]
    BY <1>e, <1>g, <1>5 DEF PlanInv
  <2>2. thread[t].plan \in [Listed -> SUBSET Maps]
    BY <2>1, PlansAssign
  <2>3. thread[t].todo \subseteq DOMAIN thread[t].plan
    BY <1>a, <1>5 DEF WellFormed, At
  <2> QED BY <2>1, <2>2, <2>3
<1>6. CASE UpdateServer(t)
  <2>1. At(t, "update") /\ UNCHANGED <<index, layerConfig>>
    BY <1>6 DEF UpdateServer
  <2>2. PICK s \in thread[t].todo :
          /\ stored' = [stored EXCEPT ![s] = Updated(t, s)]
          /\ thread' = [thread EXCEPT ![t].todo = @ \ {s}]
    <3>1. \A s \in thread[t].todo : stored[s].present
      BY <1>5, <2>1 DEF Listed
    <3> QED BY <1>6, <3>1 DEF UpdateServer
  <2>3. s \in Listed /\ s \in Servers /\ stored[s].present
    BY <1>5, <1>f, <2>1 DEF Listed
  <2>4. /\ thread'[t].op = thread[t].op /\ thread'[t].pc = "update" /\ thread'[t].plan = thread[t].plan
        /\ thread'[t].todo = thread[t].todo \ {s}
    BY <1>a, <2>1, <2>2 DEF ThreadRecord, At
  <2>5. /\ stored'[s].present = TRUE /\ stored[s].present = TRUE /\ stored'[s].assigned = thread[t].plan[s]
        /\ \A x \in Servers : x # s => stored'[x] = stored[x]
    BY <1>a, <2>2, <2>3 DEF Updated, ServerRecord
  <2>6. Listed' = Listed
    BY <1>a, <2>1, <2>3, <2>5 DEF Listed
  <2>7. \A x \in Listed \ thread'[t].todo : stored'[x].assigned = thread'[t].plan[x]
    BY <1>5, <1>f, <2>1, <2>4, <2>5
  <2>8. PlanInv(t)' /\ Distributes(t)'
    <3>1. thread'[t].plan \in PlansFor(Listed', layerConfig')
      BY <1>5, <2>1, <2>4, <2>6
    <3> QED BY <1>g, <2>4, <2>6, <2>7, <3>1 DEF PlanInv, Distributes, At
  <2> QED BY <1>b, <2>8, HostBySole
<1>7. CASE Publish(t)
  <2>1. At(t, "update") /\ thread[t].todo = {} /\ UNCHANGED <<stored, index, layerConfig>>
    BY <1>7 DEF Publish
  <2>2. thread'[t] = Idle
    BY <1>a, <1>7 DEF Publish, Return
  <2>3. PlanInv(t)'
    BY <1>e, <2>2 DEF PlanInv, Distributes
  <2>4. AssignedMaps = thread[t].plan
    BY <1>5, <2>1 DEF AssignedMaps
  <2>5. Hosted
    <3>1. Listed \in Sufficient => HostsMaps(thread[t].plan, layerConfig)
      BY <1>5, <1>a, <2>1, PlansHostMaps
    <3> QED BY <2>4, <3>1 DEF Hosted
  <2>6. Hosted'
    BY <2>1, <2>5 DEF Hosted, AssignedMaps, Listed
  <2> QED BY <1>b, <2>3, <2>6, HostBySole
<1> QED BY <1>1, <1>2, <1>3, <1>4, <1>6, <1>7

\* Every undisturbed step keeps the invariant.
LEMMA StepKeepsHosts ==
    ASSUME CoreOK, Step, ~disturbed', ~disturbed => WatchInv /\ HostInv
    PROVE  HostInv'
<1>1. WatchInv /\ HostInv /\ Checker \in Threads
  BY UndisturbedSteps DEF Threads
<1>2. CASE ChangesStay
  BY <1>1, <1>2, HostStays
<1>3. CASE ChangeBegins /\ Quiet
  BY <1>1, <1>3, HostBegins
<1>4. ASSUME NEW t \in Threads, Changing(t), ChangeStep(t) PROVE HostInv'
  BY <1>1, <1>4, HostServersWritten, HostPlans DEF ChangeStep
<1>5. ASSUME NEW s \in Servers, WorldReassigned(s) \/ WorldDies(s) PROVE HostInv'
  <2>1. UNCHANGED <<stored, index, layerConfig, thread>>
    BY <1>5 DEF WorldReassigned, WorldDies, redisVars
  <2> QED BY <1>1, <2>1 DEF HostInv, PlanInv, Distributes, At, Listed, Hosted, AssignedMaps
<1>6. CASE RegistryRestarts /\ Quiet
  <2>1. \A t \in Threads : thread'[t] = Idle /\ ~Changing(t)'
    BY <1>6 DEF RegistryRestarts, Changing, Idle
  <2>2. UNCHANGED <<stored, index, layerConfig>>
    BY <1>6 DEF RegistryRestarts, redisVars
  <2>3. PlanInv(Checker)'
    BY <1>1, <2>1 DEF PlanInv, Distributes, Idle
  <2>4. Hosted
    BY <1>1, <1>6 DEF HostInv, Quiet, Changing, Distributes
  <2>5. Hosted'
    BY <2>2, <2>4 DEF Hosted, AssignedMaps, Listed
  <2> QED BY <1>1, <2>1, <2>3, <2>5, HostBySole
<1> QED BY <1>2, <1>3, <1>4, <1>5, <1>6, UndisturbedSteps

\* The invariant.
HostedUnlessDisturbed == ~disturbed => HostInv

\* The invariant is kept.
LEMMA NextKeepsHosts ==
    ASSUME TypeOK, WatchedUnlessDisturbed, HostedUnlessDisturbed, [Next]_vars
    PROVE  HostedUnlessDisturbed'
<1>1. CoreOK
  BY DEF TypeOK, CoreOK, RestOK, BoundsOK
<1>2. CASE UNCHANGED vars
  <2>1. ChangesStay /\ UNCHANGED disturbed
    BY <1>2 DEF vars, redisVars, worldVars, ChangesStay, SameChange
  <2> QED BY <2>1, HostStays DEF HostedUnlessDisturbed
<1>3. CASE Next
  BY <1>1, <1>3, StepKeepsHosts DEF Next, WatchedUnlessDisturbed, HostedUnlessDisturbed
<1> QED BY <1>2, <1>3

\* It holds at first.
LEMMA InitialHosts ==
    ASSUME Init
    PROVE  HostInv
<1>1. PICK plan \in PlansFor(InitialServers, NoLayers), o \in Openings :
         stored = [s \in Servers |-> IF s \in InitialServers
                                     THEN [present |-> TRUE, assigned |-> plan[s], pending |-> {}] ELSE NoRecord]
  BY DEF Init
<1>2. InitialServers \subseteq Servers /\ plan \in [InitialServers -> SUBSET Maps] /\ index = InitialServers
      /\ layerConfig = NoLayers
  BY <1>1, NobodyAssumption, PlansAssign DEF Init
<1>3. \A t \in Threads : PlanInv(t)
  BY DEF Init, PlanInv, Distributes, Idle
<1>4. Listed = InitialServers
  BY <1>1, <1>2 DEF Listed
<1>5. AssignedMaps = plan
  BY <1>1, <1>2, <1>4 DEF AssignedMaps
<1>6. Hosted
  <2>1. InitialServers \in Sufficient => HostsMaps(plan, NoLayers)
    BY <1>1, PlansHostMaps
  <2> QED BY <1>2, <1>4, <1>5, <2>1 DEF Hosted
<1> QED BY <1>3, <1>6 DEF HostInv

\* As long as changes do not overlap and Redis answers, every map has a host
\* after each change, and a layered one as many as configured and possible, if
\* the packing needs no more bins than there are servers (distributeMapsToServers
\* and applyLayerAssignments in game-server.go, Distribute in distributor.go).
THEOREM MapsHaveHosts == Spec => []MapsAreHosted
<1> DEFINE Inv == TypeOK /\ WatchedUnlessDisturbed /\ HostedUnlessDisturbed
<1>1. Init => Inv
  BY InitialTypes, InitialWatch, InitialHosts DEF HostedUnlessDisturbed
<1>2. Inv /\ [Next]_vars => Inv'
  BY NextKeepsTypes, NextKeepsWatch, NextKeepsHosts
<1>3. Inv => MapsAreHosted
  BY DEF HostedUnlessDisturbed, HostInv, MapsAreHosted, Quiet, Changing, Distributes, Hosted, AssignedMaps
<1> QED BY <1>1, <1>2, <1>3, PTL DEF Spec
=============================================================================
