--------------------------- MODULE ServersRegistry ---------------------------
(***************************************************************************)
(* The servers registry (apps/servers-registry) and the worldservers of    *)
(* one realm: registration, health checks, distribution of maps, the       *)
(* confirmation that maps are loaded, layers and group bindings.           *)
(*                                                                         *)
(* The registry keeps its state in Redis: one value per worldserver, the   *)
(* set of the realm's servers, the layer configuration with its lock, and  *)
(* the group bindings.  gRPC handlers and the health checker's goroutine   *)
(* work on it concurrently, one Redis command at a time.  One group and    *)
(* one map that its members ask for are modelled; addresses, aliases and   *)
(* metrics are left out.                                                   *)
(***************************************************************************)
EXTENDS MapBalancing

CONSTANTS
    Handlers,     \* gRPC handler goroutines
    Checker,      \* the goroutine of the health checker
    NoServer, NoThread,
    GroupMap,     \* the map the members of the group are on
    InitialServers, \* worldservers that have registered at first
    Openings,     \* situations to start from: which of them have died unnoticed (down),
                  \* the stored binding of the group, and how many calls were made before
    Configs,      \* layer configurations, functions from map ids to counts
    MaxStarts,    \* bound: worldserver (re)starts
    MaxCalls,     \* bound: lookups, group bindings and changes of the configuration, together
    MaxFaults     \* bound: worldserver crashes, checks that time out, failing Redis
                  \* commands and registry restarts, together

ASSUME NobodyAssumption ==
    /\ NoServer \notin Servers /\ NoThread \notin Handlers /\ Checker \notin Handlers
    /\ Checker # NoThread /\ InitialServers \subseteq Servers
ASSUME OpeningsAssumption ==
    Openings \subseteq [down : SUBSET InitialServers, binding : Servers \cup {NoServer}, calls : Nat]
ASSUME ConfigsAssumption == Configs \subseteq [Maps -> Nat]

VARIABLES
    stored,       \* stored[s]: Redis value ws:<id>
    index,        \* Redis set realm:<id>:wss
    layerConfig, realmLock, binding,      \* Redis layer:config, layer:lock, layer:group
    checked,      \* healthChecker.objects
    failedChecks, \* failed results waiting to be handled
    thread,       \* thread[t]: what a handler or the checker is doing
    status,       \* status[s]: the worldserver process
    loaded,       \* loaded[s]: the maps the process runs
    inbox,        \* inbox[s]: GSMapsReassigned events it has not handled
    reports,      \* reports[s]: GameServerMapsLoaded calls it has not sent
    answers,      \* history: servers the group's members were sent to since availability changed
    outdated,     \* history: a lookup that began before that is running, or one that overlaps it
    disturbed,    \* history: two changes overlapped, a command failed, or the registry stopped in a change
    escaped,      \* history: servers whose removal failed, or ran against a call about them, and nobody checks since
    starts, calls, faults

redisVars == <<stored, index, layerConfig, realmLock, binding>>
worldVars == <<status, loaded, inbox, reports>>
boundVars == <<starts, calls, faults>>
vars == <<redisVars, checked, failedChecks, thread, worldVars, answers, outdated, disturbed, escaped, boundVars>>

Threads == Handlers \cup {Checker}
NoRecord == [present |-> FALSE, assigned |-> {}, pending |-> {}]
Idle == [op |-> "none", pc |-> "idle", server |-> NoServer, maps |-> {}, bound |-> NoServer,
         ids |-> {}, snap |-> <<>>, plan |-> <<>>, todo |-> {}]

At(t, pc) == thread[t].pc = pc
Goto(t, pc) == thread' = [thread EXCEPT ![t].pc = pc]
Return(t) == thread' = [thread EXCEPT ![t] = Idle]

CanHandleMap(r, m) == r.present /\ m \in r.assigned \ r.pending
Listed == {s \in index : stored[s].present}

\* The operations that change which server handles which map.
Changing(t) == thread[t].op \in {"Register", "MapsLoaded", "Unhealthy", "Update"}

Begin(t, op, pc, s, ms) ==
    /\ At(t, "idle")
    /\ thread' = [thread EXCEPT ![t] = [Idle EXCEPT !.op = op, !.pc = pc, !.server = s, !.maps = ms]]
BeginChange(t, op, pc, s, ms) ==
    /\ Begin(t, op, pc, s, ms)
    /\ disturbed' = (disturbed \/ \E u \in Threads : Changing(u))

Fault == faults < MaxFaults /\ faults' = faults + 1

NoLayers == [m \in Maps |-> 1]

\* What a distribution over some servers may assign, for each configuration:
\* a table, so that the packing is computed once.
Distributions ==
    {[servers |-> S, config |-> c, plans |-> {p \in [S -> SUBSET Maps] : p \in Assignments(S, c)}] :
        S \in SUBSET Servers, c \in Configs \cup {NoLayers}}
PlansFor(S, c) == UNION {d.plans : d \in {e \in Distributions : e.servers = S /\ e.config = c}}

Init ==
    /\ \E plan \in PlansFor(InitialServers, NoLayers), o \in Openings :
         LET running == InitialServers \ o.down
         IN  /\ stored = [s \in Servers |-> IF s \in InitialServers
                                            THEN [present |-> TRUE, assigned |-> plan[s], pending |-> {}] ELSE NoRecord]
             /\ loaded = [s \in Servers |-> IF s \in running THEN plan[s] ELSE {}]
             /\ status = [s \in Servers |-> IF s \in running THEN "running" ELSE "down"]
             /\ binding = o.binding /\ calls = o.calls
    /\ index = InitialServers /\ checked = InitialServers
    /\ layerConfig = NoLayers /\ realmLock = NoThread
    /\ failedChecks = {}
    /\ thread = [t \in Threads |-> Idle]
    /\ inbox = [s \in Servers |-> <<>>] /\ reports = [s \in Servers |-> {}]
    /\ answers = {} /\ outdated = FALSE /\ disturbed = FALSE /\ escaped = {}
    /\ starts = 0 /\ faults = 0

-----------------------------------------------------------------------------
(* Operations of the repository. *)

\* RegisterGameServer, called once by a starting worldserver: its health
\* address is checked from now on.
Register(t, s) ==
    /\ status[s] = "down" /\ \A u \in Threads : thread[u].op = "Register" => thread[u].server # s
    /\ starts < MaxStarts /\ starts' = starts + 1
    /\ BeginChange(t, "Register", "set", s, {})
    /\ status' = [status EXCEPT ![s] = "starting"]
    /\ checked' = checked \cup {s}
    /\ UNCHANGED <<redisVars, failedChecks, loaded, inbox, reports, calls, faults>>

\* MapsLoadedForServer: the server confirms maps.
MapsLoaded(t, s, ms) ==
    /\ ms \in reports[s] /\ reports' = [reports EXCEPT ![s] = @ \ {ms}]
    /\ BeginChange(t, "MapsLoaded", "one", s, ms)
    /\ UNCHANGED <<redisVars, checked, failedChecks, status, loaded, inbox, boundVars>>

MapsLoadedOne(t) ==
    /\ At(t, "one")
    /\ LET s == thread[t].server
       IN  IF stored[s].present
           THEN thread' = [thread EXCEPT ![t].pc = "set", ![t].snap = [x \in {s} |-> stored[s]]]
           ELSE Return(t)
    /\ UNCHANGED <<redisVars, checked, failedChecks, worldVars, disturbed, boundVars>>

\* Upsert: SET, then SADD.
UpsertSet(t) ==
    /\ At(t, "set")
    /\ LET s == thread[t].server
       IN  stored' = [stored EXCEPT ![s] =
             IF thread[t].op = "Register" THEN [NoRecord EXCEPT !.present = TRUE]
             ELSE [thread[t].snap[s] EXCEPT !.pending = @ \ thread[t].maps]]
    /\ Goto(t, "index")
    /\ UNCHANGED <<index, layerConfig, realmLock, binding, checked, failedChecks, worldVars, disturbed, boundVars>>

UpsertIndex(t) ==
    /\ At(t, "index")
    /\ index' = index \cup {thread[t].server}
    /\ IF thread[t].op = "Register" THEN Goto(t, "members") ELSE Return(t)
    /\ UNCHANGED <<stored, layerConfig, realmLock, binding, checked, failedChecks, worldVars, disturbed, boundVars>>

RemoveIndex_Skipped(t) ==
    /\ At(t, "remove")
    /\ Goto(t, "members")
    /\ UNCHANGED <<redisVars, checked, failedChecks, worldVars, disturbed, boundVars>>

\* Remove: GET and SREM, then DEL.
RemoveIndex(t) ==
    /\ At(t, "remove")
    /\ IF stored[thread[t].server].present
       THEN index' = index \ {thread[t].server} /\ Goto(t, "delete")
       ELSE UNCHANGED index /\ Goto(t, "members")
    /\ UNCHANGED <<stored, layerConfig, realmLock, binding, checked, failedChecks, worldVars, disturbed, boundVars>>

RemoveValue(t) ==
    /\ At(t, "delete")
    /\ stored' = [stored EXCEPT ![thread[t].server] = NoRecord]
    /\ Goto(t, "members")
    /\ UNCHANGED <<index, layerConfig, realmLock, binding, checked, failedChecks, worldVars, disturbed, boundVars>>

\* listForRealmOrCrossRealm: SMEMBERS, then MGET, which skips missing values.
ListMembers(t) ==
    /\ At(t, "members")
    /\ thread' = [thread EXCEPT ![t].pc = "values", ![t].ids = index]
    /\ UNCHANGED <<redisVars, checked, failedChecks, worldVars, disturbed, boundVars>>

\* AvailableForMapAndRealm, on the values that were read.
AvailableIn(snap, m) == {s \in DOMAIN snap : CanHandleMap(snap[s], m)}

AfterList(op) == CASE op = "Select" -> "binding" [] op = "BindGroup" -> "setBinding" [] OTHER -> "config"

ListValues(t) ==
    /\ At(t, "values")
    /\ LET found == {s \in thread[t].ids : stored[s].present}
       IN  thread' = [thread EXCEPT ![t].pc = AfterList(thread[t].op), ![t].ids = {},
                                    ![t].snap = [s \in found |-> stored[s]]]
    /\ UNCHANGED <<redisVars, checked, failedChecks, worldVars, disturbed, boundVars>>

-----------------------------------------------------------------------------
(* distributeMapsToServers, for Register, onServerUnhealthy and            *)
(* RedistributeRealm.                                                      *)

Plan(t) ==
    /\ At(t, "config")
    /\ \E plan \in PlansFor(DOMAIN thread[t].snap, layerConfig) :
         thread' = [thread EXCEPT ![t].pc = "update", ![t].plan = plan, ![t].todo = DOMAIN plan]
    /\ UNCHANGED <<redisVars, checked, failedChecks, worldVars, disturbed, boundVars>>

OnlyNewMaps(old, new) == new \ old
OnlyRemovedMaps(old, new) == old \ new

PendingFor_AlsoAtStart(old, new) == OnlyNewMaps(old.assigned, new)

\* New maps wait for confirmation, except on a server that had none.
PendingFor(old, new) == IF old.assigned # {} THEN OnlyNewMaps(old.assigned, new) ELSE old.pending

\* What Update (WATCH, GET, SET, again if the value changed) leaves in Redis.
Updated(t, s) == [present |-> TRUE, assigned |-> thread[t].plan[s],
                  pending |-> PendingFor(thread[t].snap[s], thread[t].plan[s])]

\* The end of a call, successful or not.  UpdateConfiguration unlocks the
\* realm, if the lock is still its own; a worldserver whose registration
\* fails gives up.
Unlock(t) == realmLock' = IF realmLock = t THEN NoThread ELSE realmLock
GiveUp(t) ==
    LET refused == {s \in Servers : thread[t].op = "Register" /\ thread[t].server = s /\ status[s] = "starting"}
    IN  status' = [s \in Servers |-> IF s \in refused THEN "down" ELSE status[s]]

\* Update of one server after the other; those with a list
\* of maps first.  A server that has been removed ends the distribution.
UpdateServer(t) ==
    /\ At(t, "update")
    /\ \E s \in thread[t].todo :
         /\ IsAllMapsAvailable(s) => \A r \in thread[t].todo : IsAllMapsAvailable(r)
         /\ IF stored[s].present
            THEN /\ stored' = [stored EXCEPT ![s] = Updated(t, s)]
                 /\ thread' = [thread EXCEPT ![t].todo = @ \ {s}]
                 /\ UNCHANGED <<realmLock, status>>
            ELSE /\ Return(t) /\ Unlock(t) /\ GiveUp(t)
                 /\ UNCHANGED stored
    /\ UNCHANGED <<index, layerConfig, binding, checked, failedChecks, loaded, inbox, reports, disturbed, boundVars>>

\* What the event tells a worldserver: nothing if it had no maps.
Reassigned(t, s) ==
    LET old == thread[t].snap[s].assigned
        new == thread[t].plan[s]
    IN  IF s \in DOMAIN thread[t].plan /\ old # {} /\ old # new /\ status[s] = "running"
        THEN <<[new |-> OnlyNewMaps(old, new), removed |-> OnlyRemovedMaps(old, new)]>> ELSE <<>>

\* GSMapsReassigned is published and the call returns; a worldserver that
\* registered starts with the maps of the answer.
Publish(t) ==
    /\ At(t, "update") /\ thread[t].todo = {}
    /\ inbox' = [s \in Servers |-> inbox[s] \o Reassigned(t, s)]
    /\ LET s == thread[t].server
       IN  IF thread[t].op = "Register" /\ status[s] = "starting"
           THEN /\ status' = [status EXCEPT ![s] = "running"]
                /\ loaded' = [loaded EXCEPT ![s] = IF s \in DOMAIN thread[t].plan THEN thread[t].plan[s] ELSE {}]
           ELSE UNCHANGED <<status, loaded>>
    /\ Return(t) /\ Unlock(t)
    /\ UNCHANGED <<stored, index, layerConfig, binding, checked, failedChecks, reports, disturbed, boundVars>>
-----------------------------------------------------------------------------
(* Layers. *)

\* UpdateConfiguration, then RedistributeRealm under the realm's lock.
UpdateConfiguration(t, config) ==
    /\ calls < MaxCalls /\ calls' = calls + 1
    /\ BeginChange(t, "Update", "lock", NoServer, {})
    /\ layerConfig' = config
    /\ UNCHANGED <<stored, index, realmLock, binding, checked, failedChecks, worldVars,
                   starts, faults>>

LockRealm(t) ==
    /\ At(t, "lock") /\ realmLock = NoThread
    /\ realmLock' = t
    /\ Goto(t, "members")
    /\ UNCHANGED <<stored, index, layerConfig, binding, checked, failedChecks, worldVars, disturbed, boundVars>>

LockExpires_NoTTL == FALSE /\ UNCHANGED vars

\* The lock's time to live, one minute.
LockExpires ==
    /\ realmLock # NoThread
    /\ realmLock' = NoThread
    /\ UNCHANGED <<stored, index, layerConfig, binding, checked, failedChecks, thread, worldVars, disturbed, boundVars>>

\* Select for a member of the group (a member who logs in or travels).
Select(t) ==
    /\ calls < MaxCalls /\ calls' = calls + 1
    /\ Begin(t, "Select", "members", NoServer, {})
    /\ UNCHANGED <<redisVars, checked, failedChecks, worldVars, disturbed,
                   starts, faults>>

\* The answer is on its way to the gateway.
Answer(t, s) == thread' = [thread EXCEPT ![t] = [Idle EXCEPT !.op = "Select", !.pc = "answered", !.server = s]]

SelectBinding(t) ==
    /\ At(t, "binding")
    /\ LET servers == AvailableIn(thread[t].snap, GroupMap)
       IN  \/ servers = {} /\ Return(t)
           \/ binding \in servers /\ Answer(t, binding)
           \/ /\ binding \notin servers
              /\ \E least \in servers :
                   thread' = [thread EXCEPT ![t].pc = "bind", ![t].server = least, ![t].bound = binding]
    /\ UNCHANGED <<redisVars, checked, failedChecks, worldVars, disturbed, boundVars>>

Winner_Overwrites(t) == thread[t].server

\* BindGroup (SETNX) without a binding, ReplaceGroupBinding (compare and set)
\* of a stale one.  Both return the binding that holds afterwards.
Winner(t) == IF binding = thread[t].bound THEN thread[t].server ELSE binding

SelectBind(t) ==
    /\ At(t, "bind")
    /\ binding' = Winner(t)
    /\ IF Winner(t) \in AvailableIn(thread[t].snap, GroupMap) THEN Answer(t, Winner(t)) ELSE Return(t)
    /\ UNCHANGED <<stored, index, layerConfig, realmLock, checked, failedChecks, worldVars, disturbed, boundVars>>

SelectReturn(t) ==
    /\ At(t, "answered")
    /\ Return(t)
    /\ UNCHANGED <<redisVars, checked, failedChecks, worldVars, disturbed, boundVars>>

\* BindGroupToGameServer, for a new group.
BindGroup(t, s) ==
    /\ calls < MaxCalls /\ calls' = calls + 1
    /\ Begin(t, "BindGroup", "members", s, {})
    /\ UNCHANGED <<redisVars, checked, failedChecks, worldVars, disturbed,
                   starts, faults>>

SetGroupBinding(t) ==
    /\ At(t, "setBinding")
    /\ binding' = IF thread[t].server \in AvailableIn(thread[t].snap, GroupMap) THEN thread[t].server ELSE binding
    /\ Return(t)
    /\ UNCHANGED <<stored, index, layerConfig, realmLock, checked, failedChecks, worldVars, disturbed, boundVars>>

-----------------------------------------------------------------------------
(* Health checks. *)

\* A worldserver that is down fails its check; a running one may time out.
CheckFails(s) ==
    /\ s \in checked \ failedChecks
    /\ \/ status[s] = "down" /\ UNCHANGED faults
       \/ status[s] # "down" /\ Fault
    /\ failedChecks' = failedChecks \cup {s}
    /\ UNCHANGED <<redisVars, checked, thread, worldVars, disturbed, starts, calls>>

\* handleResult: the object is forgotten, then onServerUnhealthy runs.
HandleResult(s) ==
    /\ s \in failedChecks /\ failedChecks' = failedChecks \ {s}
    /\ BeginChange(Checker, "Unhealthy", "remove", s, {})
    /\ checked' = checked \ {s}
    /\ UNCHANGED <<redisVars, worldVars, boundVars>>

-----------------------------------------------------------------------------
(* Worldservers and failures. *)

\* A worldserver is told which maps it gained and lost; it loads the new ones
\* and reports them.
WorldReassigned(s) ==
    /\ inbox[s] # <<>>
    /\ LET e == Head(inbox[s])
       IN  /\ loaded' = [loaded EXCEPT ![s] = (@ \ e.removed) \cup e.new]
           /\ reports' = [reports EXCEPT ![s] = IF e.new = {} THEN @ ELSE @ \cup {e.new}]
    /\ inbox' = [inbox EXCEPT ![s] = Tail(@)]
    /\ UNCHANGED <<redisVars, checked, failedChecks, thread, status, disturbed, boundVars>>

WorldDies(s) ==
    /\ status[s] # "down" /\ Fault
    /\ status' = [status EXCEPT ![s] = "down"]
    /\ loaded' = [loaded EXCEPT ![s] = {}]
    /\ inbox' = [inbox EXCEPT ![s] = <<>>]
    /\ reports' = [reports EXCEPT ![s] = {}]
    /\ UNCHANGED <<redisVars, checked, failedChecks, thread, disturbed, starts, calls>>

\* A Redis command fails: the call returns its error.  Upsert undoes its SET
\* when the SADD fails.
RedisError(t) ==
    /\ thread[t].pc \notin {"idle", "answered"} /\ (At(t, "update") => thread[t].todo # {})
    /\ Fault
    /\ stored' = IF At(t, "index") THEN [stored EXCEPT ![thread[t].server] = NoRecord] ELSE stored
    /\ Return(t) /\ Unlock(t) /\ GiveUp(t)
    /\ disturbed' = (disturbed \/ Changing(t))
    /\ UNCHANGED <<index, layerConfig, binding, checked, failedChecks, loaded, inbox, reports,
                   starts, calls>>

RegistryRestarts_ChecksNobody ==
    /\ Fault
    /\ thread' = [t \in Threads |-> Idle]
    /\ checked' = {} /\ failedChecks' = {}
    /\ status' = [s \in Servers |-> IF status[s] = "starting" THEN "down" ELSE status[s]]
    /\ disturbed' = (disturbed \/ \E t \in Threads : Changing(t))
    /\ UNCHANGED <<redisVars, loaded, inbox, reports, starts, calls>>

\* The registry stops and starts again: NewGameServer checks the servers it
\* finds in Redis.  A worldserver that was registering gives up.
RegistryRestarts ==
    /\ Fault
    /\ thread' = [t \in Threads |-> Idle]
    /\ checked' = Listed /\ failedChecks' = {}
    /\ status' = [s \in Servers |-> IF status[s] = "starting" THEN "down" ELSE status[s]]
    /\ disturbed' = (disturbed \/ \E t \in Threads : Changing(t))
    /\ UNCHANGED <<redisVars, loaded, inbox, reports, starts, calls>>

-----------------------------------------------------------------------------
RepoStep(t) ==
    \/ MapsLoadedOne(t) \/ UpsertSet(t) \/ UpsertIndex(t) \/ RemoveIndex(t) \/ RemoveValue(t)
    \/ ListMembers(t) \/ ListValues(t) \/ Plan(t) \/ UpdateServer(t) \/ Publish(t)
    \/ LockRealm(t) \/ SelectBinding(t) \/ SelectBind(t) \/ SelectReturn(t) \/ SetGroupBinding(t)

Step ==
    \/ \E t \in Handlers :
         \/ \E s \in Servers : Register(t, s) \/ BindGroup(t, s)
         \/ \E s \in Servers : \E ms \in reports[s] : MapsLoaded(t, s, ms)
         \/ \E c \in Configs : UpdateConfiguration(t, c)
         \/ Select(t)
    \/ \E t \in Threads : RepoStep(t) \/ RedisError(t)
    \/ \E s \in Servers : CheckFails(s) \/ HandleResult(s) \/ WorldReassigned(s) \/ WorldDies(s)
    \/ LockExpires \/ RegistryRestarts

\* Keeps the history of answers: it starts again when the servers that handle
\* the group's map change or the group is bound explicitly, once the lookups
\* that run at that moment and those that overlap them have returned.
Lookups(th) == {t \in Handlers : th[t].op = "Select"}
ObserveAnswers ==
    LET change == \/ index' # index
                  \/ \E s \in Servers : CanHandleMap(stored'[s], GroupMap) # CanHandleMap(stored[s], GroupMap)
                  \/ \E t \in Handlers : At(t, "setBinding") /\ thread'[t].pc = "idle"
    IN  /\ outdated' = ((change \/ outdated) /\ Lookups(thread') # {})
        /\ answers' = IF change \/ outdated' THEN {}
                      ELSE answers \cup {thread'[t].server : t \in {u \in Handlers : thread'[u].pc = "answered"}}

\* The checker forgets a server before it removes it.  The removal may fail, or a
\* registration or a confirmation of maps of that server may list it again.
Unremoved(s) ==
    \/ thread[Checker].server = s /\ At(Checker, "remove") /\ thread'[Checker].pc = "idle"
    \/ /\ thread'[Checker].server = s
       /\ \E t \in Handlers : thread'[t].op \in {"Register", "MapsLoaded"} /\ thread'[t].server = s

Observe ==
    /\ ObserveAnswers
    /\ escaped' = {s \in Servers \ checked' : s \in escaped \/ Unremoved(s)}

Next == Step /\ Observe

Spec == Init /\ [][Next]_vars

\* Handlers and the checker keep going (SETNX is tried every 25 ms), failed
\* checks are found and handled in turn, and Redis lets the lock expire.
FairSpec ==
    /\ Spec
    /\ \A t \in Threads : WF_thread(RepoStep(t))
    /\ WF_failedChecks(\E s \in Servers : status[s] = "down" /\ CheckFails(s))
    /\ WF_failedChecks(\E s \in Servers : HandleResult(s))
    /\ WF_realmLock(LockExpires)
-----------------------------------------------------------------------------
\* Members of a group are sent to one server ("party members do not log into
\* different copies of the same zone", doc/Layering.md), however many lookups
\* run at once and whichever binding they find.
GroupTogether == Cardinality(answers) <= 1

Quiet == \A t \in Threads : ~Changing(t)

\* The plan gives every map to a server, and a layered one to as many as the
\* configuration c says, or to all that take any map.
HostsMaps(plan, c) ==
    LET hosts(m) == Cardinality({s \in DOMAIN plan : m \in plan[s]})
        able == Cardinality(ToBalance(DOMAIN plan))
    IN  able > 0 => \A m \in Maps : /\ hosts(m) >= c[m] \/ hosts(m) >= able
                                    /\ c[m] >= 2 => hosts(m) <= c[m]

\* The servers that can share the maps: no bin is cut off.
Sufficient == {S \in SUBSET Servers : Fits(S)}

\* As long as changes do not overlap and Redis answers, every map has a host
\* after each of them, and a layered one as many as configured and possible,
\* unless the packing needs more bins than there are servers.
MapsAreHosted ==
    ~disturbed /\ Quiet /\ Listed \in Sufficient =>
       HostsMaps([s \in Listed |-> stored[s].assigned], layerConfig)

\* Under the same condition every listed server is watched by the checker,
\* whose goroutine may be about to remove it; also after a restart.
ListedAreChecked ==
    ~disturbed => \A s \in Listed : s \in checked \/ thread[Checker].server = s

\* A listed worldserver that has handled all its events runs exactly the maps
\* the registry assigned to it, and none of them is still pending, provided no
\* distribution leaves a server without maps (its sidecar would ignore the event
\* that gives it some).
WorldFollows ==
    ~disturbed /\ Quiet => \A s \in Listed : status[s] = "running" /\ inbox[s] = <<>> /\ reports[s] = {} =>
                              stored[s].assigned = loaded[s] /\ stored[s].pending = {}

\* A worldserver that is down does not stay on the list: it is removed or started
\* again, over failing commands and restarts of the registry, unless it has escaped:
\* its removal failed before SREM, when the checker had forgotten it already
\* (game-server_redis.go:112), or ran against its own registration or confirmation.
DeadServersLeave ==
    \A s \in Servers : []<>(s \notin Listed \/ status[s] # "down" \/ s \in escaped)

\* Every call returns; UpdateConfiguration gets its lock, even if a registry
\* died holding it.
CallsReturn == \A t \in Threads : []<>(thread[t].pc = "idle")
=============================================================================
