---------------------------- MODULE MapBalancing ----------------------------
(***************************************************************************)
(* Which worldserver handles which map (apps/servers-registry): the bin    *)
(* packing of mapbalancing/binpack and the layers that are laid over it    *)
(* (applyLayerAssignments).                                                *)
(*                                                                         *)
(* Go iterates over maps in any order and sorts unstably, and Redis lists  *)
(* the servers in any order: an algorithm is the set of its outcomes.      *)
(***************************************************************************)
EXTENDS Integers, Sequences, FiniteSets

CONSTANTS
    Servers,        \* worldserver ids; they are compared
    Maps,           \* map ids
    MapsWeight,     \* the weight of each map
    AvailableMaps   \* AvailableMaps[s]: the maps s can run, {} for all of them

ASSUME ServersAssumption == Servers \subseteq Nat \ {0} /\ IsFiniteSet(Servers)
ASSUME MapsAssumption == Maps \subseteq Nat /\ IsFiniteSet(Maps)
ASSUME WeightAssumption == MapsWeight \in [Maps -> Nat \ {0}]
ASSUME AvailableAssumption == AvailableMaps \in [Servers -> SUBSET Maps]

IsAllMapsAvailable(s) == AvailableMaps[s] = {}

\* The ways to line up a set.
Orders(S) == {o \in [1..Cardinality(S) -> S] : \A i, j \in DOMAIN o : o[i] = o[j] => i = j}

Sorted(S) == CHOOSE o \in Orders(S) : \A i, j \in DOMAIN o : i < j => o[i] < o[j]

SumOf(f, S) == Cardinality(UNION {{x} \X (1..f[x]) : x \in S})

-----------------------------------------------------------------------------
(* binpack *)

WeightPerServer(S, n) == (SumOf(MapsWeight, S) + n - 1) \div n

CappedWeight(m, cap) == IF MapsWeight[m] > cap THEN cap ELSE MapsWeight[m]

\* First fit: a map goes to the first bin with room, or into a new one.
FirstFit(bins, m, cap) ==
    LET w == CappedWeight(m, cap)
        room == {b \in DOMAIN bins : bins[b].free >= w}
        first == CHOOSE b \in room : \A c \in room : b <= c
    IN  IF room = {} THEN Append(bins, [free |-> cap - w, maps |-> {m}])
        ELSE [bins EXCEPT ![first] = [free |-> @.free - w, maps |-> @.maps \cup {m}]]

Packing(order, cap) ==
    LET bins[i \in 0..Len(order)] == IF i = 0 THEN <<>> ELSE FirstFit(bins[i-1], order[i], cap)
    IN  bins[Len(order)]

\* Heavier maps first; equally heavy ones come in any order.
HeavyFirst(S, cap) ==
    {o \in Orders(S) : \A i, j \in DOMAIN o : i < j => CappedWeight(o[i], cap) >= CappedWeight(o[j], cap)}

\* greedyBinPackBalancer.  Bins beyond the number of servers are cut off, and
\* their maps with them (the loop that would hand these out never runs: lenDiff
\* is negative).  One server alone gets everything, as Distribute does without
\* packing.
GreedyBinPack(S, lineup) ==
    LET n == Len(lineup)
        cap == WeightPerServer(S, n)
        binOf(s) == CHOOSE i \in 1..n : lineup[i] = s
    IN  {[s \in {lineup[i] : i \in 1..n} |-> IF binOf(s) <= Len(p) THEN p[binOf(s)].maps ELSE {}] :
            p \in {Packing(o, cap) : o \in HeavyFirst(S, cap)}}

ToBalance(S) == {s \in S : IsAllMapsAvailable(s)}
RestOfMaps(S) == Maps \ UNION {AvailableMaps[s] : s \in S}

\* Distribute: servers with a list of maps take exactly these; the others
\* share the rest.
Distribute(S) ==
    IF ToBalance(S) = {} THEN {[s \in S |-> AvailableMaps[s]]}
    ELSE {[s \in S |-> IF s \in ToBalance(S) THEN packed[s] ELSE AvailableMaps[s]] :
             packed \in UNION {GreedyBinPack(RestOfMaps(S), l) : l \in Orders(ToBalance(S))}}

\* No bin is cut off when maps are distributed to the servers S.
Fits(S) ==
    LET n == Cardinality(ToBalance(S))
        cap == WeightPerServer(RestOfMaps(S), n)
    IN  n > 0 => \A o \in HeavyFirst(RestOfMaps(S), cap) : Len(Packing(o, cap)) <= n

-----------------------------------------------------------------------------
(* Layers.  AssignedMapsToHandle of a server with a list of maps is a      *)
(* prefix of the array that also holds its AvailableMaps (Distribute       *)
(* assigns the slice): "spare" is the part of the array behind the prefix. *)

ElementsOf(s) == {s[i] : i \in DOMAIN s}

\* removeMap, in place; the prefix is sorted, and stays so.
RemoveMap(a, m) ==
    LET kept == Sorted(ElementsOf(a.assigned) \ {m})
        array == a.assigned \o a.spare
    IN  [assigned |-> kept, spare |-> SubSeq(array, Len(kept) + 1, Len(array))]

\* append into the array, and sort.
AppendMap(a, m) ==
    [assigned |-> Sorted(ElementsOf(a.assigned) \cup {m}),
     spare |-> IF a.spare = <<>> THEN <<>> ELSE Tail(a.spare)]

MapAvailable(s, a, m) == IsAllMapsAvailable(s) \/ m \in ElementsOf(a.assigned \o a.spare)

\* One more copy of map m, on the server with the fewest maps; the smaller id
\* among equals.
AddReplica(arrays, m) ==
    LET candidates == {s \in DOMAIN arrays : /\ MapAvailable(s, arrays[s], m)
                                             /\ m \notin ElementsOf(arrays[s].assigned)}
        load(s) == Len(arrays[s].assigned)
        best == CHOOSE s \in candidates : \A r \in candidates :
                   load(s) < load(r) \/ (load(s) = load(r) /\ s <= r)
    IN  IF candidates = {} THEN arrays ELSE [arrays EXCEPT ![best] = AppendMap(@, m)]

LayerMap_OneShort(arrays, m, count) ==
    LET replicas[i \in 0..count] ==
          IF i = 0 THEN [s \in DOMAIN arrays |-> RemoveMap(arrays[s], m)]
          ELSE AddReplica(replicas[i-1], m)
    IN  replicas[count - 1]

LayerMap(arrays, m, count) ==
    LET replicas[i \in 0..count] ==
          IF i = 0 THEN [s \in DOMAIN arrays |-> RemoveMap(arrays[s], m)]
          ELSE AddReplica(replicas[i-1], m)
    IN  replicas[count]

LayerMaps(arrays, order, config) ==
    LET step[i \in 0..Len(order)] ==
          IF i = 0 THEN arrays ELSE LayerMap(step[i-1], order[i], config[order[i]])
    IN  step[Len(order)]

\* applyLayerAssignments: maps with two or more layers, one after the other.
ApplyLayerAssignments(distributed, config) ==
    LET layered == {m \in DOMAIN config : config[m] >= 2}
        arrays == [s \in DOMAIN distributed |-> [assigned |-> Sorted(distributed[s]), spare |-> <<>>]]
    IN  {[s \in DOMAIN distributed |-> ElementsOf(LayerMaps(arrays, o, config)[s].assigned)] : o \in Orders(layered)}

\* What distributeMapsToServers may assign to the servers S.
Assignments(S, config) ==
    UNION {ApplyLayerAssignments(d, config) : d \in Distribute(S)}
=============================================================================
