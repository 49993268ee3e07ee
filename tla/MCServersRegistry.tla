------------------------- MODULE MCServersRegistry -------------------------
EXTENDS ServersRegistry

\* Map 0 is heavier than the others.
Weights == [m \in Maps |-> IF m = 0 THEN 2 ELSE 1]
AllMaps == [s \in Servers |-> {}]
OnlyMap0 == [s \in Servers |-> {0}]
TwoLayers == {[m \in Maps |-> IF m = 0 THEN 2 ELSE 1]}
Undisturbed == {[down |-> {}, binding |-> NoServer, calls |-> 0]}
\* The group has no binding, one to a server that may die, or one to a server that has died.
FreeStaleOrDead == Undisturbed \cup {[down |-> {}, binding |-> 2, calls |-> 0], [down |-> {2}, binding |-> 2, calls |-> 1]}
=============================================================================
