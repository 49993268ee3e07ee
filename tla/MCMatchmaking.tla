--------------------------- MODULE MCMatchmaking ---------------------------
(* A realm with two players of the alliance, who queue together, and one of the horde. *)
EXTENDS Matchmaking
CONSTANTS ann, bob, hal

Factions == [p \in Players |-> IF p = hal THEN "horde" ELSE "alliance"]
Parties == [p \in Players |-> IF p = ann THEN {{bob}} ELSE {{}}]
=============================================================================
