------------------------------- MODULE MCMail -------------------------------
EXTENDS Mail
CONSTANTS ann, bob, sword
MCFirstBag == [p \in Players |-> IF p = ann THEN {sword} ELSE {}]
MCParcels == {[from |-> ann, to |-> bob, items |-> {sword}, money |-> 5, cod |-> 50],
              [from |-> ann, to |-> bob, items |-> {sword}, money |-> 0, cod |-> 0]}
=============================================================================
