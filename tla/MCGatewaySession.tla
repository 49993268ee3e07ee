-------------------------- MODULE MCGatewaySession --------------------------
(* One client with two characters, two clients that log in the same one, and  *)
(* one with a worldserver nothing can replace.                                *)
EXTENDS GatewaySession

CONSTANTS first, second, warrior, mage, north, south

MCVisits ==
    {[clients |-> {first}, characters |-> {warrior, mage}, addressed |-> {}, worlds |-> {north, south}, inputs |-> 4],
     [clients |-> {first, second}, characters |-> {warrior}, addressed |-> {}, worlds |-> {north, south}, inputs |-> 2],
     [clients |-> {first}, characters |-> {warrior, mage}, addressed |-> {warrior, mage}, worlds |-> {north}, inputs |-> 4]}
=============================================================================
