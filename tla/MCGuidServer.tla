---------------------------- MODULE MCGuidServer ----------------------------
(* Small instances of GuidServer for TLC. *)
EXTENDS GuidServer, TLC

Symmetry == Permutations(Servers) \cup Permutations(Handlers) \cup Permutations(Processors)
=============================================================================
