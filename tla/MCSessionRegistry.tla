-------------------------- MODULE MCSessionRegistry --------------------------
(* The session registry, instantiated for TLC. *)
EXTENDS SessionRegistry, TLC

Symmetry == Permutations(Ids) \cup Permutations(Clients)
=============================================================================
