------------------------------ MODULE MCSwarm ------------------------------
(* The swarm, instantiated for TLC. *)
EXTENDS Swarm, TLC

Symmetry == Permutations(Callers)
=============================================================================
