---------------------------- MODULE MCDaemonLock ----------------------------
(* The single-instance lock, instantiated for TLC. *)
EXTENDS DaemonLock, TLC

Symmetry == Permutations(Procs)
=============================================================================
