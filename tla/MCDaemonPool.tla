---------------------------- MODULE MCDaemonPool ----------------------------
(* The worker pool, instantiated for TLC: the values are those of the
   configuration, without symmetry, which the liveness properties rule out. *)
EXTENDS DaemonPool
=============================================================================
