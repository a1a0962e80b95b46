--------------------------- MODULE MCDaemonServer ---------------------------
(* The control server, instantiated for TLC: the values are those of the
   configuration, without symmetry, which the liveness properties rule out. *)
EXTENDS DaemonServer
=============================================================================
