--------------------------- MODULE MCDaemonSession ---------------------------
(* One session and its clients, instantiated for TLC: the values are those of the
   configuration, without symmetry, which the liveness properties rule out. *)
EXTENDS DaemonSession
=============================================================================
