--------------------------- MODULE MCSessionStore ---------------------------
(* A terminal interface and a headless process on one session of two files. *)
EXTENDS SessionStore

Symmetry == Permutations(Files)
=============================================================================
