----------------------------- MODULE MCMailbox -----------------------------
(* One inbox, instantiated for TLC. *)
EXTENDS Mailbox, TLC

Symmetry == Permutations(Procs)

\* Behaviours are followed up to the step at which the lock file is upset.
Calm == ~upset
=============================================================================
