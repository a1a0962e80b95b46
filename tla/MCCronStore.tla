---------------------------- MODULE MCCronStore ----------------------------
(* Two schedulers and two users over a schedule of three slots. *)
EXTENDS CronStore, TLC

Symmetry == Permutations(Users)
=============================================================================
