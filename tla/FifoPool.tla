------------------------------ MODULE FifoPool ------------------------------
(***************************************************************************)
(* What a team promises to the operations that dispatch agents to it: at   *)
(* most Capacity jobs are active, jobs that found no room start in the     *)
(* order in which they came, and none waits while there is room.           *)
(***************************************************************************)
EXTENDS Naturals, Sequences, FiniteSets

CONSTANTS Pools, Jobs, Capacity

VARIABLES
  waiting, \* the jobs that wait, oldest first
  active   \* the jobs that have a slot

Known(p) == active[p] \cup {waiting[p][n] : n \in DOMAIN waiting[p]}

Init ==
  /\ waiting = [p \in Pools |-> <<>>]
  /\ active = [p \in Pools |-> {}]

\* A job starts at once when there is room, which implies that none waits.
Start(p, j) ==
  /\ j \notin Known(p)
  /\ waiting[p] = <<>> /\ Cardinality(active[p]) < Capacity
  /\ active' = [active EXCEPT ![p] = @ \cup {j}]
  /\ UNCHANGED waiting

Wait(p, j) ==
  /\ j \notin Known(p)
  /\ Cardinality(active[p]) = Capacity
  /\ waiting' = [waiting EXCEPT ![p] = Append(@, j)]
  /\ UNCHANGED active

\* A job that ends makes room, which the oldest waiting job takes at once.
End(p, j) ==
  /\ j \in active[p]
  /\ IF waiting[p] = <<>>
       THEN /\ active' = [active EXCEPT ![p] = @ \ {j}]
            /\ UNCHANGED waiting
       ELSE /\ active' = [active EXCEPT ![p] = (@ \ {j}) \cup {Head(waiting[p])}]
            /\ waiting' = [waiting EXCEPT ![p] = Tail(@)]

Next == \E p \in Pools, j \in Jobs : Start(p, j) \/ Wait(p, j) \/ End(p, j)

Spec == Init /\ [][Next]_<<waiting, active>>
=============================================================================
