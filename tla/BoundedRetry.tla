---------------------------- MODULE BoundedRetry ----------------------------
(***************************************************************************)
(* What the pool promises for a request: at-least-once execution with at   *)
(* most Limit attempts, one at a time, at most Capacity requests in an     *)
(* attempt, and nothing attempted once the request has its result.         *)
(***************************************************************************)
EXTENDS Naturals, FiniteSets

CONSTANTS Jobs, Capacity, Limit

VARIABLES
  tries,    \* attempts begun so far
  running,  \* the jobs in an attempt
  finished  \* the jobs that have their result

Init ==
  /\ tries = [j \in Jobs |-> 0]
  /\ running = {}
  /\ finished = {}

Try(j) ==
  /\ j \notin running \cup finished
  /\ tries[j] < Limit /\ Cardinality(running) < Capacity
  /\ tries' = [tries EXCEPT ![j] = @ + 1]
  /\ running' = running \cup {j}
  /\ UNCHANGED finished

\* An attempt ends, with a result or not.
Stop(j) ==
  /\ j \in running
  /\ running' = running \ {j}
  /\ finished' \in {finished, finished \cup {j}}
  /\ UNCHANGED tries

\* A result without an attempt: refused, cancelled, or out of attempts.
Conclude(j) ==
  /\ j \notin running \cup finished
  /\ finished' = finished \cup {j}
  /\ UNCHANGED <<tries, running>>

Next == \E j \in Jobs : Try(j) \/ Stop(j) \/ Conclude(j)

Spec == Init /\ [][Next]_<<tries, running, finished>>
=============================================================================
