------------------------------- MODULE Inbox -------------------------------
(***************************************************************************)
(* What a mailbox promises: an inbox that sends append to, one at a time   *)
(* and up to its capacity, and that a read returns and marks as read at    *)
(* once, so that each message is new to one reader.                        *)
(***************************************************************************)
EXTENDS Naturals, Sequences

CONSTANTS Messages, Capacity

VARIABLES
  inbox,  \* a sequence of [msg, read]
  acked,  \* messages whose sender was told so
  newTo   \* for each message, the reads that returned it as new

vars == <<inbox, acked, newTo>>

Init ==
  /\ inbox = <<>>
  /\ acked = {}
  /\ newTo = [m \in Messages |-> 0]

Unread(m) == \E i \in DOMAIN inbox : inbox[i] = [msg |-> m, read |-> FALSE]

Send(m) ==
  /\ m \notin acked
  /\ Len(inbox) < Capacity
  /\ inbox' = Append(inbox, [msg |-> m, read |-> FALSE])
  /\ acked' = acked \cup {m}
  /\ UNCHANGED newTo

Consume ==
  /\ inbox' = [i \in DOMAIN inbox |-> [inbox[i] EXCEPT !.read = TRUE]]
  /\ newTo' = [m \in Messages |-> IF Unread(m) THEN newTo[m] + 1 ELSE newTo[m]]
  /\ UNCHANGED acked

Next == Consume \/ \E m \in Messages : Send(m)

Spec == Init /\ [][Next]_vars
=============================================================================
