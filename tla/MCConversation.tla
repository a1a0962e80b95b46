-------------------------- MODULE MCConversation --------------------------
(* The conversation, instantiated for TLC. *)
EXTENDS Conversation, TLC

CONSTANTS f, g, none

Call(kind, arg) == [kind |-> kind, arg |-> arg]

SomeLengths == 0..6
SomeBatches ==
  {<<Call("edit", f), Call("plan", none)>>, <<Call("edit", g)>>}
=============================================================================
