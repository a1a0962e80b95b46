---------------------------- MODULE MCAgentLoop ----------------------------
(* The agent loop, instantiated for TLC. *)
EXTENDS AgentLoop, TLC

Call(kind) == [kind |-> kind, arg |-> NoFile]
EditOf(f) == [kind |-> "edit", arg |-> f]
Option(gate, selfCorrect, shows) == [gate |-> gate, selfCorrect |-> selfCorrect, shows |-> shows]

SomeBatches == {<<EditOf(f), Call("read"), Call("read")>> : f \in Files} \cup {<<Call("plan")>>}
SomeOptions == {Option(TRUE, TRUE, TRUE), Option(FALSE, FALSE, FALSE)}
SomeTexts == {"none", "done", "cue", "admission"}
SomeErrors == {"limit", "stall"}
SomeOutcomes == {"ok", "failed", "abort"}
=============================================================================
