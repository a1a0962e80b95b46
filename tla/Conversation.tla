--------------------------- MODULE Conversation ---------------------------
(***************************************************************************)
(* What a run does to its conversation, whatever the provider, the tools   *)
(* and the gates decide: it adds notes, assistant turns and answers,       *)
(* prunes and summarizes between turns, and recovers once from a refused   *)
(* request.  AgentLoop implements it.                                      *)
(*                                                                         *)
(* A call is known by the turn and the place it was made at.               *)
(***************************************************************************)
EXTENDS Compaction

CONSTANTS
  TurnLimit,    \* Options.MaxTurns
  Lengths,      \* the lengths of a history, bounded in a model that is checked
  MaxNotes,     \* notes added at once
  Args,         \* what a call may name
  CallBatches,  \* the tool calls of a turn
  ResultBodies  \* the sizes of tool results

CallKinds == {"read", "edit", "plan", "skill", "run"}

ASSUME ConversationAssumption ==
  /\ {TurnLimit, MaxNotes} \subseteq Nat
  /\ Lengths \subseteq Nat
  /\ CallBatches \subseteq Seq([kind : CallKinds, arg : Args])
  /\ ResultBodies \subseteq Sizes

VARIABLES
  turns,  \* turns begun
  owed    \* the calls of the last assistant turn that have no answer yet

conversationVars == <<compactionVars, turns, owed>>

ConversationInit ==
  /\ CompactionInit
  /\ turns = 0
  /\ owed = <<>>

Numbered(batch) ==
  [k \in DOMAIN batch |-> [id |-> <<turns, k>>, kind |-> batch[k].kind, arg |-> batch[k].arg]]

Notes == {[k \in 1..n |-> UserNote] : n \in 0..MaxNotes}

Extend(m) == Len(m) \in Lengths /\ messages' = m
Settled == owed = <<>>
NoCompaction == UNCHANGED <<lowWater, reactive>>

NewTurn == \E notes \in Notes :
  /\ Settled /\ turns < TurnLimit
  /\ turns' = turns + 1
  /\ Extend(messages \o notes)
  /\ NoCompaction /\ UNCHANGED <<ratio, owed>>

\* Notes may follow a turn without calls at once.
Speak == \E batch \in CallBatches \cup {<<>>}, notes \in Notes :
  /\ Settled
  /\ notes # <<>> => batch = <<>>
  /\ Extend(Append(messages, AssistantTurn(Numbered(batch))) \o notes)
  /\ owed' = Numbered(batch)
  /\ ratio' \in Ratios
  /\ NoCompaction /\ UNCHANGED turns

AnswerCall == \E body \in ResultBodies :
  LET answered == Append(messages, ToolAnswer(Head(owed).id, body))
  IN /\ ~Settled
     /\ \/ messages' = answered /\ owed' = Tail(owed)
        \/ messages' = AppendAborted(answered, Tail(owed)) /\ owed' = <<>>
     /\ NoCompaction /\ UNCHANGED <<ratio, turns>>

Remind == \E notes \in Notes :
  /\ Settled
  /\ Extend(messages \o notes)
  /\ NoCompaction /\ UNCHANGED <<ratio, turns, owed>>

\* The prompt for a final answer that never came is taken back.
Retract ==
  /\ Settled
  /\ Len(messages) > Len(SeedMessages)
  /\ messages[Len(messages)] = UserNote
  /\ messages' = SubSeq(messages, 1, Len(messages) - 1)
  /\ NoCompaction /\ UNCHANGED <<ratio, turns, owed>>

Shorten ==
  /\ Settled
  /\ MaybeCompact \/ RecoverFails(TRUE) \/ Recovered(TRUE)
  /\ UNCHANGED <<turns, owed>>

ConversationNext == NewTurn \/ Speak \/ AnswerCall \/ Remind \/ Retract \/ Shorten

ConversationSpec == ConversationInit /\ [][ConversationNext]_conversationVars

-----------------------------------------------------------------------------
(* Properties.                                                             *)

\* The history that is sent, or returned, answers every tool call right after
\* the message that made it, and has no other tool results: whatever compaction,
\* pruning, an abort or a note did to it (appendAbortedToolResults,
\* safeSuffixBoundary).
HistoryIsReplayable == Paired(AppendAborted(messages, owed))

\* What a reader of m knows of the plan and of the newest edits: the state of the
\* newest summary, brought up to date by the calls after it.
Recall(m) ==
  LET s == SelectLastInSeq(m, LAMBDA x : x.state # NoState)
      known == IF s = 0 THEN NoState ELSE m[s].state
      since == SubSeq(m, s + 1, Len(m))
      edits == FoldLeft(Touch, known.edits, EditedFiles(since))
      shownEdits == IF Len(edits) > MaxRecentEdits
                      THEN SubSeq(edits, Len(edits) - MaxRecentEdits + 1, Len(edits)) ELSE edits
  IN <<IF LatestPlan(since) = NoCall THEN known.plan ELSE LatestPlan(since), shownEdits>>

Rewritten == ~IsPrefix(messages, messages') /\ ~IsPrefix(messages', messages)

\* Pruning and any number of summaries of summaries leave the latest plan and the
\* newest edits as they were (PreservedState, MergeRecentEdits).
StateSurvives == [][Rewritten => Recall(messages') = Recall(messages)]_conversationVars

Recent(m) == SubSeq(m, Len(m) - PreserveLast + 1, Len(m))

\* Neither a summary nor a pruning touches the last PreserveLast messages, nor the
\* system prompt, and none of them makes the history larger.
RecentIsVerbatim ==
  [][Rewritten =>
       /\ Len(messages) >= PreserveLast /\ Len(messages') >= PreserveLast
       /\ Recent(messages') = Recent(messages)
       /\ messages'[1] = messages[1]
       /\ EstimateTokens(messages') <= EstimateTokens(messages)]_conversationVars

=============================================================================
