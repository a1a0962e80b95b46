----------------------------- MODULE Compaction -----------------------------
(***************************************************************************)
(* The compaction state of one run, internal/agent/compaction.go: pruning  *)
(* and summarizing ahead of a request, recovering once after the provider  *)
(* refused a request for its length, and the calibrated token estimate.    *)
(*                                                                         *)
(* A summarizer call fails or returns a text of some size.                 *)
(***************************************************************************)
EXTENDS History

CONSTANTS
  Threshold,    \* compactionThreshold, 0 when compaction is disabled
  ToolTokens,   \* the estimate for the tool definitions
  Ratios        \* values of the calibration ratio, in quarters

ASSUME CompactionAssumption ==
  /\ Threshold \in Nat /\ ToolTokens \in Nat
  /\ Ratios \subseteq Nat \ {0} /\ 4 \in Ratios

VARIABLES
  messages,   \* the conversation
  lowWater,   \* lowWaterMark
  ratio,      \* calibrationRatio
  reactive    \* reactiveAttempted

compactionVars == <<messages, lowWater, ratio, reactive>>

Enabled == Threshold > 0
Sizes == {"small", "big"}

Calibrated(tokens) == (tokens * ratio) \div 4
Size(m) == Calibrated(EstimateTokens(m) + ToolTokens)

CompactionInit ==
  /\ messages = SeedMessages
  /\ lowWater = 0
  /\ ratio = 4
  /\ reactive = FALSE

\* Adopting a compacted history leaves its size as the mark to outgrow.
Adopt(m) == messages' = m /\ lowWater' = Size(m)

-----------------------------------------------------------------------------
(* Ahead of a request.                                                     *)

OverBudget ==
  /\ Enabled
  /\ Size(messages) > Threshold
  /\ lowWater = 0 \/ Size(messages) > lowWater

NothingToCompact == ~OverBudget /\ UNCHANGED compactionVars

Pruned == PruneStale(messages)
PruneSuffices == Pruned # messages /\ Size(Pruned) <= Threshold

Prune ==
  /\ OverBudget
  /\ PruneSuffices
  /\ Adopt(Pruned)
  /\ UNCHANGED <<ratio, reactive>>

SummarizerFails ==
  /\ OverBudget
  /\ ~PruneSuffices
  /\ Middle(Pruned) # <<>>
  /\ messages' = Pruned
  /\ UNCHANGED <<lowWater, ratio, reactive>>

Summarize == \E body \in Sizes :
  LET shorter == Compact(Pruned, body)
  IN /\ OverBudget
     /\ ~PruneSuffices
     /\ Adopt(IF Size(shorter) < Size(Pruned) THEN shorter ELSE Pruned)
     /\ UNCHANGED <<ratio, reactive>>

MaybeCompact == NothingToCompact \/ Prune \/ SummarizerFails \/ Summarize

-----------------------------------------------------------------------------
(* After a context-limit error.                                            *)

Shrinks(body) == EstimateTokens(Compact(messages, body)) < EstimateTokens(messages)

\* The one attempt of a run has been made, or makes no difference.
RecoverDeclined(limit) ==
  /\ \/ ~Enabled \/ reactive \/ ~limit
     \/ \E body \in Sizes : ~Shrinks(body)
  /\ UNCHANGED compactionVars

RecoverFails(limit) ==
  /\ Enabled /\ ~reactive /\ limit
  /\ Middle(messages) # <<>>
  /\ reactive' = TRUE
  /\ UNCHANGED <<messages, lowWater, ratio>>

BugRecovered(limit) == \E body \in Sizes :
  /\ Enabled /\ ~reactive /\ limit
  /\ Shrinks(body)
  /\ Adopt(Compact(messages, body))
  /\ UNCHANGED <<ratio, reactive>>

Recovered(limit) == \E body \in Sizes :
  /\ Enabled /\ ~reactive /\ limit
  /\ Shrinks(body)
  /\ Adopt(Compact(messages, body))
  /\ reactive' = TRUE
  /\ UNCHANGED ratio

Calibrate == IF Enabled THEN ratio' \in Ratios ELSE UNCHANGED ratio

=============================================================================
