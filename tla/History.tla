------------------------------ MODULE History ------------------------------
(***************************************************************************)
(* The conversation of internal/agent: what a request carries, what a      *)
(* provider accepts, and the operators of compaction.go,                   *)
(* compaction_preserve.go and prune.go on it.                              *)
(*                                                                         *)
(* A message keeps its role, its tool calls, the id of the call it         *)
(* answers, the size class of its body, and, for an injected summary, the  *)
(* structured state written into it.  Text is otherwise left out.          *)
(***************************************************************************)
EXTENDS SequencesExt

CONSTANTS
  NoCall,         \* the id of no call; a call's is its turn and its place
  PreserveLast,   \* Options.CompactionPreserveLast, 0 when it is not set
  DefaultLast,    \* defaultCompactionPreserveLast
  BigCost,        \* the extra tokens of a large body, in units of a message
  ProtectRecent,  \* pruneProtectRecentTokens, in large bodies
  MinReclaim,     \* pruneMinReclaimTokens, in large bodies
  MaxRecentEdits  \* maxRecentEdits

ASSUME HistoryAssumption ==
  /\ {PreserveLast, BigCost, ProtectRecent, MinReclaim} \subseteq Nat
  /\ {DefaultLast, MaxRecentEdits} \subseteq Nat \ {0}
  /\ NoCall \notin Nat \X Nat

-----------------------------------------------------------------------------
(* Messages.                                                               *)

NoState == [plan |-> NoCall, edits |-> <<>>, skill |-> "none"]

Message(role, calls, id, body, state) ==
  [role |-> role, calls |-> calls, id |-> id, body |-> body, state |-> state]

Plain(role, body) == Message(role, <<>>, NoCall, body, NoState)
UserNote == Plain("user", "small")
AssistantTurn(calls) == Message("assistant", calls, NoCall, "small", NoState)
ToolAnswer(id, body) == Message("tool", <<>>, id, body, NoState)
Summary(body, state) == Message("user", <<>>, NoCall, body, state)

SeedMessages == <<Plain("system", "small"), Plain("user", "small")>>

AbortedAnswers(calls) == [k \in DOMAIN calls |-> ToolAnswer(calls[k].id, "small")]
AppendAborted(m, calls) == m \o AbortedAnswers(calls)

\* Every call of a message is answered by the messages right after it, and every
\* tool message is such an answer.
Answered(m, i) == \A k \in DOMAIN m[i].calls :
  /\ i + k \in DOMAIN m
  /\ m[i + k].role = "tool"
  /\ m[i + k].id = m[i].calls[k].id

Owned(m, j) == \E i \in DOMAIN m : i < j /\ j <= i + Len(m[i].calls)

Paired(m) == \A i \in DOMAIN m :
  /\ Answered(m, i)
  /\ m[i].role = "tool" => Owned(m, i)

-----------------------------------------------------------------------------
(* Token estimates.                                                        *)

IsBig(x) == x.body = "big"
BigBodies(m, from) == Cardinality({i \in from..Len(m) : IsBig(m[i])})
EstimateTokens(m) == Len(m) + BigCost * BigBodies(m, 1)

-----------------------------------------------------------------------------
(* Pruning: old large tool bodies become placeholders.                     *)

LaterOutput(m, i) == Cardinality({j \in (i + 1)..Len(m) : m[j].role = "tool" /\ IsBig(m[j])})

PruneCandidates(m) == {i \in DOMAIN m :
  /\ m[i].role = "tool" /\ IsBig(m[i])
  /\ i + PreserveLast <= Len(m)
  /\ LaterOutput(m, i) >= ProtectRecent}

PruneStale(m) ==
  LET old == PruneCandidates(m)
  IN IF old = {} \/ Cardinality(old) < MinReclaim THEN m
     ELSE [i \in DOMAIN m |-> [m[i] EXCEPT !.body = IF i \in old THEN "pruned" ELSE @]]

-----------------------------------------------------------------------------
(* Structured state carried across a compaction.                           *)

PlanCall(calls) == SelectLastInSeq(calls, LAMBDA c : c.kind = "plan")

LatestPlan(m) ==
  LET i == SelectLastInSeq(m, LAMBDA x : PlanCall(x.calls) > 0)
  IN IF i = 0 THEN NoCall ELSE m[i].calls[PlanCall(m[i].calls)].id

\* A file edited again moves to the newest place.
Touch(order, f) == Append(SelectSeq(order, LAMBDA g : g # f), f)

EditedFiles(m) ==
  FlattenSeq([i \in DOMAIN m |->
    [k \in DOMAIN SelectSeq(m[i].calls, LAMBDA c : c.kind = "edit") |->
       SelectSeq(m[i].calls, LAMBDA c : c.kind = "edit")[k].arg]])

CapEdits(s) == IF Len(s) <= MaxRecentEdits THEN s
               ELSE SubSeq(s, Len(s) - MaxRecentEdits + 1, Len(s))

RecentEdits(m) == CapEdits(FoldLeft(Touch, <<>>, EditedFiles(m)))

MergeRecentEdits(older, newer) == FoldLeft(Touch, older, newer)

\* Loaded skills, tools and project instructions are entries of one kind: the
\* newest body of a name replaces the older one.  One name stands for all.
SkillCalls(m) == UNION {{m[i].calls[k].id : k \in
                  {n \in DOMAIN m[i].calls : m[i].calls[n].kind = "skill"}} : i \in DOMAIN m}

LoadedSkill(m) ==
  LET i == SelectLastInSeq(m, LAMBDA x : x.role = "tool" /\ x.id \in SkillCalls(m))
  IN IF i = 0 THEN "none" ELSE m[i].body

LatestSummary(m) ==
  LET i == SelectLastInSeq(m, LAMBDA x : x.state # NoState)
  IN IF i = 0 THEN NoState ELSE m[i].state

BugPreservedState(middle) ==
  [plan |-> LatestPlan(middle), edits |-> RecentEdits(middle), skill |-> LoadedSkill(middle)]

PreservedState(middle) ==
  LET prior == LatestSummary(middle)
      plan == LatestPlan(middle)
      skill == LoadedSkill(middle)
  IN [plan |-> IF plan = NoCall THEN prior.plan ELSE plan,
      edits |-> CapEdits(MergeRecentEdits(prior.edits, RecentEdits(middle))),
      skill |-> IF skill = "none" THEN prior.skill ELSE skill]

-----------------------------------------------------------------------------
(* Compaction: the middle becomes one summary.                             *)

SystemEnd(m) == CHOOSE s \in 0..Len(m) :
  /\ \A i \in 1..s : m[i].role = "system"
  /\ s < Len(m) => m[s + 1].role # "system"

BugNaiveBoundary(m) ==
  IF Len(m) < SystemEnd(m) + DefaultLast THEN SystemEnd(m) ELSE Len(m) - DefaultLast

NaiveBoundary(m) ==
  LET last == IF PreserveLast = 0 THEN DefaultLast ELSE PreserveLast
  IN IF Len(m) < SystemEnd(m) + last THEN SystemEnd(m) ELSE Len(m) - last

BugSafeSuffixBoundary(m, s, b) == b

\* The last place at or before b where the suffix starts with an assistant turn.
SafeSuffixBoundary(m, s, b) == CHOOSE j \in s..b :
  /\ j = s \/ m[j + 1].role = "assistant"
  /\ \A k \in (j + 1)..b : m[k + 1].role # "assistant"

Boundary(m) == SafeSuffixBoundary(m, SystemEnd(m), NaiveBoundary(m))

Middle(m) == SubSeq(m, SystemEnd(m) + 1, Boundary(m))

\* "body" is the size of the text the summarizer returned.
Compact(m, body) ==
  IF Middle(m) = <<>> THEN m
  ELSE SubSeq(m, 1, SystemEnd(m)) \o <<Summary(body, PreservedState(Middle(m)))>>
         \o SubSeq(m, Boundary(m) + 1, Len(m))

=============================================================================
