------------------------------ MODULE AgentLoop ------------------------------
(***************************************************************************)
(* One run of the agent, internal/agent/loop.go: turns of request, stream, *)
(* tool calls and notes, with compaction, reconnects, stall retries, the   *)
(* completion gate, parallel reads, background diagnostics and             *)
(* cancellation.                                                           *)
(*                                                                         *)
(* The provider and the tools are the environment: a stream is one of      *)
(* Replies or ends in one of Errors, and a tool call in one of Outcomes.   *)
(* What executeToolCall does before a call has its outcome, the wording of *)
(* notes, and which reminder is due are left out.                          *)
(***************************************************************************)
EXTENDS Integers, Compaction, AsyncDiagnostics

CONSTANTS
  MaxTurns,           \* Options.MaxTurns
  MaxReconnects,      \* maxStreamReconnects
  MaxStalls,          \* maxStreamStallRetries
  MaxEmptyTurns,      \* maxEmptyTurns
  MaxContinueNudges,  \* maxContinueNudges
  FailStopAt,         \* toolFailureStopAt
  RunOptions,         \* the option records a run may have
  Batches,            \* the tool calls of a reply: kinds and arguments
  Texts,              \* the texts of a reply without calls
  Errors,             \* what a request or a stream may fail with
  Outcomes,           \* what a tool call may end in
  Bodies              \* the sizes of tool results

ASSUME AgentAssumption ==
  /\ {MaxTurns, MaxEmptyTurns, FailStopAt} \subseteq Nat \ {0}
  /\ {MaxReconnects, MaxStalls, MaxContinueNudges} \subseteq Nat
  /\ RunOptions \subseteq [gate : BOOLEAN, selfCorrect : BOOLEAN, shows : BOOLEAN]
  /\ Batches \subseteq Seq([kind : {"read", "edit", "plan", "skill", "run"},
                            arg : Files \cup {NoFile}])
  /\ \A b \in Batches : \A k \in DOMAIN b : b[k].kind = "edit" => b[k].arg \in Files
  /\ Texts \subseteq {"none", "done", "cue", "admission"}
  /\ Errors \subseteq {"limit", "image", "stall", "other"}
  /\ Outcomes \subseteq {"ok", "refused", "failed", "abort", "review"}
  /\ Bodies \subseteq Sizes

VARIABLES
  pc,          \* where the run stands
  why,         \* what the request under way is for
  turn,        \* result.Turns
  opts,        \* gate, selfCorrect, and whether text is shown as it streams
  collected,   \* the collected stream
  connects,    \* reconnects of the request under way
  sends,       \* requests of this turn
  shown,       \* streams of this turn whose prose was shown
  stalls,      \* stall retries of this turn
  next,        \* the next call of the batch
  runEnd,      \* the end of the calls executed ahead
  ran,         \* the calls of the batch that were executed
  failures,    \* the failure streak of each kind of tool
  emptyTurns, planPending, nudges, acceptance,
  cancelled,   \* the run's context
  lateRuns,    \* tool executions begun after the cancellation
  missed,      \* the last drain before the answer gave up
  result

controlVars == <<pc, why, turn, opts, collected, connects, sends, shown, stalls>>
toolVars == <<next, runEnd, ran, failures, lateRuns>>
gateVars == <<emptyTurns, planPending, nudges, acceptance, missed>>
vars == <<compactionVars, diagVars, controlVars, toolVars, gateVars, cancelled, result>>

-----------------------------------------------------------------------------
(* Streams.                                                                *)

NoCalls == <<>>
Stream(text, calls, dropped, err) ==
  [text |-> text, calls |-> calls, dropped |-> dropped, err |-> err]
NoStream == Stream("none", NoCalls, FALSE, "")
Failed(e) == Stream("none", NoCalls, FALSE, e)

\* A call's id is its turn and its place.
CallsOf(batch) ==
  [k \in DOMAIN batch |-> [id |-> <<turn, k>>, kind |-> batch[k].kind, arg |-> batch[k].arg]]

\* A dropped call is told by a note, which a batch may have for other reasons too.
Replies ==
  {Stream(t, NoCalls, FALSE, "") : t \in Texts}
    \cup {Stream("none", NoCalls, TRUE, "")}
    \cup {Stream("none", CallsOf(b), FALSE, "") : b \in Batches}
    \cup {Stream(t, NoCalls, FALSE, e) : t \in Texts \cap {"none", "done"}, e \in Errors}

Calls == collected.calls
Rest == SubSeq(Calls, next + 1, Len(Calls))
IsRead(call) == call.kind = "read"
Kinds == UNION {{b[k].kind : k \in DOMAIN b} : b \in Batches}

-----------------------------------------------------------------------------

Init ==
  /\ CompactionInit /\ DiagInit
  /\ pc = "top" /\ why = "turn" /\ turn = 0
  /\ opts \in RunOptions
  /\ collected = NoStream
  /\ connects = 0 /\ sends = 0 /\ shown = 0 /\ stalls = 0
  /\ next = 1 /\ runEnd = 0 /\ ran = {} /\ lateRuns = 0
  /\ failures = [k \in Kinds |-> 0]
  /\ emptyTurns = 0 /\ planPending = FALSE /\ nudges = 0 /\ acceptance = FALSE
  /\ cancelled = FALSE /\ missed = FALSE
  /\ result = [kind |-> "none", incomplete |-> FALSE, text |-> "none"]

Cancel ==
  /\ pc # "done" /\ ~cancelled
  /\ cancelled' = TRUE
  /\ UNCHANGED <<compactionVars, diagVars, controlVars, toolVars, gateVars, result>>

Work ==
  /\ Worker(cancelled)
  /\ UNCHANGED <<compactionVars, controlVars, toolVars, gateVars, cancelled, result>>

Note == messages' = Append(messages, UserNote)
OnlyMessages == UNCHANGED <<lowWater, ratio, reactive>>
Goto(place) == pc' = place /\ UNCHANGED <<why, turn, opts, collected, connects, sends, shown, stalls>>

\* The locals of a turn end with it.
LeaveTurn(place) ==
  /\ pc' = place /\ why' = "turn" /\ collected' = NoStream
  /\ connects' = 0 /\ sends' = 0 /\ shown' = 0 /\ stalls' = 0
  /\ UNCHANGED <<turn, opts, cancelled>>

Return(kind, incomplete, text) ==
  /\ result' = [kind |-> kind, incomplete |-> incomplete, text |-> text]
  /\ LeaveTurn("done")

Fail == Return("error", FALSE, "none")

\* A new request: its connection attempts are counted anew.
Request(purpose) ==
  /\ pc' = "connect" /\ why' = purpose
  /\ connects' = 0
  /\ sends' = sends + 1
  /\ UNCHANGED <<turn, opts, collected, shown>>

-----------------------------------------------------------------------------
(* The top of a turn.                                                      *)

BeginTurn ==
  /\ pc = "top" /\ turn < MaxTurns
  /\ turn' = turn + 1
  /\ pc' = "compact"
  /\ \/ DrainNudge /\ Note
     \/ (DrainGivesUp \/ DrainNothing) /\ UNCHANGED messages
  /\ OnlyMessages
  /\ UNCHANGED <<why, opts, collected, connects, sends, shown, stalls>>
  /\ UNCHANGED <<toolVars, gateVars, cancelled, result>>

CompactHistory ==
  /\ pc = "compact"
  /\ MaybeCompact
  /\ Request("turn") /\ UNCHANGED stalls
  /\ UNCHANGED <<diagVars, toolVars, gateVars, cancelled, result>>

-----------------------------------------------------------------------------
(* streamWithReconnect.                                                    *)

Connect ==
  /\ pc = "connect"
  /\ pc' = "stream" /\ connects' = 0
  /\ UNCHANGED <<why, turn, opts, collected, sends, shown, stalls>>
  /\ UNCHANGED <<compactionVars, diagVars, toolVars, gateVars, cancelled, result>>

Reconnect ==
  /\ pc = "connect"
  /\ ~cancelled /\ connects < MaxReconnects
  /\ connects' = connects + 1
  /\ UNCHANGED <<compactionVars, diagVars, toolVars, gateVars, cancelled, result,
                 pc, why, turn, opts, collected, sends, shown, stalls>>

\* Only the first request of a turn is recovered when it cannot be sent.
ConnectFails == \E e \in (Errors \ {"stall"}) \cup {"other"} :
  /\ pc = "connect" /\ why # "final"
  /\ IF why = "turn" /\ e # "image"
       THEN /\ collected' = Failed(e) /\ pc' = "recover"
            /\ UNCHANGED <<why, turn, opts, connects, sends, shown, stalls, result, cancelled>>
       ELSE Fail
  /\ UNCHANGED <<compactionVars, diagVars, toolVars, gateVars>>

-----------------------------------------------------------------------------
(* Collecting a stream.                                                    *)

Received == IF cancelled THEN Replies \cup {Failed("cancelled")} ELSE Replies
Forwarding == why \in {"turn", "reissue", "stall"}

Collect == \E s \in Received :
  /\ pc = "stream" /\ why # "final"
  /\ collected' = s
  /\ shown' = IF Forwarding /\ opts.shows /\ s.text # "none" THEN shown + 1 ELSE shown
  /\ pc' = CASE why \in {"turn", "reissue"} -> IF s.err = "" THEN "settle" ELSE "recover"
             [] why = "quiet" -> "settle"
             [] why = "stall" -> "stalled"
             [] why = "last" -> "reply"
  /\ why' = IF why = "reissue" \/ (why = "turn" /\ s.err # "") THEN "stream" ELSE why
  /\ UNCHANGED <<turn, opts, connects, sends, stalls>>
  /\ UNCHANGED <<compactionVars, diagVars, toolVars, gateVars, cancelled, result>>

\* The context is consulted once, before stalls are retried.
Settle ==
  /\ pc = "settle"
  /\ IF cancelled THEN Fail ELSE Goto("stalled") /\ UNCHANGED <<result, cancelled>>
  /\ UNCHANGED <<compactionVars, diagVars, toolVars, gateVars>>

BugMayRetryStall ==
  /\ stalls < MaxStalls
  /\ collected.err = "stall"

MayRetryStall ==
  /\ stalls < MaxStalls
  /\ collected.err = "stall"
  /\ shown = 0
  /\ collected.text = "none"

StallRetry ==
  /\ pc = "stalled" /\ MayRetryStall
  /\ IF cancelled THEN Fail
     ELSE Request("stall") /\ stalls' = stalls + 1 /\ UNCHANGED <<result, cancelled>>
  /\ UNCHANGED <<compactionVars, diagVars, toolVars, gateVars>>

StallsOver ==
  /\ pc = "stalled" /\ ~MayRetryStall
  /\ IF collected.err = "" THEN Goto("reply")
     ELSE /\ pc' = "recover" /\ why' = "last"
          /\ UNCHANGED <<turn, opts, collected, connects, sends, shown, stalls>>
  /\ UNCHANGED <<compactionVars, diagVars, toolVars, gateVars, cancelled, result>>

-----------------------------------------------------------------------------
(* Recovery from an error: of the request, of the stream, of the last one. *)

IsLimit == collected.err = "limit"

\* Without recovery the error ends the run, unless stalls are still to be tried.
RecoveryDeclined ==
  /\ pc = "recover" /\ RecoverDeclined(IsLimit)
  /\ IF why = "stream" /\ collected.err # "image"
       THEN Goto("settle") /\ UNCHANGED <<result, cancelled>>
       ELSE Fail
  /\ UNCHANGED <<diagVars, toolVars, gateVars>>

RecoveryFails ==
  /\ pc = "recover" /\ RecoverFails(IsLimit)
  /\ Fail
  /\ UNCHANGED <<diagVars, toolVars, gateVars>>

\* A stream's request is sent again without the callbacks that show it.
RecoverySucceeds ==
  /\ pc = "recover" /\ Recovered(IsLimit)
  /\ Request(CASE why = "turn" -> "reissue" [] why = "stream" -> "quiet" [] OTHER -> "last")
  /\ UNCHANGED stalls
  /\ UNCHANGED <<diagVars, toolVars, gateVars, cancelled, result>>

-----------------------------------------------------------------------------
(* A reply.                                                                *)

Reply(more) ==
  /\ pc = "reply" /\ collected.err = ""
  /\ messages' = Append(messages, AssistantTurn(Calls)) \o more
  /\ Calibrate
  /\ UNCHANGED <<lowWater, reactive, diagVars, toolVars, missed>>

LastErrorStays ==
  /\ pc = "reply" /\ collected.err # ""
  /\ Fail
  /\ UNCHANGED <<compactionVars, diagVars, toolVars, gateVars>>

NoCallReply == Calls = NoCalls
NextTurn == LeaveTurn("top") /\ UNCHANGED result

ReplyDropped ==
  /\ NoCallReply /\ collected.dropped
  /\ Reply(<<UserNote>>) /\ NextTurn
  /\ UNCHANGED <<emptyTurns, planPending, nudges, acceptance>>

\* Reasoning without text is not an empty turn, but no answer either.
ReplyEmpty == \E reasoned \in BOOLEAN :
  LET empty == IF reasoned THEN 0 ELSE emptyTurns + 1
  IN /\ NoCallReply /\ ~collected.dropped /\ collected.text = "none"
     /\ emptyTurns' = empty
     /\ IF empty >= MaxEmptyTurns
          THEN Reply(<<>>) /\ Return("stop", FALSE, "none")
          ELSE Reply(<<UserNote>>) /\ NextTurn
     /\ UNCHANGED <<planPending, nudges, acceptance>>

Answering ==
  /\ NoCallReply /\ ~collected.dropped /\ collected.text # "none"
  /\ emptyTurns' = 0
  /\ UNCHANGED planPending

Admits == collected.text = "admission"
Cue == collected.text = "cue"
Unfinished == Cue \/ planPending

AnswerAdmits ==
  /\ Answering /\ opts.gate /\ Admits
  /\ Reply(<<>>) /\ Return("unfinished", TRUE, collected.text)
  /\ UNCHANGED <<nudges, acceptance>>

AnswerNudged ==
  /\ Answering /\ opts.gate /\ ~Admits /\ Unfinished
  /\ nudges < MaxContinueNudges
  /\ nudges' = nudges + 1
  /\ Reply(<<UserNote>>) /\ NextTurn
  /\ UNCHANGED acceptance

AnswerMidStep ==
  /\ Answering /\ opts.gate /\ ~Admits /\ Cue
  /\ nudges >= MaxContinueNudges
  /\ Reply(<<>>) /\ Return("unfinished", TRUE, collected.text)
  /\ UNCHANGED <<nudges, acceptance>>

BugPastGate == opts.gate => ~Admits

\* A plan that is still pending no longer counts once the nudges are spent.
PastGate ==
  \/ ~opts.gate
  \/ ~Admits /\ (Unfinished => nudges >= MaxContinueNudges /\ ~Cue)

AskAcceptance ==
  /\ Answering /\ opts.gate /\ PastGate
  /\ opts.selfCorrect /\ ~acceptance
  /\ acceptance' = TRUE
  /\ Reply(<<UserNote>>) /\ NextTurn
  /\ UNCHANGED nudges

Answer ==
  /\ Answering /\ PastGate
  /\ opts.gate /\ opts.selfCorrect => acceptance
  /\ Reply(<<>>)
  /\ Goto("finalize")
  /\ UNCHANGED <<nudges, acceptance, cancelled, result>>

BugFinalize ==
  /\ pc = "finalize"
  /\ Return("answer", FALSE, collected.text)
  /\ UNCHANGED <<compactionVars, diagVars, missed>>
  /\ UNCHANGED <<toolVars, emptyTurns, planPending, nudges, acceptance>>

Finalize ==
  /\ pc = "finalize"
  /\ \/ DrainNudge /\ Note /\ OnlyMessages /\ NextTurn /\ UNCHANGED missed
     \/ /\ DrainGivesUp \/ DrainNothing
        /\ missed' = working
        /\ Return("answer", FALSE, collected.text)
        /\ UNCHANGED compactionVars
  /\ UNCHANGED <<toolVars, emptyTurns, planPending, nudges, acceptance>>

-----------------------------------------------------------------------------
(* Tool calls.                                                             *)

HasPlan(calls) == \E k \in DOMAIN calls : calls[k].kind = "plan"

ReplyWithCalls ==
  /\ Calls # NoCalls
  /\ pc = "reply" /\ collected.err = ""
  /\ messages' = Append(messages, AssistantTurn(Calls))
  /\ Calibrate
  /\ emptyTurns' = 0
  /\ planPending' \in IF HasPlan(Calls) THEN BOOLEAN ELSE {planPending}
  /\ next' = 1 /\ runEnd' = 0 /\ ran' = {}
  /\ Goto("tools")
  /\ UNCHANGED <<lowWater, reactive, diagVars, failures, lateRuns, nudges, acceptance, missed,
                 cancelled, result>>

BugReadsFrom(k) == {n \in k..Len(Calls) : IsRead(Calls[n]) \/ n = k}

\* The consecutive reads that start at the next call.
ReadsFrom(k) == {n \in k..Len(Calls) : \A i \in k..n : IsRead(Calls[i])}
ReadAheadDue == next > runEnd /\ Cardinality(ReadsFrom(next)) >= 2

Execute(ks) ==
  /\ ran' = ran \cup ks
  /\ lateRuns' = IF cancelled THEN lateRuns + 1 ELSE lateRuns

ReadAhead ==
  /\ pc = "tools" /\ next <= Len(Calls) /\ ReadAheadDue
  /\ Execute(ReadsFrom(next))
  /\ runEnd' = next + Cardinality(ReadsFrom(next)) - 1
  /\ UNCHANGED <<compactionVars, diagVars, controlVars, next, failures, gateVars, cancelled, result>>

\* The streak of a tool: another error starts it anew, anything else ends it.
Streaks(kind, o) == IF o = "failed" THEN {1, failures[kind] + 1} ELSE {0}

BugAnswerRest(m) == m

\* A batch that is cut off answers the calls it did not make.
AnswerRest(m) == AppendAborted(m, Rest)

BugAborts(o) == o = "abort"

\* The context is consulted after every result.
Aborts(o) == o = "abort" \/ cancelled

ChangesFile(call, o) == call.kind = "edit" /\ o = "ok"

\* The call's result is recorded, and the run goes on, stops or aborts.
RunCall == \E o \in Outcomes, body \in Bodies :
  LET call == Calls[next]
      answered == Append(messages, ToolAnswer(call.id, body))
      aborts == Aborts(o)
  IN
  /\ pc = "tools" /\ next <= Len(Calls) /\ ~ReadAheadDue
  /\ IF next <= runEnd THEN UNCHANGED <<ran, lateRuns>> ELSE Execute({next})
  /\ \E streak \in Streaks(call.kind, o) :
       LET stops == o = "review" \/ streak >= FailStopAt
       IN /\ failures' = [failures EXCEPT ![call.kind] = streak]
          /\ messages' = IF aborts \/ stops THEN AnswerRest(answered) ELSE answered
          /\ IF aborts THEN Fail
             ELSE IF stops THEN Return("stop", FALSE, "none")
             ELSE Goto("tools") /\ UNCHANGED <<result, cancelled>>
          /\ next' = IF aborts \/ stops THEN Len(Calls) + 1 ELSE next + 1
  /\ IF ChangesFile(call, o)
       THEN /\ \E hasErrors \in BOOLEAN : Edit(call.arg, hasErrors)
            /\ IF aborts THEN UNCHANGED <<queue, queued, results, working, checking, sawError>>
               ELSE Enqueue(call.arg)
       ELSE UNCHANGED diagVars
  /\ OnlyMessages
  /\ UNCHANGED <<runEnd, gateVars>>

\* One note stands for those that may follow the results: self-correction feedback,
\* a failed model switch, a dropped call and a reminder.
EndBatch == \E note \in BOOLEAN :
  /\ pc = "tools" /\ next > Len(Calls)
  /\ IF note THEN Note ELSE UNCHANGED messages
  /\ OnlyMessages
  /\ NextTurn
  /\ next' = 1 /\ runEnd' = 0 /\ ran' = {}
  /\ UNCHANGED <<diagVars, failures, lateRuns, gateVars>>

-----------------------------------------------------------------------------
(* After the last turn.                                                    *)

TurnsOver == pc = "top" /\ turn = MaxTurns

CancelledAtCeiling ==
  /\ TurnsOver /\ cancelled
  /\ Fail
  /\ UNCHANGED <<compactionVars, diagVars, toolVars, gateVars>>

AskFinalAnswer ==
  /\ TurnsOver /\ ~cancelled
  /\ \/ DrainNudge /\ messages' = messages \o <<UserNote, UserNote>> /\ missed' = FALSE
     \/ /\ DrainGivesUp \/ DrainNothing
        /\ Note
        /\ missed' = working
  /\ Request("final") /\ UNCHANGED stalls
  /\ OnlyMessages
  /\ UNCHANGED <<toolVars, emptyTurns, planPending, nudges, acceptance, cancelled, result>>

FinalAnswer ==
  /\ pc = "stream" /\ why = "final" /\ ~cancelled
  /\ messages' = Append(messages, AssistantTurn(NoCalls))
  /\ Return("ceiling", opts.gate, "done")
  /\ OnlyMessages
  /\ UNCHANGED <<diagVars, toolVars, gateVars>>

\* The prompt for the final answer is not kept when there is none.
NoFinalAnswer ==
  /\ pc \in {"connect", "stream"} /\ why = "final"
  /\ messages' = SubSeq(messages, 1, Len(messages) - 1)
  /\ Return("fallback", opts.gate, "none")
  /\ OnlyMessages
  /\ UNCHANGED <<diagVars, toolVars, gateVars>>

-----------------------------------------------------------------------------

Loop ==
  \/ BeginTurn \/ CompactHistory
  \/ Connect \/ Reconnect \/ ConnectFails \/ Collect
  \/ Settle \/ StallRetry \/ StallsOver
  \/ RecoveryDeclined \/ RecoveryFails \/ RecoverySucceeds
  \/ LastErrorStays \/ ReplyDropped \/ ReplyEmpty
  \/ AnswerAdmits \/ AnswerNudged \/ AnswerMidStep \/ AskAcceptance \/ Answer \/ Finalize
  \/ ReplyWithCalls \/ ReadAhead \/ RunCall \/ EndBatch
  \/ CancelledAtCeiling \/ AskFinalAnswer \/ FinalAnswer \/ NoFinalAnswer

Next == Loop \/ Work \/ Cancel

Spec == Init /\ [][Next]_vars

-----------------------------------------------------------------------------
(* Properties.                                                             *)

\* The answers still owed for the calls of the last assistant message.
Pending == IF pc = "tools" THEN SubSeq(Calls, next, Len(Calls)) ELSE NoCalls

TheConversation == INSTANCE Conversation WITH
  turns <- turn, owed <- Pending, TurnLimit <- MaxTurns, Lengths <- Nat, MaxNotes <- 2,
  Args <- Files \cup {NoFile}, CallBatches <- Batches, ResultBodies <- Bodies

\* Whatever happens in a run, its history only grows by notes, turns and answers,
\* every call being answered before anything else is said, and is only shortened
\* between turns: the aborts, guards, retries, recoveries and the retracted prompt
\* of Run all keep to Conversation.
KeepsConversation == TheConversation!ConversationSpec

Stage ==
  CASE pc = "done" -> 0
    [] pc # "done" /\ why = "final" -> 1
    [] pc = "top" -> 2
    [] pc \in {"tools", "finalize"} -> 3
    [] pc = "reply" -> 4
    [] OTHER -> 5

Place ==
  CASE pc = "compact" -> 6
    [] pc = "connect" -> 5
    [] pc = "stream" -> 4
    [] pc = "recover" /\ why # "last" -> 3
    [] pc = "settle" -> 2
    [] pc = "stalled" -> 1
    [] OTHER -> 0

\* What is left of a run: turns, parts of the turn, requests of the turn, steps of
\* the request, and attempts to connect or calls and reads ahead.
Left == <<
  MaxTurns - turn, Stage, IF Stage = 5 THEN 2 + MaxStalls - sends ELSE 0, Place,
  IF pc = "tools" THEN 2 * (Len(Calls) + 1 - next) - (IF next <= runEnd THEN 1 ELSE 0)
                  ELSE MaxReconnects - connects >>

LeavesLess(x, y) ==
  /\ \A i \in DOMAIN y : y[i] >= 0
  /\ \E i \in DOMAIN x : y[i] < x[i] /\ \A j \in 1..(i - 1) : y[j] = x[j]

\* Every step of the loop leaves less to do, and never less than nothing: a turn
\* sends its request once, once more per stall and once more for the only recovery
\* of the run, so that reconnects, stall retries, recoveries, nudges and the drains
\* before an answer cannot keep a run going (reactiveAttempted, stallRetries).
LoopEnds == [][LeavesLess(Left, Left')]_<<compactionVars, controlVars, toolVars, result>>

\* Prose that was shown is never streamed again by a retry of its turn
\* (forwardedVisibleText, and the reissue without callbacks).
OneVisibleAnswer == shown <= 1

\* Under the completion gate a run that is not reported incomplete ended with an
\* answer without admission or cue, after the acceptance check when there is one,
\* and with a pending plan only once the nudges were spent.
GatedAnswer ==
  opts.gate /\ result.kind \notin {"none", "error", "stop"} /\ ~result.incomplete =>
    /\ result.text = "done"
    /\ planPending => nudges = MaxContinueNudges
    /\ opts.selfCorrect => acceptance

\* A call is executed only when every earlier call of its batch that may write
\* has been: reading ahead never passes a write (parallel_tools.go).
ReadsSeeWrites ==
  pc = "tools" => \A k \in ran, i \in DOMAIN Calls :
    i < k /\ i >= next => IsRead(Calls[i])

\* After the run is cancelled at most one more call, or one batch of reads, is
\* begun (the check of ctx.Err after every result).
CancelStopsTools == lateRuns <= 1

\* When the worker is quiet the kept blocks are those of the files that have
\* errors now and were not reported: no stale block, none lost to an edit that
\* landed during a check (delete of the mark before the check).  So a final
\* answer, natural or asked for after the last turn, is given only after the
\* errors of all edits were put to the model, unless the last drain gave up or
\* the run was cancelled (drainFinal).
DiagnosticsDelivered ==
  /\ ~working /\ ~cancelled => results = broken \ told
  /\ result.kind \in {"answer", "ceiling"} /\ ~missed /\ ~cancelled => broken \subseteq told

=============================================================================
