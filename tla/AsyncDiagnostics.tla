-------------------------- MODULE AsyncDiagnostics --------------------------
(***************************************************************************)
(* Background diagnostics after edits, internal/agent/async_diagnostics.go.*)
(*                                                                         *)
(* The loop edits files and queues them; one worker checks a queued file   *)
(* against its contents on disk and keeps a block for it when it has       *)
(* errors; the loop drains the blocks into a nudge before a request.       *)
(* Whether a file has errors is all the model keeps of its contents.       *)
(***************************************************************************)
EXTENDS Naturals, Sequences

CONSTANTS Files, NoFile

ASSUME DiagnosticsAssumption == NoFile \notin Files

VARIABLES
  queue,     \* files waiting for a check
  queued,    \* the marks of the files in the queue
  results,   \* files for which an error block is kept
  working,   \* the worker goroutine runs
  checking,  \* the file being checked
  sawError,  \* what the check read
  broken,    \* files that have errors on disk
  told       \* files whose present errors a nudge has reported

diagVars == <<queue, queued, results, working, checking, sawError, broken, told>>

DiagInit ==
  /\ queue = <<>> /\ queued = {} /\ results = {}
  /\ working = FALSE /\ checking = NoFile /\ sawError = "unread"
  /\ broken = {} /\ told = {}

\* A tool writes file f.
Edit(f, hasErrors) ==
  /\ broken' = IF hasErrors THEN broken \cup {f} ELSE broken \ {f}
  /\ told' = told \ {f}

Enqueue(f) ==
  /\ working' = TRUE
  /\ queued' = queued \cup {f}
  /\ queue' = IF f \in queued THEN queue ELSE Append(queue, f)
  /\ results' = IF f \in queued THEN results ELSE results \ {f}
  /\ UNCHANGED <<checking, sawError>>

-----------------------------------------------------------------------------
(* The worker.                                                             *)

WorkerExit(cancelled) ==
  /\ working /\ checking = NoFile
  /\ queue = <<>> \/ cancelled
  /\ working' = FALSE
  /\ UNCHANGED <<queue, queued, results, checking, sawError, broken, told>>

\* The mark goes first: an edit during the check queues the file again.
WorkerTake(cancelled) ==
  /\ working /\ checking = NoFile
  /\ queue # <<>> /\ ~cancelled
  /\ checking' = Head(queue)
  /\ queue' = Tail(queue)
  /\ queued' = queued \ {Head(queue)}
  /\ sawError' = "unread"
  /\ UNCHANGED <<results, working, broken, told>>

\* A cancelled check reports nothing.
WorkerRead(cancelled) ==
  /\ checking # NoFile /\ sawError = "unread"
  /\ sawError' = IF checking \in broken /\ ~cancelled THEN "yes" ELSE "no"
  /\ UNCHANGED <<queue, queued, results, working, checking, broken, told>>

BugWorkerStore ==
  /\ checking # NoFile /\ sawError # "unread"
  /\ results' = IF sawError = "yes" THEN results \cup {checking} ELSE results
  /\ checking' = NoFile
  /\ sawError' = "unread"
  /\ UNCHANGED <<queue, queued, working, broken, told>>

WorkerStore ==
  /\ checking # NoFile /\ sawError # "unread"
  /\ results' = IF sawError = "yes" THEN results \cup {checking} ELSE results \ {checking}
  /\ checking' = NoFile
  /\ sawError' = "unread"
  /\ UNCHANGED <<queue, queued, working, broken, told>>

Worker(cancelled) ==
  WorkerExit(cancelled) \/ WorkerTake(cancelled) \/ WorkerRead(cancelled) \/ WorkerStore

-----------------------------------------------------------------------------
(* Draining.                                                               *)

\* The wait ends without the worker: it took too long, or the run is cancelled.
DrainGivesUp == working /\ UNCHANGED diagVars

DrainNothing == ~working /\ results = {} /\ UNCHANGED diagVars

DrainNudge ==
  /\ ~working /\ results # {}
  /\ results' = {}
  /\ told' = told \cup (results \cap broken)
  /\ UNCHANGED <<queue, queued, working, checking, sawError, broken>>

=============================================================================
