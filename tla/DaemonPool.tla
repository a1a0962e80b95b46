----------------------------- MODULE DaemonPool -----------------------------
(***************************************************************************)
(* The worker pool of internal/daemon/pool.go: Run leases a slot, launches *)
(* a worker, retries it with bounded attempts, and Drain shuts the pool    *)
(* down.  One request is one call of Run, made by the goroutine that       *)
(* SessionManager.Start starts; all requests share the server's context.   *)
(*                                                                         *)
(* Server.Shutdown cancels that context before it drains the pool;         *)
(* CancelFirst = FALSE is the pool on its own, drained under a live        *)
(* context.                                                                *)
(*                                                                         *)
(* A definition named Bug... is the definition after it with a plausible   *)
(* mistake: the properties are shown to notice it.  Next uses none.        *)
(***************************************************************************)
EXTENDS Naturals, FiniteSets

CONSTANTS Requests, Size, MaxAttempts, CancelFirst

ASSUME SizeAssumption == Size \in Nat \ {0} /\ MaxAttempts \in Nat \ {0}
ASSUME CancelAssumption == CancelFirst \in BOOLEAN
ASSUME RequestsAssumption == IsFiniteSet(Requests)

VARIABLES
  pc,        \* where each request stands in Run
  attempt,   \* the loop counter of Run
  worker,    \* the process of the current attempt: "none", "alive" or "exited"
  killed,    \* handle.Kill was called on it
  readErr,   \* its stdout failed before the end of the stream
  outcome,   \* what Run returned
  active,    \* Pool.active
  drain,     \* where Drain stands
  victims,   \* the handles Drain has still to kill
  cancelled  \* the shared context is cancelled

vars == <<pc, attempt, worker, killed, readErr, outcome, active, drain, victims, cancelled>>

\* Drain sets draining under the lock, then closes the drained channel.
Draining == drain # "no"
DrainedClosed == drain \notin {"no", "marked"}

Busy == {"leased", "launch", "track", "pump", "cooloff", "backoff"}
Leased == {r \in Requests : pc[r] \in Busy}

Init ==
  /\ pc = [r \in Requests |-> "idle"]
  /\ attempt = [r \in Requests |-> 0]
  /\ worker = [r \in Requests |-> "none"]
  /\ killed = [r \in Requests |-> FALSE]
  /\ readErr = [r \in Requests |-> FALSE]
  /\ outcome = [r \in Requests |-> "none"]
  /\ active = {}
  /\ drain = "no"
  /\ victims = {}
  /\ cancelled = FALSE

Goto(r, p) == pc' = [pc EXCEPT ![r] = p]

\* Run returns; the deferred release gives the slot back.
Return(r, o) ==
  /\ Goto(r, "returned")
  /\ outcome' = [outcome EXCEPT ![r] = o]

-----------------------------------------------------------------------------
(* Run.                                                                    *)

\* acquire looks at draining first ...
Arrive(r) ==
  /\ pc[r] = "idle"
  /\ IF Draining THEN Return(r, "draining") ELSE Goto(r, "queued") /\ UNCHANGED outcome
  /\ UNCHANGED <<attempt, worker, killed, readErr, active, drain, victims, cancelled>>

\* ... and then takes whichever of its channels is ready.
Lease(r) ==
  /\ pc[r] = "queued" /\ Cardinality(Leased) < Size
  /\ Goto(r, "leased")
  /\ UNCHANGED <<attempt, worker, killed, readErr, outcome, active, drain, victims, cancelled>>

GiveUp(r) ==
  /\ pc[r] = "queued"
  /\ \/ cancelled /\ Return(r, "cancelled")
     \/ DrainedClosed /\ Return(r, "draining")
  /\ UNCHANGED <<attempt, worker, killed, readErr, active, drain, victims, cancelled>>

\* The head of the attempt loop.
NextAttempt(r) ==
  /\ pc[r] = "leased"
  /\ IF Draining
       THEN Return(r, "draining") /\ UNCHANGED attempt
       ELSE /\ attempt' = [attempt EXCEPT ![r] = @ + 1]
            /\ Goto(r, "launch") /\ UNCHANGED outcome
  /\ UNCHANGED <<worker, killed, readErr, active, drain, victims, cancelled>>

\* What Run does after a failed attempt, before the next one.
AfterFailure(r) ==
  IF attempt[r] = MaxAttempts THEN Return(r, "permanent") ELSE Goto(r, "backoff") /\ UNCHANGED outcome

LaunchFails(r) ==
  /\ pc[r] = "launch"
  /\ IF cancelled THEN Return(r, "cancelled") ELSE AfterFailure(r)
  /\ UNCHANGED <<attempt, worker, killed, readErr, active, drain, victims, cancelled>>

\* exec.CommandContext starts nothing under a cancelled context.
LaunchOK(r) ==
  /\ pc[r] = "launch" /\ ~ cancelled
  /\ worker' = [worker EXCEPT ![r] = "alive"]
  /\ killed' = [killed EXCEPT ![r] = FALSE]
  /\ readErr' = [readErr EXCEPT ![r] = FALSE]
  /\ Goto(r, "track")
  /\ UNCHANGED <<attempt, outcome, active, drain, victims, cancelled>>

Track(r) ==
  /\ pc[r] = "track"
  /\ active' = active \cup {r}
  /\ Goto(r, "pump")
  /\ UNCHANGED <<attempt, worker, killed, readErr, outcome, drain, victims, cancelled>>

\* The process ends, by itself or because it was told to.
WorkerExits(r) ==
  /\ worker[r] = "alive"
  /\ worker' = [worker EXCEPT ![r] = "exited"]
  /\ UNCHANGED <<pc, attempt, killed, readErr, outcome, active, drain, victims, cancelled>>

BugStdoutFailsForgets(r) ==
  /\ pc[r] = "pump" /\ ~ readErr[r]
  /\ readErr' = [readErr EXCEPT ![r] = TRUE]
  /\ active' = active \ {r}
  /\ AfterFailure(r)
  /\ UNCHANGED <<attempt, worker, killed, drain, victims, cancelled>>

\* Reading stdout fails: kill the worker, then wait for it.
StdoutFails(r) ==
  /\ pc[r] = "pump" /\ ~ readErr[r]
  /\ readErr' = [readErr EXCEPT ![r] = TRUE]
  /\ killed' = [killed EXCEPT ![r] = TRUE]
  /\ UNCHANGED <<pc, attempt, worker, outcome, active, drain, victims, cancelled>>

BugReapTrustsExitCode(r) ==
  /\ pc[r] = "pump" /\ worker[r] = "exited"
  /\ active' = active \ {r}
  /\ \/ Return(r, "ok")
     \/ Return(r, "permanent")
     \/ Goto(r, "cooloff") /\ UNCHANGED outcome
     \/ AfterFailure(r)
  /\ UNCHANGED <<attempt, worker, killed, readErr, drain, victims, cancelled>>

\* Wait returns, the worker is untracked, and Run looks at the exit code: 0,
\* ExitPermanent, ExitTempfail or another; a read error hides the code, and Wait
\* may report the cancelled context instead of a code.
Reap(r) ==
  /\ pc[r] = "pump" /\ worker[r] = "exited"
  /\ active' = active \ {r}
  /\ IF readErr[r]
       THEN IF cancelled THEN Return(r, "cancelled") ELSE AfterFailure(r)
       ELSE \/ Return(r, "ok")
            \/ Return(r, "permanent")
            \/ cancelled /\ Return(r, "cancelled")
            \/ Goto(r, "cooloff") /\ UNCHANGED outcome
            \/ AfterFailure(r)
  /\ UNCHANGED <<attempt, worker, killed, readErr, drain, victims, cancelled>>

BugWakeIgnoresLimit(r) ==
  /\ pc[r] \in {"cooloff", "backoff"}
  /\ \/ Goto(r, "leased") /\ UNCHANGED outcome
     \/ cancelled /\ Return(r, "cancelled")
  /\ UNCHANGED <<attempt, worker, killed, readErr, active, drain, victims, cancelled>>

\* The delay is over, or the context is cancelled.  A tempfail of the last
\* attempt sleeps as well before the loop ends.
Wake(r) ==
  /\ pc[r] \in {"cooloff", "backoff"}
  /\ \/ /\ attempt[r] < MaxAttempts
        /\ Goto(r, "leased") /\ UNCHANGED outcome
     \/ attempt[r] = MaxAttempts /\ Return(r, "permanent")
     \/ cancelled /\ Return(r, "cancelled")
  /\ UNCHANGED <<attempt, worker, killed, readErr, active, drain, victims, cancelled>>

-----------------------------------------------------------------------------
(* Shutdown of the server, and Drain.                                      *)

Cancel ==
  /\ CancelFirst /\ ~ cancelled
  /\ cancelled' = TRUE
  /\ UNCHANGED <<pc, attempt, worker, killed, readErr, outcome, active, drain, victims>>

DrainMark ==
  /\ drain = "no" /\ (CancelFirst => cancelled)
  /\ drain' = "marked"
  /\ UNCHANGED <<pc, attempt, worker, killed, readErr, outcome, active, victims, cancelled>>

DrainClose ==
  /\ drain = "marked"
  /\ drain' = "grace"
  /\ UNCHANGED <<pc, attempt, worker, killed, readErr, outcome, active, victims, cancelled>>

\* A poll within the grace window finds the pool idle.
DrainIdle ==
  /\ drain = "grace" /\ active = {}
  /\ drain' = "done"
  /\ UNCHANGED <<pc, attempt, worker, killed, readErr, outcome, active, victims, cancelled>>

\* The window is over: the handles are collected under the lock ...
DrainTimeout ==
  /\ drain = "grace"
  /\ drain' = "kill"
  /\ victims' = active
  /\ UNCHANGED <<pc, attempt, worker, killed, readErr, outcome, active, cancelled>>

\* ... and killed without it.  Killing the handle of a worker that has exited
\* does nothing.
DrainKill(r) ==
  /\ drain = "kill" /\ r \in victims
  /\ victims' = victims \ {r}
  /\ killed' = [killed EXCEPT ![r] = worker[r] = "alive" \/ @]
  /\ UNCHANGED <<pc, attempt, worker, readErr, outcome, active, drain, cancelled>>

DrainDone ==
  /\ drain = "kill" /\ victims = {}
  /\ drain' = "done"
  /\ UNCHANGED <<pc, attempt, worker, killed, readErr, outcome, active, victims, cancelled>>

-----------------------------------------------------------------------------
BugToldByKillOnly(r) == killed[r]

\* A worker that was killed, or whose context is cancelled, will exit.
Told(r) == killed[r] \/ cancelled

RunStep(r) ==
  \/ Lease(r) \/ GiveUp(r) \/ NextAttempt(r) \/ LaunchFails(r) \/ LaunchOK(r)
  \/ Track(r) \/ Reap(r) \/ Wake(r)

DrainStep ==
  DrainClose \/ DrainIdle \/ DrainTimeout \/ DrainDone \/ \E r \in Requests : DrainKill(r)

Next ==
  \/ \E r \in Requests : Arrive(r) \/ RunStep(r) \/ WorkerExits(r) \/ StdoutFails(r)
  \/ Cancel \/ DrainMark \/ DrainStep

Spec == Init /\ [][Next]_vars

\* Goroutines are scheduled, timers fire, and workers that are told to exit do.
\* Nothing is assumed of a worker that nobody stops.
Fairness ==
  /\ \A r \in Requests : WF_vars(RunStep(r)) /\ WF_vars(Told(r) /\ WorkerExits(r))
  /\ WF_vars(DrainStep)

FairSpec == Spec /\ Fairness

-----------------------------------------------------------------------------
(* Properties.                                                             *)

TypeOK ==
  /\ pc \in [Requests -> Busy \cup {"idle", "queued", "returned"}]
  /\ attempt \in [Requests -> 0..MaxAttempts]
  /\ worker \in [Requests -> {"none", "alive", "exited"}]
  /\ killed \in [Requests -> BOOLEAN]
  /\ readErr \in [Requests -> BOOLEAN]
  /\ outcome \in [Requests -> {"none", "ok", "permanent", "draining", "cancelled"}]
  /\ active \subseteq Requests
  /\ drain \in {"no", "marked", "grace", "kill", "done"}
  /\ victims \subseteq Requests
  /\ cancelled \in BOOLEAN

\* No process outlives the lease of its request, so there are never more
\* workers than slots, whatever fails on the way (pool.go runOnce waits for a
\* worker it gives up on).
WorkersHoldSlots ==
  /\ \A r \in Requests : worker[r] = "alive" => r \in Leased
  /\ Cardinality({r \in Requests : worker[r] = "alive"}) <= Size

\* A request is a success only when the output of the worker that exited with
\* 0 was read to its end (D1).
SuccessIsComplete == \A r \in Requests : outcome[r] = "ok" => ~ readErr[r]

\* What Drain may have to kill is what runs: Pool.active holds no worker that
\* was reaped, and every worker that is being pumped is in it.
ActiveIsPumped == active = {r \in Requests : pc[r] = "pump"}

\* An attempt lasts from the loop head to the end of runOnce.
Retry == INSTANCE BoundedRetry WITH
           Jobs <- Requests, Capacity <- Size, Limit <- MaxAttempts,
           tries <- attempt,
           running <- {r \in Requests : pc[r] \in {"launch", "track", "pump"}},
           finished <- {r \in Requests : pc[r] = "returned"}

\* Run is at-least-once with bounded retries and bounded concurrency, also while
\* the pool is drained (pool.go, Run: "at-least-once with bounded retries").
RunIsBoundedRetry == Retry!Spec

\* After a shutdown every call of Run returns: queued requests, requests that
\* sleep between attempts, and requests whose worker would never have exited.
ShutdownEndsRuns ==
  \A r \in Requests : drain # "no" /\ pc[r] # "idle" ~> pc[r] = "returned"

\* pool.go: "Drain stops new work and kills stragglers."
\* It does not hold; README.md, "Promises the models refute", has the scenario.
DrainLeavesNoWorker ==
  drain = "done" => \A r \in Requests : worker[r] = "alive" => Told(r)
=============================================================================
