# Verification of the agent loop, the stores, the swarm and the daemon

This directory holds TLA+ models of the parts of the coding agent in `src/` that
keep state across failures or share it: the agent loop with its compaction and its
background diagnostics, the session store and the cron store (files that several
processes write and that survive crashes), the swarm (a team of agents that share
slots, tasks and mailboxes), the daemon (a server that runs agent sessions in
worker processes), and the lock files with which processes exclude one another.
TLC checks the models on small instances; TLAPS proves the theorems for every
value of the constants.

Everything is translated from the Go source. Where a comment of the source
promises something the code does not do, the model follows the code, and the
disagreement is recorded under
[promises the models refute](#promises-the-models-refute).

Contents: [inventory](#inventory), [modules and code](#modules-and-code),
[runs](#runs), [bounds](#bounds), [fairness](#fairness), [proofs](#proofs),
[promises the models refute](#promises-the-models-refute),
[what is not modelled](#what-is-not-modelled), [plan](#plan).

## Inventory

The program is a Go monolith: some sixty packages under `internal/`, one
command line. Most packages are sequential (parsers, tables, rendering,
configuration). The ones below keep state that several actors share.

| part | state it keeps | operations | actors that meet there |
|---|---|---|---|
| agent loop (`internal/agent`) | the history of messages, the compaction state, guards and counters of a turn, the queue and results of late diagnostics | Run: request, stream, tool calls, notes, gates; maybeCompact, recover; enqueue, drain | the loop, read-ahead goroutines, the diagnostics worker, a cancellation |
| session store (`internal/sessions`) | an event log, its count in the metadata, checkpoint blobs | AppendEvent, AppendEventUnlessExists, CaptureToolCheckpoint, ApplyRewind, ReadEvents | headless runs, terminal interfaces, accounting of sub-agents; crashes, power failures |
| cron store (`internal/cron/store.go`, `cli/cron_run.go`) | one file per job | claim, fire, persist, reschedule, pause, resume, remove | schedulers and commands, crashes |
| swarm (`internal/swarm`: coordinator, team, lifecycle, member) | the task registry, per team a slot counter, an overflow queue and the members | Spawn, Handoff, AdoptOrphans, CollectWait, Close; launch, watch, afterExit behind them | tool calls, the recurring scheduler, one watch goroutine per member |
| swarm mailbox (`mailbox.go`) | one JSON file per inbox, one lock file | Send, ReadAndConsume | processes |
| swarm scheduler (`scheduler.go`) | the recurring entries | loop, fireIfIdle, Stop | one goroutine per entry |
| daemon pool (`internal/daemon/pool.go`) | a slot semaphore, the active workers, draining | Run, Drain | one goroutine per request, the shutdown |
| daemon sessions (`session.go`) | per session a ring of recent output and the subscribers; the registry and its eviction order | Start, Attach, Get, Line, Subscribe, finish | run goroutines, connection handlers |
| daemon server (`server.go`) | listener, tracked connections, the socket, lock and status files | Serve, ServeConn, Shutdown | accept loop, handlers, remote bridge, signals |
| daemon lock (`lock.go`) | a PID file | acquireLock, reclaimStaleLock, release | processes that start, stop and crash |
| lock files (cron, oauth, hooks, mailbox) | a file with a token | acquire, reclaim, release | processes |
| background tasks (`internal/background`) | a record per task | Start, Kill, restore after a restart | the exit of the process, a killer |
| oauth refresh (`internal/oauth`) | the token file | refresh, logout | processes |
| remote bridge (`internal/daemon/remote`) | a semaphore, authenticated links | accept, handshake, serve | remote clients |
| hooks audit (`internal/hooks`) | a numbered log | append | processes |
| tools, MCP, LSP, ACP, providers, sandbox, TUI, configuration | transports, policies, views | | mostly one goroutine |

How they interact: a client connects to the **server**, whose handler asks the
**session registry** to start a session; its goroutine calls `Pool.Run`, which
leases a slot and starts a `pvyai exec` worker; the lines of the worker go
through `Session.Line` to the subscribers' channels and from there to the
connections. `Shutdown` cancels the shared context, sweeps the connections and
drains the **pool**. The **daemon lock** makes the whole thing single-instance.
Inside a worker, the **agent loop** records what it does in the **session store**,
which the terminal interface and the accounting of sub-agents write as well, and
from which a rewind restores the workspace; the **cron** scheduler starts such runs
for jobs that are due. The agent's tools call the **swarm**, whose members are
goroutines (or sub-agents) that talk through the **mailbox**, which uses the
**lock file** that cron, oauth and hooks use in copies.

What is hard, and what makes each part correct:

* *Agent loop.* Every turn may be continued for a dozen reasons: a stall, a
  reconnect, a refused length, an empty reply, a nudge, a pending plan, an
  acceptance check, a late diagnostic. Correct means: the run ends; what was shown
  is not shown twice; an answer that counts as complete passed its gates; a read
  does not pass a write; the errors of the last edits reach the model first.
* *Conversation.* Compaction cuts and rewrites what providers only accept whole.
  Correct means: every tool call keeps its answer right behind it, the newest
  messages stay, and the plan and the edits survive a summary of a summary.
* *Session store.* The log and its count are two files written in two steps, a
  rewind is five, and any process may die between two of them. Correct means:
  numbers are not reused, what was acknowledged stays, a rewind restores what it
  promises, also after rewinds that stopped halfway.
* *Cron.* Schedulers and commands write back copies they read earlier. Correct
  means: a slot fires once, a pause and a removal hold.
* *Swarm.* The lifecycle runs in many goroutines and holds no lock across an
  operation: Spawn, Handoff and AdoptOrphans are sequences of short critical
  sections of three mutexes. A failed launch or an exit hands the slot over to a
  queued spec, in a goroutine that belongs to somebody else. Correct means:
  slots are neither lost nor given back twice, queued specs start in order and
  never wait beside a free slot, no open task is without an agent, no finished
  task comes back, and a collector that sleeps is woken.
* *Pool.* Run has three error paths that retry, one that must not leave a
  process behind, and a drain that can start anywhere. Correct means: workers
  never outnumber slots, truncated output is never success, attempts are
  bounded, and a shutdown ends every call.
* *Sessions.* Output is fanned out without blocking the worker, so channels
  overflow and lines are dropped; history and live stream are joined at
  Subscribe; finish closes channels outside of the lock. Correct means: every
  gap is announced exactly, no channel is closed twice, every stream ends, and
  eviction takes finished sessions only, the oldest first, and enough of them.
* *Server.* Shutdown may come while Serve binds, while a connection is between
  accept and tracking, and from a handler. Correct means: Serve returns, no
  connection stays open behind the sweep, the handlers it cut off end. After a
  shutdown the lock is released last, when Serve has waited for its handlers; after a
  fatal accept error (`server.go:130-133`) Serve returns at once and the lock is free
  while handlers still run (`ServeFail`).
* *Locks.* Each system call is a point where another process may come in or
  this one may die. Correct means: exclusion, recovery from any crash.

`PROJECT.json` lists every component, the sources it covers and what is left
out of it, and the hazards of this code, each at its line.

## Modules and code

An action is one critical section, one system call, or one wait of the code,
with the local code around it. A name is the source's name where there is one.
A definition named `Bug...` is the definition that follows it with a plausible
mistake (a guard dropped, a reset forgotten); no specification uses one, and
each is known to be noticed by the property it is paired with.

| module | code | state and actions |
|---|---|---|
| `History` | `agent/{compaction,compaction_preserve,prune}.go`, `pvyruntime` | no state: messages and the pure algorithms on them, `Compact` with its boundary, `PruneStale`, `PreservedState` with the merge of an earlier summary, `AppendAborted` |
| `Compaction` | `compaction.go` | `messages`, `lowWater`, `ratio`, `reactive`. `NothingToCompact`, `Prune`, `SummarizerFails`, `Summarize` are the outcomes of maybeCompact; `RecoverDeclined`, `RecoverFails`, `Recovered` those of recover; `Calibrate` |
| `Conversation` | (what `Run` does to the history) | `owed`, the calls without an answer. `NewTurn`, `Speak`, `AnswerCall`, `Remind`, `Retract`, `Shorten`; `AgentLoop` implements it |
| `AsyncDiagnostics` | `async_diagnostics.go` | `queue`, `queued`, `results`, `working`, the file being checked; `broken` and `told` are the truth on disk and what the model was told. `Enqueue`, `WorkerTake`, `WorkerRead`, `WorkerStore`, `WorkerExit`, the drains |
| `AgentLoop` | `loop.go`, `guardrails.go`, `reconnect.go`, `parallel_tools.go` | `pc` where Run stands, `why` what a request is for, the counters of a turn, the gates, `next`, `runEnd`, `ran` in a batch. One action per branch of the loop: `BeginTurn`, `CompactHistory`, `Connect`, `Reconnect`, `Collect`, `StallRetry`, `Recovery...`, `Reply...`, `Answer...`, `ReadAhead`, `RunCall`, `EndBatch`, `Finalize`, `FinalAnswer`, and `Cancel` at any time |
| `SessionStore` | `sessions/{store,checkpoint,rewind}.go`, `cli/exec_sessions.go`, the batches of `tui` | `log`, `torn`, `flushed`, `count`, `blobs` on disk, `holder` of the session lock, `work` the workspace, `pc`, `job` (with the files a rewind has `skipped`), `batch` of each process. Each write of an operation is a step: `Number`, `Write`, `Commit` of an append, `Snapshot`, `RestoreFile`, `Truncate`, `Count`, `Prune` of a rewind; `Crash`, `PowerFails`, `WriteFails` |
| `CronStore` | `cron/store.go`, `cli/{cron,cron_run}.go` | `job` and `dir` on disk, `clock`, and for each process the `copy` it read. `ListOverdue`/`Reschedule`, `ListDue`, `Claim`, `Persist` (three outcomes), `Record`, `PauseGet`/`PauseUpdate`, `ResumeGet`/`ResumeUpdate`, `Remove`, `Crash`; an operation under the job lock is one step |
| `Swarm` | `swarm/{coordinator,team,lifecycle,member}.go` | `status`, `team`, `owner` are the tasks of the coordinator; `queue` and `running` a team; `phase[a]` is where agent `a` stands between dispatch and exit and so also the program counter of its watch goroutine; `pc`, `cur`, `target`, `live`, `todo` are a caller's program counter and locals. `Spawn`, `RememberCwd`, `HandoffGet`, `HandoffRegister`, `Retire`, `AdoptLive`, `AdoptList`, `AdoptReassign`, `AdmitNow`/`AdmitQueue`, `LaunchOK`/`LaunchFails`, `MarkRunning`, `Relaunch`, `RecordOutcome`, `RemoveMember`, `ExitFree`/`ExitNext`, `CollectSettled`/`CollectBlocks`/`CollectWakes`/`CollectGivesUp`, `Close` |
| `FifoPool` | (abstract) | what a team promises: bounded, FIFO, nobody waits while there is room |
| `DaemonPool` | `daemon/{pool,launcher,backoff}.go` | `pc[r]`, `attempt[r]` a call of Run; `worker`, `killed`, `readErr` its process; `active`, `drain`, `victims` the pool. `Arrive`, `Lease`, `GiveUp`, `LaunchOK`, `LaunchFails`, `Track`, `WorkerExits`, `StdoutFails`, `Reap`, `Wake`, `Cancel`, `Drain...` |
| `BoundedRetry` | (abstract) | at least once, at most `Limit` attempts, nothing after the result |
| `DaemonSession` | `daemon/session.go` (Session), `server.go` (streamToClient) | `buffer` the ring, `ch`, `dropped` a subscriber, `seen` what its client was given. `WriteLine` is Line with its loop over the subscribers, `Finish`, `FinishClose`, `FinishDone` are finish, `Subscribe`, `Receive`, `ReceiveEnd`, `Cancel` the handler |
| `SessionRegistry` | `daemon/session.go` (SessionManager), `server.go` (handleRun, handleAttach, finishStream) | `sessions`, `order`, `scan` (the locals of pruneLocked, one step per entry because sessions finish under their own lock), `phase` of each session object. `Start...`, `Prune`, `PruneEnd`, `Finish`, `Attach`, `AttachGet`, `FinishStream` |
| `DaemonServer` | `daemon/server.go`, `cli/daemon.go` (signal) | `serve`, `accepted`, `listener`, `files`, `conns`, `open`, `handler[c]`, `shut` |
| `DaemonLock` | `daemon/lock.go`, `lock_posix.go` | `lock` is the content of the file at the path, `mine` the process that created it, `aside[p]` the file `p` has renamed; every system call is a step, `Crash` comes between any two |
| `FileLock` | `cron/lock.go`, `oauth/lock.go`, `hooks/lock.go`, `swarm/mailbox.go` | `pc`, `lock` the file at the path, `aside[p]` the file `p` has renamed. Four copies of one protocol; `Strict` tells the copies that fail closed from the mailbox, which goes on without its token |
| `Mailbox` | `swarm/mailbox.go` | Send and ReadAndConsume on `FileLock`: read the file, change the copy, write it back, with failing reads and writes |
| `Inbox` | (abstract) | an inbox that is appended to and consumed atomically |
| `MC...` | | the instances for TLC |
| `...Proofs` | | the theorems |

`History`, `Compaction` and `AsyncDiagnostics` are parts of `AgentLoop`, by EXTENDS.
`AgentLoop` implements `Conversation` (`KeepsConversation`): with the variables they
share, and `owed` the calls of the batch from `next` on. So a theorem about
`Conversation` is one about the history of every run.
`FileLock` is composed with `Mailbox` by EXTENDS: a step of the mailbox is a step
of the lock with the inbox left alone, or a step of the holder. The other
components are separate modules; what one takes from another is an environment
action that is at least as free as the code (a session in `SessionRegistry`
finishes at any time, a handler in `DaemonServer` gets its next line at any time,
`Cancel` of `DaemonPool` is the shutdown of the server).

Data is abstracted to what the properties tell apart. A line is its number, a
message its sender and number, a task's prompt and result are gone, its working
directory is a bit: is it the directory of the spawn? A file is its content; its
age is a bit. A message of the history keeps its role, its calls, the call it answers,
a size class and the state a summary carries; a workspace file is one of a few
contents. Variables that are not in the code are said to be so: `was` in
`SessionStore` (the workspace when an event was made), `promised` in `CronStore`
(which promises were made and not taken back), `upset` in `FileLock` (whether the
lock file was overtaken or outlived), `told` and `missed` in the agent loop.

## Runs

Each passing run asks everything TLC can say about one part at one instance;
the state counts are those of distinct states.

| run | properties | what it shows |
|---|---|---|
| `agent_loop` (1.5 M) | `OneVisibleAnswer`, `GatedAnswer`, `ReadsSeeWrites`, `CancelStopsTools`, `DiagnosticsDelivered`, `LoopEnds`, `KeepsConversation` | Three turns against a provider that stalls, disconnects and refuses for length, tools that edit, fail and abort, a worker and a cancellation at any time. Every step leaves less to do in a well-founded order, so no mixture of retries goes on for ever; the history is one of `Conversation`. |
| `conversation` (80 k) | `HistoryIsReplayable`, `StateSurvives`, `RecentIsVerbatim` | Histories are pruned, summarized and summarized again at every point. |
| `session_store` (3.2 M) | `RewindRestores`, `RewoundOrReported`, `SequencesIncrease`, `AckedIsKept`, `RecordedOnce` | A headless process and a terminal interface append, account, checkpoint two files and rewind twice; one crash, power failure or torn write between any two system calls, and any restore of a file may fail. Before every event, and after everything that happened since, the log and the blobs have what it takes to put each file back to what it was then; a rewind that cuts the log has done so or has reported the file as skipped. |
| `cron_store` (6.0 M) | `SlotFiresOnce`, `PauseHolds`, `RemovedIsGone` | Two schedulers, one of which reschedules overdue jobs when it starts, against two users; crashes, failed reads and writes; a schedule that ends. |
| `swarm` (1.3 M) | `SlotsAccounted`, `NoTaskStranded`, `TerminalIsFinal`, `TeamIsFifoPool` | Two callers spawn, hand off, adopt and collect at once, launches and notes fail. The slot counter is the number of agents that hold a slot; the team refines `FifoPool`; an open task always has an agent on its way; a terminal status stays. |
| `swarm_close` (39 k) | `ClosedSwarmSettles`, `ClosedCollectReturns` | After Close the queue drains through the exits of cancelled members, relaunches included, every task ends and every collector returns even without its timeout. |
| `daemon_pool` (433 k) | `WorkersHoldSlots`, `SuccessIsComplete`, `RunIsBoundedRetry`, `ShutdownEndsRuns` | Three calls of Run on two slots, with failing launches, read errors, every class of exit code, cancellation and drain at any time. |
| `daemon_session` (189 k) | `GapsAreExact`, `ChannelsClosedOnce`, `StreamsEnd` | Two clients attach, lag, leave and are cut off by finish. Counting each gap notice as the lines it announces, every line of a stream stands where its number says. |
| `session_registry` (181 k) | `OpenSessionsRegistered`, `ForgottenOnlyForRoom`, `ScanFreesWhatItCan` | Sessions finish in the middle of an eviction scan, ids are evicted and started again, running sessions exceed the cap. |
| `daemon_server` (12 k) | `ShutdownStopsServe`, `ShutdownEndsHandlers` | A shutdown at any point of Serve and of three connections, two local and one remote, whose clients may neither read nor write. |
| `daemon_lock` (48 k) | `LoneStartSucceeds`, `SettledDaemonKeepsLock` | Four daemons start, stop and crash between any two system calls. A start that is alone succeeds whatever it finds; a daemon that serves while the others are still at the first checks keeps its lock. |
| `mailbox` (2.3 M) | `LockExcludes`, `MailboxIsInbox` | Three processes send and read, crash, leave stale locks behind, and fail to read and write. Up to the step that upsets the lock file, the lock excludes and every step of the inbox is one of `Inbox`. |

Type invariants and the invariants that proofs use on the way (`TypeOK`,
`QueueOnlyWhenFull`, `NoLostWakeup`, `ActiveIsPumped`, `OrderIsRegistry`,
`SweptConnsAreClosed`) are not repeated in the runs where a theorem has them for
every instance, and neither are `NothingUncounted` and the types of `DaemonSession`
and of the lock. The others that are stated (`AckedSendsAreKept` and the types of
`Mailbox`) hold in the same configurations.

The configurations say `CHECK_DEADLOCK FALSE` because these systems really come
to rest: every id is used and every call has returned, every process has run,
the run has its result, the clock has reached its bound. (`SessionStore` can always
take another step and is checked for deadlock.)
That nobody waits for ever is what the liveness properties say.

## Bounds

| bound | where | value | why it is enough |
|---|---|---|---|
| `MaxTurns`, `MaxStalls`, `MaxReconnects`, `MaxContinueNudges`, `FailStopAt` | `AgentLoop` | 3, 1, 1, 1, 1 | a turn that edits, one that is nudged or answers, and the ceiling; each counter is compared and counted up, so one below and one at the limit are the cases |
| `Batches`, `RunOptions` | `AgentLoop` | edit then two reads, or a plan; gate and self-correction on or off together | a read ahead needs a write before two reads; both gates together are the long path |
| `Threshold`, `BigCost`, `ProtectRecent`, `MinReclaim` | `AgentLoop`, `Conversation` | 8, 1, 1, 1; 5, 2, 1, 1, in messages and large bodies | one large result more than is protected is pruned; a few messages more than fit are summarized, and summarized again |
| `Lengths`, `PreserveLast`, `DefaultLast` | `Conversation` | 0..6, 2, 1 | the boundary falls before, inside and after a batch of two calls |
| `Procs`, `Tuis`, `Files`, `Contents` | `SessionStore` | a headless one and a terminal, two files, one content or absence | files that share a blob and files that differ; late batches beside prompt appends |
| `MaxEvents`, `MaxRewinds`, `MaxFaults` | `SessionStore` | 2, 2, 1 | guards on new events; a rewind over an earlier rewind's marker, with one crash, power failure or torn write in between. A restore that fails is no fault of this count: any number may fail. The theorems hold for all values |
| `Schedulers`, `Users`, `Slots`, `MaxClock` | `CronStore` | 2, 2, minutes 1 and 3, 3 | two claims of one slot, a run that spans a slot, a last slot |
| `MaxCommands`, `MaxFaults` | `CronStore` | 3, 2 | pause, resume, remove in every order |
| `Callers` | `Swarm` | 2 | every finding and every hand-over needs two goroutines besides the members, which have their own |
| `MaxIds`, `Inherited` | `Swarm` | 4 and 1; 3 and 0 with liveness | ids are minted upward and bound spawns, hand-offs and adoptions together; one slot and a queue of two shows the order, one inherited task an orphan |
| `MaxTeamSize`, `Teams` | `Swarm` | 1, one team | a queue behind one slot is the tight case; teams share no slot. Two slots are in `SwarmDoubleRun.cfg`; two teams of one slot, three ids and one restart hold as well (1.2 M states) and are not repeated as a run. The theorems hold for all values |
| `MaxRestarts` | `Swarm` | 0, and 1 in `swarm_close` | the code's 2 behaves as 1: the counter is compared and counted up |
| `Requests`, `Size`, `MaxAttempts` | `DaemonPool` | 3, 2, 2 | one request waits while two hold slots; an attempt that may and one that may not be followed by another |
| `ChanCap`, `MaxBuffer`, `MaxLines` | `DaemonSession` | 2, 2, 5 for the code's 256, 1024 | lag needs more lines than the channel holds; a notice and its line need two slots; the ring must have turned over |
| `MaxSessions`, `MaxStarts`, `Ids`, `Clients` | `SessionRegistry` | 1, 4, 3, 4 | three registered sessions over a cap of one, and an id that is started twice |
| `Local`, `Remote` | `DaemonServer` | 2, 1 | one connection being tracked while another is swept; the remote path has no accept loop |
| `Procs` | `DaemonLock` | 4 | three at the file and one that starts after |
| `Procs`, `MaxMessages`, `MaxSends` | `Mailbox` | 3, 2, 1 | three processes are what it takes to upset the lock file without a stalled holder; three senders reach the capacity of two. The theorems hold for all values |

The bounds are guards of the models (`MintId`, `WriteLine`, the starts of
`SessionRegistry`, the sends of `Mailbox`); everything else is unbounded as in
the code. `CancelFirst` is an assumption rather than a bound: the runs assume that
the pool is drained by the server, which cancels first.

`Mailbox.cfg` has the constraint `Calm`: behaviours are followed up to and including
the step that upsets the lock file, and not beyond. `upset` in `FileLock` says when
that is: a file is created while a reclaimer has a fresh one renamed aside, or a file
grows old while a process holds it or is reclaiming (30 or 60 seconds in a critical
section of milliseconds, but nothing prevents it). The code does both, with any
number of processes, and what then follows is in the fourth item of
[promises the models refute](#promises-the-models-refute). `LockExcludes` says that
the lock fails in no other way, and the refinement binds every step before. Nothing
is said of the file after it: both properties hold trivially there.
`Strict = TRUE`, the locks of cron, oauth and hooks, differs from the mailbox's in what
follows a token that cannot be written and a file that cannot be reclaimed; it is in
`FileLock` without an instance: `CronStore` takes what the lock protects as atomic,
and `LockFailsOnlyUpset` covers both kinds.

`Alone` in `SessionStore` is an assumption too: tools that change files, and rewinds,
do not overlap, and neither begins while another process has events of a run in
memory. Within a process this is the code: the terminal interface refuses to rewind
during a run and until its events are flushed (`tui/session_controls.go:380-388`),
and the guard is modelled, with the mutant that drops it. Between processes nobody
checks: `pvyai sessions rewind` (`cli/sessions.go:384`) may run beside the open batch
of a terminal, whose checkpoints are then appended behind a log that was cut under
them (`checkpoint.go:89`). What `RewindRestores` says is not claimed of that.

Symmetry is used for callers and processes where only safety is checked; the
runs with liveness have none.

## Fairness

* `Swarm`: a goroutine inside an operation is scheduled (weak fairness of
  `CallerStep` and `AgentStep`). That a note cannot be sent or that a collector
  times out is never assumed. A member is only known to exit after Close has
  cancelled its context: `WF(closed /\ MemberExit(a))`; the context reaches the
  run function through `Launch`, and before Close a member may run for ever.
* `DaemonPool`: goroutines are scheduled, timers fire, and a worker exits once it
  was killed or its context cancelled (`exec.CommandContext` with a kill delay).
  Of a worker that nobody stops nothing is assumed. `Lease` is weakly fair only:
  after a shutdown the wait for a slot also ends by the context.
* `DaemonSession`: finish runs to its end, and the client of a handler reads what
  is written to it or is gone (`Cancel`). A client that is connected and never
  reads blocks its handler, since writes have no deadline after the handshake;
  that handler ends with a shutdown, which is `ShutdownEndsHandlers` of
  `DaemonServer`. Nothing is assumed of the run: `StreamsEnd` is about sessions
  that end.
* `DaemonServer`: Serve and Shutdown are scheduled, and a handler ends once its
  connection is closed, its deadline passes or its session is cancelled.
  Clients, sessions and signals may do nothing for ever.

The agent loop has no liveness property to be fair for: `LoopEnds` is an action
property, that every step of the loop makes a tuple of naturals smaller. That the
provider, the tools and the waits return is their timeouts' concern.

The locks, the stores and the mailbox are checked for safety: acquisition is a race with a
timeout, and the code promises nobody a turn.

## Proofs

All theorems assume only the named assumptions of the constants: sizes are
naturals, positive where the code needs it, sets of requests and ids are finite,
names of special values are no processes or files, and a batch of tool calls is a
sequence of calls whose edits name a file. They hold for any number of callers,
teams, requests, clients, connections, processes and files, and for histories, rings
and batches of any length. The two that assume more say so: `ExclusionKeepsSends` and
`ExclusionMakesAnInbox` are about executions in which the lock file excludes. Each
proof splits the next-state relation into its actions, one step per action.

* `AgentProofs`, about what the loop does to its history, and about the loop.
  * `Replayable` (`HistoryIsReplayable`). The invariant `Whole` says that the history
    is a sequence of messages that starts with the system prompt and the request, and
    that it is paired once the owed answers are put in; `Leads` lists what may happen
    to a history. The lemmas are about the algorithms: appending aborted answers pairs
    a history, the safe boundary never cuts behind a call whose answers follow, so both
    a suffix from it and a summary in front of it are paired, and pruning keeps what
    pairing sees.
  * `RecentStaysVerbatim` (`RecentIsVerbatim`). A summary keeps the suffix behind its
    boundary and pruning the messages it protects; that neither makes the history
    larger is monotony of the estimate, and of the calibrated size by which maybeCompact
    decides whether to adopt a summary. `Trimmed` composes, so a summary of a pruned
    history is covered too.
  * `PlanSurvives`, the plan's half of `StateSurvives`. `SummaryIsSecond`: the only
    message with state is the second, and calls have ids. So the plan a history tells of
    is the newest plan call's or, without one, the summary's (`RecalledPlan`), and
    what `PreservedState` puts into a new summary is that of the part it replaces.
  * `OneAnswerShown` (`OneVisibleAnswer`), `AnswersAreGated` (`GatedAnswer`),
    `ReadsFollowWrites` (`ReadsSeeWrites`), `CancellationStops` (`CancelStopsTools`),
    from `LoopInv`: what a request can be for at each place (`Purposes`), which
    streams were shown when one is sent again (`ShownOnce`, `Counts`), where the
    executed calls of a batch lie (`BatchPlace`), which calls run after a cancellation
    (`LateRuns`), and which gates an answer has behind it (`Gated`).
  * `DiagnosticsReachTheModel` (`DiagnosticsDelivered`). `Blocks` says of every file
    that is neither queued nor being checked that a block is kept for it exactly when it
    has errors the model was not told; a file that is being checked again makes what was
    read of it void. `Reported` draws the consequence for the final answer.
  * `LoopTerminates` (`LoopEnds`): each loop step makes a tuple of naturals
    lexicographically smaller, for any bounds, options and batches, and no component
    falls below zero.
  * `LoopKeepsToConversation` (`KeepsConversation`), the refinement: every step of the
    loop is one of `Conversation` or leaves the history alone. `PromptStands` (the prompt
    for a final answer stands last until it is answered or taken back) is what `Retract`
    needs. With it `RunIsReplayable`, `RunKeepsRecent` and `RunKeepsPlan` state for
    the runs of the loop what holds of the conversation.
* `SessionStoreProofs`: `SessionInvariant`, `SequencesAlwaysIncrease`,
  `AckedAlwaysKept`, `AlwaysRecordedOnce`, `RewindAlwaysRestores`
  (`RewindRestores`), `RewindDoesOrReports` (`RewoundOrReported`).
  A log that becomes unreadable may become
  readable again when a power failure cuts it, so the invariant speaks of every
  readable beginning of the log (`PrefixesIncrease`), of the number under which a
  process is about to write (`NumberIsNew`), and of what of the acknowledged events
  lies in the part that is on disk (`AckedIsFlushed`); `Exclusive` ties the stages
  of an operation to the session lock. The rewind has an invariant of its own,
  `RewindInv`. A line vouches that a file held some content; then from that line on
  the log agrees (`Settled`): the first snapshot of the file behind it took that
  content, or there is none and what comes later does (`Later`), which is a batch that a
  terminal has still to append (`Ahead`) or else the workspace. It is kept because a
  session has one driver (`OneDriver`), because a tool changes a file only when a
  snapshot of it lies behind every line that vouches for it (`Covered`, `ToolsOK`), and because
  a rewind has restored what the lines up to its target vouch for before it truncates,
  or has the file among its skipped ones (`Rewinding`); the lines that are kept then
  vouch no longer for a file that was skipped (`Surviving`).
  The snapshot a rewind restores is the closest one behind the target, so
  the proof picks the least.
* `CronStoreProofs`: `CronInvariant`, `SlotsFireOnce`, `PausesHold`,
  `RemovedForever`. `OnceInv`: as long as no write came late, every slot that was
  fired is behind the next slot of an active job. `PauseInv`: while a pause is to
  hold, no process is about to write back an active copy without reading again.
* `SwarmProofs`: `TypeCorrect` (`TypeOK` is inductive by itself);
  `TerminalForever` (`TerminalIsFinal`); `QueueNeverStarves`
  (`QueueOnlyWhenFull`); `SlotsCorrect` (`SlotsAccounted`); `TeamsAreFifoPools`
  (`TeamIsFifoPool`); `TasksAreServed` (`NoTaskStranded`); `CollectorsAreWoken`
  (`NoLostWakeup`). That a terminal status stays is the coordinator's guards,
  except for Register, which overwrites whatever is at its id. So the proof needs
  `IdsInv`: an id above `idSeq` names no task and no agent, and what callers hold
  is at most `idSeq`. `QueueNeverStarves` needs `CounterInv`, the counter's bound
  beside the property: an exit that gives a slot back leaves a free slot behind a
  queue unless it takes the head with it. `SlotsCorrect` needs `DispatchInv`: a
  queue lists agents of its team that wait, each once, and an agent still to be
  dispatched is the business of one caller, so that no slot is taken twice for one
  agent; the counter is then a cardinality that each admission and exit changes by
  one element. The refinement maps `AdmitNow` to `Start`, `AdmitQueue` to `Wait`
  and the two exits to `End`; every other step is a stutter. `TasksAreServed` says
  per action that an agent which stops serving a task has ended it, and
  `CollectorsAreWoken` that a step which changes a status or a team closes the
  channel of every collector.
* `DaemonPoolProofs`: `TypeCorrect`, from `RunInv` (a request that may begin an
  attempt has one left: the bound of `attempt` alone is not inductive);
  `TruncatedIsNoSuccess`; `ActiveIsAccurate`; `NoWorkerBeyondSlots`, from
  `SlotInv` (a worker lives only inside an attempt, and requests in an attempt
  hold at most `Size` slots, by cardinalities of finite sets);
  `RunRefinesBoundedRetry`, that every step of the pool is a step of
  `BoundedRetry` or a stutter under the mapping of `RunIsBoundedRetry`.
* `SessionRegistryProofs`: `TypeCorrect`, `OpenStayRegistered`,
  `EvictedOnlyForRoom`, `OrderFollowsRegistry`, `ScanIsThorough`. While a scan
  compacts the order slice in place, the order is neither the old nor the new
  one; `ListInv` says that what the scan has kept followed by what is left lists
  the registry, oldest first. `ScanInv` says that while there is no room, what had
  finished when the scan began lies ahead of it.
* `DaemonProofs`, about the lock, the server and its sessions.
  * Lock: `TypeCorrect`, from `FilesInv` (a file and its creator come and go
    together); `SettledForever` (`SettledDaemonKeepsLock`); `CrashNeverBlocks`
    (`LoneStartSucceeds`), from `PidInv` (the PID of a process is in no file before that
    process has written it) and `LoneInv` (a process that is alone finds at most one
    stale file, in its first pass, so the second create finds the path free).
  * Server: `ServerTypeCorrect`, `SweepMissesNone`. The sweep only
    sees tracked connections, so the invariant is that a handled connection that is open
    is tracked (`OpenAreTracked`), which rests on trackConn looking at `done` in the
    same critical section.
  * Sessions: `SessionTypeCorrect`, `ChannelsNeverPanic` (`ChannelsClosedOnce`),
    `NoticesAreExact` (`GapsAreExact`), `NoLineIsUncounted` (`NothingUncounted`).
    Where a line should stand is a sum over the items before it, a number of lines each.
    `StreamInv` puts that sum as marks: a sequence of numbers, one per item, that begins
    at the client's first line, grows at each item by what the item stands for, and
    reaches a known line at the end. Each step extends or cuts a sequence of marks, so no
    induction over the sum is needed; that the marks are the sums is shown with a
    least place at which they would differ.
* `MailboxProofs`, about the lock file and the mailbox on it.
  * `LockFailsOnlyUpset` (`LockExcludes`): for any number of processes and all four
    copies of the protocol, two are past their acquire only after the lock file was
    upset. The invariant (`LockInv`) is about the time before: one process at most is
    between its create and its release (`OneIsIn`); while one is, there is a fresh file
    at the path or aside (`AFreshFileIsLeft`), so that another create finds the path
    taken or upsets the lock; and a reclaimer puts fresh files back and removes old ones
    only (`AsideIsJudged`).
  * `ExclusionKeepsSends` (`AckedSendsAreKept`), `ExclusionMakesAnInbox`, for any
    number of processes under `[]MutualExclusion`: what a process has read is what the
    file still holds when it writes (`CopiesAreCurrent`), and a sender's numbers only
    grow (`NumbersAreOld`).
  * `SendsAreKeptUntilUpset` and `MailboxIsAnInbox` (`MailboxIsInbox`) join the two,
    without that assumption: `upset \/ (LockInv /\ MailInv)` is inductive.

Only model-checked:

* every liveness property (`ClosedSwarmSettles`, `ClosedCollectReturns`,
  `ShutdownEndsRuns`, `StreamsEnd`, `ShutdownStopsServe`,
  `ShutdownEndsHandlers`), since the proof system has neither fairness nor ENABLED;
* the edits' half of `StateSurvives`: the newest edits are a fold of `Touch`, and
  `Touch` is a `SelectSeq`, which the prover neither expands nor has facts about.

## Promises the models refute

Properties that state what a comment, a document or a test of the code promises
and that do not hold. Each is in its module, and can be seen by making it the only
property of the configuration named, or of the module's configuration with the
constants given. The first four have a configuration here that is not one of the
runs.

1. *A task runs twice* (`NoDoubleExecution`, `SwarmDoubleRun.cfg`). AdoptOrphans
   takes as live the members and the queued specs. An agent between admit (or
   onExit) and addMember is in neither, so its task is adopted again and two members
   execute it. `team.go:312` says that orphan adoption never double-executes.
2. *A lagging client is not told* (`EndedStreamIsComplete`, `DaemonSessionLag.cfg`).
   The notice for dropped lines is sent by a later Line; finish closes the channel
   without it. `session.go:61` says that the notice is flushed the moment the
   channel drains.
3. *Two daemons serve* (`SingleInstance`, `DaemonLockTwo.cfg`). The lock file is
   empty between its create and its PID, and an empty file counts as stale.
   `lock.go:14`: "A second start fails".
4. *Two holders of a lock file* (`MutualExclusion`, `MailboxThree.cfg`). There are two
   ways, and both upset the lock in the sense of [bounds](#bounds). A file grows old
   under a holder that stalls and is reclaimed; or a waiter that saw the stale file
   renames a fresh one aside, and until it is back a third process creates the file.
   Either way an acknowledged send can be lost to the other holder's stale copy, and
   a message can be new to two readers: `AckedSendsAreKept` under the same constants.
   `mailbox.go:335`: "acquireLock takes an exclusive lock".

| definition | constants | scenario | promise |
|---|---|---|---|
| `SuccessorOnlyForHandedOff` (`Swarm`) | `SwarmDoubleRun.cfg` with `MaxTeamSize = 1`, `Operations = {"spawn", "handoff"}` | Handoff reads an open status, the task ends, the successor is registered, SetStatus(handed-off) fails and is ignored | `lifecycle.go:97` "A handoff of an already-terminal task is rejected (fail closed)" |
| `CollectAwaitsMembers` (`Swarm`) | the same with `{"spawn", "handoff", "collect"}` | a hand-off is terminal at once, the member of the task goes on | `tools.go:427` "This BLOCKS until every member completes" |
| `AgentsKeepCwd` (`Swarm`) | the same with `{"spawn", "adopt"}` | an adoption between Register and rememberCwd reads no directory and records that | `team.go:165` "so a handoff/adoption relaunch keeps it" |
| `DrainLeavesNoWorker` (`DaemonPool`) | one request, `CancelFirst = FALSE` | Drain under a live context between isDraining and track: the worker is never killed. The server cancels first and so hides it | `pool.go:90` "Drain stops new work and kills stragglers" |
| `StreamEndTellsOutcome` (`SessionRegistry`) | two ids, three clients, cap 1, two starts | the session is evicted between the two lookups of handleAttach, and a failed session ends with CtrlEnd | `server.go:318` "CtrlEnd (or CtrlError if the session failed)" |
| `ShutdownRemovesFiles` (`DaemonServer`) | one local connection | the files are removed when Serve returns, after its handlers, not by Shutdown | `server.go:168` "and removes the socket/lock/status files" |
| `LiveLockNotReplaced` (`DaemonLock`) | four processes | the rename back replaces the file of a daemon that has started meanwhile | `lock.go:80` "renamed back rather than stolen" |
| `ReleaseRemovesOwn` (`FileLock`) | `MailboxThree.cfg` with two processes | a holder stalls between reading its token back and the remove | `mailbox.go:339` "removes the lock only if it still holds our token" |

Some properties of the new models hold because they are stated under the
condition the code needs; without it they do not, and the code promises more:

* *Session store.* A torn tail followed by an append becomes one complete malformed
  line, and the log cannot be read again, although `store.go:702` says "Drop that
  partial record so resume still recovers every complete event": hence `Readable`
  in the properties. A snapshot that was skipped hides newer ones of its file, and a
  rewind that stopped between its restore and its truncation leaves files that
  later targets no longer describe: hence `Unknown` in `was`. So is a file that a rewind
  reported as skipped, because its snapshot was skipped, its blob is gone, or the remove,
  the read or the write failed (`rewind.go:107-121`): the log is cut all the same, its
  later checkpoints are gone, and unless a kept event has a snapshot of it, no later
  rewind brings the file to what it was. `RewoundOrReported` is what remains
  promised. The batch of a
  cancelled terminal run may be appended behind later events of other processes,
  against `tui/model.go:4682` "so the recorded sequence matches execution".
* *Cron.* A run that outlasts its next slot writes back the slot it computed when it
  began, and a scheduler that claimed the later one meanwhile sees it again:
  the slot fires twice, against `cron_run.go:203-205` "can no longer be clobbered".
  The same write follows from reconcileOverdue and resume, which use Update on an
  earlier copy; and a pause is undone by a reschedule under way or by a persist that
  could not read the job. `promised` records these.
* *Agent loop.* An answer that admits being incomplete, or that ends in a cue, is
  returned without the last drain of diagnostics (`loop.go:431-474`), so
  `DiagnosticsDelivered` is about answers that pass the gate and the one at the
  ceiling. `CompactionPreserveLast` is never set by the program, so pruning protects
  no message beyond its token window, while `Compact` falls back to its default; and
  a skill's body that was pruned to a placeholder is what a later summary preserves
  of it, against `compaction_preserve.go:487`.

## What is not modelled

* Sequential code: parsers, tables, rendering, configuration layers, provider
  translation, tools that work on one file at a time. `PROJECT.json` has a
  component for each group, with its files and the reason.
* Inside the modelled parts: prompts, results, error texts, logging; the size
  limits and path checks of the mailbox (refusals before its first step);
  `SessionManager.List`, which only reads; durations, which are timers that may
  fire at any time. Windows differs in `lock_windows.go` and in the errors of a
  contended create, which the code maps to the ones modelled.
* Of the agent loop: the permission flow and the sandbox decisions of a tool call
  (an outcome), how often self-correction tries, which reminder is due, the wording of
  anything. The write of a tool and the enqueue of its file are one step.
* Of the session store: Create, Fork (whose copy of the blobs runs without the
  parent's lock and may race a rewind's prune), RecordSpec, UpdateTitle, lineage and
  replay; the durability of workspace files. A metadata file is written, renamed and
  synced in one step.
* Of the cron store: Add (two in one second may be given one id, since it is chosen
  before the directory exists), `FireCount` (which stale copies can lose), runs of
  several jobs after one another, which are independent but for their time.
* The exit of the daemon process while other goroutines run (`cli/daemon.go:132`):
  `DaemonServer` ends with Serve, so what a process exit cuts short is outside of it.

## Plan

The order was: the swarm, whose lifecycle is the most concurrent part; the daemon
from the pool outward to the server; the lock files; the agent loop; the stores.
Done are the modules above. Next, most important first:

1. `BackgroundTasks` (`internal/background/manager.go`): Kill against the exit of
   the process, restart recovery. Property: an exit that was recorded is not
   overwritten.
2. `OAuthRefresh` (`internal/oauth/manager.go`): refresh in two processes against a
   logout, on `FileLock` with `Strict = TRUE`. Properties: a token is not refreshed
   twice, a logout is not undone.
3. `SessionStore`: Fork beside a rewind of the parent; the execution records.
4. The recurring scheduler of the swarm (fireIfIdle reads the status and then
   spawns), the hooks audit log, the remote bridge, request matching of MCP and LSP.
5. Proofs: the edits' half of `StateSurvives`, by the last place at which each file was
   edited, once `Touch` is said without `SelectSeq`; the types of `Mailbox`.
