---------------------------- MODULE SessionStore ----------------------------
(***************************************************************************)
(* One session of internal/sessions: its event log, the event count in its *)
(* metadata, its checkpoint blobs, and the workspace files that a rewind   *)
(* puts back.                                                              *)
(*                                                                         *)
(* Processes share the session through the session lock: a headless run    *)
(* records a checkpoint before each tool that changes a file (exec), the   *)
(* terminal interface keeps the events of a run and appends them when it   *)
(* ends (Tuis), accounting records a sub-agent once, and a rewind restores *)
(* files, cuts the log, drops blobs nobody refers to and leaves a marker.  *)
(* Processes crash between any two writes, the machine loses what was not  *)
(* synced, and a write can stop in the middle of a line.                   *)
(*                                                                         *)
(* Not in the code: was, the workspace at the time an event was made.      *)
(***************************************************************************)
EXTENDS SequencesExt

CONSTANTS
  Procs, Tuis,      \* processes; the ones that are a terminal interface
  Files, Contents,  \* workspace files, and what they can hold
  Absent,           \* a file that does not exist
  Skipped,          \* the snapshot of a file that could not be read
  Unknown,          \* a history nobody vouches for
  Nobody, NoFile,
  MaxEvents,        \* bound: sequence numbers in use
  MaxRewinds,       \* bound: rewinds
  MaxFaults         \* bound: crashes, power failures and failed writes

ASSUME SessionStoreAssumption ==
  /\ Tuis \subseteq Procs
  /\ Nobody \notin Procs
  /\ NoFile \notin Files
  /\ Absent \notin Contents
  /\ {Skipped, Unknown} \cap (Contents \cup {Absent}) = {}
  /\ {MaxEvents, MaxRewinds, MaxFaults} \subseteq Nat

VARIABLES
  log,      \* events.jsonl: its complete lines
  torn,     \* the log ends in a line without its newline
  flushed,  \* how many lines are on disk for certain
  count,    \* EventCount of metadata.json
  blobs,    \* contents in the blob directory
  holder,   \* who holds the session lock
  work,     \* the workspace
  pc, job,  \* where each process stands, and with what
  batch,    \* events a terminal run has not appended yet
  acked,    \* sequences of appends that were reported as done
  was,      \* the workspace when the event of each line was made
  rewinds, faults

disk == <<log, torn, flushed, count, blobs>>
bounds == <<rewinds, faults>>
vars == <<disk, holder, work, pc, job, batch, acked, was, bounds>>

Nowhere == [f \in Files |-> Unknown]
Event(kind, f, b) == [kind |-> kind, seq |-> 0, file |-> f, before |-> b]
BadLine == Event("bad", NoFile, Absent)

\* Whatever happens to one of these files is no longer known to the log.
Forget(seq, fs) == [i \in DOMAIN seq |-> [f \in Files |-> IF f \in fs THEN Unknown ELSE seq[i][f]]]

NoJob == [op |-> "none", event |-> BadLine, target |-> 0, todo |-> {}, skipped |-> {}]
Job(op, e) == [NoJob EXCEPT !.op = op, !.event = e]

Init ==
  /\ log = <<>> /\ torn = FALSE /\ flushed = 0 /\ count = 0
  /\ blobs = {}
  /\ holder = Nobody
  /\ work \in [Files -> Contents \cup {Absent}]
  /\ pc = [p \in Procs |-> "idle"]
  /\ job = [p \in Procs |-> NoJob]
  /\ batch = [p \in Procs |-> <<>>]
  /\ acked = {}
  /\ was = <<>>
  /\ rewinds = 0 /\ faults = 0

-----------------------------------------------------------------------------
(* Reading the log.                                                        *)

\* ReadEvents drops a torn tail and fails on any other malformed line.
Readable == \A i \in DOMAIN log : log[i].kind # "bad"
EventsOf(kind) == {e \in ToSet(log) : e.kind = kind}

BugNextSequence == count + 1

\* Without a readable last line the count of the metadata decides.
LastSequence == IF log = <<>> THEN 0 ELSE Last(log).seq
NextSequence == IF LastSequence > count THEN LastSequence + 1 ELSE count + 1

Checkpoints(f, target) == {e \in EventsOf("checkpoint") : e.file = f /\ e.seq > target}

\* The snapshot closest to the target, by sequence.
Closest(f, target) ==
  CHOOSE e \in Checkpoints(f, target) : \A d \in Checkpoints(f, target) : e.seq <= d.seq

\* A snapshot without content, or whose blob is gone, leaves the file alone.
Unusable(b) == b = Skipped \/ (b \in Contents /\ b \notin blobs)

\* What a file becomes if its removal, or the write of its content, succeeds.
Restored(f, target) ==
  IF Checkpoints(f, target) = {} THEN work[f]
  ELSE LET b == Closest(f, target).before IN IF Unusable(b) THEN work[f] ELSE b

Referenced == {e.before : e \in EventsOf("checkpoint")}

-----------------------------------------------------------------------------
(* Operations.  A process that wants to write queues for the lock.         *)

Goto(p, stage) == pc' = [pc EXCEPT ![p] = stage]
Set(p, j) == job' = [job EXCEPT ![p] = j]

\* Tools that change files, and rewinds, do not overlap: a session has one driver
\* at a time.  The terminal interface refuses to rewind during a run; between
\* processes this is an assumption.
InTool(p) == pc[p] = "tool" \/ batch[p] # <<>>
Driving(p) == InTool(p) \/ job[p].op \in {"capture", "rewind"}
Alone(p) == \A q \in Procs \ {p} : ~Driving(q)

LockSession(p, stage) ==
  /\ holder = Nobody
  /\ holder' = p
  /\ Goto(p, stage)
  /\ UNCHANGED <<disk, work, batch, acked, was>>

Idle(p) == pc[p] = "idle" /\ batch[p] = <<>>

AppendMessage(p) ==
  /\ Idle(p)
  /\ NextSequence <= MaxEvents
  /\ LockSession(p, "number")
  /\ Set(p, Job("message", Event("message", NoFile, Absent)))
  /\ UNCHANGED bounds

Recorded == EventsOf("once") # {}

BugAppendOnce(p) ==
  /\ Idle(p)
  /\ ~Recorded
  /\ Goto(p, "lock")
  /\ Set(p, Job("once", Event("once", NoFile, Absent)))
  /\ UNCHANGED <<disk, holder, work, batch, acked, was, bounds>>

\* Accounting of the one sub-agent.
AppendOnce(p) ==
  /\ Idle(p)
  /\ LockSession(p, "check")
  /\ Set(p, Job("once", Event("once", NoFile, Absent)))
  /\ UNCHANGED bounds

Capture(p) ==
  /\ p \notin Tuis
  /\ Idle(p)
  /\ Alone(p)
  /\ NextSequence <= MaxEvents
  /\ LockSession(p, "snapshot")
  /\ \E f \in Files : Set(p, Job("capture", Event("checkpoint", f, Absent)))
  /\ UNCHANGED bounds

BugApplyRewind(p) ==
  /\ pc[p] = "idle"
  /\ Alone(p)
  /\ rewinds < MaxRewinds
  /\ rewinds' = rewinds + 1
  /\ LockSession(p, "restore")
  /\ \E target \in 0..LastSequence :
       Set(p, [Job("rewind", Event("rewind", NoFile, Absent)) EXCEPT !.target = target, !.todo = Files])
  /\ UNCHANGED faults

\* The target was planned on a log read before the lock was taken: any sequence
\* number, of an event or not.
ApplyRewind(p) ==
  /\ Idle(p)
  /\ Alone(p)
  /\ rewinds < MaxRewinds
  /\ rewinds' = rewinds + 1
  /\ LockSession(p, "restore")
  /\ \E target \in 0..LastSequence :
       Set(p, [Job("rewind", Event("rewind", NoFile, Absent)) EXCEPT !.target = target, !.todo = Files])
  /\ UNCHANGED faults

\* The next event of a terminal run that has ended.
FlushNext(p) ==
  /\ pc[p] = "lock"
  /\ LockSession(p, "number")
  /\ UNCHANGED <<job, bounds>>

Unlock(p) == holder' = IF holder = p THEN Nobody ELSE holder

\* The operation returns without having written.
GiveUp(p) ==
  /\ Unlock(p)
  /\ Goto(p, "idle")
  /\ Set(p, NoJob)
  /\ UNCHANGED <<disk, work, batch, acked, was, bounds>>

\* AppendEventUnlessExists: only an absent event goes on to the write.
Check(p) ==
  /\ pc[p] = "check"
  /\ IF Readable /\ ~Recorded
       THEN Goto(p, "number") /\ UNCHANGED <<disk, holder, work, job, batch, acked, was, bounds>>
       ELSE GiveUp(p)

\* A file that cannot be read, or is too large, is recorded as skipped.
Stored(b) == blobs \cup ({b} \cap Contents)

Snapshot(p) ==
  /\ pc[p] = "snapshot"
  /\ \E b \in {work[job[p].event.file], Skipped} :
       blobs' = Stored(b) /\ Set(p, [job[p] EXCEPT !.event.before = b])
  /\ Goto(p, "number")
  /\ UNCHANGED <<log, torn, flushed, count, holder, work, batch, acked, was, bounds>>

-----------------------------------------------------------------------------
(* appendEventLocked.                                                      *)

\* The event a process is about to write: a terminal run's oldest, or its own.
Pending(p) == IF job[p].op = "flush" THEN Head(batch[p]).event ELSE job[p].event

\* Accounting, and what others write while a tool is running, says nothing of
\* the files.
Witnessed(p) ==
  IF job[p].op = "flush" THEN Head(batch[p]).was
  ELSE IF job[p].op = "once" \/ \E q \in Procs \ {p} : InTool(q) THEN Nowhere
  ELSE work

AfterHead(p) == IF job[p].op = "flush" THEN [batch EXCEPT ![p] = Tail(@)] ELSE batch

\* The closest snapshot wins even if it was skipped, and one behind a torn line is
\* lost with it.
Forgiven(seq, e) == IF torn \/ e.before = Skipped THEN Forget(seq, {e.file}) ELSE seq

Number(p) ==
  /\ pc[p] = "number"
  /\ Set(p, [job[p] EXCEPT !.event = [Pending(p) EXCEPT !.seq = NextSequence]])
  /\ Goto(p, "write")
  /\ UNCHANGED <<disk, holder, work, batch, acked, was, bounds>>

\* The line lands behind whatever the file ends with.
Write(p) ==
  /\ pc[p] = "write"
  /\ log' = Append(log, IF torn THEN BadLine ELSE job[p].event)
  /\ torn' = FALSE
  /\ was' = Forgiven(Append(was, Witnessed(p)), job[p].event)
  /\ batch' = AfterHead(p)
  /\ Goto(p, "commit")
  /\ UNCHANGED <<flushed, count, blobs, holder, work, job, acked, bounds>>

\* What follows an append: the tool of a capture, the next event of a run.
Return(p) ==
  CASE job[p].op = "capture" -> Goto(p, "tool") /\ Set(p, Job("tool", job[p].event))
    [] job[p].op = "flush" /\ batch'[p] # <<>> -> Goto(p, "lock") /\ Set(p, Job("flush", BadLine))
    [] OTHER -> Goto(p, "idle") /\ Set(p, NoJob)

BugSynced == flushed

\* Sync, close, write the metadata, unlock.
Synced == Len(log)

Commit(p) ==
  /\ pc[p] = "commit"
  /\ flushed' = Synced
  /\ count' = job[p].event.seq
  /\ acked' = acked \cup {job[p].event.seq}
  /\ Unlock(p)
  /\ UNCHANGED batch
  /\ Return(p)
  /\ UNCHANGED <<log, torn, blobs, work, was, bounds>>

\* The write fails, perhaps halfway through the line.  A checkpoint that is not
\* recorded is as good as skipped, and the tool runs all the same.
WriteFails(p) ==
  /\ pc[p] = "write"
  /\ faults < MaxFaults
  /\ faults' = faults + 1
  /\ torn' \in {torn, TRUE}
  /\ batch' = AfterHead(p)
  /\ was' = Forget(was, {job[p].event.file})
  /\ Unlock(p)
  /\ Return(p)
  /\ UNCHANGED <<log, flushed, count, blobs, work, acked, rewinds>>

-----------------------------------------------------------------------------
(* Tools.                                                                  *)

\* A terminal run stores the blob at once and its events later.
RunSnapshot(p) ==
  /\ p \in Tuis
  /\ pc[p] = "idle"
  /\ Alone(p)
  /\ NextSequence + Len(batch[p]) <= MaxEvents
  /\ \E f \in Files : \E b \in {work[f], Skipped} :
       LET e == Event("checkpoint", f, b) IN
       /\ blobs' = Stored(b)
       /\ batch' = [batch EXCEPT ![p] = Append(@, [event |-> e, was |-> work])]
       /\ Set(p, Job("tool", e))
  /\ Goto(p, "tool")
  /\ UNCHANGED <<log, torn, flushed, count, holder, work, acked, was, bounds>>

RunTool(p) ==
  /\ pc[p] = "tool"
  /\ \E c \in Contents \cup {Absent} : work' = [work EXCEPT ![job[p].event.file] = c]
  /\ Goto(p, "idle")
  /\ Set(p, NoJob)
  /\ UNCHANGED <<disk, holder, batch, acked, was, bounds>>

\* The run has ended or was cancelled; its events go to the log one by one.
EndRun(p) ==
  /\ pc[p] = "idle"
  /\ batch[p] # <<>>
  /\ Goto(p, "lock")
  /\ Set(p, Job("flush", BadLine))
  /\ UNCHANGED <<disk, holder, work, batch, acked, was, bounds>>

-----------------------------------------------------------------------------
(* ApplyRewind, under one hold of the lock.                                *)

\* Events past the first one dropped no longer describe the files.
Undone(target) == [i \in DOMAIN was |-> IF i > 1 /\ log[i - 1].seq > target THEN Nowhere ELSE was[i]]

Restorable(f, target) ==
  Checkpoints(f, target) # {} => ~Unusable(Closest(f, target).before)

BugRestoreFile(p) ==
  /\ pc[p] = "restore"
  /\ Readable
  /\ \E f \in job[p].todo :
       /\ \E b \in {work[f], Restored(f, job[p].target)} : work' = [work EXCEPT ![f] = b]
       /\ Set(p, [job[p] EXCEPT !.todo = @ \ {f}])
  /\ was' = Undone(job[p].target)
  /\ UNCHANGED <<disk, holder, pc, batch, acked, bounds>>

\* A file that cannot be resolved, removed, read or written is reported as skipped,
\* and the rewind goes on; the write can fail after the new file is in place.
RestoreFile(p) ==
  /\ pc[p] = "restore"
  /\ Readable
  /\ \E f \in job[p].todo :
       \/ /\ Restorable(f, job[p].target)
          /\ work' = [work EXCEPT ![f] = Restored(f, job[p].target)]
          /\ Set(p, [job[p] EXCEPT !.todo = @ \ {f}])
       \/ /\ Checkpoints(f, job[p].target) # {}
          /\ \E b \in {work[f], Restored(f, job[p].target)} : work' = [work EXCEPT ![f] = b]
          /\ Set(p, [job[p] EXCEPT !.todo = @ \ {f}, !.skipped = @ \cup {f}])
  /\ was' = Undone(job[p].target)
  /\ UNCHANGED <<disk, holder, pc, batch, acked, bounds>>

RestoreFails(p) == pc[p] = "restore" /\ ~Readable /\ GiveUp(p)

\* The cut takes the checkpoints of the files that were skipped, and with them
\* what the events before them had to go by.
Surviving(n, missed) ==
  [i \in 1..n |-> [f \in Files |->
    IF f \in missed /\ ~ \E j \in i..n : log[j].kind = "checkpoint" /\ log[j].file = f
      THEN Unknown ELSE was[i][f]]]

\* The events kept are a prefix: sequences increase.  A rewrite that fails leaves
\* what a crash at that point leaves.
Truncate(p) ==
  /\ pc[p] = "restore"
  /\ job[p].todo = {}
  /\ Readable
  /\ \E n \in 0..Len(log) :
       /\ \A i \in DOMAIN log : i <= n <=> log[i].seq <= job[p].target
       /\ log' = SubSeq(log, 1, n)
       /\ was' = Surviving(n, job[p].skipped)
       /\ flushed' = n
  /\ torn' = FALSE
  /\ acked' = {s \in acked : s <= job[p].target}
  /\ Goto(p, "count")
  /\ UNCHANGED <<count, blobs, holder, work, job, batch, bounds>>

Count(p) ==
  /\ pc[p] = "count"
  /\ count' = Len(log)
  /\ Goto(p, "prune")
  /\ UNCHANGED <<log, torn, flushed, blobs, holder, work, job, batch, acked, was, bounds>>

Prune(p) ==
  /\ pc[p] = "prune"
  /\ blobs' = blobs \cap Referenced
  /\ Goto(p, "number")
  /\ UNCHANGED <<log, torn, flushed, count, holder, work, job, batch, acked, was, bounds>>

-----------------------------------------------------------------------------
(* Failures.                                                               *)

\* Files a run changed without having recorded it.
Unrecorded(p) == {e.event.file : e \in ToSet(batch[p])}
LostLines(kept) == {log[i].file : i \in (kept + 1)..Len(log)}

Crash(p) ==
  /\ pc[p] # "idle" \/ batch[p] # <<>>
  /\ faults < MaxFaults
  /\ faults' = faults + 1
  /\ was' = Forget(was, Unrecorded(p))
  /\ batch' = [batch EXCEPT ![p] = <<>>]
  /\ Unlock(p)
  /\ Goto(p, "idle")
  /\ Set(p, NoJob)
  /\ UNCHANGED <<disk, work, acked, rewinds>>

\* Lines that were not synced are kept, lost, or cut off in the middle.
PowerFails ==
  /\ faults < MaxFaults
  /\ faults' = faults + 1
  /\ \E kept \in flushed..Len(log) :
       /\ log' = SubSeq(log, 1, kept)
       /\ torn' \in IF kept = Len(log) THEN {torn} ELSE {TRUE, log[kept + 1].kind = "bad"}
       /\ flushed' = kept
       /\ was' = Forget(SubSeq(was, 1, kept), LostLines(kept) \cup UNION {Unrecorded(p) : p \in Procs})
  /\ holder' = Nobody
  /\ pc' = [p \in Procs |-> "idle"]
  /\ job' = [p \in Procs |-> NoJob]
  /\ batch' = [p \in Procs |-> <<>>]
  /\ UNCHANGED <<count, blobs, work, acked, rewinds>>

-----------------------------------------------------------------------------
Operation(p) ==
  \/ AppendMessage(p) \/ AppendOnce(p) \/ Capture(p) \/ ApplyRewind(p) \/ FlushNext(p)
  \/ Check(p) \/ Snapshot(p)
  \/ Number(p) \/ Write(p) \/ Commit(p) \/ WriteFails(p)
  \/ RunSnapshot(p) \/ RunTool(p) \/ EndRun(p)
  \/ RestoreFile(p) \/ RestoreFails(p) \/ Truncate(p) \/ Count(p) \/ Prune(p)
  \/ Crash(p)

Next == PowerFails \/ \E p \in Procs : Operation(p)

Spec == Init /\ [][Next]_vars

-----------------------------------------------------------------------------
(* Properties.                                                             *)

\* The log and the blobs have what it takes to put every file back to what it was
\* when an event was made, unless a tool changed the file unrecorded or a rewind
\* skipped it: through crashes, lost lines, rewinds that stopped halfway, and
\* pruned blobs.
\* (RestoreToSequence, CaptureToolCheckpoint, pruneOrphanBlobs)
RewindRestores ==
  Readable /\ (\A p \in Procs : batch[p] = <<>>) =>
    \A i \in DOMAIN log : \A f \in Files :
      was[i][f] \in {Unknown, Restored(f, IF i = 1 THEN 0 ELSE log[i - 1].seq)}

\* A rewind that cuts the log has put every file back to what it was when the first
\* of the events it cuts was made, or reports the file as skipped.  (ApplyRewind,
\* RestoreReport)
RewoundOrReported ==
  [][\A p \in Procs : pc[p] = "restore" /\ pc'[p] = "count" /\ Len(log') < Len(log) =>
       \A f \in Files :
         was[Len(log') + 1][f] \in {Unknown, work[f]} \/ f \in job[p].skipped]_vars

\* No two events of a log carry one sequence number, whatever was lost between
\* an event and the metadata that counts it.  (appendEventLocked)
SequencesIncrease ==
  Readable => \A i, j \in DOMAIN log : i < j => log[i].seq < log[j].seq

\* An append that returned is in the log until it is rewound, through crashes and
\* power failures, as long as the log can be read.  (the fsync of appendEventLocked)
AckedIsKept == Readable => acked \subseteq {e.seq : e \in ToSet(log)}

\* Accounting of one sub-agent is recorded once, by whichever process comes
\* first.  (AppendEventUnlessExists)
RecordedOnce == \A i, j \in DOMAIN log : log[i].kind = "once" /\ log[j].kind = "once" => i = j
=============================================================================
