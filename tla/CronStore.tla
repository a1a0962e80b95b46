----------------------------- MODULE CronStore -----------------------------
(***************************************************************************)
(* One recurring job of internal/cron, the schedulers that fire it         *)
(* (internal/cli/cron_run.go) and the commands that pause, resume and      *)
(* remove it (internal/cli/cron.go), each a process of its own.            *)
(*                                                                         *)
(* Mutate, Update, Remove and AppendRun are one step each: they hold the   *)
(* lock of the job (FileLock).  List and Get take no lock, so every caller *)
(* works on a copy that may be old when it is written back.  The clock     *)
(* runs in minutes, and the schedule is the set of minutes it matches.     *)
(*                                                                         *)
(* Not in the code: fires, and the promises of the end of the module.      *)
(***************************************************************************)
EXTENDS FiniteSetsExt, Integers

CONSTANTS
  Schedulers,  \* processes of "cron run"
  Skippers,    \* the ones without --catch-up: they drop the backlog when they start
  Users,       \* processes of the other commands
  Slots,       \* the minutes at which the schedule fires; afterwards it is exhausted
  Absent,      \* a job without metadata
  MaxClock,    \* bound: the last minute
  MaxCommands, \* bound: commands
  MaxFaults    \* bound: crashes, failed reads and failed removals

ASSUME CronStoreAssumption ==
  /\ Skippers \subseteq Schedulers
  /\ Schedulers \cap Users = {}
  /\ MaxClock \in Nat
  /\ Slots \subseteq 1..MaxClock
  /\ Slots # {}

VARIABLES
  clock,
  dir, job,   \* the directory of the job exists; its metadata
  runs,       \* records in runs.jsonl
  pc, copy,   \* where each process stands; the job as it read or changed it
  at,         \* when a scheduler listed or claimed what it works on
  fires,      \* how often each slot was claimed
  promised,   \* what was promised: see the end
  commands, faults

bounds == <<commands, faults>>
files == <<dir, job, runs>>
vars == <<clock, files, pc, copy, at, fires, promised, bounds>>

Procs == Schedulers \cup Users
NoSlot == 0
Active(next) == [status |-> "active", next |-> next]

\* Schedule.Next: the first match strictly after t, if there is one.
NextSlot(t) == LET later == {s \in Slots : s > t} IN IF later = {} THEN NoSlot ELSE Min(later)

Due(j) == j # Absent /\ j.status = "active" /\ j.next <= clock

\* Promises made: the slots that were fired in time, a pause, a removal.
Init ==
  /\ clock = 0
  /\ dir = TRUE /\ job = Active(NextSlot(0)) /\ runs = 0
  /\ pc = [p \in Procs |-> IF p \in Skippers THEN "start" ELSE "idle"]
  /\ copy = [p \in Procs |-> Absent]
  /\ at = [s \in Schedulers |-> 0]
  /\ fires = [s \in Slots |-> 0]
  /\ promised = {"once"}
  /\ commands = 0 /\ faults = 0

Goto(p, stage) == pc' = [pc EXCEPT ![p] = stage]
Keep(p, j) == copy' = [copy EXCEPT ![p] = j]

\* A job written back as active for a slot that has come: whoever wrote it took
\* longer than the schedule allows for, and the slot may fire a second time.
Timely(j) == IF j.status = "active" /\ j.next <= clock THEN promised \ {"once"} ELSE promised

Tick ==
  /\ clock < MaxClock
  /\ clock' = clock + 1
  /\ UNCHANGED <<files, pc, copy, at, fires, promised, bounds>>

-----------------------------------------------------------------------------
(* A scheduler that starts: reconcileOverdue.                              *)

ListOverdue(s) ==
  /\ pc[s] = "start"
  /\ Keep(s, job)
  /\ at' = [at EXCEPT ![s] = clock]
  /\ Goto(s, IF Due(job) /\ job.next < clock THEN "reschedule" ELSE "idle")
  /\ UNCHANGED <<clock, files, fires, promised, bounds>>

\* NextSlot(now()), then Update: the job is written back as it was listed.
Reschedule(s) ==
  /\ pc[s] = "reschedule"
  /\ \E now \in at[s]..clock :
       LET j == [copy[s] EXCEPT !.next = NextSlot(now)] IN
       IF dir /\ j.next # NoSlot
         THEN job' = j /\ promised' = Timely(j)
         ELSE UNCHANGED <<job, promised>>
  /\ Goto(s, "idle")
  /\ UNCHANGED <<clock, dir, runs, copy, at, fires, bounds>>

-----------------------------------------------------------------------------
(* fireDue and fireJob.                                                    *)

\* Jobs are fired one after the other: this one may come up long after the list
\* was read, and become due meanwhile.
ListDue(s) ==
  /\ pc[s] = "idle"
  /\ job # Absent /\ job.status = "active"
  /\ Keep(s, job)
  /\ Goto(s, "claim")
  /\ UNCHANGED <<clock, files, at, fires, promised, bounds>>

\* The job that claims the slots up to now: advanced, or paused when it has none
\* left.
BugAdvanced(j, t) == IF NextSlot(t) = NoSlot THEN j ELSE [j EXCEPT !.next = NextSlot(t)]
Advanced(j, t) == IF NextSlot(t) = NoSlot THEN [j EXCEPT !.status = "paused"] ELSE [j EXCEPT !.next = NextSlot(t)]

\* claimFire decides on the job as it is now.
Claim(s) ==
  /\ pc[s] = "claim"
  /\ copy[s].next <= clock
  /\ IF Due(job)
       THEN /\ job' = Advanced(job, clock)
            /\ fires' = [fires EXCEPT ![job.next] = @ + 1]
            /\ at' = [at EXCEPT ![s] = clock]
            /\ Goto(s, "exec")
       ELSE /\ Goto(s, "idle")
            /\ UNCHANGED <<job, fires, at>>
  /\ UNCHANGED <<clock, dir, runs, copy, promised, bounds>>

\* The run is over.  What is written is the listed job, one slot further.
Fired(s) == Advanced(copy[s], at[s])

BugHonoured(j) == j
Honoured(j) == IF job.status = "paused" THEN [j EXCEPT !.status = "paused"] ELSE j

Persist(s) ==
  /\ pc[s] = "exec"
  /\ IF job = Absent
       THEN Goto(s, "idle") /\ UNCHANGED <<job, promised>>
       ELSE /\ job' = Honoured(Fired(s))
            /\ promised' = Timely(Honoured(Fired(s)))
            /\ Goto(s, "record")
  /\ UNCHANGED <<clock, dir, runs, copy, at, fires, bounds>>

\* The job is there but cannot be read: it is written all the same.
PersistBlindly(s) ==
  /\ pc[s] = "exec"
  /\ job # Absent
  /\ faults < MaxFaults
  /\ faults' = faults + 1
  /\ job' = Fired(s)
  /\ promised' = Timely(Fired(s)) \ {"paused"}
  /\ Goto(s, "record")
  /\ UNCHANGED <<clock, dir, runs, copy, at, fires, commands>>

\* The state cannot be written; the run is recorded none the less.
PersistFails(s) ==
  /\ pc[s] = "exec"
  /\ job # Absent
  /\ faults < MaxFaults
  /\ faults' = faults + 1
  /\ Goto(s, "record")
  /\ UNCHANGED <<clock, files, copy, at, fires, promised, commands>>

BugHasMetadata == TRUE
HasMetadata == job # Absent

\* AppendRun.
Record(s) ==
  /\ pc[s] = "record"
  /\ IF HasMetadata
       THEN dir' = TRUE /\ runs' = runs + 1
       ELSE UNCHANGED <<dir, runs>>
  /\ Goto(s, "idle")
  /\ UNCHANGED <<clock, job, copy, at, fires, promised, bounds>>

\* A scheduler that died is started again.
Crash(s) ==
  /\ pc[s] # "start"
  /\ faults < MaxFaults
  /\ faults' = faults + 1
  /\ Goto(s, IF s \in Skippers THEN "start" ELSE "idle")
  /\ UNCHANGED <<clock, files, copy, at, fires, promised, commands>>

-----------------------------------------------------------------------------
(* Commands.                                                               *)

Command(u) ==
  /\ pc[u] = "idle"
  /\ dir
  /\ commands < MaxCommands
  /\ commands' = commands + 1
  /\ UNCHANGED faults

PauseGet(u) ==
  /\ Command(u)
  /\ job # Absent
  /\ Keep(u, [job EXCEPT !.status = "paused"])
  /\ Goto(u, "pause")
  /\ UNCHANGED <<clock, files, at, fires, promised>>

\* Whoever is about to write back an active copy undoes the pause.
Reactivating == \E p \in Procs : pc[p] \in {"resume", "reschedule"}

PauseUpdate(u) ==
  /\ pc[u] = "pause"
  /\ IF dir
       THEN job' = copy[u] /\ promised' = IF Reactivating THEN promised ELSE promised \cup {"paused"}
       ELSE UNCHANGED <<job, promised>>
  /\ Goto(u, "idle")
  /\ UNCHANGED <<clock, dir, runs, copy, at, fires, bounds>>

\* A schedule that is exhausted is not resumed.
ResumeGet(u) ==
  /\ Command(u)
  /\ job # Absent
  /\ NextSlot(clock) # NoSlot
  /\ Keep(u, [job EXCEPT !.status = "active", !.next = NextSlot(clock)])
  /\ Goto(u, "resume")
  /\ promised' = promised \ {"paused"}
  /\ UNCHANGED <<clock, files, at, fires>>

ResumeUpdate(u) ==
  /\ pc[u] = "resume"
  /\ IF dir
       THEN job' = copy[u] /\ promised' = Timely(copy[u])
       ELSE UNCHANGED <<job, promised>>
  /\ Goto(u, "idle")
  /\ UNCHANGED <<clock, dir, runs, copy, at, fires, bounds>>

Remove(u) ==
  /\ Command(u)
  /\ dir' = FALSE /\ job' = Absent /\ runs' = 0
  /\ promised' = promised \cup {"removed"}
  /\ UNCHANGED <<clock, pc, copy, at, fires>>

\* RemoveAll stops halfway: the directory stays, without its metadata.
RemoveFails(u) ==
  /\ pc[u] = "idle"
  /\ dir
  /\ faults < MaxFaults
  /\ faults' = faults + 1
  /\ job' = Absent
  /\ UNCHANGED <<clock, dir, runs, pc, copy, at, fires, promised, commands>>

-----------------------------------------------------------------------------
Scheduler(s) ==
  \/ ListOverdue(s) \/ Reschedule(s)
  \/ ListDue(s) \/ Claim(s) \/ Persist(s) \/ PersistBlindly(s) \/ PersistFails(s)
  \/ Record(s) \/ Crash(s)

User(u) ==
  PauseGet(u) \/ PauseUpdate(u) \/ ResumeGet(u) \/ ResumeUpdate(u) \/ Remove(u) \/ RemoveFails(u)

Next == Tick \/ (\E s \in Schedulers : Scheduler(s)) \/ (\E u \in Users : User(u))

Spec == Init /\ [][Next]_vars

-----------------------------------------------------------------------------
(* Properties.                                                             *)

\* No slot of the schedule fires twice, whichever schedulers list, claim, crash
\* and restart, and whatever commands write back meanwhile, as long as nobody
\* wrote the job back for a slot that had come.  (claimFire)
SlotFiresOnce == "once" \in promised => \A s \in Slots : fires[s] <= 1

\* A pause that returned holds until a resume, through the runs that were under
\* way, unless their read of the job failed.  (the persist of fireJob)
PauseHolds == "paused" \in promised => job = Absent \/ job.status = "paused"

\* Nothing brings a removed job back: no copy a command or a scheduler still
\* holds, and no record of a run that outlived it.  (Update, Mutate, AppendRun)
RemovedIsGone == "removed" \in promised => job = Absent /\ ~dir
=============================================================================
