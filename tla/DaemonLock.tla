----------------------------- MODULE DaemonLock -----------------------------
(***************************************************************************)
(* The single-instance lock of internal/daemon/lock.go: a PID file that    *)
(* acquireLock creates exclusively, reclaims when the PID in it is dead,   *)
(* and release removes.  Every system call is a step; processes start at   *)
(* any time, and crash between any two steps.                              *)
(*                                                                         *)
(* A file is its content: the process whose PID it holds, or Empty between *)
(* the exclusive create and the write of the PID.  A process runs once and *)
(* its PID is not used again.                                              *)
(***************************************************************************)
EXTENDS Naturals

CONSTANTS Procs, Empty, NoFile

ASSUME FileAssumption == Empty \notin Procs /\ NoFile \notin Procs \cup {Empty}

VARIABLES
  pc,      \* where each process stands: see Stages
  pass,    \* the loop counter of acquireLock
  lock,    \* the content of the lock file, or NoFile
  mine,    \* the process whose created file is at the lock path, whatever it holds
  aside,   \* the content of the file a process has renamed aside, or NoFile
  asideOf, \* the process that created that file
  alone    \* no other process was alive since this one started (history)

vars == <<pc, pass, lock, mine, aside, asideOf, alone>>

Starting == {"create", "write", "read", "rename", "check", "restore", "remove"}
Stages == Starting \cup {"new", "serving", "refused", "failed", "stopped", "crashed"}
Alive(p) == pc[p] \in Starting \cup {"serving"}

Init ==
  /\ pc = [p \in Procs |-> "new"]
  /\ pass = [p \in Procs |-> 0]
  /\ lock = NoFile /\ mine = NoFile
  /\ aside = [p \in Procs |-> NoFile]
  /\ asideOf = [p \in Procs |-> NoFile]
  /\ alone = [p \in Procs |-> FALSE]

Goto(p, s) == pc' = [pc EXCEPT ![p] = s]

-----------------------------------------------------------------------------
(* acquireLock.                                                            *)

Start(p) ==
  /\ pc[p] = "new"
  /\ Goto(p, "create")
  /\ alone' = [q \in Procs |->
       IF q = p THEN \A r \in Procs \ {p} : ~ Alive(r) ELSE alone[q] /\ ~ Alive(q)]
  /\ UNCHANGED <<pass, lock, mine, aside, asideOf>>

Create(p) ==
  /\ pc[p] = "create"
  /\ IF lock = NoFile
       THEN lock' = Empty /\ mine' = p /\ Goto(p, "write")
       ELSE Goto(p, "read") /\ UNCHANGED <<lock, mine>>
  /\ UNCHANGED <<pass, aside, asideOf, alone>>

\* The PID goes to the file this process created, wherever it was moved.
WritePid(p) ==
  /\ pc[p] = "write"
  /\ lock' = IF mine = p THEN p ELSE lock
  /\ aside' = [q \in Procs |-> IF asideOf[q] = p THEN p ELSE aside[q]]
  /\ Goto(p, "serving")
  /\ UNCHANGED <<pass, mine, asideOf, alone>>

\* The write or the close fails: the file at the path is removed.
WriteFails(p) ==
  /\ pc[p] = "write"
  /\ lock' = NoFile /\ mine' = NoFile
  /\ Goto(p, "failed")
  /\ UNCHANGED <<pass, aside, asideOf, alone>>

BugRetryNever(p) == Goto(p, "refused") /\ UNCHANGED pass

\* The second pass ends the loop.
Retry(p) ==
  IF pass[p] = 0
    THEN pass' = [pass EXCEPT ![p] = 1] /\ Goto(p, "create")
    ELSE Goto(p, "refused") /\ UNCHANGED pass

LivePid(f) == f \in Procs /\ Alive(f)

BugReadPidNotLiveness(p) ==
  /\ pc[p] = "read"
  /\ Goto(p, IF lock \in Procs /\ pass[p] = 1 THEN "refused" ELSE "rename")
  /\ UNCHANGED <<pass, lock, mine, aside, asideOf, alone>>

\* readPidFile: a file that is gone or empty has no PID.
ReadPid(p) ==
  /\ pc[p] = "read"
  /\ Goto(p, IF LivePid(lock) THEN "refused" ELSE "rename")
  /\ UNCHANGED <<pass, lock, mine, aside, asideOf, alone>>

\* reclaimStaleLock.
RenameAside(p) ==
  /\ pc[p] = "rename"
  /\ IF lock = NoFile
       THEN Retry(p) /\ UNCHANGED <<lock, mine, aside, asideOf>>
       ELSE /\ aside' = [aside EXCEPT ![p] = lock]
            /\ asideOf' = [asideOf EXCEPT ![p] = mine]
            /\ lock' = NoFile /\ mine' = NoFile
            /\ Goto(p, "check") /\ UNCHANGED pass
  /\ UNCHANGED alone

CheckAside(p) ==
  /\ pc[p] = "check"
  /\ Goto(p, IF LivePid(aside[p]) THEN "restore" ELSE "remove")
  /\ UNCHANGED <<pass, lock, mine, aside, asideOf, alone>>

TakeAside(p) ==
  /\ aside' = [aside EXCEPT ![p] = NoFile]
  /\ asideOf' = [asideOf EXCEPT ![p] = NoFile]

\* Rename replaces a file that was created in the meantime.
Restore(p) ==
  /\ pc[p] = "restore"
  /\ lock' = aside[p] /\ mine' = asideOf[p]
  /\ TakeAside(p) /\ Retry(p)
  /\ UNCHANGED alone

RemoveAside(p) ==
  /\ pc[p] = "remove"
  /\ TakeAside(p) /\ Retry(p)
  /\ UNCHANGED <<lock, mine, alone>>

-----------------------------------------------------------------------------
\* release removes whatever file is at the path.
Release(p) ==
  /\ pc[p] = "serving"
  /\ lock' = NoFile /\ mine' = NoFile
  /\ Goto(p, "stopped")
  /\ UNCHANGED <<pass, aside, asideOf, alone>>

Crash(p) ==
  /\ Alive(p)
  /\ Goto(p, "crashed")
  /\ UNCHANGED <<pass, lock, mine, aside, asideOf, alone>>

Acquire(p) ==
  \/ Create(p) \/ WritePid(p) \/ WriteFails(p) \/ ReadPid(p)
  \/ RenameAside(p) \/ CheckAside(p) \/ Restore(p) \/ RemoveAside(p)

Next == \E p \in Procs : Start(p) \/ Acquire(p) \/ Release(p) \/ Crash(p)

Spec == Init /\ [][Next]_vars

-----------------------------------------------------------------------------
(* Properties.                                                             *)

TypeOK ==
  /\ pc \in [Procs -> Stages]
  /\ pass \in [Procs -> {0, 1}]
  /\ lock \in Procs \cup {Empty, NoFile} /\ mine \in Procs \cup {NoFile}
  /\ aside \in [Procs -> Procs \cup {Empty, NoFile}]
  /\ asideOf \in [Procs -> Procs \cup {NoFile}]
  /\ alone \in [Procs -> BOOLEAN]
  /\ \A p \in Procs : aside[p] # NoFile => pc[p] \in {"check", "restore", "remove", "crashed"}

Serving == {p \in Procs : pc[p] = "serving"}

\* A crashed daemon never blocks a new one: a process that starts with no other
\* process around is not refused, whatever file it finds (lock.go: "the daemon
\* recovers from an unclean shutdown without manual cleanup").
LoneStartSucceeds == \A p \in Procs : alone[p] => pc[p] # "refused"

\* p serves, its PID is in its file, and no other process is past the checks.
Settled(p) ==
  /\ pc[p] = "serving" /\ lock = p /\ mine = p
  /\ \A q \in Procs \ {p} : Alive(q) => pc[q] \in {"create", "read"}

\* Once a daemon is settled, no later start, and no crash of one, takes the
\* lock from it or serves beside it, until it stops itself.
SettledDaemonKeepsLock == [][\A p \in Procs : Settled(p) /\ pc'[p] = "serving" => Settled(p)']_vars

\* lock.go: "A second start fails."
SingleInstance == \A p, q \in Serving : p = q

\* lock.go, reclaimStaleLock: a lock that was reacquired in the gap "is renamed
\* back rather than stolen": no step puts another process's file in the place
\* of the file of a daemon that serves.
\* It does not hold; README.md, "Promises the models refute", has the scenario.
LiveLockNotReplaced == [][\A p \in Serving : lock = p => lock' \in {p, NoFile}]_vars
=============================================================================
