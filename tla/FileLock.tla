------------------------------ MODULE FileLock ------------------------------
(***************************************************************************)
(* The cross-process lock file of internal/cron/lock.go, oauth/lock.go,    *)
(* hooks/lock.go and swarm/mailbox.go, four copies of one protocol: create *)
(* exclusively, write a token, reclaim a file that is too old, and remove  *)
(* the file on release if it still holds the token.  Every system call is  *)
(* a step.                                                                 *)
(*                                                                         *)
(* Strict locks (cron, oauth, hooks) give up when the token cannot be      *)
(* written; the mailbox goes on without it.                                *)
(*                                                                         *)
(* Age is a bit of the file, and a file may grow old at any time, also     *)
(* under a holder that stalls for longer than the 30 or 60 seconds that    *)
(* old means.                                                              *)
(*                                                                         *)
(* Not in the code: upset, which records that one of the two things has    *)
(* happened against which the protocol does not protect.                   *)
(***************************************************************************)
EXTENDS Naturals

CONSTANTS Procs, Strict, Nobody, NoFile

VARIABLES
  pc,    \* where each process stands
  lock,  \* the file at the lock path
  aside, \* the file each process has renamed aside
  upset  \* a file was created while a fresh one was aside, or grew old under a
         \* process that was holding or reclaiming

lockVars == <<pc, lock, aside, upset>>

\* A file belongs to the process whose token it is made for.  Files of crashed
\* holders of earlier times, and of earlier tokens of a process, are Nobody's.
File == [owner : Procs \cup {Nobody}, token : BOOLEAN, old : BOOLEAN]

ASSUME FileLockAssumption ==
  /\ Strict \in BOOLEAN
  /\ Nobody \notin Procs /\ NoFile \notin File

InLock == {"create", "write", "stat", "rename", "check", "restore", "remove", "wait"}
Holding == {"held", "readback", "unlink"}
LockStages == InLock \cup Holding \cup {"idle", "crashed"}

LockInit ==
  /\ pc = [p \in Procs |-> "idle"]
  /\ lock \in {NoFile, [owner |-> Nobody, token |-> TRUE, old |-> TRUE]}
  /\ aside = [p \in Procs |-> NoFile]
  /\ upset = FALSE

Goto(p, s) == pc' = [pc EXCEPT ![p] = s]
Fresh(f) == f # NoFile /\ ~f.old

-----------------------------------------------------------------------------
(* Acquire.                                                                *)

Begin(p) ==
  /\ pc[p] = "idle"
  /\ Goto(p, "create")
  /\ UNCHANGED <<lock, aside, upset>>

Disowned(f, p) == IF f # NoFile /\ f.owner = p THEN [f EXCEPT !.owner = Nobody] ELSE f

Create(p) ==
  /\ pc[p] = "create"
  /\ IF lock = NoFile
       THEN /\ lock' = [owner |-> p, token |-> FALSE, old |-> FALSE]
            /\ aside' = [q \in Procs |-> Disowned(aside[q], p)]
            /\ upset' = (upset \/ \E q \in Procs : Fresh(aside[q]))
            /\ Goto(p, "write")
       ELSE Goto(p, "stat") /\ UNCHANGED <<lock, aside, upset>>

\* The token goes to the file this process created, wherever it is by now.
Tokened(f, p) == IF f # NoFile /\ f.owner = p THEN [f EXCEPT !.token = TRUE] ELSE f

WriteToken(p) ==
  /\ pc[p] = "write"
  /\ lock' = Tokened(lock, p)
  /\ aside' = [q \in Procs |-> Tokened(aside[q], p)]
  /\ Goto(p, "held")
  /\ UNCHANGED upset

WriteFails(p) ==
  /\ pc[p] = "write"
  /\ IF Strict THEN lock' = NoFile /\ Goto(p, "idle")
               ELSE Goto(p, "held") /\ UNCHANGED lock
  /\ UNCHANGED <<aside, upset>>

\* After a file could not be reclaimed the strict locks sleep; the mailbox tries
\* again at once.
Retry == IF Strict THEN "wait" ELSE "create"

Stat(p) ==
  /\ pc[p] = "stat"
  /\ Goto(p, IF lock # NoFile /\ lock.old THEN "rename" ELSE "wait")
  /\ UNCHANGED <<lock, aside, upset>>

BugRenameAside(p) ==
  /\ pc[p] = "rename"
  /\ lock' = NoFile
  /\ Goto(p, "create")
  /\ UNCHANGED <<aside, upset>>

RenameAside(p) ==
  /\ pc[p] = "rename"
  /\ IF lock = NoFile
       THEN Goto(p, Retry) /\ UNCHANGED <<lock, aside>>
       ELSE /\ aside' = [aside EXCEPT ![p] = lock]
            /\ lock' = NoFile
            /\ Goto(p, "check")
  /\ UNCHANGED upset

\* The file that was moved is looked at again.
CheckAside(p) ==
  /\ pc[p] = "check"
  /\ Goto(p, IF aside[p].old THEN "remove" ELSE "restore")
  /\ UNCHANGED <<lock, aside, upset>>

\* Rename replaces whatever is at the lock path.
Restore(p) ==
  /\ pc[p] = "restore"
  /\ lock' = aside[p]
  /\ aside' = [aside EXCEPT ![p] = NoFile]
  /\ Goto(p, Retry)
  /\ UNCHANGED upset

RemoveAside(p) ==
  /\ pc[p] = "remove"
  /\ aside' = [aside EXCEPT ![p] = NoFile]
  /\ Goto(p, "create")
  /\ UNCHANGED <<lock, upset>>

\* Sleep and try again, or time out.
Wait(p) ==
  /\ pc[p] = "wait"
  /\ Goto(p, "create") \/ Goto(p, "idle")
  /\ UNCHANGED <<lock, aside, upset>>

-----------------------------------------------------------------------------
(* Release.                                                                *)

\* Only the file that carries the own token is removed ...
ReadBack(p) ==
  /\ pc[p] = "readback"
  /\ Goto(p, IF lock # NoFile /\ lock.owner = p /\ lock.token THEN "unlink" ELSE "idle")
  /\ UNCHANGED <<lock, aside, upset>>

\* ... by path.
Unlink(p) ==
  /\ pc[p] = "unlink"
  /\ lock' = NoFile
  /\ Goto(p, "idle")
  /\ UNCHANGED <<aside, upset>>

Crash(p) ==
  /\ pc[p] \notin {"idle", "crashed"}
  /\ Goto(p, "crashed")
  /\ UNCHANGED <<lock, aside, upset>>

-----------------------------------------------------------------------------
Busy == Holding \cup {"write", "rename", "check", "restore", "remove"}
Quiet == \A p \in Procs : pc[p] \notin Busy

Age ==
  /\ \/ /\ Fresh(lock)
        /\ lock' = [lock EXCEPT !.old = TRUE] /\ UNCHANGED aside
     \/ \E p \in Procs :
          /\ Fresh(aside[p])
          /\ aside' = [aside EXCEPT ![p].old = TRUE] /\ UNCHANGED lock
  /\ upset' = (upset \/ ~Quiet)
  /\ UNCHANGED pc

Acquire(p) ==
  \/ Create(p) \/ WriteToken(p) \/ WriteFails(p) \/ Stat(p) \/ RenameAside(p)
  \/ CheckAside(p) \/ Restore(p) \/ RemoveAside(p) \/ Wait(p)

Release(p) == ReadBack(p) \/ Unlink(p)

LockStep(p) == Acquire(p) \/ Release(p) \/ Crash(p)

-----------------------------------------------------------------------------
(* Properties.                                                             *)

LockTypeOK ==
  /\ pc \in [Procs -> LockStages]
  /\ lock \in File \cup {NoFile}
  /\ aside \in [Procs -> File \cup {NoFile}]
  /\ \A p \in Procs : pc[p] \in {"check", "restore", "remove"} => aside[p] # NoFile
  /\ upset \in BOOLEAN

\* At most one live process is past its acquire and before its release
\* (mailbox.go:335 "acquireLock takes an exclusive lock").
\* It does not hold; README.md, "Promises the models refute", has the scenario.
MutualExclusion == \A p, q \in Procs : pc[p] = "held" /\ pc[q] = "held" => p = q

\* However many processes acquire, reclaim, restore, release and crash, and whatever
\* they find at the lock path, two of them only ever hold the lock together after a
\* file was created while a reclaimer had a fresh one aside, or after a file grew old
\* under a process that was holding or reclaiming (the four lock.go protocols).
LockExcludes == upset \/ MutualExclusion

\* oauth/lock.go: "Release is ownership-aware: it removes the lock only if it
\* still holds our token, so a stale-broken holder cannot delete a newer
\* holder's lock."
\* It does not hold; README.md, "Promises the models refute", has the scenario.
ReleaseRemovesOwn ==
  [][\A p \in Procs : pc[p] = "unlink" /\ pc'[p] = "idle" =>
       lock = NoFile \/ lock.owner = p]_lockVars
=============================================================================
