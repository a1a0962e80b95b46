------------------------------ MODULE Mailbox ------------------------------
(***************************************************************************)
(* One inbox of internal/swarm/mailbox.go: Send and ReadAndConsume, which  *)
(* read the file, change the copy and write the whole file back under the  *)
(* lock file of FileLock.  A message is its sender and its number.         *)
(***************************************************************************)
EXTENDS FileLock, Sequences, FiniteSets

CONSTANTS MaxMessages, MaxSends

ASSUME MailboxAssumption == MaxMessages \in Nat /\ MaxSends \in Nat

VARIABLES
  inbox,   \* the inbox file
  job,     \* what each process is doing: "none", "send" or "consume"
  step,    \* where its critical section stands: "read", "write" or "done"
  copy,    \* the messages it has read
  sends,   \* sends each process has begun
  acked,   \* messages whose Send returned nil
  newTo    \* for each message, the reads that returned it as new

mailVars == <<inbox, job, step, copy, sends, acked, newTo>>
vars == <<lockVars, mailVars>>

Messages == Procs \X (1..MaxSends)
Unread(m) == [msg |-> m, read |-> FALSE]

Init ==
  /\ LockInit
  /\ inbox = <<>>
  /\ job = [p \in Procs |-> "none"]
  /\ step = [p \in Procs |-> "read"]
  /\ copy = [p \in Procs |-> <<>>]
  /\ sends = [p \in Procs |-> 0]
  /\ acked = {}
  /\ newTo = [m \in Messages |-> 0]

-----------------------------------------------------------------------------
BeginSend(p) ==
  /\ Begin(p) /\ sends[p] < MaxSends
  /\ job' = [job EXCEPT ![p] = "send"]
  /\ sends' = [sends EXCEPT ![p] = @ + 1]
  /\ step' = [step EXCEPT ![p] = "read"]
  /\ UNCHANGED <<inbox, copy, acked, newTo>>

BeginConsume(p) ==
  /\ Begin(p)
  /\ job' = [job EXCEPT ![p] = "consume"]
  /\ step' = [step EXCEPT ![p] = "read"]
  /\ UNCHANGED <<inbox, copy, sends, acked, newTo>>

HasNews == \E i \in DOMAIN inbox : ~ inbox[i].read

\* readLocked; a full inbox is refused, and one with nothing new is not written.
Read(p) ==
  /\ pc[p] = "held" /\ step[p] = "read"
  /\ copy' = [copy EXCEPT ![p] = inbox]
  /\ step' = [step EXCEPT ![p] =
       IF (IF job[p] = "send" THEN Len(inbox) < MaxMessages ELSE HasNews) THEN "write" ELSE "done"]
  /\ UNCHANGED <<lockVars, inbox, job, sends, acked, newTo>>

BugReadFailsAsEmpty(p) ==
  /\ pc[p] = "held" /\ step[p] = "read"
  /\ step' = [step EXCEPT ![p] = "write"]
  /\ UNCHANGED <<lockVars, inbox, job, copy, sends, acked, newTo>>

\* The file cannot be read or decoded: the call fails and writes nothing.
ReadFails(p) ==
  /\ pc[p] = "held" /\ step[p] = "read"
  /\ step' = [step EXCEPT ![p] = "done"]
  /\ UNCHANGED <<lockVars, inbox, job, copy, sends, acked, newTo>>

\* What is written back: the copy with the message, or with all marked read.
WrittenBack(p) ==
  IF job[p] = "send" THEN Append(copy[p], Unread(<<p, sends[p]>>))
  ELSE [i \in DOMAIN copy[p] |-> [copy[p][i] EXCEPT !.read = TRUE]]

\* atomicWriteJSON renames a complete file into place, and the call returns.
Write(p) ==
  /\ pc[p] = "held" /\ step[p] = "write"
  /\ inbox' = WrittenBack(p)
  /\ step' = [step EXCEPT ![p] = "done"]
  /\ acked' = IF job[p] = "send" THEN acked \cup {<<p, sends[p]>>} ELSE acked
  /\ newTo' = [m \in Messages |->
       IF job[p] = "consume" /\ \E i \in DOMAIN copy[p] : copy[p][i] = Unread(m)
         THEN newTo[m] + 1 ELSE newTo[m]]
  /\ UNCHANGED <<lockVars, job, copy, sends>>

\* Writing the temporary file or renaming it fails: nothing has changed.
WriteInboxFails(p) ==
  /\ pc[p] = "held" /\ step[p] = "write"
  /\ step' = [step EXCEPT ![p] = "done"]
  /\ UNCHANGED <<lockVars, inbox, job, copy, sends, acked, newTo>>

\* The deferred release.
Return(p) ==
  /\ pc[p] = "held" /\ step[p] = "done"
  /\ Goto(p, "readback")
  /\ copy' = [copy EXCEPT ![p] = <<>>]
  /\ UNCHANGED <<lock, aside, upset, inbox, job, step, sends, acked, newTo>>

-----------------------------------------------------------------------------
Operation(p) ==
  \/ BeginSend(p) \/ BeginConsume(p)
  \/ Read(p) \/ ReadFails(p) \/ Write(p) \/ WriteInboxFails(p) \/ Return(p)

Next ==
  \/ \E p \in Procs : Operation(p) \/ (LockStep(p) /\ UNCHANGED mailVars)
  \/ Age /\ UNCHANGED mailVars

Spec == Init /\ [][Next]_vars

-----------------------------------------------------------------------------
(* Properties.                                                             *)

TypeOK ==
  /\ LockTypeOK
  /\ inbox \in Seq([msg : Messages, read : BOOLEAN]) /\ Len(inbox) <= MaxMessages
  /\ job \in [Procs -> {"none", "send", "consume"}]
  /\ step \in [Procs -> {"read", "write", "done"}]
  /\ sends \in [Procs -> 0..MaxSends]
  /\ acked \subseteq Messages
  /\ newTo \in [Messages -> Nat]

\* No send that was acknowledged is lost to another writer's stale copy, and no
\* message is in the inbox twice; a sender's messages keep their order.
\* Three processes can lose one: the lock file does not exclude them.
AckedSendsAreKept ==
  /\ \A m \in acked : \E i \in DOMAIN inbox : inbox[i].msg = m
  /\ \A i, j \in DOMAIN inbox : i < j /\ inbox[i].msg[1] = inbox[j].msg[1] =>
       inbox[i].msg[2] < inbox[j].msg[2]

Box == INSTANCE Inbox WITH Capacity <- MaxMessages

\* Whatever number of processes share it, the inbox file is an atomic inbox, although
\* each operation is many calls: what a send appended stays, and a read reports as new
\* what nobody was told before.  Every step up to the first at which the lock file is
\* upset is one of the inbox.  (Send, ReadAndConsume)
MailboxIsInbox == Box!Init /\ [][Box!Next \/ upset']_<<inbox, acked, newTo>>
=============================================================================
