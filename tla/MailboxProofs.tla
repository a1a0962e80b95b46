---------------------------- MODULE MailboxProofs ----------------------------
(***************************************************************************)
(* Theorems about FileLock and Mailbox, strict or not, for any number of   *)
(* processes, any capacity, any number of sends, crashes and leftover      *)
(* files: until the lock file is upset it excludes them from one another,  *)
(* and as long as it excludes they share an atomic inbox that loses        *)
(* nothing.                                                                *)
(***************************************************************************)
EXTENDS Mailbox, TLAPS

-----------------------------------------------------------------------------
(* The lock file, until it is upset.                                       *)

Critical == Holding \cup {"write"}
Reclaiming == {"check", "restore", "remove"}

\* At most one process is past its create.
OneIsIn == \A p, q \in Procs : p # q /\ pc[p] \in Critical => pc[q] \notin Critical

\* While one is, there is a fresh file at the lock path or aside.
AFreshFileIsLeft ==
  \A p \in Procs : pc[p] \in Critical => Fresh(lock) \/ \E r \in Procs : Fresh(aside[r])

\* Only a reclaimer, or one that died as one, has a file aside; a fresh one goes back,
\* an old one is removed.
AsideIsJudged ==
  \A p \in Procs :
    /\ aside[p] # NoFile => pc[p] \in Reclaiming \cup {"crashed"}
    /\ pc[p] = "restore" => Fresh(aside[p])
    /\ pc[p] = "remove" => ~Fresh(aside[p])

LockInv == LockTypeOK /\ OneIsIn /\ AFreshFileIsLeft /\ AsideIsJudged

LEMMA FilesAreFiles ==
  ASSUME NEW f \in File \cup {NoFile}, NEW p \in Procs
  PROVE  /\ Disowned(f, p) \in File \cup {NoFile} /\ Tokened(f, p) \in File \cup {NoFile}
         /\ f # NoFile <=> Disowned(f, p) # NoFile
         /\ f # NoFile <=> Tokened(f, p) # NoFile
         /\ Fresh(f) => Fresh(Disowned(f, p)) /\ Fresh(Tokened(f, p))
         /\ ~Fresh(f) => ~Fresh(Disowned(f, p)) /\ ~Fresh(Tokened(f, p))
  BY FileLockAssumption DEF File, Disowned, Tokened, Fresh

LEMMA LockTypesStep == LockTypeOK /\ [Next]_vars => LockTypeOK'
<1> SUFFICES ASSUME LockTypeOK, [Next]_vars PROVE LockTypeOK'
  OBVIOUS
<1> USE FileLockAssumption DEF LockTypeOK, LockStages, InLock, Holding, Goto, Retry
<1>1. ASSUME NEW p \in Procs, Begin(p) \/ Return(p) PROVE LockTypeOK'
  BY <1>1 DEF Begin, Return
<1>2. ASSUME NEW p \in Procs, Create(p) PROVE LockTypeOK'
  <2>1. [owner |-> p, token |-> FALSE, old |-> FALSE] \in File
    BY DEF File
  <2>2. \A q \in Procs : /\ aside[q] \in File \cup {NoFile}
                         /\ Disowned(aside[q], p) \in File \cup {NoFile}
                         /\ aside[q] # NoFile => Disowned(aside[q], p) # NoFile
    BY FilesAreFiles
  <2>3. CASE lock # NoFile
    BY <1>2, <2>3 DEF Create
  <2>4. CASE lock = NoFile
    <3>1. /\ lock' = [owner |-> p, token |-> FALSE, old |-> FALSE]
          /\ aside' = [q \in Procs |-> Disowned(aside[q], p)]
          /\ pc' = [pc EXCEPT ![p] = "write"]
      BY <1>2, <2>4 DEF Create
    <3>2. lock' \in File /\ aside' \in [Procs -> File \cup {NoFile}]
      BY <2>1, <2>2, <3>1
    <3>3. \A q \in Procs : pc'[q] \in {"check", "restore", "remove"} => aside'[q] # NoFile
      BY <2>2, <3>1
    <3>4. upset' \in BOOLEAN
      BY <1>2, <2>4, Zenon DEF Create
    <3> QED
      BY <3>1, <3>2, <3>3, <3>4
  <2> QED
    BY <2>3, <2>4
<1>3. ASSUME NEW p \in Procs, WriteToken(p) PROVE LockTypeOK'
  <2>1. \A f \in File : Tokened(f, p) # NoFile
    BY FileLockAssumption DEF Tokened, File
  <2> QED
    BY <1>3, <2>1, FilesAreFiles DEF WriteToken
<1>4. ASSUME NEW p \in Procs, WriteFails(p) \/ Stat(p) \/ Wait(p) \/ Crash(p) PROVE LockTypeOK'
  BY <1>4 DEF WriteFails, Stat, Wait, Crash
<1>5. ASSUME NEW p \in Procs, RenameAside(p) \/ CheckAside(p) PROVE LockTypeOK'
  BY <1>5 DEF RenameAside, CheckAside
<1>6. ASSUME NEW p \in Procs, Restore(p) \/ RemoveAside(p) PROVE LockTypeOK'
  BY <1>6 DEF Restore, RemoveAside
<1>7. ASSUME NEW p \in Procs, ReadBack(p) \/ Unlink(p) PROVE LockTypeOK'
  BY <1>7 DEF ReadBack, Unlink
<1>8. CASE Age
  <2>1. \A f \in File : [f EXCEPT !.old = TRUE] \in File
    BY DEF File
  <2>2. upset' \in BOOLEAN
    BY <1>8, Zenon DEF Age
  <2>3. pc' = pc /\ lock' \in File \cup {NoFile} /\ aside' \in [Procs -> File \cup {NoFile}]
    BY <1>8, <2>1 DEF Age, Fresh
  <2>4. \A q \in Procs : aside[q] # NoFile => aside'[q] # NoFile
    <3>1. \A f \in File : [f EXCEPT !.old = TRUE] # NoFile
      BY <2>1, FileLockAssumption
    <3> QED
      BY <1>8, <3>1 DEF Age, Fresh
  <2> QED
    BY <2>2, <2>3, <2>4
<1>9. CASE UNCHANGED lockVars
  BY <1>9 DEF lockVars
<1> QED
  BY <1>1, <1>2, <1>3, <1>4, <1>5, <1>6, <1>7, <1>8, <1>9
  DEF Next, Operation, BeginSend, BeginConsume, Read, ReadFails, Write, WriteInboxFails, vars,
      LockStep, Acquire, Release

\* What is upset stays so.
LEMMA UpsetStays == upset /\ [Next]_vars => upset'
<1> SUFFICES ASSUME upset, [Next]_vars PROVE upset'
  OBVIOUS
<1>1. ASSUME NEW p \in Procs, LockStep(p) PROVE upset'
  BY <1>1 DEF LockStep, Acquire, Release, Create, WriteToken, WriteFails, Stat, RenameAside,
     CheckAside, Restore, RemoveAside, Wait, ReadBack, Unlink, Crash
<1>2. ASSUME NEW p \in Procs, Operation(p) PROVE upset'
  BY <1>2 DEF Operation, BeginSend, BeginConsume, Begin, Read, ReadFails, Write, WriteInboxFails,
     Return, lockVars
<1>3. CASE Age
  BY <1>3 DEF Age
<1>4. CASE UNCHANGED vars
  BY <1>4 DEF vars, lockVars
<1> QED
  BY <1>1, <1>2, <1>3, <1>4 DEF Next

LEMMA LockStepKeeps == LockInv /\ [Next]_vars => upset' \/ LockInv'
<1> SUFFICES ASSUME LockInv, [Next]_vars, ~upset' PROVE LockInv'
  OBVIOUS
<1>0. /\ LockTypeOK' /\ pc \in [Procs -> LockStages] /\ DOMAIN aside = Procs
      /\ \A q \in Procs : aside[q] \in File \cup {NoFile}
      /\ lock \in File \cup {NoFile}
  BY LockTypesStep DEF LockInv, LockTypeOK
<1> USE <1>0 DEF LockInv, OneIsIn, AFreshFileIsLeft, AsideIsJudged, Critical, Holding,
                 Reclaiming, Goto
<1>1. ASSUME NEW p \in Procs, Begin(p) \/ Return(p) PROVE LockInv'
  BY <1>1 DEF Begin, Return
<1>2. ASSUME NEW p \in Procs, Create(p) PROVE LockInv'
  <2>1. CASE lock # NoFile
    BY <1>2, <2>1 DEF Create
  <2>2. CASE lock = NoFile
    <3>1. /\ lock' = [owner |-> p, token |-> FALSE, old |-> FALSE]
          /\ aside' = [q \in Procs |-> Disowned(aside[q], p)]
          /\ pc' = [pc EXCEPT ![p] = "write"] /\ pc[p] = "create"
      BY <1>2, <2>2 DEF Create
    <3>2. ~ \E q \in Procs : Fresh(aside[q])
      BY <1>2, <2>2 DEF Create
    <3>3. \A q \in Procs : pc[q] \notin Critical
      BY <2>2, <3>2 DEF Fresh
    <3>4. /\ Fresh(lock')
          /\ \A q \in Procs : /\ Fresh(aside[q]) => Fresh(aside'[q])
                              /\ ~Fresh(aside[q]) => ~Fresh(aside'[q])
                              /\ aside[q] # NoFile <=> aside'[q] # NoFile
      <4>1. lock' \in File
        BY <3>1 DEF File
      <4>2. Fresh(lock')
        BY <3>1, <4>1, FileLockAssumption DEF Fresh
      <4>3. \A q \in Procs : aside'[q] = Disowned(aside[q], p)
        BY <3>1
      <4> QED
        BY <4>2, <4>3, FilesAreFiles
    <3>5. \A q \in Procs : q # p => pc'[q] = pc[q]
      BY <3>1
    <3>6. pc'[p] = "write" /\ aside[p] = NoFile
      BY <3>1
    <3>7. OneIsIn'
      BY <3>3, <3>5
    <3>8. AFreshFileIsLeft'
      BY <3>4
    <3>9. AsideIsJudged'
      BY <3>4, <3>5, <3>6
    <3> QED
      BY <3>7, <3>8, <3>9
  <2> QED
    BY <2>1, <2>2
<1>3. ASSUME NEW p \in Procs, WriteToken(p) PROVE LockInv'
  <2>1. /\ Fresh(lock) => Fresh(lock')
        /\ \A q \in Procs : /\ Fresh(aside[q]) => Fresh(aside'[q])
                            /\ ~Fresh(aside[q]) => ~Fresh(aside'[q])
                            /\ aside[q] # NoFile <=> aside'[q] # NoFile
    BY <1>3, FilesAreFiles DEF WriteToken
  <2>2. pc' = [pc EXCEPT ![p] = "held"] /\ pc[p] = "write"
    BY <1>3 DEF WriteToken
  <2>3. \A q \in Procs : q # p => pc'[q] = pc[q]
    BY <2>2
  <2>4. pc'[p] = "held" /\ aside[p] = NoFile
    BY <2>2
  <2>5. OneIsIn'
    BY <2>2, <2>3
  <2>6. AFreshFileIsLeft'
    BY <2>1, <2>2, <2>3
  <2>7. AsideIsJudged'
    BY <2>1, <2>3, <2>4
  <2> QED
    BY <2>5, <2>6, <2>7
<1>4. ASSUME NEW p \in Procs, WriteFails(p) PROVE LockInv'
  BY <1>4 DEF WriteFails
<1>5. ASSUME NEW p \in Procs, Stat(p) PROVE LockInv'
  BY <1>5 DEF Stat
<1>6. ASSUME NEW p \in Procs, Wait(p) PROVE LockInv'
  BY <1>6 DEF Wait
<1>7. ASSUME NEW p \in Procs, Crash(p) PROVE LockInv'
  BY <1>7 DEF Crash
<1>8. ASSUME NEW p \in Procs, RenameAside(p) PROVE LockInv'
  BY <1>8 DEF RenameAside, Retry, Fresh
<1>9. ASSUME NEW p \in Procs, CheckAside(p) PROVE LockInv'
  BY <1>9 DEF CheckAside, Fresh, LockTypeOK
<1>10. ASSUME NEW p \in Procs, Restore(p) PROVE LockInv'
  BY <1>10 DEF Restore, Retry, Fresh
<1>11. ASSUME NEW p \in Procs, RemoveAside(p) PROVE LockInv'
  BY <1>11 DEF RemoveAside, Fresh
<1>12. ASSUME NEW p \in Procs, ReadBack(p) \/ Unlink(p) PROVE LockInv'
  BY <1>12 DEF ReadBack, Unlink
<1>13. CASE Age
  <2>1. \A q \in Procs : pc'[q] = pc[q] /\ pc[q] \notin Critical \cup Reclaiming
    BY <1>13 DEF Age, Quiet, Busy
  <2>2. \A q \in Procs : aside'[q] # NoFile => aside[q] # NoFile
    BY <1>13 DEF Age, Fresh
  <2> QED
    BY <2>1, <2>2
<1>14. CASE UNCHANGED lockVars
  BY <1>14 DEF lockVars
<1> QED
  BY <1>1, <1>2, <1>3, <1>4, <1>5, <1>6, <1>7, <1>8, <1>9, <1>10, <1>11, <1>12, <1>13, <1>14
  DEF Next, Operation, BeginSend, BeginConsume, Read, ReadFails, Write, WriteInboxFails, vars,
      LockStep, Acquire, Release

LEMMA InitLockInv == Init => LockInv
<1> SUFFICES ASSUME LockInit PROVE LockInv
  BY DEF Init
<1>1. \A p \in Procs : pc[p] = "idle" /\ aside[p] = NoFile
  BY DEF LockInit
<1>2. LockTypeOK
  <2>1. [owner |-> Nobody, token |-> TRUE, old |-> TRUE] \in File
    BY DEF File
  <2> QED
    BY <1>1, <2>1 DEF LockInit, LockTypeOK, LockStages
<1> QED
  BY <1>1, <1>2 DEF LockInv, OneIsIn, AFreshFileIsLeft, AsideIsJudged, Critical, Holding

LEMMA LockInvExcludes == LockInv => MutualExclusion
  BY DEF LockInv, OneIsIn, Critical, Holding, MutualExclusion

\* However many processes acquire, reclaim, restore, release and crash, and whichever
\* of their system calls fail: two of them hold the lock file together only after one
\* created it while a reclaimer had a fresh one aside, or after a file grew old under
\* a process that was holding or reclaiming (the four lock.go protocols).
THEOREM LockFailsOnlyUpset == Spec => []LockExcludes
<1>1. Init => upset \/ LockInv
  BY InitLockInv
<1>2. (upset \/ LockInv) /\ [Next]_vars => (upset \/ LockInv)'
  BY UpsetStays, LockStepKeeps
<1>3. upset \/ LockInv => LockExcludes
  BY LockInvExcludes DEF LockExcludes
<1> QED
  BY <1>1, <1>2, <1>3, PTL DEF Spec

-----------------------------------------------------------------------------
(* The inbox, as long as the lock file excludes.                           *)

Entries == [msg : Messages, read : BOOLEAN]

MailTypes ==
  /\ pc \in [Procs -> LockStages]
  /\ inbox \in Seq(Entries)
  /\ copy \in [Procs -> Seq(Entries)]
  /\ job \in [Procs -> {"none", "send", "consume"}]
  /\ step \in [Procs -> {"read", "write", "done"}]
  /\ sends \in [Procs -> 0..MaxSends]
  /\ acked \subseteq Messages
  /\ newTo \in [Messages -> Nat]
  /\ \A p \in Procs : job[p] = "send" => sends[p] > 0

\* A process that has read is still inside its critical section, and what it read
\* is what the file holds.
CopiesAreCurrent ==
  /\ \A p \in Procs : pc[p] \in InLock => step[p] = "read"
  /\ \A p \in Procs : pc[p] \in InLock \cup {"held"} => job[p] # "none"
  /\ \A p \in Procs : pc[p] = "held" /\ step[p] = "write" =>
       copy[p] = inbox /\ (job[p] = "send" => Len(inbox) < MaxMessages)

\* A message in the file was numbered by a send of its sender, and by an earlier one
\* than the send under way.
Numbered(m) ==
  /\ m[2] <= sends[m[1]]
  /\ job[m[1]] = "send" /\ step[m[1]] # "done" => m[2] < sends[m[1]]

NumbersAreOld == \A i \in 1..Len(inbox) : Numbered(inbox[i].msg)

MailInv == MailTypes /\ CopiesAreCurrent /\ NumbersAreOld /\ AckedSendsAreKept

LEMMA MarkedFacts ==
  ASSUME NEW s \in Seq(Entries)
  PROVE  LET t == [i \in DOMAIN s |-> [s[i] EXCEPT !.read = TRUE]]
         IN /\ t \in Seq(Entries) /\ Len(t) = Len(s)
            /\ \A i \in 1..Len(s) : t[i].msg = s[i].msg
<1> DEFINE t == [i \in DOMAIN s |-> [s[i] EXCEPT !.read = TRUE]]
<1>1. DOMAIN s = 1..Len(s) /\ Len(s) \in Nat /\ \A i \in 1..Len(s) : s[i] \in Entries
  OBVIOUS
<1>2. \A e \in Entries : [e EXCEPT !.read = TRUE] \in Entries /\ [e EXCEPT !.read = TRUE].msg = e.msg
  BY DEF Entries
<1>3. t \in [1..Len(s) -> Entries]
  BY <1>1, <1>2
<1>4. \A i \in 1..Len(s) : t[i].msg = s[i].msg
  BY <1>1, <1>2
<1> HIDE DEF t
<1>5. t \in Seq(Entries) /\ Len(t) = Len(s)
  BY <1>1, <1>3
<1> QED
  BY <1>4, <1>5 DEF t

LEMMA MailTypesStep == MailInv /\ [Next]_vars => MailTypes'
<1> SUFFICES ASSUME MailInv, [Next]_vars PROVE MailTypes'
  OBVIOUS
<1> USE MailboxAssumption DEF MailInv, MailTypes
<1>0. LockTypeOK => LockTypeOK'
  BY LockTypesStep
<1>1. ASSUME NEW p \in Procs, BeginSend(p) PROVE MailTypes'
  BY <1>1 DEF BeginSend, Begin, Goto, LockStages, InLock
<1>2. ASSUME NEW p \in Procs, BeginConsume(p) PROVE MailTypes'
  BY <1>2 DEF BeginConsume, Begin, Goto, LockStages, InLock
<1>3. ASSUME NEW p \in Procs, Read(p) \/ ReadFails(p) \/ WriteInboxFails(p) PROVE MailTypes'
  BY <1>3 DEF Read, ReadFails, WriteInboxFails, lockVars
<1>4. ASSUME NEW p \in Procs, Write(p) PROVE MailTypes'
  <2>1. copy[p] \in Seq(Entries)
    OBVIOUS
  <2>2. CASE job[p] = "send"
    <3>1. <<p, sends[p]>> \in Messages
      BY <2>2 DEF Messages
    <3>2. Unread(<<p, sends[p]>>) \in Entries
      BY <3>1 DEF Unread, Entries
    <3>3. inbox' = Append(copy[p], Unread(<<p, sends[p]>>)) /\ acked' = acked \cup {<<p, sends[p]>>}
      BY <1>4, <2>2 DEF Write, WrittenBack
    <3>4. inbox' \in Seq(Entries)
      BY <2>1, <3>2, <3>3
    <3>5. newTo' \in [Messages -> Nat]
      BY <1>4 DEF Write
    <3> QED
      BY <1>4, <3>1, <3>3, <3>4, <3>5 DEF Write, lockVars
  <2>3. CASE job[p] # "send"
    <3>1. inbox' = [i \in DOMAIN copy[p] |-> [copy[p][i] EXCEPT !.read = TRUE]] /\ acked' = acked
      BY <1>4, <2>3 DEF Write, WrittenBack
    <3>2. inbox' \in Seq(Entries)
      BY <2>1, <3>1, MarkedFacts
    <3> QED
      BY <1>4, <3>1, <3>2 DEF Write, lockVars
  <2> QED
    BY <2>2, <2>3
<1>5. ASSUME NEW p \in Procs, Return(p) PROVE MailTypes'
  BY <1>5 DEF Return, Goto, LockStages, Holding
<1>6. ASSUME NEW p \in Procs, LockStep(p), UNCHANGED mailVars PROVE MailTypes'
  <2>1. pc' \in [Procs -> LockStages]
    BY <1>6 DEF LockStep, Acquire, Release, Create, WriteToken, WriteFails, Stat, RenameAside,
       CheckAside, Restore, RemoveAside, Wait, ReadBack, Unlink, Crash, Goto, Retry, LockStages,
       InLock, Holding
  <2> QED
    BY <1>6, <2>1 DEF mailVars
<1>7. CASE Age /\ UNCHANGED mailVars
  BY <1>7 DEF Age, mailVars
<1>8. CASE UNCHANGED vars
  BY <1>8 DEF vars, mailVars, lockVars
<1> QED
  BY <1>1, <1>2, <1>3, <1>4, <1>5, <1>6, <1>7, <1>8 DEF Next, Operation

\* How the lock's own steps move a process.
LEMMA LockMoves ==
  ASSUME NEW p \in Procs, LockStep(p), pc \in [Procs -> LockStages]
  PROVE  /\ \A q \in Procs \ {p} : pc'[q] = pc[q]
         /\ pc'[p] \in InLock => pc[p] \in InLock
         /\ pc'[p] = "held" => pc[p] \in InLock
  BY DEF LockStep, Acquire, Release, Create, WriteToken, WriteFails, Stat, RenameAside,
     CheckAside, Restore, RemoveAside, Wait, ReadBack, Unlink, Crash, Goto, Retry,
     InLock

LEMMA CopiesStep == MailInv /\ MutualExclusion /\ [Next]_vars => CopiesAreCurrent'
<1> SUFFICES ASSUME MailInv, MutualExclusion, [Next]_vars PROVE CopiesAreCurrent'
  OBVIOUS
<1> USE DEF MailInv, MailTypes, CopiesAreCurrent
<1>1. ASSUME NEW p \in Procs, BeginSend(p) \/ BeginConsume(p) PROVE CopiesAreCurrent'
  BY <1>1 DEF BeginSend, BeginConsume, Begin, Goto
<1>2. ASSUME NEW p \in Procs, Read(p) PROVE CopiesAreCurrent'
  BY <1>2 DEF Read, lockVars, InLock
<1>3. ASSUME NEW p \in Procs, ReadFails(p) \/ WriteInboxFails(p) PROVE CopiesAreCurrent'
  BY <1>3 DEF ReadFails, WriteInboxFails, lockVars, InLock
<1>4. ASSUME NEW p \in Procs, Write(p) PROVE CopiesAreCurrent'
  BY <1>4 DEF Write, lockVars, InLock, MutualExclusion
<1>5. ASSUME NEW p \in Procs, Return(p) PROVE CopiesAreCurrent'
  BY <1>5 DEF Return, Goto, InLock
<1>6. ASSUME NEW p \in Procs, LockStep(p), UNCHANGED mailVars PROVE CopiesAreCurrent'
  BY <1>6, LockMoves DEF mailVars
<1>7. CASE Age /\ UNCHANGED mailVars
  BY <1>7 DEF Age, mailVars
<1>8. CASE UNCHANGED vars
  BY <1>8 DEF vars, mailVars, lockVars
<1> QED
  BY <1>1, <1>2, <1>3, <1>4, <1>5, <1>6, <1>7, <1>8 DEF Next, Operation

\* A write appends the message of a send, or marks all as read.
LEMMA WriteSteps ==
  ASSUME MailInv, NEW p \in Procs, Write(p)
  PROVE  \/ /\ job[p] = "send" /\ Len(inbox) < MaxMessages
            /\ inbox' = Append(inbox, Unread(<<p, sends[p]>>))
            /\ acked' = acked \cup {<<p, sends[p]>>}
         \/ /\ job[p] # "send" /\ UNCHANGED acked
            /\ inbox' = [i \in DOMAIN inbox |-> [inbox[i] EXCEPT !.read = TRUE]]
<1>1. copy[p] = inbox /\ (job[p] = "send" => Len(inbox) < MaxMessages)
  BY DEF MailInv, CopiesAreCurrent, Write
<1> QED
  BY <1>1 DEF Write, WrittenBack

LEMMA OthersLeaveTheInbox ==
  [Next]_vars => (\E p \in Procs : Write(p)) \/ UNCHANGED <<inbox, acked, newTo>>
  BY DEF Next, Operation, BeginSend, BeginConsume, Read, ReadFails, WriteInboxFails, Return, vars,
     mailVars

LEMMA InboxFacts ==
  ASSUME MailInv
  PROVE  /\ Len(inbox) \in Nat /\ DOMAIN inbox = 1..Len(inbox)
         /\ \A i \in 1..Len(inbox) : inbox[i].msg \in Messages
<1>1. inbox \in Seq(Entries)
  BY DEF MailInv, MailTypes
<1>2. \A e \in Entries : e.msg \in Messages
  BY DEF Entries
<1> QED
  BY <1>1, <1>2

LEMMA AppendedFacts ==
  ASSUME MailInv, NEW x
  PROVE  LET t == Append(inbox, x)
         IN /\ Len(t) = Len(inbox) + 1 /\ DOMAIN t = 1..(Len(inbox) + 1)
            /\ \A i \in 1..Len(inbox) : t[i] = inbox[i]
            /\ t[Len(inbox) + 1] = x
<1>1. inbox \in Seq(Entries \cup {x}) /\ x \in Entries \cup {x}
  BY DEF MailInv, MailTypes
<1>2. Append(inbox, x) \in Seq(Entries \cup {x})
  BY <1>1
<1> QED
  BY <1>1, <1>2

LEMMA NumbersStep == MailInv /\ [Next]_vars => NumbersAreOld'
<1> SUFFICES ASSUME MailInv, [Next]_vars PROVE NumbersAreOld'
  OBVIOUS
<1>0. /\ \A m \in Messages : m[1] \in Procs /\ m[2] \in Nat
      /\ job \in [Procs -> {"none", "send", "consume"}]
      /\ step \in [Procs -> {"read", "write", "done"}]
      /\ \A p \in Procs : sends[p] \in Nat
      /\ DOMAIN sends = Procs
  BY MailboxAssumption DEF Messages, MailInv, MailTypes
<1> DEFINE After(m) == /\ m[2] <= sends'[m[1]]
                       /\ job'[m[1]] = "send" /\ step'[m[1]] # "done" => m[2] < sends'[m[1]]
           Kept == \A m \in Messages : Numbered(m) => After(m)
\* What a step must do to the numbers when the messages stay.
<1>1. ASSUME Kept, Len(inbox') = Len(inbox), \A i \in 1..Len(inbox) : inbox'[i].msg = inbox[i].msg
      PROVE  NumbersAreOld'
  <2>1. \A i \in 1..Len(inbox) : Numbered(inbox[i].msg) /\ inbox[i].msg \in Messages
    BY InboxFacts DEF MailInv, NumbersAreOld
  <2>2. ASSUME NEW i \in 1..Len(inbox') PROVE After(inbox'[i].msg)
    <3>1. inbox'[i].msg = inbox[i].msg /\ i \in 1..Len(inbox)
      BY <1>1
    <3> HIDE DEF After
    <3>2. After(inbox[i].msg)
      BY <1>1, <2>1, <3>1
    <3> QED
      BY <3>1, <3>2
  <2> QED
    BY <2>2 DEF NumbersAreOld, Numbered
<1>2. ASSUME NEW p \in Procs, BeginSend(p) PROVE NumbersAreOld'
  <2>1. Kept
    BY <1>0, <1>2 DEF BeginSend, Numbered
  <2> QED
    BY <1>1, <1>2, <2>1 DEF BeginSend
<1>3. ASSUME NEW p \in Procs, BeginConsume(p) PROVE NumbersAreOld'
  <2>1. Kept
    BY <1>0, <1>3 DEF BeginConsume, Numbered
  <2> QED
    BY <1>1, <1>3, <2>1 DEF BeginConsume
<1>4. ASSUME NEW p \in Procs, Read(p) \/ ReadFails(p) \/ WriteInboxFails(p) PROVE NumbersAreOld'
  <2>1. Kept
    BY <1>0, <1>4 DEF Read, ReadFails, WriteInboxFails, Numbered
  <2> QED
    BY <1>1, <1>4, <2>1 DEF Read, ReadFails, WriteInboxFails
<1>5. ASSUME NEW p \in Procs, Write(p) PROVE NumbersAreOld'
  <2>1. step' = [step EXCEPT ![p] = "done"] /\ UNCHANGED <<job, sends>>
    BY <1>5 DEF Write
  <2>2. Kept
    BY <1>0, <2>1 DEF Numbered
  <2>3. copy[p] = inbox
    BY <1>5 DEF MailInv, CopiesAreCurrent, Write
  <2>4. CASE job[p] = "send"
    <3> DEFINE x == Unread(<<p, sends[p]>>)
    <3>1. inbox' = Append(inbox, x)
      BY <1>5, <2>3, <2>4 DEF Write, WrittenBack
    <3>2. After(<<p, sends[p]>>)
      BY <1>0, <2>1
    <3>3. x.msg = <<p, sends[p]>>
      BY DEF Unread
    <3> HIDE DEF x
    <3>4. ASSUME NEW i \in 1..Len(inbox') PROVE After(inbox'[i].msg)
      <4>1. CASE i \in 1..Len(inbox)
        <5>1. Numbered(inbox[i].msg) /\ inbox[i].msg \in Messages /\ inbox'[i] = inbox[i]
          BY <3>1, <4>1, InboxFacts, AppendedFacts DEF MailInv, NumbersAreOld
        <5> HIDE DEF After
        <5>2. After(inbox[i].msg)
          BY <2>2, <5>1
        <5> QED
          BY <5>1, <5>2
      <4>2. CASE i \notin 1..Len(inbox)
        <5>1. inbox'[i] = x
          BY <3>1, <4>2, InboxFacts, AppendedFacts
        <5> QED
          BY <3>2, <3>3, <5>1
      <4> QED
        BY <4>1, <4>2
    <3> QED
      BY <3>4 DEF NumbersAreOld, Numbered
  <2>5. CASE job[p] # "send"
    <3>1. inbox' = [i \in DOMAIN inbox |-> [inbox[i] EXCEPT !.read = TRUE]]
      BY <1>5, <2>3, <2>5 DEF Write, WrittenBack
    <3>2. inbox \in Seq(Entries)
      BY DEF MailInv, MailTypes
    <3>3. Len(inbox') = Len(inbox) /\ \A i \in 1..Len(inbox) : inbox'[i].msg = inbox[i].msg
      BY <3>1, <3>2, MarkedFacts
    <3> QED
      BY <1>1, <2>2, <3>3
  <2> QED
    BY <2>4, <2>5
<1>6. ASSUME UNCHANGED <<inbox, job, step, sends>> PROVE NumbersAreOld'
  BY <1>6 DEF MailInv, NumbersAreOld, Numbered
<1> QED
  BY <1>2, <1>3, <1>4, <1>5, <1>6 DEF Next, Operation, Return, vars, mailVars

LEMMA KeptStep == MailInv /\ [Next]_vars => AckedSendsAreKept'
<1> SUFFICES ASSUME MailInv, [Next]_vars PROVE AckedSendsAreKept'
  OBVIOUS
<1>0. /\ Len(inbox) \in Nat /\ DOMAIN inbox = 1..Len(inbox)
      /\ \A m \in acked : \E i \in 1..Len(inbox) : inbox[i].msg = m
      /\ \A i, j \in 1..Len(inbox) : i < j /\ inbox[i].msg[1] = inbox[j].msg[1] =>
           inbox[i].msg[2] < inbox[j].msg[2]
  BY InboxFacts DEF MailInv, AckedSendsAreKept
<1>1. CASE UNCHANGED <<inbox, acked>>
  BY <1>1 DEF MailInv, AckedSendsAreKept
<1>2. ASSUME NEW p \in Procs, Write(p), job[p] = "send",
             inbox' = Append(inbox, Unread(<<p, sends[p]>>)),
             acked' = acked \cup {<<p, sends[p]>>}
      PROVE  AckedSendsAreKept'
  <2> DEFINE x == Unread(<<p, sends[p]>>)
             n == Len(inbox)
  <2>1. /\ DOMAIN inbox' = 1..(n + 1) /\ inbox'[n + 1] = x
        /\ \A i \in 1..n : inbox'[i] = inbox[i]
    BY <1>2, AppendedFacts
  <2>2. x.msg = <<p, sends[p]>> /\ x.msg[1] = p /\ x.msg[2] = sends[p]
    BY DEF Unread
  <2>3. \A i \in 1..n : inbox[i].msg[1] = p => inbox[i].msg[2] < sends[p]
    BY <1>2 DEF MailInv, NumbersAreOld, Numbered, Write
  <2> HIDE DEF x, n
  <2>4. n \in Nat /\ 1..n \subseteq 1..(n + 1) /\ n + 1 \in 1..(n + 1)
    BY <1>0 DEF n
  <2>5. ASSUME NEW m \in acked' PROVE \E i \in 1..(n + 1) : inbox'[i].msg = m
    <3>1. CASE m \in acked
      <4>1. PICK i \in 1..n : inbox[i].msg = m
        BY <1>0, <3>1 DEF n
      <4> QED
        BY <2>1, <2>4, <4>1
    <3>2. CASE m = <<p, sends[p]>>
      BY <2>1, <2>2, <2>4, <3>2
    <3> QED
      BY <1>2, <3>1, <3>2
  <2>6. ASSUME NEW i \in 1..(n + 1), NEW j \in 1..(n + 1), i < j,
               inbox'[i].msg[1] = inbox'[j].msg[1]
        PROVE  inbox'[i].msg[2] < inbox'[j].msg[2]
    <3>1. i \in 1..n /\ inbox'[i] = inbox[i]
      BY <2>1, <2>4, <2>6
    <3>2. CASE j \in 1..n
      BY <1>0, <2>1, <2>6, <3>1, <3>2 DEF n
    <3>3. CASE j = n + 1
      BY <2>1, <2>2, <2>3, <2>6, <3>1, <3>3
    <3> QED
      BY <2>4, <3>2, <3>3
  <2> QED
    BY <2>1, <2>5, <2>6 DEF AckedSendsAreKept
<1>3. ASSUME UNCHANGED acked,
             inbox' = [i \in DOMAIN inbox |-> [inbox[i] EXCEPT !.read = TRUE]]
      PROVE  AckedSendsAreKept'
  <2>1. inbox \in Seq(Entries)
    BY DEF MailInv, MailTypes
  <2>2. DOMAIN inbox' = 1..Len(inbox) /\ \A i \in 1..Len(inbox) : inbox'[i].msg = inbox[i].msg
    BY <1>0, <1>3, <2>1, MarkedFacts
  <2> QED
    BY <1>0, <1>3, <2>2 DEF AckedSendsAreKept
<1> QED
  BY <1>1, <1>2, <1>3, WriteSteps, OthersLeaveTheInbox

LEMMA MailStep == MailInv /\ MutualExclusion /\ [Next]_vars => MailInv'
  BY MailTypesStep, CopiesStep, NumbersStep, KeptStep DEF MailInv

LEMMA InitMailInv == Init => MailInv
<1> SUFFICES ASSUME Init PROVE MailInv
  OBVIOUS
<1>1. /\ \A p \in Procs : pc[p] = "idle" /\ step[p] = "read" /\ job[p] = "none" /\ sends[p] = 0
      /\ inbox = <<>> /\ acked = {}
  BY DEF Init, LockInit
<1>2. <<>> \in Seq(Entries) /\ Len(<<>>) = 0 /\ 0 \in 0..MaxSends
  BY MailboxAssumption
<1>3. MailTypes
  BY <1>1, <1>2 DEF Init, LockInit, MailTypes, LockStages, InLock
<1>4. CopiesAreCurrent /\ NumbersAreOld /\ AckedSendsAreKept
  BY <1>1, <1>2 DEF CopiesAreCurrent, InLock, NumbersAreOld, AckedSendsAreKept
<1> QED
  BY <1>3, <1>4 DEF MailInv

LEMMA MailInvariant == Spec /\ []MutualExclusion => []MailInv
  BY InitMailInv, MailStep, PTL DEF Spec

\* Every step of the file's is one of an inbox.
LEMMA InboxRefines ==
  ASSUME MailInv, [Next]_vars
  PROVE  [Box!Next]_<<inbox, acked, newTo>>
<1>0. newTo \in [Messages -> Nat]
  BY DEF MailInv, MailTypes
<1>1. ASSUME NEW p \in Procs, Write(p), job[p] = "send", Len(inbox) < MaxMessages,
             inbox' = Append(inbox, Unread(<<p, sends[p]>>)),
             acked' = acked \cup {<<p, sends[p]>>}
      PROVE  Box!Next
  <2> DEFINE m == <<p, sends[p]>>
  <2>1. m \in Messages
    BY <1>1, MailboxAssumption DEF MailInv, MailTypes, Messages
  <2>2. m \notin acked
    <3>1. sends[p] \in Nat /\ m[1] = p /\ m[2] = sends[p]
      BY DEF MailInv, MailTypes
    <3>2. step[p] = "write"
      BY <1>1 DEF Write
    <3> SUFFICES ASSUME m \in acked PROVE FALSE
      OBVIOUS
    <3>3. PICK i \in 1..Len(inbox) : inbox[i].msg = m
      BY InboxFacts DEF MailInv, AckedSendsAreKept
    <3>4. Numbered(m)
      BY <3>3 DEF MailInv, NumbersAreOld
    <3> QED
      BY <1>1, <3>1, <3>2, <3>4 DEF Numbered
  <2>3. newTo' = newTo
    BY <1>0, <1>1 DEF Write
  <2> QED
    BY <1>1, <2>1, <2>2, <2>3 DEF Box!Next, Box!Send, Unread
<1>2. ASSUME NEW p \in Procs, Write(p), job[p] # "send", UNCHANGED acked,
             inbox' = [i \in DOMAIN inbox |-> [inbox[i] EXCEPT !.read = TRUE]]
      PROVE  Box!Next
  <2>1. job[p] = "consume" /\ copy[p] = inbox
    BY <1>2 DEF MailInv, MailTypes, CopiesAreCurrent, Write
  <2>2. newTo' = [m \in Messages |-> IF Box!Unread(m) THEN newTo[m] + 1 ELSE newTo[m]]
    BY <1>2, <2>1 DEF Write, Unread, Box!Unread
  <2> QED
    BY <1>2, <2>2 DEF Box!Next, Box!Consume
<1>3. ASSUME NEW p \in Procs, Write(p) PROVE Box!Next
  BY <1>1, <1>2, <1>3, WriteSteps
<1> QED
  BY <1>3, OthersLeaveTheInbox

LEMMA InitBox == Init => Box!Init
  BY DEF Init, Box!Init

\* Whatever number of processes, crashes and failing reads and writes: as long as the
\* lock file excludes, no acknowledged send is lost to another writer's stale copy
\* and a sender's messages keep their order (Send, ReadAndConsume, mailbox.go).
THEOREM ExclusionKeepsSends == Spec /\ []MutualExclusion => []AckedSendsAreKept
<1>1. MailInv => AckedSendsAreKept
  BY DEF MailInv
<1> QED
  BY <1>1, MailInvariant, PTL

\* And the inbox file, read and written back in many system calls, is an inbox that
\* is appended to and consumed atomically, each message new to one read.
THEOREM ExclusionMakesAnInbox == Spec /\ []MutualExclusion => Box!Spec
<1>1. MailInv /\ [Next]_vars => [Box!Next]_<<inbox, acked, newTo>>
  BY InboxRefines
<1> QED
  BY <1>1, InitBox, MailInvariant, PTL DEF Spec, Box!Spec, Box!vars

-----------------------------------------------------------------------------
(* And so until the lock file is upset.                                    *)

LEMMA CalmInvariant == Spec => [](upset \/ (LockInv /\ MailInv))
<1>1. Init => upset \/ (LockInv /\ MailInv)
  BY InitLockInv, InitMailInv
<1>2. (upset \/ (LockInv /\ MailInv)) /\ [Next]_vars => (upset \/ (LockInv /\ MailInv))'
  BY UpsetStays, LockStepKeeps, LockInvExcludes, MailStep
<1> QED
  BY <1>1, <1>2, PTL DEF Spec

\* Whatever number of processes share an inbox, an acknowledged send is lost, or put
\* out of its sender's order, only after the lock file was upset.
THEOREM SendsAreKeptUntilUpset == Spec => [](upset \/ AckedSendsAreKept)
<1>1. upset \/ (LockInv /\ MailInv) => upset \/ AckedSendsAreKept
  BY DEF MailInv
<1> QED
  BY <1>1, CalmInvariant, PTL

\* And every step of the file up to the one that upsets the lock is one of an inbox:
\* appended to, or read and marked at once, each message new to one read.
THEOREM MailboxIsAnInbox == Spec => MailboxIsInbox
<1>1. (upset \/ (LockInv /\ MailInv)) /\ [Next]_vars =>
        [Box!Next \/ upset']_<<inbox, acked, newTo>>
  BY UpsetStays, InboxRefines
<1> QED
  BY <1>1, InitBox, CalmInvariant, PTL DEF Spec, MailboxIsInbox
==============================================================================
