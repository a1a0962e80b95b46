------------------------- MODULE SessionStoreProofs -------------------------
(***************************************************************************)
(* Theorems about SessionStore, for any processes, files, contents and     *)
(* numbers of faults: sequences increase, acknowledged events are kept,    *)
(* accounting is recorded once, and a rewind restores the workspace.       *)
(***************************************************************************)
EXTENDS SessionStore, WellFoundedInduction, TLAPS

-----------------------------------------------------------------------------
(* Sequences, over whatever set.                                           *)

IsSeq(s) == \E S : s \in Seq(S)

LEMMA AppendFacts ==
  ASSUME NEW s, NEW x, IsSeq(s)
  PROVE  /\ IsSeq(Append(s, x))
         /\ Len(s) \in Nat /\ Len(Append(s, x)) = Len(s) + 1
         /\ DOMAIN s = 1..Len(s)
         /\ DOMAIN Append(s, x) = 1..(Len(s) + 1)
         /\ \A i \in 1..Len(s) : Append(s, x)[i] = s[i]
         /\ Append(s, x)[Len(s) + 1] = x
<1>1. PICK S : s \in Seq(S)
  BY DEF IsSeq
<1>2. s \in Seq(S \cup {x}) /\ x \in S \cup {x}
  BY <1>1
<1>3. Append(s, x) \in Seq(S \cup {x})
  BY <1>2
<1> QED
  BY <1>2, <1>3 DEF IsSeq

LEMMA PrefixFacts ==
  ASSUME NEW s, IsSeq(s), NEW n \in 0..Len(s)
  PROVE  /\ IsSeq(SubSeq(s, 1, n))
         /\ Len(s) \in Nat /\ Len(SubSeq(s, 1, n)) = n
         /\ DOMAIN SubSeq(s, 1, n) = 1..n
         /\ \A i \in 1..n : SubSeq(s, 1, n)[i] = s[i]
<1>1. PICK S : s \in Seq(S)
  BY DEF IsSeq
<1>2. SubSeq(s, 1, n) \in Seq(S)
  BY <1>1
<1> QED
  BY <1>1, <1>2 DEF IsSeq

LEMMA TailFacts ==
  ASSUME NEW s, IsSeq(s), s # <<>>
  PROVE  /\ IsSeq(Tail(s))
         /\ Len(s) \in Nat \ {0} /\ Len(Tail(s)) = Len(s) - 1
         /\ Head(s) = s[1]
         /\ \A i \in 1..Len(Tail(s)) : i + 1 \in 1..Len(s) /\ Tail(s)[i] = s[i + 1]
<1>1. PICK S : s \in Seq(S)
  BY DEF IsSeq
<1>2. Tail(s) \in Seq(S)
  BY <1>1
<1> QED
  BY <1>1, <1>2 DEF IsSeq

-----------------------------------------------------------------------------
(* The invariant.                                                          *)

Shape(e) == DOMAIN e = {"kind", "seq", "file", "before"} /\ e.seq \in Nat

JobShape(j) ==
  /\ DOMAIN j = {"op", "event", "target", "todo", "skipped"}
  /\ Shape(j.event)
  /\ j.target \in Nat
  /\ j.event.kind = "once" => j.op = "once"

BatchShape(b) ==
  /\ IsSeq(b)
  /\ \A i \in 1..Len(b) : Shape(b[i].event) /\ b[i].event.kind # "once"

DiskOK ==
  /\ IsSeq(log)
  /\ \A i \in 1..Len(log) : Shape(log[i])
  /\ flushed \in 0..Len(log)
  /\ count \in Nat
  /\ acked \subseteq Nat

ProcsOK ==
  /\ DOMAIN pc = Procs /\ DOMAIN job = Procs /\ DOMAIN batch = Procs
  /\ \A p \in Procs : JobShape(job[p]) /\ BatchShape(batch[p])

\* Stages belong to operations, and a terminal run that has ended has an event to
\* append.
StagesOK ==
  \A p \in Procs :
    /\ pc[p] = "lock" => job[p].op = "flush"
    /\ pc[p] = "check" => job[p].op = "once"
    /\ pc[p] = "snapshot" => job[p].op = "capture"
    /\ pc[p] \in {"restore", "count", "prune"} => job[p].op = "rewind"
    /\ job[p].op = "flush" /\ pc[p] \in {"lock", "number", "write"} => batch[p] # <<>>

\* The stages under the session lock.
Locked == {"check", "snapshot", "number", "write", "commit", "restore", "count", "prune"}
Exclusive == \A p \in Procs : pc[p] \in Locked <=> holder = p

\* Lines up to j can be read.
Good(j) == \A i \in 1..j : log[i].kind # "bad"

\* Every readable beginning of the log has increasing sequences, and the number
\* under which a process writes is past them.
PrefixesIncrease ==
  \A j \in 1..Len(log) : Good(j) => \A i \in 1..(j - 1) : log[i].seq < log[j].seq
NumberIsNew ==
  \A p \in Procs : pc[p] = "write" /\ Good(Len(log)) =>
    \A i \in 1..Len(log) : log[i].seq < job[p].event.seq

\* What a process has written, and what is on disk of what was acknowledged.
WrittenIsLast ==
  \A p \in Procs : pc[p] = "commit" =>
    Len(log) > 0 /\ (log[Len(log)].kind = "bad" \/ log[Len(log)].seq = job[p].event.seq)
AckedIsFlushed ==
  Good(flushed) => \A s \in acked : \E i \in 1..flushed : log[i].seq = s

\* Nobody is about to record what is recorded.
OnceIsNew ==
  \A p \in Procs : pc[p] \in {"number", "write"} /\ job[p].op = "once" =>
    \A i \in 1..Len(log) : log[i].kind # "once"

IInv ==
  /\ DiskOK /\ ProcsOK /\ StagesOK /\ Exclusive
  /\ PrefixesIncrease /\ NumberIsNew
  /\ WrittenIsLast /\ AckedIsFlushed
  /\ OnceIsNew /\ RecordedOnce

LEMMA EmptyIsSeq == IsSeq(<<>>) /\ Len(<<>>) = 0
<1>1. <<>> \in Seq({})
  OBVIOUS
<1> QED
  BY <1>1 DEF IsSeq

LEMMA MadeJob ==
  ASSUME NEW op, NEW kind, NEW f, NEW b, kind # "once" \/ op = "once"
  PROVE  JobShape(Job(op, Event(kind, f, b))) /\ Job(op, Event(kind, f, b)).op = op
  BY DEF JobShape, Shape, NoJob, Job, BadLine, Event

LEMMA JobShapes ==
  /\ JobShape(NoJob) /\ NoJob.op = "none"
  /\ Shape(BadLine) /\ BadLine.kind = "bad"
  /\ JobShape(Job("flush", BadLine)) /\ Job("flush", BadLine).op = "flush"
  BY DEF JobShape, Shape, NoJob, Job, BadLine, Event

\* A file is put back, or skipped and perhaps put back.
LEMMA RestoreFacts ==
  ASSUME ProcsOK, NEW p \in Procs, RestoreFile(p)
  PROVE  \E h, b :
           /\ h \in job[p].todo /\ b \in {work[h], Restored(h, job[p].target)}
           /\ work' = [work EXCEPT ![h] = b]
           /\ job'[p].todo = job[p].todo \ {h} /\ job'[p].target = job[p].target
           /\ job'[p].op = job[p].op /\ job'[p].event = job[p].event /\ JobShape(job'[p])
           /\ job'[p].skipped \in {job[p].skipped, job[p].skipped \cup {h}}
           /\ b = Restored(h, job[p].target) \/ h \in job'[p].skipped
<1>0. JobShape(job[p]) /\ DOMAIN job = Procs
  BY DEF ProcsOK
<1>1. CASE \E f \in job[p].todo :
             /\ work' = [work EXCEPT ![f] = Restored(f, job[p].target)]
             /\ Set(p, [job[p] EXCEPT !.todo = @ \ {f}])
  BY <1>0, <1>1 DEF Set, JobShape
<1>2. CASE \E f \in job[p].todo :
             /\ \E b \in {work[f], Restored(f, job[p].target)} : work' = [work EXCEPT ![f] = b]
             /\ Set(p, [job[p] EXCEPT !.todo = @ \ {f}, !.skipped = @ \cup {f}])
  <2>1. PICK f \in job[p].todo :
          /\ \E b \in {work[f], Restored(f, job[p].target)} : work' = [work EXCEPT ![f] = b]
          /\ Set(p, [job[p] EXCEPT !.todo = @ \ {f}, !.skipped = @ \cup {f}])
    BY <1>2
  <2>2. PICK b \in {work[f], Restored(f, job[p].target)} : work' = [work EXCEPT ![f] = b]
    BY <2>1
  <2>3. job'[p] = [job[p] EXCEPT !.todo = job[p].todo \ {f}, !.skipped = job[p].skipped \cup {f}]
    BY <1>0, <2>1 DEF Set, JobShape
  <2>4. /\ job'[p].todo = job[p].todo \ {f} /\ job'[p].skipped = job[p].skipped \cup {f}
        /\ job'[p].target = job[p].target /\ job'[p].op = job[p].op
        /\ job'[p].event = job[p].event /\ JobShape(job'[p])
    BY <1>0, <2>3 DEF JobShape
  <2> QED
    BY <2>1, <2>2, <2>4
<1> QED
  BY <1>1, <1>2 DEF RestoreFile

LEMMA InitIInv == Init => IInv
<1> SUFFICES ASSUME Init PROVE IInv
  OBVIOUS
<1> USE DEF Init
<1>1. DiskOK
  BY EmptyIsSeq DEF DiskOK
<1>2. ProcsOK
  BY EmptyIsSeq, JobShapes DEF ProcsOK, BatchShape
<1>3. StagesOK /\ Exclusive
  BY SessionStoreAssumption, JobShapes DEF StagesOK, Exclusive, Locked
<1>4. PrefixesIncrease /\ NumberIsNew /\ WrittenIsLast /\ AckedIsFlushed /\ OnceIsNew
  BY EmptyIsSeq DEF PrefixesIncrease, NumberIsNew, WrittenIsLast, AckedIsFlushed, OnceIsNew
<1>5. RecordedOnce
  BY DEF RecordedOnce
<1> QED
  BY <1>1, <1>2, <1>3, <1>4, <1>5 DEF IInv

-----------------------------------------------------------------------------
(* What the steps of a process touch.                                      *)

\* A step of one process leaves the others where they stand.
LEMMA OthersStay ==
  ASSUME ProcsOK, NEW p \in Procs, Operation(p), NEW q \in Procs, q # p
  PROVE  pc'[q] = pc[q] /\ job'[q] = job[q] /\ batch'[q] = batch[q]
<1> USE DEF ProcsOK, Goto, Set, LockSession, GiveUp, Return
<1>1. CASE AppendMessage(p) \/ AppendOnce(p) \/ Capture(p) \/ ApplyRewind(p) \/ FlushNext(p)
  BY <1>1 DEF AppendMessage, AppendOnce, Capture, ApplyRewind, FlushNext
<1>2. CASE Check(p) \/ Snapshot(p) \/ Number(p) \/ Write(p)
  BY <1>2 DEF Check, Snapshot, Number, Write, AfterHead
<1>3. CASE Commit(p)
  BY <1>3 DEF Commit
<1>4. CASE WriteFails(p)
  BY <1>4 DEF WriteFails, AfterHead
<1>5. CASE RunSnapshot(p) \/ RunTool(p) \/ EndRun(p)
  BY <1>5 DEF RunSnapshot, RunTool, EndRun
<1>6. CASE RestoreFile(p) \/ RestoreFails(p) \/ Truncate(p) \/ Count(p) \/ Prune(p)
  BY <1>6 DEF RestoreFile, RestoreFails, Truncate, Count, Prune
<1>7. CASE Crash(p)
  BY <1>7 DEF Crash
<1> QED
  BY <1>1, <1>2, <1>3, <1>4, <1>5, <1>6, <1>7 DEF Operation

\* Only the writing stages change the log, and what is acknowledged.
LEMMA LogStays ==
  ASSUME NEW p \in Procs, Operation(p)
  PROVE  \/ Write(p) \/ Truncate(p) \/ Commit(p)
         \/ UNCHANGED <<log, flushed, acked>>
<1> USE DEF LockSession, GiveUp, disk, bounds
<1>1. CASE AppendMessage(p) \/ AppendOnce(p) \/ Capture(p) \/ ApplyRewind(p) \/ FlushNext(p)
  BY <1>1 DEF AppendMessage, AppendOnce, Capture, ApplyRewind, FlushNext
<1>2. CASE Check(p) \/ Snapshot(p) \/ Number(p)
  BY <1>2 DEF Check, Snapshot, Number
<1>3. CASE WriteFails(p) \/ RunSnapshot(p) \/ RunTool(p) \/ EndRun(p)
  BY <1>3 DEF WriteFails, RunSnapshot, RunTool, EndRun
<1>4. CASE RestoreFile(p) \/ RestoreFails(p) \/ Count(p) \/ Prune(p) \/ Crash(p)
  BY <1>4 DEF RestoreFile, RestoreFails, Count, Prune, Crash
<1> QED
  BY <1>1, <1>2, <1>3, <1>4 DEF Operation

\* How a process comes to the stages that matter, and what it then holds.
LEMMA Arrivals ==
  ASSUME ProcsOK, StagesOK, NEW p \in Procs, Operation(p)
  PROVE  /\ pc'[p] = "write" => Number(p)
         /\ pc'[p] = "commit" => Write(p)
         /\ pc'[p] = "number" /\ job'[p].op = "once" => Check(p) /\ Readable /\ ~Recorded
<1> USE DEF ProcsOK, Goto, Set, LockSession, GiveUp, Return, JobShape, Job, NoJob
<1>1. CASE AppendMessage(p) \/ AppendOnce(p) \/ Capture(p) \/ ApplyRewind(p)
  BY <1>1 DEF AppendMessage, AppendOnce, Capture, ApplyRewind
<1>2. CASE FlushNext(p)
  BY <1>2 DEF FlushNext, StagesOK
<1>3. CASE Check(p) \/ Number(p) \/ Write(p)
  BY <1>3 DEF Check, Number, Write
<1>4. CASE Snapshot(p)
  BY <1>4 DEF Snapshot, StagesOK
<1>5. CASE Commit(p) \/ WriteFails(p)
  BY <1>5 DEF Commit, WriteFails
<1>6. CASE RunSnapshot(p) \/ RunTool(p) \/ EndRun(p) \/ Crash(p)
  BY <1>6 DEF RunSnapshot, RunTool, EndRun, Crash
<1>7. CASE RestoreFile(p)
  BY <1>7 DEF RestoreFile
<1>8. CASE RestoreFails(p) \/ Truncate(p) \/ Count(p)
  BY <1>8 DEF RestoreFails, Truncate, Count
<1>9. CASE Prune(p)
  BY <1>9 DEF Prune, StagesOK
<1> QED
  BY <1>1, <1>2, <1>3, <1>4, <1>5, <1>6, <1>7, <1>8, <1>9 DEF Operation

-----------------------------------------------------------------------------
(* Types.                                                                  *)

LEMMA LastLine ==
  ASSUME DiskOK
  PROVE  LastSequence = IF Len(log) = 0 THEN 0 ELSE log[Len(log)].seq
<1>1. PICK S : log \in Seq(S)
  BY DEF DiskOK, IsSeq
<1>2. Len(log) \in Nat /\ (log = <<>> <=> Len(log) = 0)
  BY <1>1
<1> QED
  BY <1>1, <1>2 DEF LastSequence, Last

LEMMA NextIsNat == DiskOK => LastSequence \in Nat /\ NextSequence \in Nat
<1> SUFFICES ASSUME DiskOK PROVE LastSequence \in Nat /\ NextSequence \in Nat
  OBVIOUS
<1>1. Len(log) \in Nat
  BY DEF DiskOK, IsSeq
<1>2. LastSequence \in Nat
  BY <1>1, LastLine DEF DiskOK, Shape
<1> QED
  BY <1>2 DEF NextSequence, DiskOK

LEMMA DiskNext ==
  ASSUME DiskOK, ProcsOK, NEW p \in Procs, Operation(p)
  PROVE  DiskOK'
<1>0. Len(log) \in Nat
  BY DEF DiskOK, IsSeq
<1>1. JobShape(job[p])
  BY DEF ProcsOK
<1>2. CASE Write(p)
  <2>1. \E x : Shape(x) /\ log' = Append(log, x)
    BY <1>1, <1>2, JobShapes DEF Write, JobShape
  <2>2. PICK x : Shape(x) /\ log' = Append(log, x)
    BY <2>1
  <2>3. IsSeq(log') /\ Len(log') = Len(log) + 1 /\ \A i \in 1..Len(log') : Shape(log'[i])
    BY <2>2, AppendFacts, <1>0 DEF DiskOK
  <2> QED
    BY <1>0, <1>2, <2>3 DEF Write, DiskOK
<1>3. CASE Truncate(p)
  <2>1. PICK n \in 0..Len(log) : log' = SubSeq(log, 1, n) /\ flushed' = n
    BY <1>3 DEF Truncate
  <2>2. IsSeq(log') /\ Len(log') = n /\ \A i \in 1..n : log'[i] = log[i]
    BY <2>1, PrefixFacts DEF DiskOK
  <2>3. UNCHANGED count /\ acked' \subseteq acked
    BY <1>3 DEF Truncate
  <2>4. count' \in Nat /\ acked' \subseteq Nat /\ flushed' \in 0..Len(log')
    BY <1>0, <2>1, <2>2, <2>3 DEF DiskOK
  <2>5. \A i \in 1..Len(log') : Shape(log'[i])
    BY <1>0, <2>1, <2>2 DEF DiskOK
  <2> QED
    BY <2>2, <2>4, <2>5 DEF DiskOK
<1>4. CASE Commit(p)
  <2>1. /\ log' = log
        /\ flushed' = Len(log)
        /\ count' = job[p].event.seq
        /\ acked' = acked \cup {job[p].event.seq}
    BY <1>4 DEF Commit, Synced
  <2>2. job[p].event.seq \in Nat
    BY <1>1 DEF JobShape, Shape
  <2>3. flushed' \in 0..Len(log')
    <3>1. Len(log) \in 0..Len(log)
      BY <1>0
    <3> QED
      BY <3>1, <2>1
  <2>5. count' \in Nat /\ acked' \subseteq Nat
    BY <2>1, <2>2 DEF DiskOK
  <2>4. IsSeq(log') /\ \A i \in 1..Len(log') : Shape(log'[i])
    BY <2>1 DEF DiskOK
  <2> QED
    BY <2>3, <2>4, <2>5 DEF DiskOK
<1>5. CASE Count(p)
  BY <1>0, <1>5 DEF Count, DiskOK
<1>6. CASE ~Write(p) /\ ~Truncate(p) /\ ~Commit(p) /\ ~Count(p)
  <2>1. UNCHANGED <<log, flushed, acked>>
    BY <1>6, LogStays
  <2>2. UNCHANGED count
    <3> USE DEF LockSession, GiveUp, disk, bounds
    <3>1. CASE AppendMessage(p) \/ AppendOnce(p) \/ Capture(p) \/ ApplyRewind(p) \/ FlushNext(p)
      BY <3>1 DEF AppendMessage, AppendOnce, Capture, ApplyRewind, FlushNext
    <3>2. CASE Check(p) \/ Snapshot(p) \/ Number(p)
      BY <3>2 DEF Check, Snapshot, Number
    <3>3. CASE WriteFails(p) \/ RunSnapshot(p) \/ RunTool(p) \/ EndRun(p)
      BY <3>3 DEF WriteFails, RunSnapshot, RunTool, EndRun
    <3>4. CASE RestoreFile(p) \/ RestoreFails(p) \/ Prune(p) \/ Crash(p)
      BY <3>4 DEF RestoreFile, RestoreFails, Prune, Crash
    <3> QED
      BY <1>6, <3>1, <3>2, <3>3, <3>4 DEF Operation
  <2> QED
    BY <2>1, <2>2 DEF DiskOK
<1> QED
  BY <1>2, <1>3, <1>4, <1>5, <1>6

\* The event a process numbers has the shape of one, and is accounting only for
\* AppendEventUnlessExists.
LEMMA PendingShape ==
  ASSUME ProcsOK, StagesOK, NEW p \in Procs, pc[p] = "number"
  PROVE  Shape(Pending(p)) /\ (Pending(p).kind = "once" => job[p].op = "once")
<1>1. CASE job[p].op = "flush"
  <2>1. IsSeq(batch[p]) /\ batch[p] # <<>>
    BY <1>1 DEF ProcsOK, BatchShape, StagesOK
  <2>2. Head(batch[p]) = batch[p][1] /\ 1 \in 1..Len(batch[p])
    BY <2>1, TailFacts
  <2> QED
    BY <1>1, <2>2 DEF Pending, ProcsOK, BatchShape
<1>2. CASE job[p].op # "flush"
  BY <1>2 DEF Pending, ProcsOK, JobShape
<1> QED
  BY <1>1, <1>2

LEMMA BatchTail ==
  ASSUME NEW b, BatchShape(b), b # <<>>
  PROVE  BatchShape(Tail(b))
  BY TailFacts DEF BatchShape

LEMMA BatchAppend ==
  ASSUME NEW b, NEW x, BatchShape(b), Shape(x.event), x.event.kind # "once"
  PROVE  BatchShape(Append(b, x))
  BY AppendFacts DEF BatchShape

LEMMA DomainsStay ==
  ASSUME ProcsOK, NEW p \in Procs, Operation(p)
  PROVE  DOMAIN pc' = Procs /\ DOMAIN job' = Procs /\ DOMAIN batch' = Procs
<1> USE DEF ProcsOK, Goto, Set, LockSession, GiveUp, Return
<1>1. CASE AppendMessage(p) \/ AppendOnce(p) \/ Capture(p) \/ ApplyRewind(p) \/ FlushNext(p)
  BY <1>1 DEF AppendMessage, AppendOnce, Capture, ApplyRewind, FlushNext
<1>2. CASE Check(p) \/ Snapshot(p) \/ Number(p) \/ Write(p)
  BY <1>2 DEF Check, Snapshot, Number, Write, AfterHead
<1>3. CASE Commit(p)
  BY <1>3 DEF Commit
<1>4. CASE WriteFails(p)
  BY <1>4 DEF WriteFails, AfterHead
<1>5. CASE RunSnapshot(p) \/ RunTool(p) \/ EndRun(p)
  BY <1>5 DEF RunSnapshot, RunTool, EndRun
<1>6. CASE RestoreFile(p) \/ RestoreFails(p) \/ Truncate(p) \/ Count(p) \/ Prune(p)
  BY <1>6 DEF RestoreFile, RestoreFails, Truncate, Count, Prune
<1>7. CASE Crash(p)
  BY <1>7 DEF Crash
<1> QED
  BY <1>1, <1>2, <1>3, <1>4, <1>5, <1>6, <1>7 DEF Operation

LEMMA JobNext ==
  ASSUME DiskOK, ProcsOK, StagesOK, NEW p \in Procs, Operation(p)
  PROVE  JobShape(job'[p])
<1>0. JobShape(job[p])
  BY DEF ProcsOK
<1> USE DEF ProcsOK, Goto, Set, LockSession, GiveUp, Return
<1>1. CASE AppendMessage(p) \/ AppendOnce(p) \/ Capture(p)
  <2>1. CASE AppendMessage(p)
    BY <2>1, MadeJob DEF AppendMessage
  <2>2. CASE AppendOnce(p)
    BY <2>2, MadeJob DEF AppendOnce
  <2>3. CASE Capture(p)
    BY <2>3, MadeJob DEF Capture
  <2> QED
    BY <1>1, <2>1, <2>2, <2>3
<1>2. CASE ApplyRewind(p)
  BY <1>2, NextIsNat DEF ApplyRewind, JobShape, Shape, Job, NoJob, Event, BadLine
<1>3. CASE Check(p) \/ FlushNext(p) \/ RestoreFails(p) \/ Truncate(p) \/ Count(p) \/ Prune(p) \/ Write(p)
  BY <1>0, <1>3, JobShapes DEF Check, FlushNext, RestoreFails, Truncate, Count, Prune, Write
<1>4. CASE Snapshot(p) \/ RestoreFile(p)
  BY <1>0, <1>4, RestoreFacts DEF Snapshot, JobShape, Shape
<1>5. CASE Number(p)
  BY <1>0, <1>5, PendingShape, NextIsNat DEF Number, JobShape, Shape
<1>6. CASE Commit(p) \/ WriteFails(p)
  <2>1. job'[p] \in {Job("tool", job[p].event), Job("flush", BadLine), NoJob}
    BY <1>6 DEF Commit, WriteFails
  <2>2. CASE job'[p] = Job("tool", job[p].event) /\ job[p].op = "capture"
    BY <1>0, <2>2 DEF JobShape, Shape, Job, NoJob
  <2>3. CASE job'[p] \in {Job("flush", BadLine), NoJob}
    BY <2>3, JobShapes
  <2>4. job'[p] = Job("tool", job[p].event) => job[p].op = "capture" \/ job'[p] \in {Job("flush", BadLine), NoJob}
    BY <1>6 DEF Commit, WriteFails
  <2> QED
    BY <2>1, <2>2, <2>3, <2>4
<1>7. CASE RunSnapshot(p) \/ RunTool(p) \/ EndRun(p) \/ Crash(p)
  <2>1. CASE RunSnapshot(p)
    BY <2>1, MadeJob DEF RunSnapshot
  <2>2. CASE RunTool(p) \/ EndRun(p) \/ Crash(p)
    BY <2>2, JobShapes DEF RunTool, EndRun, Crash
  <2> QED
    BY <1>7, <2>1, <2>2
<1> QED
  BY <1>1, <1>2, <1>3, <1>4, <1>5, <1>6, <1>7 DEF Operation

LEMMA BatchNext ==
  ASSUME ProcsOK, StagesOK, NEW p \in Procs, Operation(p)
  PROVE  BatchShape(batch'[p])
<1>0. BatchShape(batch[p])
  BY DEF ProcsOK
<1> USE DEF ProcsOK, LockSession, GiveUp
<1>1. CASE Write(p) \/ WriteFails(p)
  <2>1. batch' = AfterHead(p)
    BY <1>1 DEF Write, WriteFails
  <2>2. job[p].op = "flush" => batch[p] # <<>>
    BY <1>1 DEF Write, WriteFails, StagesOK
  <2> QED
    BY <1>0, <2>1, <2>2, BatchTail DEF AfterHead
<1>2. CASE RunSnapshot(p)
  <2>1. PICK f, b : batch' = [batch EXCEPT ![p] = Append(@, [event |-> Event("checkpoint", f, b), was |-> work])]
    BY <1>2 DEF RunSnapshot
  <2> DEFINE x == [event |-> Event("checkpoint", f, b), was |-> work]
  <2>2. Shape(x.event) /\ x.event.kind # "once"
    BY DEF Shape, Event
  <2>3. batch'[p] = Append(batch[p], x)
    BY <2>1
  <2> HIDE DEF x
  <2> QED
    BY <1>0, <2>2, <2>3, BatchAppend
<1>3. CASE Crash(p)
  BY <1>3, EmptyIsSeq DEF Crash, BatchShape
<1>4. CASE AppendMessage(p) \/ AppendOnce(p) \/ Capture(p) \/ ApplyRewind(p) \/ FlushNext(p)
  BY <1>0, <1>4 DEF AppendMessage, AppendOnce, Capture, ApplyRewind, FlushNext
<1>5. CASE Check(p) \/ Snapshot(p) \/ Number(p) \/ Commit(p) \/ RunTool(p) \/ EndRun(p)
  BY <1>0, <1>5 DEF Check, Snapshot, Number, Commit, RunTool, EndRun
<1>6. CASE RestoreFile(p) \/ RestoreFails(p) \/ Truncate(p) \/ Count(p) \/ Prune(p)
  BY <1>0, <1>6 DEF RestoreFile, RestoreFails, Truncate, Count, Prune
<1> QED
  BY <1>1, <1>2, <1>3, <1>4, <1>5, <1>6 DEF Operation

LEMMA ProcsNext ==
  ASSUME DiskOK, ProcsOK, StagesOK, NEW p \in Procs, Operation(p)
  PROVE  ProcsOK'
  BY DomainsStay, JobNext, BatchNext, OthersStay DEF ProcsOK

-----------------------------------------------------------------------------
(* Stages and the lock.                                                    *)

LEMMA StagesNext ==
  ASSUME ProcsOK, StagesOK, NEW p \in Procs, Operation(p)
  PROVE  StagesOK'
<1> DEFINE OK(q) == /\ pc[q] = "lock" => job[q].op = "flush"
                    /\ pc[q] = "check" => job[q].op = "once"
                    /\ pc[q] = "snapshot" => job[q].op = "capture"
                    /\ pc[q] \in {"restore", "count", "prune"} => job[q].op = "rewind"
                    /\ job[q].op = "flush" /\ pc[q] \in {"lock", "number", "write"} => batch[q] # <<>>
<1>0. \A q \in Procs : OK(q)
  BY DEF StagesOK
<1>a. JobShape(job[p])
  BY DEF ProcsOK
<1> USE DEF ProcsOK, Goto, Set, LockSession, GiveUp
<1>1. OK(p)'
  <2>1. CASE AppendMessage(p) \/ AppendOnce(p)
    BY <2>1 DEF AppendMessage, AppendOnce, Job, NoJob
  <2>2. CASE Capture(p) \/ ApplyRewind(p)
    BY <2>2 DEF Capture, ApplyRewind, Job, NoJob
  <2>3. CASE FlushNext(p) \/ Check(p)
    BY <1>0, <2>3, JobShapes DEF FlushNext, Check
  <2>4. CASE Snapshot(p) \/ Number(p)
    BY <1>0, <1>a, <2>4 DEF Snapshot, Number, JobShape
  <2>5. CASE Write(p)
    BY <1>0, <2>5 DEF Write
  <2>6. CASE Commit(p) \/ WriteFails(p)
    BY <2>6, JobShapes DEF Commit, WriteFails, Return
  <2>7. CASE RunSnapshot(p) \/ RunTool(p) \/ EndRun(p) \/ Crash(p)
    BY <2>7, JobShapes DEF RunSnapshot, RunTool, EndRun, Crash
  <2>8. CASE RestoreFails(p) \/ Truncate(p) \/ Count(p) \/ Prune(p)
    BY <1>0, <2>8, JobShapes DEF RestoreFails, Truncate, Count, Prune
  <2>9. CASE RestoreFile(p)
    <3>1. UNCHANGED <<pc, batch>> /\ job'[p].op = job[p].op
      BY <2>9, RestoreFacts DEF RestoreFile
    <3> QED
      BY <1>0, <3>1
  <2> QED
    BY <2>1, <2>2, <2>3, <2>4, <2>5, <2>6, <2>7, <2>8, <2>9 DEF Operation
<1>2. \A q \in Procs \ {p} : OK(q)'
  BY <1>0, OthersStay
<1> QED
  BY <1>1, <1>2 DEF StagesOK

\* A process enters the locked stages by taking the lock and leaves them by giving
\* it up.
LEMMA ExclusiveNext ==
  ASSUME ProcsOK, Exclusive, NEW p \in Procs, Operation(p)
  PROVE  Exclusive'
<1> USE DEF ProcsOK, Exclusive, Locked, Goto, Set, LockSession, GiveUp, Unlock
<1>0. \A q \in Procs \ {p} : pc'[q] = pc[q]
  BY OthersStay
<1>1. CASE AppendMessage(p) \/ AppendOnce(p) \/ Capture(p) \/ ApplyRewind(p) \/ FlushNext(p)
  <2>1. holder = Nobody /\ holder' = p /\ pc'[p] \in Locked
    BY <1>1 DEF AppendMessage, AppendOnce, Capture, ApplyRewind, FlushNext
  <2> QED
    BY <1>0, <2>1, SessionStoreAssumption
<1>2. CASE pc[p] \in Locked /\ pc'[p] \in Locked /\ holder' = holder
  BY <1>0, <1>2
<1>3. CASE pc[p] \in Locked /\ pc'[p] \notin Locked /\ holder' = Nobody
  BY <1>0, <1>3, SessionStoreAssumption
<1>4. CASE pc[p] \notin Locked /\ pc'[p] \notin Locked /\ holder' = holder
  BY <1>0, <1>4
<1>5. CASE Check(p) \/ Snapshot(p) \/ Number(p) \/ Write(p)
  BY <1>2, <1>3, <1>5 DEF Check, Snapshot, Number, Write
<1>6. CASE Commit(p) \/ WriteFails(p)
  BY <1>3, <1>6 DEF Commit, WriteFails, Return
<1>7. CASE RestoreFile(p) \/ RestoreFails(p) \/ Truncate(p) \/ Count(p) \/ Prune(p)
  BY <1>2, <1>3, <1>7 DEF RestoreFile, RestoreFails, Truncate, Count, Prune
<1>8. CASE RunSnapshot(p) \/ RunTool(p) \/ EndRun(p)
  BY <1>4, <1>8 DEF RunSnapshot, RunTool, EndRun
<1>9. CASE Crash(p)
  <2>1. pc'[p] = "idle" /\ holder' = IF holder = p THEN Nobody ELSE holder
    BY <1>9 DEF Crash
  <2> QED
    BY <1>0, <1>3, <1>4, <2>1
<1> QED
  BY <1>1, <1>5, <1>6, <1>7, <1>8, <1>9 DEF Operation

-----------------------------------------------------------------------------
(* The log.                                                                *)

\* A number taken from a readable log is past every number in it.
LEMMA NextIsNew ==
  ASSUME DiskOK, PrefixesIncrease, Good(Len(log))
  PROVE  \A i \in 1..Len(log) : log[i].seq < NextSequence
<1>0. Len(log) \in Nat /\ count \in Nat
  BY DEF DiskOK, IsSeq
<1> SUFFICES ASSUME NEW i \in 1..Len(log) PROVE log[i].seq < NextSequence
  OBVIOUS
<1>1. log[i].seq \in Nat /\ log[Len(log)].seq \in Nat /\ Len(log) \in 1..Len(log)
  BY <1>0 DEF DiskOK, Shape
<1>2. i = Len(log) \/ i \in 1..(Len(log) - 1)
  BY <1>0
<1>3. log[i].seq <= log[Len(log)].seq
  BY <1>1, <1>2 DEF PrefixesIncrease
<1>4. LastSequence = log[Len(log)].seq
  BY <1>0, LastLine
<1>5. LastSequence < NextSequence
  BY <1>0, <1>1, <1>4 DEF NextSequence
<1>6. NextSequence \in Nat /\ LastSequence \in Nat
  BY NextIsNat
<1> QED
  BY <1>1, <1>3, <1>4, <1>5, <1>6

LEMMA ReadableIsGood == DiskOK => (Readable <=> Good(Len(log)))
  BY DEF DiskOK, IsSeq, Readable, Good

LEMMA PrefixesNext ==
  ASSUME DiskOK, ProcsOK, PrefixesIncrease, NumberIsNew, NEW p \in Procs, Operation(p)
  PROVE  PrefixesIncrease'
<1>0. Len(log) \in Nat
  BY DEF DiskOK, IsSeq
<1>1. CASE Write(p)
  <2> DEFINE x == IF torn THEN BadLine ELSE job[p].event
  <2>1. log' = Append(log, x) /\ pc[p] = "write"
    BY <1>1 DEF Write
  <2> HIDE DEF x
  <2>2. /\ Len(log') = Len(log) + 1
        /\ \A i \in 1..Len(log) : log'[i] = log[i]
        /\ log'[Len(log) + 1] = x
    BY <2>1, AppendFacts DEF DiskOK
  <2> SUFFICES ASSUME NEW j \in 1..Len(log'), Good(j)', NEW i \in 1..(j - 1)
               PROVE  log'[i].seq < log'[j].seq
    BY DEF PrefixesIncrease
  <2>3. CASE j <= Len(log)
    <3>1. j \in 1..Len(log) /\ i \in 1..Len(log)
      BY <1>0, <2>3
    <3>2. Good(j)
      BY <1>0, <2>2, <2>3 DEF Good
    <3> QED
      BY <2>2, <3>1, <3>2 DEF PrefixesIncrease
  <2>4. CASE j = Len(log) + 1
    <3>1. i \in 1..Len(log) /\ j \in 1..j
      BY <1>0, <2>4
    <3>2. Good(Len(log))
      BY <1>0, <2>2, <2>4 DEF Good
    <3>3. x.kind # "bad"
      BY <2>2, <2>4, <3>1 DEF Good
    <3>4. x = job[p].event
      BY <3>3, JobShapes DEF x
    <3>5. log[i].seq < job[p].event.seq
      BY <2>1, <3>1, <3>2 DEF NumberIsNew
    <3> QED
      BY <2>2, <2>4, <3>1, <3>4, <3>5
  <2> QED
    BY <1>0, <2>2, <2>3, <2>4
<1>2. CASE Truncate(p)
  <2>1. PICK n \in 0..Len(log) : log' = SubSeq(log, 1, n)
    BY <1>2 DEF Truncate
  <2>2. Len(log') = n /\ \A i \in 1..n : log'[i] = log[i]
    BY <2>1, PrefixFacts DEF DiskOK
  <2> SUFFICES ASSUME NEW j \in 1..Len(log'), Good(j)', NEW i \in 1..(j - 1)
               PROVE  log'[i].seq < log'[j].seq
    BY DEF PrefixesIncrease
  <2>3. j \in 1..Len(log) /\ i \in 1..n /\ j \in 1..n
    BY <1>0, <2>2
  <2>4. Good(j)
    BY <1>0, <2>2, <2>3 DEF Good
  <2> QED
    BY <2>2, <2>3, <2>4 DEF PrefixesIncrease
<1>3. CASE log' = log
  BY <1>3 DEF PrefixesIncrease, Good
<1>4. CASE Commit(p)
  BY <1>3, <1>4 DEF Commit
<1> QED
  BY <1>1, <1>2, <1>3, <1>4, LogStays

\* Whoever changes the log holds the lock, so no other process is about to write.
LEMMA OnlyHolderWrites ==
  ASSUME ProcsOK, Exclusive, NEW p \in Procs, Operation(p), log' # log,
         NEW q \in Procs, pc'[q] \in {"number", "write"}
  PROVE  FALSE
<1>1. Write(p) \/ Truncate(p) \/ Commit(p)
  BY LogStays
<1>2. pc[p] \in {"write", "restore"} /\ pc'[p] \in {"commit", "count"}
  BY <1>1 DEF Write, Truncate, Commit, Goto, ProcsOK
<1>3. q # p
  BY <1>2
<1>4. pc[q] \in {"number", "write"}
  BY <1>3, OthersStay
<1> QED
  BY <1>2, <1>3, <1>4 DEF Exclusive, Locked

LEMMA NumberNext ==
  ASSUME DiskOK, ProcsOK, StagesOK, Exclusive, PrefixesIncrease, NumberIsNew,
         NEW p \in Procs, Operation(p)
  PROVE  NumberIsNew'
<1> SUFFICES ASSUME NEW q \in Procs, pc'[q] = "write", Good(Len(log))'
             PROVE  \A i \in 1..Len(log') : log'[i].seq < job'[q].event.seq
  BY DEF NumberIsNew
<1>1. log' = log
  BY OnlyHolderWrites
<1>2. Good(Len(log))
  BY <1>1 DEF Good
<1>3. CASE q # p
  BY <1>1, <1>2, <1>3, OthersStay DEF NumberIsNew
<1>4. CASE q = p
  <2>1. Number(p)
    BY <1>4, Arrivals
  <2>2. Shape(Pending(p))
    BY <2>1, PendingShape DEF Number
  <2>3. job'[p].event = [Pending(p) EXCEPT !.seq = NextSequence]
    BY <2>1 DEF Number, Set, ProcsOK, JobShape
  <2>4. job'[p].event.seq = NextSequence
    BY <2>2, <2>3 DEF Shape
  <2> QED
    BY <1>1, <1>2, <1>4, <2>4, NextIsNew
<1> QED
  BY <1>3, <1>4

LEMMA WrittenNext ==
  ASSUME DiskOK, ProcsOK, StagesOK, Exclusive, WrittenIsLast, NEW p \in Procs, Operation(p)
  PROVE  WrittenIsLast'
<1> SUFFICES ASSUME NEW q \in Procs, pc'[q] = "commit"
             PROVE  /\ Len(log') > 0
                    /\ log'[Len(log')].kind = "bad" \/ log'[Len(log')].seq = job'[q].event.seq
  BY DEF WrittenIsLast
<1>1. CASE q = p
  <2>1. Write(p)
    BY <1>1, Arrivals
  <2> DEFINE x == IF torn THEN BadLine ELSE job[p].event
  <2>2. log' = Append(log, x) /\ job' = job
    BY <2>1 DEF Write
  <2>3. x.kind = "bad" \/ x.seq = job[p].event.seq
    BY JobShapes
  <2> HIDE DEF x
  <2>4. Len(log) \in Nat /\ Len(log') = Len(log) + 1 /\ log'[Len(log) + 1] = x
    BY <2>2, AppendFacts DEF DiskOK
  <2> QED
    BY <1>1, <2>2, <2>3, <2>4
<1>2. CASE q # p
  <2>1. pc[q] = "commit" /\ job'[q] = job[q]
    BY <1>2, OthersStay
  <2>2. pc[p] \notin Locked
    BY <1>2, <2>1 DEF Exclusive, Locked
  <2>3. log' = log
    BY <2>2, LogStays DEF Write, Truncate, Commit, Locked
  <2> QED
    BY <2>1, <2>3 DEF WrittenIsLast
<1> QED
  BY <1>1, <1>2

\* The sync puts on disk the line whose sequence is then acknowledged.
LEMMA AckedNext ==
  ASSUME DiskOK, ProcsOK, WrittenIsLast, AckedIsFlushed, NEW p \in Procs, Operation(p)
  PROVE  AckedIsFlushed'
<1>0. Len(log) \in Nat /\ flushed \in 0..Len(log)
  BY DEF DiskOK, IsSeq
<1> SUFFICES ASSUME Good(flushed)', NEW s \in acked'
             PROVE  \E i \in 1..flushed' : log'[i].seq = s
  BY DEF AckedIsFlushed
<1>1. CASE Write(p)
  <2>1. PICK x : log' = Append(log, x)
    BY <1>1 DEF Write
  <2>2. \A i \in 1..Len(log) : log'[i] = log[i]
    BY <2>1, AppendFacts DEF DiskOK
  <2>3. flushed' = flushed /\ acked' = acked
    BY <1>1 DEF Write
  <2>4. Good(flushed)
    BY <1>0, <2>2, <2>3 DEF Good
  <2>5. PICK i \in 1..flushed : log[i].seq = s
    BY <2>3, <2>4 DEF AckedIsFlushed
  <2>6. log'[i].seq = s
    BY <1>0, <2>2, <2>5
  <2> QED
    BY <2>3, <2>6
<1>2. CASE Truncate(p)
  <2>1. PICK n \in 0..Len(log) : /\ \A i \in DOMAIN log : i <= n <=> log[i].seq <= job[p].target
                                 /\ log' = SubSeq(log, 1, n)
                                 /\ flushed' = n
    BY <1>2 DEF Truncate
  <2>2. /\ Len(log') = n /\ \A i \in 1..n : log'[i] = log[i]
        /\ DOMAIN log = 1..Len(log)
    <3>0. log' = SubSeq(log, 1, n)
      BY <2>1
    <3>1. Len(log') = n /\ \A i \in 1..n : log'[i] = log[i]
      BY <3>0, PrefixFacts DEF DiskOK
    <3>2. DOMAIN log = 1..Len(log)
      BY DEF DiskOK, IsSeq
    <3> QED
      BY <3>1, <3>2
  <2>3. s \in acked /\ s <= job[p].target /\ Readable
    BY <1>2 DEF Truncate
  <2>4. Good(flushed)
    BY <1>0, <2>3, ReadableIsGood DEF Good
  <2>5. PICK i \in 1..flushed : log[i].seq = s
    BY <2>3, <2>4 DEF AckedIsFlushed
  <2>6. i \in DOMAIN log /\ i <= n /\ i \in 1..n
    <3>1. i \in 1..Len(log) /\ i \in DOMAIN log
      BY <1>0, <2>2, <2>5
    <3>2. log[i].seq <= job[p].target
      BY <2>3, <2>5
    <3>3. i <= n
      BY <2>1, <3>1, <3>2
    <3> QED
      BY <1>0, <3>1, <3>3
  <2>7. log'[i].seq = s
    BY <2>2, <2>5, <2>6
  <2> QED
    BY <2>1, <2>6, <2>7
<1>3. CASE Commit(p)
  <2>1. /\ log' = log /\ flushed' = Len(log) /\ acked' = acked \cup {job[p].event.seq}
        /\ pc[p] = "commit"
    BY <1>3 DEF Commit, Synced
  <2>2. CASE s \in acked
    <3>1. Good(flushed)
      BY <1>0, <2>1 DEF Good
    <3>2. PICK i \in 1..flushed : log[i].seq = s
      BY <2>2, <3>1 DEF AckedIsFlushed
    <3>3. i \in 1..Len(log)
      BY <1>0, <3>2
    <3> QED
      BY <2>1, <3>2, <3>3
  <2>3. CASE s = job[p].event.seq
    <3>1. Len(log) > 0 /\ Len(log) \in 1..Len(log)
      BY <1>0, <2>1 DEF WrittenIsLast
    <3>2. log[Len(log)].kind # "bad"
      BY <2>1, <3>1 DEF Good
    <3>3. log[Len(log)].seq = s
      BY <2>1, <2>3, <3>2 DEF WrittenIsLast
    <3> QED
      BY <2>1, <3>1, <3>3
  <2> QED
    BY <2>1, <2>2, <2>3
<1>4. CASE UNCHANGED <<log, flushed, acked>>
  BY <1>4 DEF AckedIsFlushed, Good
<1> QED
  BY <1>1, <1>2, <1>3, <1>4, LogStays

\* Accounting reaches the write only with a log that does not hold it, and nobody
\* else writes meanwhile.
LEMMA OnceNext ==
  ASSUME DiskOK, ProcsOK, StagesOK, Exclusive, OnceIsNew, RecordedOnce,
         NEW p \in Procs, Operation(p)
  PROVE  OnceIsNew' /\ RecordedOnce'
<1>0. Len(log) \in Nat /\ DOMAIN log = 1..Len(log)
  BY DEF DiskOK, IsSeq
<1>1. OnceIsNew'
  <2> SUFFICES ASSUME NEW q \in Procs, pc'[q] \in {"number", "write"}, job'[q].op = "once"
               PROVE  \A i \in 1..Len(log') : log'[i].kind # "once"
    BY DEF OnceIsNew
  <2>1. log' = log
    BY OnlyHolderWrites
  <2>2. CASE q # p
    BY <2>1, <2>2, OthersStay DEF OnceIsNew
  <2>3. CASE q = p /\ pc'[p] = "number"
    <3>1. ~Recorded
      BY <2>3, Arrivals
    <3>2. \A i \in 1..Len(log) : log[i].kind # "once"
      BY <1>0, <3>1 DEF Recorded, EventsOf, ToSet
    <3> QED
      BY <2>1, <3>2
  <2>4. CASE q = p /\ pc'[p] = "write"
    <3>1. Number(p)
      BY <2>4, Arrivals
    <3>2. pc[p] = "number" /\ job'[p].op = job[p].op
      BY <3>1 DEF Number, Set, ProcsOK, JobShape
    <3> QED
      BY <2>1, <2>4, <3>2 DEF OnceIsNew
  <2> QED
    BY <2>2, <2>3, <2>4
<1>2. RecordedOnce'
  <2>1. CASE Write(p)
    <3> DEFINE x == IF torn THEN BadLine ELSE job[p].event
    <3>1. log' = Append(log, x) /\ pc[p] = "write"
      BY <2>1 DEF Write
    <3>2. x.kind = "once" => job[p].op = "once"
      BY JobShapes DEF ProcsOK, JobShape
    <3> HIDE DEF x
    <3>3. /\ DOMAIN log' = 1..(Len(log) + 1)
          /\ \A i \in 1..Len(log) : log'[i] = log[i]
          /\ log'[Len(log) + 1] = x
      BY <3>1, AppendFacts DEF DiskOK
    <3> SUFFICES ASSUME NEW i \in DOMAIN log', NEW j \in DOMAIN log',
                        log'[i].kind = "once", log'[j].kind = "once"
                 PROVE  i = j
      BY DEF RecordedOnce
    <3>4. /\ i \in 1..Len(log) \/ i = Len(log) + 1
          /\ j \in 1..Len(log) \/ j = Len(log) + 1
      BY <1>0, <3>3
    <3>5. CASE i \in 1..Len(log) /\ j \in 1..Len(log)
      BY <1>0, <3>3, <3>5 DEF RecordedOnce
    <3>6. CASE x.kind = "once"
      <4>1. \A k \in 1..Len(log) : log[k].kind # "once"
        BY <3>1, <3>2, <3>6 DEF OnceIsNew
      <4> QED
        BY <3>3, <3>4, <4>1
    <3> QED
      BY <3>3, <3>4, <3>5, <3>6
  <2>2. CASE Truncate(p)
    <3>1. PICK n \in 0..Len(log) : log' = SubSeq(log, 1, n)
      BY <2>2 DEF Truncate
    <3>2. DOMAIN log' = 1..n /\ \A i \in 1..n : log'[i] = log[i]
      BY <3>1, PrefixFacts DEF DiskOK
    <3>3. \A i \in 1..n : i \in DOMAIN log
      BY <1>0, <3>1
    <3> QED
      BY <3>2, <3>3 DEF RecordedOnce
  <2>3. CASE log' = log
    BY <2>3 DEF RecordedOnce
  <2> QED
    BY <2>1, <2>2, <2>3, LogStays DEF Commit
<1> QED
  BY <1>1, <1>2

-----------------------------------------------------------------------------
(* The machine loses what was not synced.                                  *)

LEMMA PowerNext ==
  ASSUME IInv, PowerFails
  PROVE  IInv'
<1> USE DEF IInv
<1>0. Len(log) \in Nat /\ DOMAIN log = 1..Len(log) /\ flushed \in 0..Len(log)
  BY DEF DiskOK, IsSeq
<1>1. PICK kept \in flushed..Len(log) : log' = SubSeq(log, 1, kept) /\ flushed' = kept
  BY DEF PowerFails
<1>2. kept \in 0..Len(log)
  BY <1>0, <1>1
<1>3. /\ IsSeq(log') /\ Len(log') = kept /\ DOMAIN log' = 1..kept
      /\ \A i \in 1..kept : log'[i] = log[i]
  BY <1>1, <1>2, PrefixFacts DEF DiskOK
<1>4. \A i \in 1..kept : i \in 1..Len(log) /\ i \in DOMAIN log
  BY <1>0, <1>2
<1>5. \A p \in Procs : pc'[p] = "idle" /\ job'[p] = NoJob /\ batch'[p] = <<>>
  BY DEF PowerFails
<1>6. UNCHANGED <<count, acked>> /\ holder' = Nobody
  BY DEF PowerFails
<1>7. DiskOK'
  <2>1. \A i \in 1..Len(log') : Shape(log'[i])
    BY <1>3, <1>4 DEF DiskOK
  <2>2. flushed' \in 0..Len(log')
    BY <1>0, <1>1, <1>2, <1>3
  <2> QED
    BY <1>3, <1>6, <2>1, <2>2 DEF DiskOK
<1>8. ProcsOK'
  <2>1. DOMAIN pc' = Procs /\ DOMAIN job' = Procs /\ DOMAIN batch' = Procs
    BY DEF PowerFails
  <2>2. BatchShape(<<>>)
    BY EmptyIsSeq DEF BatchShape
  <2> QED
    BY <1>5, <2>1, <2>2, JobShapes DEF ProcsOK
<1>9. StagesOK' /\ Exclusive' /\ NumberIsNew' /\ WrittenIsLast' /\ OnceIsNew'
  BY <1>5, <1>6, SessionStoreAssumption, JobShapes
     DEF StagesOK, Exclusive, Locked, NumberIsNew, WrittenIsLast, OnceIsNew
<1>10. PrefixesIncrease'
  <2> SUFFICES ASSUME NEW j \in 1..Len(log'), Good(j)', NEW i \in 1..(j - 1)
               PROVE  log'[i].seq < log'[j].seq
    BY DEF PrefixesIncrease
  <2>1. j \in 1..Len(log) /\ i \in 1..kept /\ j \in 1..kept
    BY <1>0, <1>2, <1>3
  <2>2. \A k \in 1..j : k \in 1..kept
    BY <1>0, <1>2, <2>1
  <2>3. Good(j)
    BY <1>3, <2>2 DEF Good
  <2> QED
    BY <1>3, <2>1, <2>3 DEF PrefixesIncrease
<1>11. AckedIsFlushed'
  <2> SUFFICES ASSUME Good(flushed)', NEW s \in acked
               PROVE  \E i \in 1..flushed' : log'[i].seq = s
    BY <1>6 DEF AckedIsFlushed
  <2>1. \A i \in 1..flushed : i \in 1..kept
    BY <1>0, <1>1
  <2>2. Good(flushed)
    BY <1>1, <1>3, <2>1 DEF Good
  <2>3. PICK i \in 1..flushed : log[i].seq = s
    BY <2>2 DEF AckedIsFlushed
  <2> QED
    BY <1>1, <1>3, <2>1, <2>3
<1>12. RecordedOnce'
  BY <1>3, <1>4 DEF RecordedOnce
<1> QED
  BY <1>7, <1>8, <1>9, <1>10, <1>11, <1>12

LEMMA StutterNext ==
  ASSUME IInv, UNCHANGED vars
  PROVE  IInv'
<1> USE DEF IInv, vars, disk, bounds
<1>1. DiskOK' /\ ProcsOK' /\ StagesOK' /\ Exclusive'
  BY DEF DiskOK, ProcsOK, StagesOK, Exclusive
<1>2. PrefixesIncrease' /\ NumberIsNew' /\ WrittenIsLast' /\ AckedIsFlushed'
  BY DEF PrefixesIncrease, NumberIsNew, WrittenIsLast, AckedIsFlushed, Good
<1>3. OnceIsNew' /\ RecordedOnce'
  BY DEF OnceIsNew, RecordedOnce
<1> QED
  BY <1>1, <1>2, <1>3

LEMMA NextIInv ==
  ASSUME IInv, [Next]_vars
  PROVE  IInv'
<1>1. CASE PowerFails
  BY <1>1, PowerNext
<1>2. CASE UNCHANGED vars
  BY <1>2, StutterNext
<1>3. ASSUME NEW p \in Procs, Operation(p) PROVE IInv'
  <2> USE <1>3 DEF IInv
  <2>1. DiskOK' /\ ProcsOK'
    BY DiskNext, ProcsNext
  <2>2. StagesOK' /\ Exclusive'
    BY StagesNext, ExclusiveNext
  <2>3. PrefixesIncrease' /\ NumberIsNew'
    BY PrefixesNext, NumberNext
  <2>4. WrittenIsLast' /\ AckedIsFlushed'
    BY WrittenNext, AckedNext
  <2>5. OnceIsNew' /\ RecordedOnce'
    BY OnceNext
  <2> QED
    BY <2>1, <2>2, <2>3, <2>4, <2>5
<1> QED
  BY <1>1, <1>2, <1>3 DEF Next

\* The invariant holds in every state.
THEOREM SessionInvariant == Spec => []IInv
<1>1. IInv /\ [Next]_vars => IInv'
  BY NextIInv
<1> QED
  BY InitIInv, <1>1, PTL DEF Spec

-----------------------------------------------------------------------------
(* The theorems.                                                           *)

\* Whatever crashes, power failures and torn writes do, a log that can be read
\* numbers its events in order: the number given under the session lock is past
\* the last line and past the count of the metadata.  (appendEventLocked)
THEOREM SequencesAlwaysIncrease == Spec => []SequencesIncrease
<1>1. IInv => SequencesIncrease
  <2> SUFFICES ASSUME IInv, Readable, NEW i \in DOMAIN log, NEW j \in DOMAIN log, i < j
               PROVE  log[i].seq < log[j].seq
    BY DEF SequencesIncrease
  <2>1. Len(log) \in Nat /\ DOMAIN log = 1..Len(log)
    BY DEF IInv, DiskOK, IsSeq
  <2>2. j \in 1..Len(log) /\ i \in 1..(j - 1)
    BY <2>1
  <2>3. Good(Len(log))
    BY ReadableIsGood DEF IInv
  <2>4. Good(j)
    BY <2>1, <2>2, <2>3 DEF Good
  <2> QED
    BY <2>2, <2>4 DEF IInv, PrefixesIncrease
<1> QED
  BY SessionInvariant, <1>1, PTL

\* An append that returned survives any crash and any loss of unsynced lines, as
\* long as the log can be read and no rewind drops it.  (the fsync of
\* appendEventLocked)
THEOREM AckedAlwaysKept == Spec => []AckedIsKept
<1>1. IInv => AckedIsKept
  <2> SUFFICES ASSUME IInv, Readable, NEW s \in acked
               PROVE  s \in {e.seq : e \in ToSet(log)}
    BY DEF AckedIsKept
  <2>1. Len(log) \in Nat /\ DOMAIN log = 1..Len(log) /\ flushed \in 0..Len(log)
    BY DEF IInv, DiskOK, IsSeq
  <2>2. Good(Len(log))
    BY ReadableIsGood DEF IInv
  <2>3. Good(flushed)
    BY <2>1, <2>2 DEF Good
  <2>4. PICK i \in 1..flushed : log[i].seq = s
    BY <2>3 DEF IInv, AckedIsFlushed
  <2>5. i \in DOMAIN log
    BY <2>1
  <2> QED
    BY <2>4, <2>5 DEF ToSet
<1> QED
  BY SessionInvariant, <1>1, PTL

\* However many processes account for one sub-agent, and wherever they crash, its
\* event is in the log at most once.  (AppendEventUnlessExists)
THEOREM AlwaysRecordedOnce == Spec => []RecordedOnce
<1>1. IInv => RecordedOnce
  BY DEF IInv
<1> QED
  BY SessionInvariant, <1>1, PTL

-----------------------------------------------------------------------------
(* What the log says of the files.                                         *)

Values == Contents \cup {Absent}
World == [Files -> Values]
Known == [Files -> Values \cup {Unknown}]

Witnesses(s, n) == IsSeq(s) /\ Len(s) = n /\ \A i \in 1..n : s[i] \in Known

FilesOK ==
  /\ work \in World
  /\ Witnesses(was, Len(log))
  /\ \A i \in 1..Len(log) : log[i].kind = "checkpoint" =>
       log[i].seq > 0 /\ log[i].before \in Values \cup {Skipped}
  /\ \A p \in Procs : \A k \in 1..Len(batch[p]) :
       /\ batch[p][k].was \in Known
       /\ batch[p][k].event.kind = "checkpoint"
       /\ batch[p][k].event.before \in Values \cup {Skipped}

\* A session has one driver: a run with its tools, or a rewind.
OneDriver == \A p, q \in Procs : Driving(p) /\ Driving(q) => p = q

\* The content of a snapshot can be restored.
Kept(b) == b \in Contents => b \in blobs

CkptAt(j, f) == log[j].kind = "checkpoint" /\ log[j].file = f
NoneIn(i, n, f) == \A j \in i..n : ~CkptAt(j, f)

\* From its event k on, what the batch of p will add to the log agrees that f holds x
\* at that event: its first snapshot of f does, and the workspace if there is none.
Clear(p, k, n, f) == \A m \in k..n : batch[p][m].event.file # f
Ahead(p, k, f, x) ==
  /\ \A m \in k..Len(batch[p]) :
       batch[p][m].event.file = f /\ Clear(p, k, m - 1, f) =>
         batch[p][m].event.before \in {x, Skipped} /\ Kept(batch[p][m].event.before)
  /\ Clear(p, k, Len(batch[p]), f) => x = work[f]
Later(f, x) ==
  /\ (\A p \in Procs : batch[p] = <<>>) => x = work[f]
  /\ \A p \in Procs : batch[p] # <<>> => Ahead(p, 1, f, x)

\* From line i on, the log agrees that f held x.
Settled(i, f, x) ==
  /\ \A j \in i..Len(log) : CkptAt(j, f) /\ NoneIn(i, j - 1, f) => log[j].before = x /\ Kept(x)
  /\ NoneIn(i, Len(log), f) => Later(f, x)

LogKnows ==
  \A i \in 1..Len(log) : \A f \in Files : \A x \in Values : was[i][f] = x => Settled(i, f, x)
BatchKnows ==
  \A p \in Procs : \A k \in 1..Len(batch[p]) : \A f \in Files : \A x \in Values :
    batch[p][k].was[f] = x => Ahead(p, k, f, x)

\* Every line that vouches for f has a snapshot of it behind it.
Covered(f) == \A i \in 1..Len(log) : was[i][f] = Unknown \/ ~NoneIn(i, Len(log), f)

SameEvent(d, e) == d.kind = e.kind /\ d.file = e.file /\ d.before = e.before

Plain == {"message", "once", "rewind"}
WriteStage(p) ==
  /\ p \notin Tuis => batch[p] = <<>>
  /\ job[p].op \in Plain \cup {"capture"} => batch[p] = <<>>
  /\ pc[p] \in {"number", "write", "commit"} => job[p].op \in Plain \cup {"capture", "flush"}
  /\ job[p].op \in Plain => job[p].event.kind # "checkpoint"
  /\ job[p].op = "flush" /\ pc[p] = "write" => SameEvent(job[p].event, Head(batch[p]).event)
  /\ pc[p] = "write" => job[p].event.seq > 0
CaptureStage(p) ==
  job[p].op = "capture" =>
    /\ p \notin Tuis
    /\ job[p].event.kind = "checkpoint" /\ job[p].event.file \in Files
    /\ pc[p] \in {"number", "write"} =>
         job[p].event.before \in {work[job[p].event.file], Skipped} /\ Kept(job[p].event.before)
    /\ pc[p] = "commit" => Covered(job[p].event.file)
ToolStage(p) ==
  pc[p] = "tool" =>
    /\ job[p].op = "tool" /\ job[p].event.file \in Files
    /\ p \in Tuis => batch[p] # <<>> /\ batch[p][Len(batch[p])].event.file = job[p].event.file
    /\ p \notin Tuis => Covered(job[p].event.file)
ToolsOK == \A p \in Procs : WriteStage(p) /\ CaptureStage(p) /\ ToolStage(p)

\* What a rewind has restored, and not skipped, is what every line up to its target vouches for.
Upto(i, target) == i = 1 \/ log[i - 1].seq <= target
Rewinding ==
  \A p \in Procs : pc[p] = "restore" =>
    \A i \in 1..Len(log) : \A f \in Files \ (job[p].todo \cup job[p].skipped) : \A x \in Values :
      /\ was[i][f] = x
      /\ Upto(i, job[p].target)
      /\ \A j \in i..Len(log) : CkptAt(j, f) => log[j].seq > job[p].target
      => x = work[f]

RewindInv == FilesOK /\ OneDriver /\ LogKnows /\ BatchKnows /\ ToolsOK /\ Rewinding

LEMMA InitRewindInv == Init => RewindInv
<1> SUFFICES ASSUME Init PROVE RewindInv
  OBVIOUS
<1> USE DEF Init
<1>1. \A p \in Procs : pc[p] = "idle" /\ job[p].op = "none" /\ batch[p] = <<>>
  BY JobShapes
<1>2. FilesOK
  BY <1>1, EmptyIsSeq DEF FilesOK, Witnesses, World, Values
<1>3. OneDriver
  BY <1>1 DEF OneDriver, Driving, InTool
<1>4. LogKnows /\ BatchKnows
  BY <1>1, EmptyIsSeq DEF LogKnows, BatchKnows
<1>5. ToolsOK
  BY <1>1 DEF ToolsOK, WriteStage, CaptureStage, ToolStage, Plain
<1>6. Rewinding
  BY <1>1 DEF Rewinding
<1> QED
  BY <1>2, <1>3, <1>4, <1>5, <1>6 DEF RewindInv

-----------------------------------------------------------------------------
(* What is no longer known.                                                *)

LEMMA ForgetFacts ==
  ASSUME NEW s, NEW n \in Nat, Witnesses(s, n), NEW fs
  PROVE  /\ Witnesses(Forget(s, fs), n)
         /\ \A i \in 1..n : \A f \in Files :
              Forget(s, fs)[i][f] = IF f \in fs THEN Unknown ELSE s[i][f]
<1>1. DOMAIN s = 1..n
  BY DEF Witnesses, IsSeq
<1>2. Forget(s, fs) = [i \in 1..n |-> [f \in Files |-> IF f \in fs THEN Unknown ELSE s[i][f]]]
  BY <1>1 DEF Forget
<1>3. \A i \in 1..n : [f \in Files |-> IF f \in fs THEN Unknown ELSE s[i][f]] \in Known
  BY DEF Witnesses, Known
<1>4. Forget(s, fs) \in Seq(Known)
  BY <1>2, <1>3
<1>5. Len(Forget(s, fs)) = n
  BY <1>2, <1>4
<1>6. \A i \in 1..n : Forget(s, fs)[i] \in Known
  BY <1>2, <1>3
<1> QED
  BY <1>2, <1>4, <1>5, <1>6 DEF Witnesses, IsSeq

LEMMA WitnessAppend ==
  ASSUME NEW s, NEW n \in Nat, Witnesses(s, n), NEW w \in Known
  PROVE  Witnesses(Append(s, w), n + 1)
  BY AppendFacts DEF Witnesses

LEMMA WitnessPrefix ==
  ASSUME NEW s, NEW n \in Nat, Witnesses(s, n), NEW k \in 0..n
  PROVE  /\ Witnesses(SubSeq(s, 1, k), k)
         /\ \A i \in 1..k : SubSeq(s, 1, k)[i] = s[i]
<1>1. k \in 0..Len(s) /\ k \in Nat /\ 1..k \subseteq 1..n
  BY DEF Witnesses
<1> QED
  BY <1>1, PrefixFacts DEF Witnesses

LEMMA NowhereKnown == Nowhere \in Known /\ \A f \in Files : Nowhere[f] = Unknown
  BY DEF Nowhere, Known

LEMMA ValuesAreKnown ==
  /\ Unknown \notin Values /\ Skipped \notin Values
  /\ World \subseteq Known
<1>1. Unknown \notin Values /\ Skipped \notin Values
  BY SessionStoreAssumption DEF Values
<1> QED
  BY <1>1 DEF World, Known

LEMMA UndoneFacts ==
  ASSUME DiskOK, Witnesses(was, Len(log)), NEW t \in Nat
  PROVE  /\ Witnesses(Undone(t), Len(log))
         /\ \A i \in 1..Len(log) : \A f \in Files :
              Undone(t)[i][f] = IF Upto(i, t) THEN was[i][f] ELSE Unknown
<1>0. Len(log) \in Nat
  BY DEF DiskOK, IsSeq
<1>1. DOMAIN was = 1..Len(log)
  BY DEF Witnesses, IsSeq
<1>2. Undone(t) = [i \in 1..Len(log) |-> IF i > 1 /\ log[i - 1].seq > t THEN Nowhere ELSE was[i]]
  BY <1>1 DEF Undone
<1>3. \A i \in 1..Len(log) : (i > 1 /\ log[i - 1].seq > t) <=> ~Upto(i, t)
  <2> SUFFICES ASSUME NEW i \in 1..Len(log)
               PROVE  (i > 1 /\ log[i - 1].seq > t) <=> ~Upto(i, t)
    OBVIOUS
  <2>1. i > 1 => i - 1 \in 1..Len(log)
    BY <1>0
  <2>2. i > 1 => log[i - 1].seq \in Nat
    BY <2>1 DEF DiskOK, Shape
  <2> QED
    BY <1>0, <2>2 DEF Upto
<1>4. Undone(t) = [i \in 1..Len(log) |-> IF Upto(i, t) THEN was[i] ELSE Nowhere]
  BY <1>2, <1>3
<1>5. \A i \in 1..Len(log) : (IF Upto(i, t) THEN was[i] ELSE Nowhere) \in Known
  BY NowhereKnown DEF Witnesses
<1>6. Undone(t) \in Seq(Known)
  BY <1>0, <1>4, <1>5
<1>7. Len(Undone(t)) = Len(log)
  BY <1>0, <1>4, <1>6
<1>8. \A i \in 1..Len(log) : Undone(t)[i] \in Known
  BY <1>4, <1>5
<1>9. \A i \in 1..Len(log) : \A f \in Files :
        Undone(t)[i][f] = IF Upto(i, t) THEN was[i][f] ELSE Unknown
  BY <1>4, NowhereKnown
<1> QED
  BY <1>6, <1>7, <1>8, <1>9 DEF Witnesses, IsSeq

-----------------------------------------------------------------------------
(* What a step leaves alone.                                               *)

\* A step with the same log vouches for no more than before.
NoMoreKnown ==
  \A i \in 1..Len(log) : \A f \in Files : was'[i][f] = was[i][f] \/ was'[i][f] = Unknown

LEMMA Frames ==
  ASSUME ProcsOK, NEW p \in Procs, Operation(p)
  PROVE  /\ UNCHANGED work \/ RunTool(p) \/ RestoreFile(p)
         /\ UNCHANGED batch \/ Write(p) \/ WriteFails(p) \/ RunSnapshot(p) \/ Crash(p)
         /\ UNCHANGED was \/ Write(p) \/ WriteFails(p) \/ RestoreFile(p) \/ Truncate(p) \/ Crash(p)
         /\ UNCHANGED log \/ Write(p) \/ Truncate(p)
         /\ UNCHANGED blobs \/ Snapshot(p) \/ RunSnapshot(p) \/ Prune(p)
<1> USE DEF ProcsOK, LockSession, GiveUp, disk, bounds
<1>1. CASE AppendMessage(p) \/ AppendOnce(p) \/ Capture(p) \/ ApplyRewind(p) \/ FlushNext(p)
  BY <1>1 DEF AppendMessage, AppendOnce, Capture, ApplyRewind, FlushNext
<1>2. CASE Check(p) \/ Snapshot(p) \/ Number(p)
  BY <1>2 DEF Check, Snapshot, Number
<1>3. CASE Write(p)
  BY <1>3 DEF Write
<1>4. CASE Commit(p) \/ WriteFails(p)
  BY <1>4 DEF Commit, WriteFails
<1>5. CASE RunSnapshot(p) \/ RunTool(p) \/ EndRun(p)
  BY <1>5 DEF RunSnapshot, RunTool, EndRun
<1>6. CASE RestoreFile(p) \/ RestoreFails(p) \/ Truncate(p) \/ Count(p) \/ Prune(p)
  BY <1>6 DEF RestoreFile, RestoreFails, Truncate, Count, Prune
<1>7. CASE Crash(p)
  BY <1>7 DEF Crash
<1> QED
  BY <1>1, <1>2, <1>3, <1>4, <1>5, <1>6, <1>7 DEF Operation

\* Blobs are only dropped by the rewind.
LEMMA BlobsStay ==
  ASSUME NEW p \in Procs, Operation(p), ~Prune(p), ProcsOK
  PROVE  \A b : Kept(b) => Kept(b)'
<1>1. blobs \subseteq blobs'
  BY Frames DEF Snapshot, RunSnapshot, Stored
<1> QED
  BY <1>1 DEF Kept

LEMMA ForgetsOnly ==
  ASSUME FilesOK, DiskOK, ProcsOK, NEW p \in Procs, Operation(p), ~Write(p), ~Truncate(p)
  PROVE  log' = log /\ Witnesses(was', Len(log)) /\ NoMoreKnown
<1>0. Len(log) \in Nat /\ Witnesses(was, Len(log))
  BY DEF DiskOK, IsSeq, FilesOK
<1>1. log' = log
  BY Frames
<1>2. CASE UNCHANGED was
  BY <1>0, <1>1, <1>2 DEF NoMoreKnown
<1>3. CASE WriteFails(p) \/ Crash(p)
  <2>1. \E fs : was' = Forget(was, fs)
    BY <1>3 DEF WriteFails, Crash
  <2> QED
    BY <1>0, <1>1, <2>1, ForgetFacts DEF NoMoreKnown
<1>4. CASE RestoreFile(p)
  <2>1. was' = Undone(job[p].target) /\ job[p].target \in Nat
    BY <1>4 DEF RestoreFile, ProcsOK, JobShape
  <2> QED
    BY <1>0, <1>1, <2>1, UndoneFacts DEF NoMoreKnown
<1> QED
  BY <1>1, <1>2, <1>3, <1>4, Frames

-----------------------------------------------------------------------------
(* The closest snapshot.                                                   *)

LEMMA Least ==
  ASSUME NEW T \in SUBSET Nat, T # {}
  PROVE  \E x \in T : \A y \in T : x <= y
<1> DEFINE R == OpToRel(<, Nat)
<1>1. IsWellFoundedOn(R, Nat)
  BY NatLessThanWellFounded
<1>2. \A x, y \in Nat : y < x => <<y, x>> \in R
  BY DEF OpToRel
<1> HIDE DEF R
<1>3. PICK x \in T : \A y \in T : ~ (<<y, x>> \in R)
  BY <1>1, WFMin
<1>4. \A y \in T : x \in Nat /\ y \in Nat /\ ~ (y < x)
  BY <1>2, <1>3
<1>5. \A y \in T : x <= y
  BY <1>4
<1> QED
  BY <1>5

LEMMA CheckpointsAreLines ==
  ASSUME DiskOK, NEW f, NEW t
  PROVE  /\ \A e : e \in Checkpoints(f, t) <=>
                     \E j \in 1..Len(log) : e = log[j] /\ CkptAt(j, f) /\ log[j].seq > t
         /\ \A e \in Checkpoints(f, t) : e.seq \in Nat
<1>1. DOMAIN log = 1..Len(log)
  BY DEF DiskOK, IsSeq
<1> QED
  BY <1>1 DEF Checkpoints, EventsOf, ToSet, CkptAt, DiskOK, Shape

LEMMA ClosestFacts ==
  ASSUME DiskOK, NEW f, NEW t, Checkpoints(f, t) # {}
  PROVE  /\ Closest(f, t) \in Checkpoints(f, t)
         /\ \A d \in Checkpoints(f, t) : Closest(f, t).seq <= d.seq
<1> DEFINE T == {e.seq : e \in Checkpoints(f, t)}
<1>1. T \in SUBSET Nat /\ T # {}
  BY CheckpointsAreLines
<1>2. PICK x \in T : \A y \in T : x <= y
  BY <1>1, Least
<1>3. \E e \in Checkpoints(f, t) : \A d \in Checkpoints(f, t) : e.seq <= d.seq
  BY <1>2
<1> QED
  BY <1>3 DEF Closest

LEMMA RestoredIsValue ==
  ASSUME DiskOK, FilesOK, NEW f \in Files, NEW t
  PROVE  Restored(f, t) \in Values
<1>1. work[f] \in Values
  BY DEF FilesOK, World
<1>2. CASE Checkpoints(f, t) # {}
  <2>1. PICK j \in 1..Len(log) : Closest(f, t) = log[j] /\ log[j].kind = "checkpoint"
    BY <1>2, ClosestFacts, CheckpointsAreLines DEF CkptAt
  <2>2. Closest(f, t).before \in Values \cup {Skipped}
    BY <2>1 DEF FilesOK
  <2> QED
    BY <1>1, <1>2, <2>2 DEF Restored, Unusable
<1> QED
  BY <1>1, <1>2 DEF Restored, Unusable

\* If a readable log vouches from line i on that f held x, nothing is about to be
\* appended, and the snapshots of f past the target are those from line i on, then a
\* rewind to the target makes f hold x: the first of them is the closest.
LEMMA RestoredIs ==
  ASSUME DiskOK, PrefixesIncrease, Readable, \A p \in Procs : batch[p] = <<>>,
         NEW i \in 1..Len(log), NEW f, NEW x \in Values, NEW t, Settled(i, f, x),
         \A j \in 1..Len(log) : CkptAt(j, f) => (log[j].seq > t <=> j >= i)
  PROVE  Restored(f, t) = x
<1>0. Len(log) \in Nat
  BY DEF DiskOK, IsSeq
<1>1. CASE NoneIn(i, Len(log), f)
  <2>1. x = work[f]
    BY <1>1 DEF Settled, Later
  <2>2. Checkpoints(f, t) = {}
    BY <1>0, <1>1, CheckpointsAreLines DEF NoneIn
  <2> QED
    BY <2>1, <2>2 DEF Restored, Unusable
<1>2. CASE ~NoneIn(i, Len(log), f)
  <2> DEFINE T == {j \in 1..Len(log) : j >= i /\ CkptAt(j, f)}
  <2>1. T \in SUBSET Nat /\ T # {}
    BY <1>0, <1>2 DEF NoneIn
  <2>2. PICK j \in T : \A k \in T : j <= k
    BY <2>1, Least
  <2>3. j \in i..Len(log) /\ NoneIn(i, j - 1, f) /\ CkptAt(j, f)
    BY <1>0, <2>2 DEF NoneIn
  <2>4. log[j].before = x /\ Kept(x)
    BY <2>3 DEF Settled
  <2>5. log[j] \in Checkpoints(f, t)
    BY <1>0, <2>3, CheckpointsAreLines
  <2>6. PICK k \in 1..Len(log) : Closest(f, t) = log[k] /\ CkptAt(k, f) /\ log[k].seq > t
    BY <2>5, ClosestFacts, CheckpointsAreLines
  <2>7. k \in T
    BY <2>6
  <2>8. log[k].seq <= log[j].seq
    BY <2>5, <2>6, ClosestFacts
  <2>9. k = j
    <3>1. j \in 1..Len(log) /\ j <= k /\ k \in Nat /\ j \in Nat
      BY <1>0, <2>2, <2>6, <2>7
    <3>2. j < k => log[j].seq < log[k].seq
      <4>1. Good(k)
        BY <1>0, <2>6, ReadableIsGood DEF Good
      <4> QED
        BY <3>1, <4>1, <2>6 DEF PrefixesIncrease
    <3>3. log[j].seq \in Nat /\ log[k].seq \in Nat
      BY <2>6, <3>1 DEF DiskOK, Shape
    <3> QED
      BY <2>8, <3>1, <3>2, <3>3
  <2>10. Closest(f, t).before = x
    BY <2>4, <2>6, <2>9
  <2>11. x # Skipped /\ (x \in Contents => x \in blobs)
    BY <2>4, ValuesAreKnown DEF Kept
  <2>12. Checkpoints(f, t) # {}
    BY <2>5
  <2> QED
    BY <2>10, <2>11, <2>12 DEF Restored, Unusable
<1> QED
  BY <1>1, <1>2

-----------------------------------------------------------------------------
(* A driver is alone.                                                      *)

LEMMA DriverNext ==
  ASSUME ProcsOK, StagesOK, OneDriver, NEW p \in Procs, Operation(p)
  PROVE  /\ OneDriver'
         /\ Driving(p)' => Driving(p) \/ Alone(p)
<1>0. JobShape(job[p])
  BY DEF ProcsOK
<1>1. Driving(p)' => Driving(p) \/ Alone(p)
  <2> USE DEF Driving, InTool, ProcsOK, Goto, Set, LockSession, GiveUp, Return
  <2>1. CASE AppendMessage(p) \/ AppendOnce(p) \/ FlushNext(p)
    BY <2>1 DEF AppendMessage, AppendOnce, FlushNext, Job, NoJob
  <2>2. CASE Capture(p) \/ ApplyRewind(p) \/ RunSnapshot(p)
    BY <2>2 DEF Capture, ApplyRewind, RunSnapshot
  <2>3. CASE Check(p) \/ RestoreFails(p) \/ EndRun(p) \/ RunTool(p) \/ Crash(p)
    BY <2>3, JobShapes DEF Check, RestoreFails, EndRun, RunTool, Crash
  <2>4. CASE Snapshot(p) \/ Number(p) \/ Truncate(p) \/ Count(p) \/ Prune(p)
    BY <1>0, <2>4 DEF Snapshot, Number, Truncate, Count, Prune, JobShape
  <2>5. CASE Write(p)
    BY <2>5 DEF Write, StagesOK, AfterHead
  <2>6. CASE Commit(p) \/ WriteFails(p)
    BY <2>6, JobShapes DEF Commit, WriteFails, StagesOK, AfterHead
  <2>7. CASE RestoreFile(p)
    <3>1. UNCHANGED <<pc, batch>> /\ job'[p].op = job[p].op
      BY <2>7, RestoreFacts DEF RestoreFile
    <3> QED
      BY <3>1
  <2> QED
    BY <2>1, <2>2, <2>3, <2>4, <2>5, <2>6, <2>7 DEF Operation
<1>2. \A q \in Procs \ {p} : Driving(q)' <=> Driving(q)
  BY OthersStay DEF Driving, InTool
<1>3. OneDriver'
  <2> SUFFICES ASSUME NEW q \in Procs, NEW r \in Procs, Driving(q)', Driving(r)', q # r
               PROVE  FALSE
    BY DEF OneDriver
  <2>1. q = p => ~Driving(r)
    BY <1>1, <1>2 DEF OneDriver, Alone
  <2>2. r = p => ~Driving(q)
    BY <1>1, <1>2 DEF OneDriver, Alone
  <2> QED
    BY <1>2, <2>1, <2>2 DEF OneDriver
<1> QED
  BY <1>1, <1>3

-----------------------------------------------------------------------------
(* Types.                                                                  *)

\* A run that is about to append has its oldest event in hand.
LEMMA HeadFacts ==
  ASSUME ProcsOK, StagesOK, NEW p \in Procs, pc[p] \in {"lock", "number", "write"}, job[p].op = "flush"
  PROVE  /\ batch[p] # <<>> /\ 1 \in 1..Len(batch[p]) /\ Head(batch[p]) = batch[p][1]
         /\ Len(batch[p]) \in Nat /\ Len(Tail(batch[p])) = Len(batch[p]) - 1
         /\ \A k \in 1..Len(Tail(batch[p])) :
              k + 1 \in 1..Len(batch[p]) /\ Tail(batch[p])[k] = batch[p][k + 1]
<1>1. IsSeq(batch[p]) /\ batch[p] # <<>>
  BY DEF ProcsOK, BatchShape, StagesOK
<1>2. /\ Len(batch[p]) \in Nat \ {0} /\ Len(Tail(batch[p])) = Len(batch[p]) - 1
      /\ Head(batch[p]) = batch[p][1]
      /\ \A k \in 1..Len(Tail(batch[p])) :
           k + 1 \in 1..Len(batch[p]) /\ Tail(batch[p])[k] = batch[p][k + 1]
  BY <1>1, TailFacts
<1> QED
  BY <1>1, <1>2

LEMMA WriteFacts ==
  ASSUME ProcsOK, StagesOK, FilesOK, ToolsOK, NEW p \in Procs, pc[p] = "write"
  PROVE  /\ Witnessed(p) \in Known
         /\ job[p].event.seq > 0
         /\ job[p].event.kind = "checkpoint" => job[p].event.before \in Values \cup {Skipped}
<1>1. WriteStage(p) /\ CaptureStage(p)
  BY DEF ToolsOK
<1>2. CASE job[p].op = "flush"
  <2>1. Head(batch[p]) = batch[p][1] /\ 1 \in 1..Len(batch[p])
    BY <1>2, HeadFacts
  <2>2. Head(batch[p]).was \in Known /\ Head(batch[p]).event.before \in Values \cup {Skipped}
    BY <2>1 DEF FilesOK
  <2>3. Witnessed(p) = Head(batch[p]).was
    BY <1>2 DEF Witnessed
  <2>4. job[p].event.before = Head(batch[p]).event.before /\ job[p].event.seq > 0
    BY <1>1, <1>2 DEF WriteStage, SameEvent
  <2> QED
    BY <2>2, <2>3, <2>4
<1>3. CASE job[p].op # "flush"
  <2>1. Witnessed(p) \in Known
    BY <1>3, NowhereKnown, ValuesAreKnown DEF Witnessed, FilesOK
  <2>2. job[p].op \in Plain \cup {"capture"}
    BY <1>1, <1>3 DEF WriteStage
  <2>3. job[p].event.kind = "checkpoint" => job[p].op = "capture"
    BY <1>1, <2>2 DEF WriteStage
  <2>4. job[p].op = "capture" => job[p].event.before \in Values \cup {Skipped}
    BY <1>1 DEF CaptureStage, FilesOK, World
  <2> QED
    BY <1>1, <2>1, <2>3, <2>4 DEF WriteStage
<1> QED
  BY <1>2, <1>3

\* The line that is written, and what the log vouches for behind it.
LEMMA WriteLine ==
  ASSUME DiskOK, ProcsOK, StagesOK, FilesOK, ToolsOK, NEW p \in Procs, Write(p)
  PROVE  /\ Len(log) \in Nat /\ Len(log') = Len(log) + 1
         /\ \A i \in 1..Len(log) : log'[i] = log[i]
         /\ log'[Len(log) + 1] = IF torn THEN BadLine ELSE job[p].event
         /\ Witnesses(was', Len(log) + 1)
         /\ \A i \in 1..Len(log) : \A f \in Files :
              was'[i][f] = was[i][f] \/ was'[i][f] = Unknown
         /\ \A f \in Files : \/ was'[Len(log) + 1][f] = Witnessed(p)[f]
                             \/ was'[Len(log) + 1][f] = Unknown
         /\ \A f \in Files : f = job[p].event.file /\ (torn \/ job[p].event.before = Skipped)
              => \A i \in 1..(Len(log) + 1) : was'[i][f] = Unknown
<1>0. Len(log) \in Nat /\ IsSeq(log) /\ Witnesses(was, Len(log)) /\ IsSeq(was) /\ Len(was) = Len(log)
  BY DEF DiskOK, FilesOK, Witnesses, IsSeq
<1> DEFINE line == IF torn THEN BadLine ELSE job[p].event
           more == Append(was, Witnessed(p))
<1>1. log' = Append(log, line) /\ was' = Forgiven(more, job[p].event) /\ pc[p] = "write"
  BY DEF Write
<1> HIDE DEF line
<1>2. /\ Len(log') = Len(log) + 1
      /\ \A i \in 1..Len(log) : log'[i] = log[i]
      /\ log'[Len(log) + 1] = line
  BY <1>0, <1>1, AppendFacts
<1>3. Witnesses(more, Len(log) + 1)
  BY <1>0, <1>1, WriteFacts, WitnessAppend
<1>4. /\ \A i \in 1..Len(log) : more[i] = was[i]
      /\ more[Len(log) + 1] = Witnessed(p)
  BY <1>0, AppendFacts
<1> HIDE DEF more
<1> DEFINE gone == torn \/ job[p].event.before = Skipped
<1>5. was' = IF gone THEN Forget(more, {job[p].event.file}) ELSE more
  BY <1>1 DEF Forgiven
<1>6. Len(log) + 1 \in Nat /\ \A i \in 1..Len(log) : i \in 1..(Len(log) + 1)
  BY <1>0
<1>7. /\ Witnesses(was', Len(log) + 1)
      /\ \A i \in 1..(Len(log) + 1) : \A f \in Files :
           was'[i][f] = IF gone /\ f = job[p].event.file THEN Unknown ELSE more[i][f]
  <2>1. CASE gone
    BY <1>3, <1>5, <1>6, <2>1, ForgetFacts
  <2>2. CASE ~gone
    BY <1>3, <1>5, <2>2
  <2> QED
    BY <2>1, <2>2
<1>8. Len(log) + 1 \in 1..(Len(log) + 1)
  BY <1>0
<1> HIDE DEF gone
<1>9. \A i \in 1..Len(log) : \A f \in Files : was'[i][f] = was[i][f] \/ was'[i][f] = Unknown
  BY <1>4, <1>6, <1>7
<1>10. \A f \in Files : was'[Len(log) + 1][f] = Witnessed(p)[f] \/ was'[Len(log) + 1][f] = Unknown
  BY <1>4, <1>7, <1>8
<1>11. \A f \in Files : f = job[p].event.file /\ gone
              => \A i \in 1..(Len(log) + 1) : was'[i][f] = Unknown
  BY <1>7
<1> QED
  BY <1>0, <1>2, <1>7, <1>9, <1>10, <1>11 DEF line, gone

\* The lines that a cut keeps know no more than before, and nothing of a skipped file
\* that none of them has a checkpoint of.
LEMMA TruncateLines ==
  ASSUME DiskOK, ProcsOK, FilesOK, NEW p \in Procs, Truncate(p)
  PROVE  \E n \in 0..Len(log) :
           /\ Len(log) \in Nat /\ Len(log') = n /\ Witnesses(was', n)
           /\ \A i \in 1..n : i \in 1..Len(log) /\ log'[i] = log[i]
           /\ \A i \in 1..n : \A f \in Files :
                was'[i][f] = IF f \in job[p].skipped /\ NoneIn(i, n, f) THEN Unknown ELSE was[i][f]
           /\ \A i \in 1..Len(log) : i <= n <=> log[i].seq <= job[p].target
<1>0. Len(log) \in Nat /\ IsSeq(log) /\ Witnesses(was, Len(log)) /\ DOMAIN log = 1..Len(log)
  BY DEF DiskOK, FilesOK, IsSeq
<1>1. PICK n \in 0..Len(log) : /\ \A i \in DOMAIN log : i <= n <=> log[i].seq <= job[p].target
                               /\ log' = SubSeq(log, 1, n)
                               /\ was' = Surviving(n, job[p].skipped)
  BY DEF Truncate
<1>2. Len(log') = n /\ \A i \in 1..n : log'[i] = log[i]
  BY <1>0, <1>1, PrefixFacts
<1>3. n \in Nat /\ \A i \in 1..n : i \in 1..Len(log)
  BY <1>0
<1> DEFINE Row(i) == [f \in Files |->
             IF f \in job[p].skipped /\ NoneIn(i, n, f) THEN Unknown ELSE was[i][f]]
<1>4. was' = [i \in 1..n |-> Row(i)]
  BY <1>1 DEF Surviving, NoneIn, CkptAt
<1>5. \A i \in 1..n : Row(i) \in Known
  BY <1>0, <1>3 DEF Witnesses, Known
<1>6. \A i \in 1..n : \A f \in Files :
        Row(i)[f] = IF f \in job[p].skipped /\ NoneIn(i, n, f) THEN Unknown ELSE was[i][f]
  OBVIOUS
<1> HIDE DEF Row
<1>7. was' \in Seq(Known) /\ Len(was') = n /\ \A i \in 1..n : was'[i] = Row(i)
  BY <1>3, <1>4, <1>5
<1>8. /\ Witnesses(was', n)
      /\ \A i \in 1..n : \A f \in Files :
           was'[i][f] = IF f \in job[p].skipped /\ NoneIn(i, n, f) THEN Unknown ELSE was[i][f]
  BY <1>5, <1>6, <1>7 DEF Witnesses, IsSeq
<1> QED
  BY <1>0, <1>1, <1>2, <1>3, <1>8

LEMMA FilesNext ==
  ASSUME DiskOK, ProcsOK, StagesOK, FilesOK, ToolsOK, NEW p \in Procs, Operation(p)
  PROVE  FilesOK'
<1>0. Len(log) \in Nat
  BY DEF DiskOK, IsSeq
<1>1. work' \in World
  <2>1. CASE RunTool(p)
    BY <2>1 DEF RunTool, FilesOK, World, Values
  <2>2. CASE RestoreFile(p)
    <3>1. PICK f, b : /\ f \in job[p].todo /\ b \in {work[f], Restored(f, job[p].target)}
                      /\ work' = [work EXCEPT ![f] = b]
      BY <2>2, RestoreFacts
    <3>2. f \in Files => b \in Values
      BY <3>1, RestoredIsValue DEF FilesOK, World
    <3> QED
      BY <3>1, <3>2 DEF FilesOK, World
  <2> QED
    BY <2>1, <2>2, Frames DEF FilesOK
<1>2. Witnesses(was', Len(log'))
  <2>1. CASE Write(p)
    BY <2>1, WriteLine
  <2>2. CASE Truncate(p)
    BY <2>2, TruncateLines
  <2>3. CASE ~Write(p) /\ ~Truncate(p)
    BY <2>3, ForgetsOnly
  <2> QED
    BY <2>1, <2>2, <2>3
<1>3. \A i \in 1..Len(log') : log'[i].kind = "checkpoint" =>
        log'[i].seq > 0 /\ log'[i].before \in Values \cup {Skipped}
  <2>1. CASE Write(p)
    <3> SUFFICES ASSUME NEW i \in 1..Len(log'), log'[i].kind = "checkpoint"
                 PROVE  log'[i].seq > 0 /\ log'[i].before \in Values \cup {Skipped}
      OBVIOUS
    <3>1. i \in 1..Len(log) \/ i = Len(log) + 1
      BY <1>0, <2>1, WriteLine
    <3>2. CASE i \in 1..Len(log)
      BY <2>1, <3>2, WriteLine DEF FilesOK
    <3>3. CASE i = Len(log) + 1
      <4>1. log'[i] = job[p].event
        BY <2>1, <3>3, WriteLine, JobShapes
      <4> QED
        BY <2>1, <4>1, WriteFacts DEF Write
    <3> QED
      BY <3>1, <3>2, <3>3
  <2>2. CASE Truncate(p)
    BY <2>2, TruncateLines DEF FilesOK
  <2> QED
    BY <2>1, <2>2, Frames DEF FilesOK
<1>4. \A q \in Procs : \A k \in 1..Len(batch'[q]) :
        /\ batch'[q][k].was \in Known
        /\ batch'[q][k].event.kind = "checkpoint"
        /\ batch'[q][k].event.before \in Values \cup {Skipped}
  <2> DEFINE OK(e) == /\ e.was \in Known
                      /\ e.event.kind = "checkpoint"
                      /\ e.event.before \in Values \cup {Skipped}
  <2>0. \A q \in Procs : \A k \in 1..Len(batch[q]) : OK(batch[q][k])
    BY DEF FilesOK
  <2>1. \A k \in 1..Len(batch'[p]) : OK(batch'[p][k])
    <3>1. CASE Write(p) \/ WriteFails(p)
      <4>1. pc[p] = "write" /\ batch' = AfterHead(p)
        BY <3>1 DEF Write, WriteFails
      <4>2. CASE job[p].op = "flush"
        <5>1. batch'[p] = Tail(batch[p])
          BY <4>1, <4>2 DEF AfterHead, ProcsOK
        <5>2. \A k \in 1..Len(Tail(batch[p])) :
                k + 1 \in 1..Len(batch[p]) /\ Tail(batch[p])[k] = batch[p][k + 1]
          BY <4>1, <4>2, HeadFacts
        <5> HIDE DEF OK
        <5> QED
          BY <2>0, <5>1, <5>2
      <4> QED
        BY <2>0, <4>1, <4>2 DEF AfterHead
    <3>2. CASE RunSnapshot(p)
      <4>1. PICK f, b : /\ f \in Files /\ b \in {work[f], Skipped}
              /\ batch' = [batch EXCEPT ![p] = Append(@, [event |-> Event("checkpoint", f, b), was |-> work])]
        BY <3>2 DEF RunSnapshot
      <4> DEFINE e == [event |-> Event("checkpoint", f, b), was |-> work]
      <4>2. OK(e)
        <5>1. work \in World /\ work \in Known
          BY ValuesAreKnown DEF FilesOK
        <5>2. b \in Values \cup {Skipped}
          BY <4>1, <5>1 DEF World
        <5> QED
          BY <5>1, <5>2 DEF Event
      <4>3. batch'[p] = Append(batch[p], e)
        BY <4>1 DEF ProcsOK
      <4> HIDE DEF e
      <4>4. IsSeq(batch[p])
        BY DEF ProcsOK, BatchShape
      <4>5. /\ Len(batch[p]) \in Nat /\ Len(batch'[p]) = Len(batch[p]) + 1
            /\ \A k \in 1..Len(batch[p]) : batch'[p][k] = batch[p][k]
            /\ batch'[p][Len(batch[p]) + 1] = e
        BY <4>3, <4>4, AppendFacts
      <4> HIDE DEF OK
      <4> QED
        BY <2>0, <4>2, <4>5
    <3>3. CASE Crash(p)
      <4>1. batch'[p] = <<>>
        BY <3>3 DEF Crash, ProcsOK
      <4> QED
        BY <4>1, EmptyIsSeq
    <3>4. CASE UNCHANGED batch
      BY <2>0, <3>4
    <3> QED
      BY <3>1, <3>2, <3>3, <3>4, Frames
  <2> QED
    BY <2>0, <2>1, OthersStay
<1> QED
  BY <1>1, <1>2, <1>3, <1>4 DEF FilesOK

-----------------------------------------------------------------------------
(* What is known stays true.                                               *)

LEMMA AheadStays ==
  ASSUME NEW p \in Procs, NEW k, NEW f, NEW x, Ahead(p, k, f, x),
         batch'[p] = batch[p], work'[f] = work[f], \A b : Kept(b) => Kept(b)'
  PROVE  Ahead(p, k, f, x)'
  BY DEF Ahead, Clear

LEMMA LaterStays ==
  ASSUME NEW f, NEW x, Later(f, x),
         UNCHANGED batch, work'[f] = work[f], \A b : Kept(b) => Kept(b)'
  PROVE  Later(f, x)'
<1>1. (\A p \in Procs : batch'[p] = <<>>) => x = work'[f]
  BY DEF Later
<1>2. \A p \in Procs : batch'[p] # <<>> => Ahead(p, 1, f, x)'
  BY AheadStays DEF Later
<1> QED
  BY <1>1, <1>2 DEF Later

LEMMA SettledStays ==
  ASSUME NEW i, NEW f, NEW x, Settled(i, f, x),
         log' = log, \A b : Kept(b) => Kept(b)', Later(f, x) => Later(f, x)'
  PROVE  Settled(i, f, x)'
  BY DEF Settled, CkptAt, NoneIn

\* Only a driver has a batch, and there is one driver.
LEMMA OtherBatches ==
  ASSUME OneDriver, NEW p \in Procs, Driving(p)
  PROVE  /\ \A q \in Procs : batch[q] # <<>> => q = p
         /\ batch[p] = <<>> => \A q \in Procs : batch[q] = <<>>
<1>1. \A q \in Procs : batch[q] # <<>> => q = p
  BY DEF OneDriver, Driving, InTool
<1> QED
  BY <1>1

LEMMA RewinderAlone ==
  ASSUME StagesOK, ToolsOK, OneDriver, NEW p \in Procs, job[p].op \in {"capture", "rewind"}
  PROVE  Driving(p) /\ \A q \in Procs : batch[q] = <<>>
<1>1. Driving(p) /\ batch[p] = <<>>
  BY DEF Driving, ToolsOK, WriteStage, Plain
<1> QED
  BY <1>1, OtherBatches

LEMMA QuietKnows ==
  ASSUME LogKnows, BatchKnows, UNCHANGED <<log, work, batch>>, NoMoreKnown,
         \A b : Kept(b) => Kept(b)'
  PROVE  LogKnows' /\ BatchKnows'
<1>1. LogKnows'
  <2> SUFFICES ASSUME NEW i \in 1..Len(log), NEW f \in Files, NEW x \in Values, was'[i][f] = x
               PROVE  Settled(i, f, x)'
    BY DEF LogKnows
  <2>1. was[i][f] = x
    BY ValuesAreKnown DEF NoMoreKnown
  <2> QED
    BY <2>1, SettledStays, LaterStays DEF LogKnows
<1>2. BatchKnows'
  <2> SUFFICES ASSUME NEW q \in Procs, NEW k \in 1..Len(batch[q]), NEW f \in Files, NEW x \in Values,
                      batch[q][k].was[f] = x
               PROVE  Ahead(q, k, f, x)'
    BY DEF BatchKnows
  <2> QED
    BY AheadStays DEF BatchKnows
<1> QED
  BY <1>1, <1>2

LEMMA PruneKnows ==
  ASSUME DiskOK, StagesOK, ToolsOK, OneDriver, LogKnows, NEW p \in Procs, Prune(p)
  PROVE  LogKnows' /\ BatchKnows'
<1>1. UNCHANGED <<log, work, batch, was>> /\ job[p].op = "rewind"
  BY DEF Prune, StagesOK
<1>2. \A q \in Procs : batch'[q] = <<>> /\ batch[q] = <<>>
  BY <1>1, RewinderAlone
<1>3. BatchKnows'
  BY <1>2, EmptyIsSeq DEF BatchKnows
<1>4. LogKnows'
  <2> SUFFICES ASSUME NEW i \in 1..Len(log), NEW f \in Files, NEW x \in Values, was[i][f] = x
               PROVE  Settled(i, f, x)'
    BY <1>1 DEF LogKnows
  <2>1. Settled(i, f, x)
    BY DEF LogKnows
  <2>2. Later(f, x) => Later(f, x)'
    BY <1>1, <1>2 DEF Later
  <2>3. ASSUME NEW j \in i..Len(log), CkptAt(j, f), NoneIn(i, j - 1, f)
        PROVE  log[j].before = x /\ Kept(x)'
    <3>1. log[j].before = x /\ Kept(x)
      BY <2>1, <2>3 DEF Settled
    <3>2. j \in DOMAIN log
      BY DEF DiskOK, IsSeq
    <3>3. x \in Referenced
      BY <2>3, <3>1, <3>2 DEF Referenced, EventsOf, ToSet, CkptAt
    <3>4. blobs' = blobs \cap Referenced
      BY DEF Prune
    <3> QED
      BY <3>1, <3>3, <3>4 DEF Kept
  <2> QED
    BY <1>1, <2>1, <2>2, <2>3 DEF Settled, CkptAt, NoneIn
<1> QED
  BY <1>3, <1>4

LEMMA ToolKnows ==
  ASSUME ProcsOK, ToolsOK, OneDriver, LogKnows, BatchKnows, NEW p \in Procs, RunTool(p)
  PROVE  LogKnows' /\ BatchKnows'
<1> DEFINE h == job[p].event.file
<1>1. UNCHANGED <<log, was, batch, blobs>> /\ pc[p] = "tool"
  BY DEF RunTool, disk
<1>2. \A f : f # h => work'[f] = work[f]
  BY DEF RunTool
<1>3. \A b : Kept(b) => Kept(b)'
  BY <1>1 DEF Kept
<1>4. Driving(p)
  BY <1>1 DEF Driving, InTool
<1>5. \A q \in Procs : batch[q] # <<>> =>
        q = p /\ \A k \in 1..Len(batch[q]) : ~Clear(q, k, Len(batch[q]), h)
  <2> SUFFICES ASSUME NEW q \in Procs, batch[q] # <<>>, NEW k \in 1..Len(batch[q])
               PROVE  ~Clear(q, k, Len(batch[q]), h)
    BY <1>4, OtherBatches
  <2>1. q = p
    BY <1>4, OtherBatches
  <2>2. p \in Tuis
    BY <2>1 DEF ToolsOK, WriteStage
  <2>3. batch[p][Len(batch[p])].event.file = h
    BY <1>1, <2>2 DEF ToolsOK, ToolStage
  <2>4. Len(batch[p]) \in Nat
    BY DEF ProcsOK, BatchShape, IsSeq
  <2>5. Len(batch[p]) \in k..Len(batch[p])
    BY <2>1, <2>4
  <2> QED
    BY <2>1, <2>3, <2>5 DEF Clear
<1>6. BatchKnows'
  <2> SUFFICES ASSUME NEW q \in Procs, NEW k \in 1..Len(batch[q]), NEW f \in Files, NEW x \in Values,
                      batch[q][k].was[f] = x
               PROVE  Ahead(q, k, f, x)'
    BY <1>1 DEF BatchKnows
  <2>1. Ahead(q, k, f, x)
    BY DEF BatchKnows
  <2>2. CASE f # h
    BY <1>1, <1>2, <1>3, <2>1, <2>2, AheadStays
  <2>3. CASE f = h
    <3>1. batch[q] # <<>>
      BY EmptyIsSeq
    <3>2. ~Clear(q, k, Len(batch[q]), f)
      BY <1>5, <2>3, <3>1
    <3> QED
      BY <1>1, <1>3, <2>1, <3>2 DEF Ahead, Clear
  <2> QED
    BY <2>2, <2>3
<1>7. LogKnows'
  <2> SUFFICES ASSUME NEW i \in 1..Len(log), NEW f \in Files, NEW x \in Values, was[i][f] = x
               PROVE  Settled(i, f, x)'
    BY <1>1 DEF LogKnows
  <2>1. Settled(i, f, x)
    BY DEF LogKnows
  <2>2. CASE f # h
    BY <1>1, <1>2, <1>3, <2>1, <2>2, SettledStays, LaterStays
  <2>3. CASE f = h /\ p \in Tuis
    <3>1. batch[p] # <<>>
      BY <1>1, <2>3 DEF ToolsOK, ToolStage
    <3>2. 1 \in 1..Len(batch[p])
      BY <3>1 DEF ProcsOK, BatchShape, IsSeq
    <3>3. ~Clear(p, 1, Len(batch[p]), f)
      BY <1>5, <2>3, <3>1, <3>2
    <3>4. Ahead(p, 1, f, x) => Ahead(p, 1, f, x)'
      BY <1>1, <1>3, <3>3 DEF Ahead, Clear
    <3>5. Later(f, x) => Later(f, x)'
      BY <1>1, <1>5, <3>1, <3>4 DEF Later
    <3> QED
      BY <1>1, <1>3, <2>1, <3>5, SettledStays
  <2>4. CASE f = h /\ p \notin Tuis
    <3>1. Covered(h)
      BY <1>1, <2>4 DEF ToolsOK, ToolStage
    <3>2. ~NoneIn(i, Len(log), f)
      BY <2>4, <3>1, ValuesAreKnown DEF Covered
    <3> QED
      BY <1>1, <1>3, <2>1, <3>2 DEF Settled, CkptAt, NoneIn
  <2> QED
    BY <2>2, <2>3, <2>4
<1> QED
  BY <1>6, <1>7

\* A file that is restored becomes what the lines up to the target vouch for.
LEMMA RestoreMakes ==
  ASSUME DiskOK, PrefixesIncrease, StagesOK, ToolsOK, OneDriver, LogKnows,
         NEW p \in Procs, pc[p] = "restore", Readable, NEW t \in Nat,
         NEW i \in 1..Len(log), NEW f \in Files, NEW x \in Values, was[i][f] = x, Upto(i, t),
         \A j \in i..Len(log) : CkptAt(j, f) => log[j].seq > t
  PROVE  Restored(f, t) = x
<1>0. Len(log) \in Nat
  BY DEF DiskOK, IsSeq
<1>1. \A q \in Procs : batch[q] = <<>>
  BY RewinderAlone DEF StagesOK
<1>2. ASSUME NEW j \in 1..Len(log), CkptAt(j, f) PROVE log[j].seq > t <=> j >= i
  <2>1. CASE j >= i
    BY <1>0, <1>2, <2>1
  <2>2. CASE j < i
    <3>1. i - 1 \in 1..Len(log) /\ j <= i - 1
      BY <1>0, <2>2
    <3>2. log[j].seq \in Nat /\ log[i - 1].seq \in Nat
      BY <3>1 DEF DiskOK, Shape
    <3>3. Good(i - 1)
      BY <1>0, <3>1, ReadableIsGood DEF Good
    <3>4. j = i - 1 \/ j \in 1..((i - 1) - 1)
      BY <1>0, <3>1
    <3>5. log[j].seq <= log[i - 1].seq
      BY <3>1, <3>2, <3>3, <3>4 DEF PrefixesIncrease
    <3>6. log[i - 1].seq <= t
      BY <3>1 DEF Upto
    <3> QED
      BY <2>2, <3>2, <3>5, <3>6
  <2> QED
    BY <1>0, <2>1, <2>2
<1> QED
  BY <1>1, <1>2, RestoredIs DEF LogKnows

LEMMA RestoreKnows ==
  ASSUME DiskOK, ProcsOK, PrefixesIncrease, StagesOK, FilesOK, ToolsOK, OneDriver, LogKnows,
         NEW p \in Procs, RestoreFile(p)
  PROVE  LogKnows' /\ BatchKnows'
<1>1. /\ UNCHANGED <<log, batch, blobs>> /\ pc[p] = "restore" /\ Readable
      /\ job[p].op = "rewind" /\ job[p].target \in Nat /\ was' = Undone(job[p].target)
  BY DEF RestoreFile, StagesOK, disk, ProcsOK, JobShape
<1>2. \A q \in Procs : batch'[q] = <<>> /\ batch[q] = <<>>
  BY <1>1, RewinderAlone
<1>3. BatchKnows'
  BY <1>2, EmptyIsSeq DEF BatchKnows
<1>4. PICK h, b : /\ h \in job[p].todo /\ b \in {work[h], Restored(h, job[p].target)}
                  /\ work' = [work EXCEPT ![h] = b]
  BY RestoreFacts
<1>5. LogKnows'
  <2> SUFFICES ASSUME NEW i \in 1..Len(log), NEW f \in Files, NEW x \in Values, was'[i][f] = x
               PROVE  Settled(i, f, x)'
    BY <1>1 DEF LogKnows
  <2>1. Upto(i, job[p].target) /\ was[i][f] = x
    BY <1>1, UndoneFacts, ValuesAreKnown DEF FilesOK
  <2>2. Settled(i, f, x)
    BY <2>1 DEF LogKnows
  <2>3. NoneIn(i, Len(log), f) => x = work'[f]
    <3> SUFFICES ASSUME NoneIn(i, Len(log), f) PROVE x = work'[f]
      OBVIOUS
    <3>1. x = work[f]
      BY <1>2, <2>2 DEF Settled, Later
    <3>2. Restored(f, job[p].target) = x
      BY <1>1, <2>1, RestoreMakes DEF NoneIn
    <3>3. work'[f] \in {work[f], Restored(f, job[p].target)}
      BY <1>4 DEF FilesOK, World
    <3> QED
      BY <3>1, <3>2, <3>3
  <2>4. NoneIn(i, Len(log), f) => Later(f, x)'
    BY <1>2, <2>3 DEF Later
  <2> QED
    BY <1>1, <2>2, <2>4 DEF Settled, CkptAt, NoneIn, Kept
<1> QED
  BY <1>3, <1>5

LEMMA TruncateKnows ==
  ASSUME DiskOK, ProcsOK, StagesOK, FilesOK, ToolsOK, OneDriver, LogKnows, Rewinding,
         NEW p \in Procs, Truncate(p)
  PROVE  LogKnows' /\ BatchKnows'
<1>1. /\ UNCHANGED <<work, batch, blobs>> /\ pc[p] = "restore" /\ job[p].todo = {}
      /\ job[p].op = "rewind"
  BY DEF Truncate, StagesOK
<1>2. \A q \in Procs : batch'[q] = <<>> /\ batch[q] = <<>>
  BY <1>1, RewinderAlone
<1>3. BatchKnows'
  BY <1>2, EmptyIsSeq DEF BatchKnows
<1>4. PICK n \in 0..Len(log) :
        /\ Len(log) \in Nat /\ Len(log') = n
        /\ \A i \in 1..n : i \in 1..Len(log) /\ log'[i] = log[i]
        /\ \A i \in 1..n : \A f \in Files :
             was'[i][f] = IF f \in job[p].skipped /\ NoneIn(i, n, f) THEN Unknown ELSE was[i][f]
        /\ \A i \in 1..Len(log) : i <= n <=> log[i].seq <= job[p].target
  BY TruncateLines
<1>5. LogKnows'
  <2> SUFFICES ASSUME NEW i \in 1..n, NEW f \in Files, NEW x \in Values, was'[i][f] = x
               PROVE  Settled(i, f, x)'
    BY <1>4 DEF LogKnows
  <2>1. /\ i \in 1..Len(log) /\ was[i][f] = x
        /\ f \in job[p].skipped => ~NoneIn(i, n, f)
    BY <1>4, ValuesAreKnown
  <2>2. Settled(i, f, x)
    BY <2>1 DEF LogKnows
  <2>3. ASSUME NEW j \in i..n, CkptAt(j, f)', NoneIn(i, j - 1, f)'
        PROVE  log'[j].before = x /\ Kept(x)'
    <3>1. j \in i..Len(log) /\ j \in 1..n /\ \A m \in i..(j - 1) : m \in 1..n
      BY <1>4
    <3>2. CkptAt(j, f) /\ NoneIn(i, j - 1, f)
      BY <1>4, <2>3, <3>1 DEF CkptAt, NoneIn
    <3> QED
      BY <1>1, <1>4, <2>2, <3>1, <3>2 DEF Settled, Kept
  <2>4. ASSUME NoneIn(i, n, f)' PROVE Later(f, x)'
    <3>1. Upto(i, job[p].target)
      <4>1. i # 1 => i - 1 \in 1..Len(log) /\ i - 1 <= n
        BY <1>4
      <4> QED
        BY <1>4, <4>1 DEF Upto
    <3>2. ASSUME NEW j \in i..Len(log), CkptAt(j, f) PROVE log[j].seq > job[p].target
      <4>1. j \in 1..Len(log)
        BY <1>4
      <4>2. ~ (j <= n)
        <5>1. j <= n => j \in i..n /\ j \in 1..n
          BY <1>4
        <5> QED
          BY <1>4, <2>4, <3>2, <5>1 DEF NoneIn, CkptAt
      <4>3. log[j].seq \in Nat /\ job[p].target \in Nat
        BY <4>1 DEF DiskOK, Shape, ProcsOK, JobShape
      <4> QED
        BY <1>4, <4>1, <4>2, <4>3
    <3>4. NoneIn(i, n, f)
      <4>1. \A j \in i..n : j \in 1..n
        BY <1>4
      <4> QED
        BY <1>4, <2>4, <4>1 DEF NoneIn, CkptAt
    <3>3. x = work[f]
      BY <1>1, <2>1, <3>1, <3>2, <3>4 DEF Rewinding
    <3> QED
      BY <1>1, <1>2, <3>3 DEF Later
  <2> QED
    BY <1>4, <2>3, <2>4 DEF Settled
<1> QED
  BY <1>3, <1>5

\* A batch that grows by a snapshot of the workspace.
LEMMA AheadGrows ==
  ASSUME ProcsOK, NEW p \in Procs, NEW e, NEW k \in Nat, NEW f, NEW x, Ahead(p, k, f, x),
         k \in 1..(Len(batch[p]) + 1),
         batch'[p] = Append(batch[p], e), UNCHANGED work, \A b : Kept(b) => Kept(b)',
         e.event.file = f => e.event.before \in {work[f], Skipped} /\ Kept(e.event.before)'
  PROVE  Ahead(p, k, f, x)'
<1>1. PICK n \in Nat : /\ Len(batch[p]) = n /\ Len(batch'[p]) = n + 1
                     /\ \A m \in 1..n : batch'[p][m] = batch[p][m]
                     /\ batch'[p][n + 1] = e
  <2>1. IsSeq(batch[p])
    BY DEF ProcsOK, BatchShape
  <2> QED
    BY <2>1, AppendFacts
<1>2. \A m \in k..n : m \in 1..n /\ batch'[p][m] = batch[p][m]
  BY <1>1
<1>3. ASSUME NEW m \in k..(n + 1), batch'[p][m].event.file = f, Clear(p, k, m - 1, f)'
      PROVE  /\ batch'[p][m].event.before \in {x, Skipped}
             /\ batch'[p][m].event.before \in Contents => batch'[p][m].event.before \in blobs'
  <2>1. Clear(p, k, m - 1, f)
    <3>1. \A l \in k..(m - 1) : l \in k..n
      BY <1>1
    <3> QED
      BY <1>2, <1>3, <3>1 DEF Clear
  <2>2. CASE m \in k..n
    <3>1. batch[p][m].event.before \in {x, Skipped} /\ Kept(batch[p][m].event.before)
      BY <1>1, <1>2, <1>3, <2>1, <2>2 DEF Ahead
    <3>2. \A b : Kept(b) => (b \in Contents => b \in blobs')
      BY DEF Kept
    <3> QED
      BY <1>2, <2>2, <3>1, <3>2
  <2>3. CASE m = n + 1
    <3>1. Clear(p, k, n, f)
      BY <1>1, <2>1, <2>3
    <3>2. x = work[f] /\ batch'[p][m] = e
      BY <1>1, <2>3, <3>1 DEF Ahead
    <3> QED
      BY <1>3, <3>2 DEF Kept
  <2> QED
    BY <1>1, <2>2, <2>3
<1>4. Clear(p, k, n + 1, f)' => x = work'[f]
  <2> SUFFICES ASSUME Clear(p, k, n + 1, f)' PROVE x = work[f]
    OBVIOUS
  <2>1. \A m \in k..n : m \in k..(n + 1)
    BY <1>1
  <2>2. Clear(p, k, n, f)
    BY <1>2, <2>1 DEF Clear
  <2> QED
    BY <1>1, <2>2 DEF Ahead
<1> QED
  BY <1>1, <1>3, <1>4 DEF Ahead, Kept

LEMMA RunSnapshotKnows ==
  ASSUME ProcsOK, OneDriver, LogKnows, BatchKnows, NEW p \in Procs, RunSnapshot(p)
  PROVE  LogKnows' /\ BatchKnows'
<1>1. /\ UNCHANGED <<log, work, was>> /\ Alone(p) /\ blobs \subseteq blobs'
      /\ \A q \in Procs \ {p} : batch'[q] = batch[q]
  BY DEF RunSnapshot, ProcsOK, Stored
<1>2. \A b : Kept(b) => Kept(b)'
  BY <1>1 DEF Kept
<1>3. \A q \in Procs \ {p} : batch[q] = <<>>
  BY <1>1 DEF Alone, Driving, InTool
<1>4. PICK h, b : /\ h \in Files /\ b \in {work[h], Skipped} /\ blobs' = Stored(b)
                    /\ batch' = [batch EXCEPT ![p] = Append(@, [event |-> Event("checkpoint", h, b), was |-> work])]
  BY DEF RunSnapshot
<1> DEFINE e == [event |-> Event("checkpoint", h, b), was |-> work]
<1>5. batch'[p] = Append(batch[p], e)
  BY <1>4 DEF ProcsOK
<1>6. e.was = work /\ e.event.file = h /\ e.event.before = b
  BY DEF Event
<1>7. Kept(b)'
  BY <1>4 DEF Kept, Stored
<1> HIDE DEF e
<1>8. ASSUME NEW k \in Nat, k \in 1..(Len(batch[p]) + 1), NEW f, NEW x, Ahead(p, k, f, x)
      PROVE  Ahead(p, k, f, x)'
  BY <1>1, <1>2, <1>4, <1>5, <1>6, <1>7, <1>8, AheadGrows
<1>9. /\ Len(batch[p]) \in Nat /\ Len(batch'[p]) = Len(batch[p]) + 1
      /\ \A m \in 1..Len(batch[p]) : batch'[p][m] = batch[p][m]
      /\ batch'[p][Len(batch[p]) + 1] = e
  <2>1. IsSeq(batch[p])
    BY DEF ProcsOK, BatchShape
  <2> QED
    BY <1>5, <2>1, AppendFacts
<1>10. BatchKnows'
  <2> SUFFICES ASSUME NEW q \in Procs, NEW k \in 1..Len(batch'[q]), NEW f \in Files, NEW x \in Values,
                      batch'[q][k].was[f] = x
               PROVE  Ahead(q, k, f, x)'
    BY DEF BatchKnows
  <2>1. q = p
    BY <1>1, <1>3, EmptyIsSeq
  <2>2. k \in Nat /\ k \in 1..(Len(batch[p]) + 1)
    BY <1>9, <2>1
  <2>3. CASE k \in 1..Len(batch[p])
    <3>1. Ahead(p, k, f, x)
      BY <1>9, <2>1, <2>3 DEF BatchKnows
    <3> QED
      BY <1>8, <2>1, <2>2, <3>1
  <2>4. CASE k = Len(batch[p]) + 1
    <3>1. x = work[f]
      BY <1>6, <1>9, <2>1, <2>4
    <3>2. Ahead(p, k, f, x)
      BY <1>9, <2>4, <3>1 DEF Ahead
    <3> QED
      BY <1>8, <2>1, <2>2, <3>2
  <2> QED
    BY <1>9, <2>2, <2>3, <2>4
<1>11. LogKnows'
  <2> SUFFICES ASSUME NEW i \in 1..Len(log), NEW f \in Files, NEW x \in Values, was[i][f] = x
               PROVE  Settled(i, f, x)'
    BY <1>1 DEF LogKnows
  <2>1. Settled(i, f, x)
    BY DEF LogKnows
  <2>2. Later(f, x) => Later(f, x)'
    <3> SUFFICES ASSUME Later(f, x) PROVE Later(f, x)'
      OBVIOUS
    <3>1. Ahead(p, 1, f, x)
      <4>1. CASE batch[p] = <<>>
        BY <1>3, <4>1, EmptyIsSeq DEF Later, Ahead
      <4> QED
        BY <4>1 DEF Later
    <3>2. Ahead(p, 1, f, x)'
      BY <1>8, <1>9, <3>1
    <3>3. batch'[p] # <<>>
      BY <1>9, EmptyIsSeq
    <3> QED
      BY <1>1, <1>3, <3>2, <3>3 DEF Later
  <2> QED
    BY <1>1, <1>2, <2>1, <2>2, SettledStays
<1> QED
  BY <1>10, <1>11

\* A run that dies takes its batch with it: what the batch was to say of a file is
\* forgotten.
LEMMA CrashKnows ==
  ASSUME DiskOK, ProcsOK, FilesOK, OneDriver, LogKnows, BatchKnows, NEW p \in Procs, Crash(p)
  PROVE  LogKnows' /\ BatchKnows'
<1>1. /\ UNCHANGED <<log, work, blobs>> /\ was' = Forget(was, Unrecorded(p))
      /\ batch'[p] = <<>> /\ \A q \in Procs \ {p} : batch'[q] = batch[q]
  BY DEF Crash, disk, ProcsOK
<1>2. \A b : Kept(b) => Kept(b)'
  BY <1>1 DEF Kept
<1>3. BatchKnows'
  <2> SUFFICES ASSUME NEW q \in Procs, NEW k \in 1..Len(batch'[q]), NEW f \in Files, NEW x \in Values,
                      batch'[q][k].was[f] = x
               PROVE  Ahead(q, k, f, x)'
    BY DEF BatchKnows
  <2>1. q # p
    BY <1>1, EmptyIsSeq
  <2>2. Ahead(q, k, f, x)
    BY <1>1, <2>1 DEF BatchKnows
  <2> QED
    BY <1>1, <1>2, <2>1, <2>2, AheadStays
<1>4. LogKnows'
  <2> SUFFICES ASSUME NEW i \in 1..Len(log), NEW f \in Files, NEW x \in Values, was'[i][f] = x
               PROVE  Settled(i, f, x)'
    BY <1>1 DEF LogKnows
  <2>1. Len(log) \in Nat /\ Witnesses(was, Len(log))
    BY DEF DiskOK, IsSeq, FilesOK
  <2>2. f \notin Unrecorded(p) /\ was[i][f] = x
    BY <1>1, <2>1, ForgetFacts, ValuesAreKnown
  <2>3. Settled(i, f, x)
    BY <2>2 DEF LogKnows
  <2>4. Later(f, x) => Later(f, x)'
    <3> SUFFICES ASSUME Later(f, x) PROVE Later(f, x)'
      OBVIOUS
    <3>1. Clear(p, 1, Len(batch[p]), f)
      <4>1. DOMAIN batch[p] = 1..Len(batch[p])
        BY DEF ProcsOK, BatchShape, IsSeq
      <4> QED
        BY <2>2, <4>1 DEF Clear, Unrecorded, ToSet
    <3>2. (\A q \in Procs : batch'[q] = <<>>) => x = work'[f]
      <4>1. CASE batch[p] = <<>>
        BY <1>1, <4>1 DEF Later
      <4>2. CASE batch[p] # <<>>
        BY <1>1, <3>1, <4>2 DEF Later, Ahead
      <4> QED
        BY <4>1, <4>2
    <3>3. ASSUME NEW q \in Procs, batch'[q] # <<>> PROVE Ahead(q, 1, f, x)'
      <4>1. q # p
        BY <1>1, <3>3
      <4> QED
        BY <1>1, <1>2, <3>3, <4>1, AheadStays DEF Later
    <3> QED
      BY <3>2, <3>3 DEF Later
  <2> QED
    BY <1>1, <1>2, <2>3, <2>4, SettledStays
<1> QED
  BY <1>3, <1>4

\* The same for the machine, and for the snapshots on lines that are lost.
LEMMA PowerKnows ==
  ASSUME DiskOK, ProcsOK, FilesOK, LogKnows, PowerFails
  PROVE  FilesOK' /\ LogKnows' /\ BatchKnows'
<1> DEFINE gone(kept) == LostLines(kept) \cup UNION {Unrecorded(p) : p \in Procs}
<1>1. PICK kept \in flushed..Len(log) :
        /\ log' = SubSeq(log, 1, kept)
        /\ was' = Forget(SubSeq(was, 1, kept), gone(kept))
  BY DEF PowerFails
<1>2. /\ UNCHANGED <<work, blobs>>
      /\ \A q \in Procs : batch'[q] = <<>>
  BY DEF PowerFails
<1>3. Len(log) \in Nat /\ flushed \in 0..Len(log) /\ IsSeq(log) /\ Witnesses(was, Len(log))
  BY DEF DiskOK, IsSeq, FilesOK
<1>4. kept \in 0..Len(log) /\ kept \in Nat
  BY <1>1, <1>3
<1>5. Len(log') = kept /\ \A i \in 1..kept : log'[i] = log[i] /\ i \in 1..Len(log)
  BY <1>1, <1>3, <1>4, PrefixFacts
<1>6. Witnesses(SubSeq(was, 1, kept), kept) /\ \A i \in 1..kept : SubSeq(was, 1, kept)[i] = was[i]
  BY <1>3, <1>4, WitnessPrefix
<1> HIDE DEF gone
<1>7. /\ Witnesses(was', kept)
      /\ \A i \in 1..kept : \A f \in Files : was'[i][f] = IF f \in gone(kept) THEN Unknown ELSE was[i][f]
  <2> DEFINE s == SubSeq(was, 1, kept)
  <2>1. was' = Forget(s, gone(kept)) /\ Witnesses(s, kept) /\ \A i \in 1..kept : s[i] = was[i]
    BY <1>1, <1>6
  <2> HIDE DEF s
  <2>2. /\ Witnesses(was', kept)
        /\ \A i \in 1..kept : \A f \in Files : was'[i][f] = IF f \in gone(kept) THEN Unknown ELSE s[i][f]
    BY <1>4, <2>1, ForgetFacts
  <2> QED
    BY <2>1, <2>2
<1>8. FilesOK'
  BY <1>2, <1>5, <1>7, EmptyIsSeq DEF FilesOK
<1>9. BatchKnows'
  BY <1>2, EmptyIsSeq DEF BatchKnows
<1>10. LogKnows'
  <2> SUFFICES ASSUME NEW i \in 1..kept, NEW f \in Files, NEW x \in Values, was'[i][f] = x
               PROVE  Settled(i, f, x)'
    BY <1>5 DEF LogKnows
  <2>1. f \notin gone(kept) /\ was[i][f] = x /\ i \in 1..Len(log)
    BY <1>5, <1>7, ValuesAreKnown
  <2>2. Settled(i, f, x)
    BY <2>1 DEF LogKnows
  <2>3. ASSUME NEW j \in i..kept, CkptAt(j, f)', NoneIn(i, j - 1, f)'
        PROVE  log'[j].before = x /\ Kept(x)'
    <3>1. j \in i..Len(log) /\ j \in 1..kept /\ \A m \in i..(j - 1) : m \in 1..kept
      BY <1>4
    <3>2. CkptAt(j, f) /\ NoneIn(i, j - 1, f)
      BY <1>5, <2>3, <3>1 DEF CkptAt, NoneIn
    <3> QED
      BY <1>2, <1>5, <2>2, <3>1, <3>2 DEF Settled, Kept
  <2>4. ASSUME NoneIn(i, kept, f)' PROVE Later(f, x)'
    <3>1. NoneIn(i, Len(log), f)
      <4> SUFFICES ASSUME NEW j \in i..Len(log) PROVE ~CkptAt(j, f)
        BY DEF NoneIn
      <4>1. CASE j \in i..kept
        <5>1. j \in 1..kept
          BY <1>4, <4>1
        <5> QED
          BY <1>5, <2>4, <4>1, <5>1 DEF NoneIn, CkptAt
      <4>2. CASE j \in (kept + 1)..Len(log)
        <5>1. log[j].file # f
          BY <2>1, <4>2 DEF gone, LostLines
        <5> QED
          BY <5>1 DEF CkptAt
      <4> QED
        BY <1>3, <1>4, <4>1, <4>2
    <3>2. \A q \in Procs : Clear(q, 1, Len(batch[q]), f)
      <4> SUFFICES ASSUME NEW q \in Procs PROVE Clear(q, 1, Len(batch[q]), f)
        OBVIOUS
      <4>1. DOMAIN batch[q] = 1..Len(batch[q])
        BY DEF ProcsOK, BatchShape, IsSeq
      <4>2. f \notin Unrecorded(q)
        BY <2>1 DEF gone
      <4> QED
        BY <4>1, <4>2 DEF Clear, Unrecorded, ToSet
    <3>3. x = work[f]
      BY <2>2, <3>1, <3>2 DEF Settled, Later, Ahead
    <3> QED
      BY <1>2, <3>3 DEF Later
  <2> QED
    BY <1>5, <2>3, <2>4 DEF Settled
<1> QED
  BY <1>8, <1>9, <1>10

\* A batch whose oldest event goes to the log, or is lost.
Pops(p) ==
  /\ job[p].op = "flush" /\ pc[p] = "write"
  /\ batch'[p] = Tail(batch[p]) /\ \A q \in Procs \ {p} : batch'[q] = batch[q]
  /\ UNCHANGED <<work, blobs>>

LEMMA AheadPops ==
  ASSUME ProcsOK, StagesOK, NEW p \in Procs, Pops(p), NEW k \in Nat \ {0}, NEW f, NEW x,
         Ahead(p, k + 1, f, x)
  PROVE  Ahead(p, k, f, x)'
<1>1. PICK n \in Nat : /\ Len(batch[p]) = n + 1 /\ Len(batch'[p]) = n
                       /\ \A m \in 1..n : batch'[p][m] = batch[p][m + 1]
  <2>1. /\ Len(batch[p]) \in Nat /\ 1 \in 1..Len(batch[p]) /\ Len(Tail(batch[p])) = Len(batch[p]) - 1
        /\ \A m \in 1..Len(Tail(batch[p])) : Tail(batch[p])[m] = batch[p][m + 1]
    BY HeadFacts DEF Pops
  <2>2. Len(batch[p]) - 1 \in Nat
    BY <2>1
  <2> QED
    BY <2>1, <2>2 DEF Pops
<1>2. \A m \in k..n : m \in 1..n /\ m + 1 \in (k + 1)..(n + 1)
  BY <1>1
<1>3. ASSUME NEW m \in k..(n + 1), Clear(p, k, m - 1, f)'
      PROVE  Clear(p, k + 1, m, f)
  <2> SUFFICES ASSUME NEW l \in (k + 1)..m PROVE batch[p][l].event.file # f
    BY DEF Clear
  <2>1. l - 1 \in k..(m - 1) /\ l - 1 \in 1..n /\ (l - 1) + 1 = l
    BY <1>1
  <2>2. batch'[p][l - 1].event.file # f
    BY <1>3, <2>1 DEF Clear
  <2> QED
    BY <1>1, <2>1, <2>2
<1>4. ASSUME NEW m \in k..n, batch'[p][m].event.file = f, Clear(p, k, m - 1, f)'
      PROVE  /\ batch'[p][m].event.before \in {x, Skipped}
             /\ batch'[p][m].event.before \in Contents => batch'[p][m].event.before \in blobs'
  <2>1. m \in 1..n /\ m + 1 \in (k + 1)..(n + 1) /\ m \in k..(n + 1) /\ (m + 1) - 1 = m
    BY <1>1, <1>2
  <2>2. Clear(p, k + 1, m, f)
    BY <1>3, <1>4, <2>1
  <2>3. batch'[p][m] = batch[p][m + 1]
    BY <1>1, <2>1
  <2>4. Clear(p, k + 1, (m + 1) - 1, f)
    BY <2>1, <2>2
  <2>5. m + 1 \in (k + 1)..Len(batch[p]) /\ batch[p][m + 1].event.file = f
    BY <1>1, <1>4, <2>1, <2>3
  <2>6. batch[p][m + 1].event.before \in {x, Skipped} /\ Kept(batch[p][m + 1].event.before)
    BY <2>4, <2>5 DEF Ahead
  <2> QED
    BY <2>3, <2>6 DEF Kept, Pops
<1>5. ASSUME Clear(p, k, n, f)' PROVE x = work'[f]
  <2>1. CASE k <= n + 1
    <3>1. n + 1 \in k..(n + 1) /\ (n + 1) - 1 = n
      BY <1>1, <2>1
    <3>2. Clear(p, k, (n + 1) - 1, f)'
      BY <1>5, <3>1
    <3>3. Clear(p, k + 1, n + 1, f)
      BY <1>3, <3>1, <3>2
    <3> QED
      BY <1>1, <3>3 DEF Ahead, Pops
  <2>2. CASE ~ (k <= n + 1)
    <3>1. \A m \in (k + 1)..(n + 1) : FALSE
      BY <1>1, <2>2
    <3>2. Clear(p, k + 1, n + 1, f)
      BY <3>1 DEF Clear
    <3> QED
      BY <1>1, <3>2 DEF Ahead, Pops
  <2> QED
    BY <2>1, <2>2
<1> QED
  BY <1>1, <1>4, <1>5 DEF Ahead, Kept

LEMMA LaterPops ==
  ASSUME ProcsOK, StagesOK, OneDriver, NEW p \in Procs, Pops(p), NEW f, NEW x,
         Head(batch[p]).event.file # f, Later(f, x)
  PROVE  Later(f, x)'
<1>1. batch[p] # <<>> /\ Head(batch[p]) = batch[p][1] /\ Len(batch[p]) \in Nat
  BY HeadFacts DEF Pops
<1>2. Ahead(p, 1, f, x)
  BY <1>1 DEF Later
<1>3. Ahead(p, 2, f, x)
  <2>1. ASSUME NEW n \in Nat, Clear(p, 2, n, f) PROVE Clear(p, 1, n, f)
    <3> SUFFICES ASSUME NEW m \in 1..n PROVE batch[p][m].event.file # f
      BY DEF Clear
    <3>1. m = 1 \/ m \in 2..n
      OBVIOUS
    <3> QED
      BY <1>1, <2>1, <3>1 DEF Clear
  <2>2. \A m \in 2..Len(batch[p]) : m \in 1..Len(batch[p]) /\ m - 1 \in Nat
    BY <1>1
  <2>3. \A m \in 2..Len(batch[p]) : Clear(p, 2, m - 1, f) => Clear(p, 1, m - 1, f)
    BY <2>1, <2>2
  <2>4. Clear(p, 2, Len(batch[p]), f) => Clear(p, 1, Len(batch[p]), f)
    BY <1>1, <2>1
  <2> QED
    BY <1>2, <2>2, <2>3, <2>4 DEF Ahead
<1>4. Ahead(p, 1, f, x)'
  <2>1. 1 \in Nat \ {0} /\ 1 + 1 = 2
    OBVIOUS
  <2> QED
    BY <1>3, <2>1, AheadPops
<1>5. \A q \in Procs : q # p => batch'[q] = <<>>
  BY <1>1, OtherBatches DEF Driving, InTool, Pops
<1>6. batch'[p] = <<>> => x = work'[f]
  BY <1>4, EmptyIsSeq DEF Ahead, Clear
<1> QED
  BY <1>4, <1>5, <1>6 DEF Later

LEMMA BatchPops ==
  ASSUME ProcsOK, StagesOK, BatchKnows, NEW p \in Procs, Pops(p)
  PROVE  BatchKnows'
<1> SUFFICES ASSUME NEW q \in Procs, NEW k \in 1..Len(batch'[q]), NEW f \in Files, NEW x \in Values,
                    batch'[q][k].was[f] = x
             PROVE  Ahead(q, k, f, x)'
  BY DEF BatchKnows
<1>1. \A b : Kept(b) => Kept(b)'
  BY DEF Kept, Pops
<1>2. CASE q # p
  <2>1. batch'[q] = batch[q]
    BY <1>2 DEF Pops
  <2>2. Ahead(q, k, f, x)
    BY <2>1 DEF BatchKnows
  <2> QED
    BY <1>1, <2>1, <2>2, AheadStays DEF Pops
<1>3. CASE q = p
  <2>1. batch'[p] = Tail(batch[p])
    BY DEF Pops
  <2>2. k + 1 \in 1..Len(batch[p]) /\ batch'[p][k] = batch[p][k + 1]
    BY <1>3, <2>1, HeadFacts DEF Pops
  <2>3. Ahead(p, k + 1, f, x)
    BY <1>3, <2>2 DEF BatchKnows
  <2>4. k \in Nat \ {0}
    OBVIOUS
  <2> QED
    BY <1>3, <2>3, <2>4, AheadPops
<1> QED
  BY <1>2, <1>3

LEMMA WriteFailsKnows ==
  ASSUME DiskOK, ProcsOK, StagesOK, FilesOK, ToolsOK, OneDriver, LogKnows, BatchKnows,
         NEW p \in Procs, WriteFails(p)
  PROVE  LogKnows' /\ BatchKnows'
<1>1. /\ UNCHANGED <<log, work, blobs>> /\ pc[p] = "write"
      /\ was' = Forget(was, {job[p].event.file}) /\ batch' = AfterHead(p)
  BY DEF WriteFails
<1>2. \A b : Kept(b) => Kept(b)'
  BY <1>1 DEF Kept
<1>3. Len(log) \in Nat /\ Witnesses(was, Len(log))
  BY DEF DiskOK, IsSeq, FilesOK
<1>4. \A i \in 1..Len(log) : \A f \in Files :
        was'[i][f] = IF f \in {job[p].event.file} THEN Unknown ELSE was[i][f]
  BY <1>1, <1>3, ForgetFacts
<1>5. CASE job[p].op # "flush"
  <2>1. UNCHANGED batch
    BY <1>1, <1>5 DEF AfterHead
  <2>2. NoMoreKnown
    BY <1>4 DEF NoMoreKnown
  <2> QED
    BY <1>1, <1>2, <2>1, <2>2, QuietKnows
<1>6. CASE job[p].op = "flush"
  <2>1. Pops(p)
    BY <1>1, <1>6 DEF Pops, AfterHead, ProcsOK
  <2>2. SameEvent(job[p].event, Head(batch[p]).event)
    BY <1>1, <1>6 DEF ToolsOK, WriteStage
  <2>3. LogKnows'
    <3> SUFFICES ASSUME NEW i \in 1..Len(log), NEW f \in Files, NEW x \in Values, was'[i][f] = x
                 PROVE  Settled(i, f, x)'
      BY <1>1 DEF LogKnows
    <3>1. f # job[p].event.file /\ was[i][f] = x
      BY <1>4, ValuesAreKnown
    <3>2. Head(batch[p]).event.file # f
      BY <2>2, <3>1 DEF SameEvent
    <3>3. Later(f, x) => Later(f, x)'
      BY <2>1, <3>2, LaterPops
    <3>4. Settled(i, f, x)
      BY <3>1 DEF LogKnows
    <3> QED
      BY <1>1, <1>2, <3>3, <3>4, SettledStays
  <2> QED
    BY <2>1, <2>3, BatchPops
<1> QED
  BY <1>5, <1>6

\* What a line is vouched for by is what is known behind the end of the log.
LEMMA WitnessedLater ==
  ASSUME ProcsOK, StagesOK, ToolsOK, OneDriver, BatchKnows, NEW p \in Procs, pc[p] = "write",
         NEW f \in Files, NEW x \in Values, Witnessed(p)[f] = x
  PROVE  Later(f, x)
<1>1. CASE job[p].op = "flush"
  <2>1. /\ batch[p] # <<>> /\ 1 \in 1..Len(batch[p]) /\ Head(batch[p]) = batch[p][1]
    BY <1>1, HeadFacts
  <2>2. Witnessed(p) = batch[p][1].was
    BY <1>1, <2>1 DEF Witnessed
  <2>3. Ahead(p, 1, f, x)
    BY <2>1, <2>2 DEF BatchKnows
  <2>4. \A q \in Procs : batch[q] # <<>> => q = p
    BY <2>1, OtherBatches DEF Driving, InTool
  <2> QED
    BY <2>1, <2>3, <2>4 DEF Later
<1>2. CASE job[p].op # "flush"
  <2>1. batch[p] = <<>>
    BY <1>2 DEF ToolsOK, WriteStage
  <2>2. Witnessed(p) # Nowhere
    BY NowhereKnown, ValuesAreKnown
  <2>3. Witnessed(p) = work /\ ~ \E q \in Procs \ {p} : InTool(q)
    BY <1>2, <2>2 DEF Witnessed
  <2>4. \A q \in Procs : batch[q] = <<>>
    BY <2>1, <2>3 DEF InTool
  <2> QED
    BY <2>3, <2>4 DEF Later
<1> QED
  BY <1>1, <1>2

\* A snapshot that is written is what is known behind the end of the log.
LEMMA SnapshotLater ==
  ASSUME ProcsOK, StagesOK, ToolsOK, OneDriver, NEW p \in Procs, pc[p] = "write",
         job[p].event.kind = "checkpoint", NEW f, NEW x, job[p].event.file = f, Later(f, x)
  PROVE  job[p].event.before \in {x, Skipped} /\ Kept(job[p].event.before)
<1>1. CASE job[p].op = "flush"
  <2>1. batch[p] # <<>> /\ 1 \in 1..Len(batch[p]) /\ Head(batch[p]) = batch[p][1]
    BY <1>1, HeadFacts
  <2>2. Ahead(p, 1, f, x)
    BY <2>1 DEF Later
  <2>3. SameEvent(job[p].event, batch[p][1].event)
    BY <1>1, <2>1 DEF ToolsOK, WriteStage
  <2>4. Clear(p, 1, 1 - 1, f)
    BY DEF Clear
  <2> QED
    BY <2>1, <2>2, <2>3, <2>4 DEF Ahead, SameEvent
<1>2. CASE job[p].op # "flush"
  <2>1. job[p].op = "capture"
    BY <1>2 DEF ToolsOK, WriteStage
  <2>2. job[p].event.before \in {work[f], Skipped} /\ Kept(job[p].event.before)
    BY <2>1 DEF ToolsOK, CaptureStage
  <2>3. x = work[f]
    BY <2>1, RewinderAlone DEF Later
  <2> QED
    BY <2>2, <2>3
<1> QED
  BY <1>1, <1>2

LEMMA WriteKnows ==
  ASSUME DiskOK, ProcsOK, StagesOK, FilesOK, ToolsOK, OneDriver, LogKnows, BatchKnows,
         NEW p \in Procs, Write(p)
  PROVE  LogKnows' /\ BatchKnows'
<1>1. UNCHANGED <<work, blobs>> /\ pc[p] = "write" /\ batch' = AfterHead(p)
  BY DEF Write
<1>2. \A b : Kept(b) => Kept(b)'
  BY <1>1 DEF Kept
<1>3. job[p].op = "flush" => Pops(p)
  BY <1>1 DEF Pops, AfterHead, ProcsOK
<1>4. job[p].op # "flush" => UNCHANGED batch
  BY <1>1 DEF AfterHead
<1>5. BatchKnows'
  <2>1. CASE job[p].op # "flush"
    <3> SUFFICES ASSUME NEW q \in Procs, NEW k \in 1..Len(batch[q]), NEW f \in Files, NEW x \in Values,
                        batch[q][k].was[f] = x
                 PROVE  Ahead(q, k, f, x)'
      BY <1>4, <2>1 DEF BatchKnows
    <3> QED
      BY <1>1, <1>2, <1>4, <2>1, AheadStays DEF BatchKnows
  <2> QED
    BY <1>3, <2>1, BatchPops
<1>6. PICK n \in Nat :
        /\ Len(log) = n /\ Len(log') = n + 1
        /\ \A i \in 1..n : log'[i] = log[i]
        /\ log'[n + 1] = IF torn THEN BadLine ELSE job[p].event
        /\ \A i \in 1..n : \A f \in Files : was'[i][f] = was[i][f] \/ was'[i][f] = Unknown
        /\ \A f \in Files : was'[n + 1][f] = Witnessed(p)[f] \/ was'[n + 1][f] = Unknown
        /\ \A f \in Files : f = job[p].event.file /\ (torn \/ job[p].event.before = Skipped)
             => \A i \in 1..(n + 1) : was'[i][f] = Unknown
  BY WriteLine
<1>7. LogKnows'
  <2> SUFFICES ASSUME NEW i \in 1..(n + 1), NEW f \in Files, NEW x \in Values, was'[i][f] = x
               PROVE  Settled(i, f, x)'
    BY <1>6 DEF LogKnows
  <2>1. f = job[p].event.file => ~torn /\ job[p].event.before # Skipped
    BY <1>6, ValuesAreKnown
  <2>2. i \in 1..n \/ i = n + 1
    BY <1>6
  <2>3. i \in 1..n => Settled(i, f, x)
    BY <1>6, ValuesAreKnown DEF LogKnows
  <2>4. NoneIn(i, n, f) => Later(f, x)
    <3>1. CASE i \in 1..n
      BY <1>6, <2>3, <3>1 DEF Settled
    <3>2. CASE i = n + 1
      BY <1>1, <1>6, <3>2, WitnessedLater, ValuesAreKnown
    <3> QED
      BY <2>2, <3>1, <3>2
  <2>5. ASSUME NEW j \in i..n PROVE i \in 1..n /\ j \in 1..n
    BY <1>6
  <2>6. ASSUME NEW m \in 0..n, NoneIn(i, m, f)' PROVE NoneIn(i, m, f)
    <3>1. \A j \in i..m : j \in 1..n
      BY <1>6
    <3> QED
      BY <1>6, <2>6, <3>1 DEF NoneIn, CkptAt
  <2>7. ASSUME NEW j \in i..(n + 1), CkptAt(j, f)', NoneIn(i, j - 1, f)'
        PROVE  log'[j].before = x /\ Kept(x)'
    <3>1. j - 1 \in 0..n
      BY <1>6
    <3>2. NoneIn(i, j - 1, f)
      BY <2>6, <2>7, <3>1
    <3>3. CASE j \in i..n
      <4>1. CkptAt(j, f) /\ log'[j] = log[j]
        BY <1>6, <2>5, <2>7, <3>3 DEF CkptAt
      <4> QED
        BY <1>2, <1>6, <2>3, <2>5, <3>2, <3>3, <4>1 DEF Settled
    <3>4. CASE j = n + 1
      <4>1. log'[j] = job[p].event
        BY <1>6, <2>7, <3>4, JobShapes DEF CkptAt
      <4>2. job[p].event.kind = "checkpoint" /\ job[p].event.file = f
        BY <2>7, <4>1 DEF CkptAt
      <4>3. Later(f, x)
        <5>1. j - 1 = n
          BY <1>6, <3>4
        <5> QED
          BY <2>4, <3>2, <5>1
      <4>4. job[p].event.before \in {x, Skipped} /\ Kept(job[p].event.before)
        BY <1>1, <4>2, <4>3, SnapshotLater
      <4> QED
        BY <1>2, <2>1, <4>1, <4>2, <4>4
    <3> QED
      BY <1>6, <3>3, <3>4
  <2>8. ASSUME NoneIn(i, n + 1, f)' PROVE Later(f, x)'
    <3>1. NoneIn(i, n, f)'
      <4>1. \A j \in i..n : j \in i..(n + 1)
        BY <1>6
      <4> QED
        BY <2>8, <4>1 DEF NoneIn
    <3>2. NoneIn(i, n, f)
      <4>1. n \in 0..n
        BY <1>6
      <4> QED
        BY <2>6, <3>1, <4>1
    <3>3. Later(f, x)
      BY <2>4, <3>2
    <3>4. CASE job[p].op # "flush"
      BY <1>1, <1>2, <1>4, <3>3, <3>4, LaterStays
    <3>5. CASE job[p].op = "flush"
      <4>1. Head(batch[p]) = batch[p][1] /\ 1 \in 1..Len(batch[p])
        BY <1>1, <3>5, HeadFacts
      <4>2. Head(batch[p]).event.kind = "checkpoint"
        BY <4>1 DEF FilesOK
      <4>3. SameEvent(job[p].event, Head(batch[p]).event)
        BY <1>1, <3>5 DEF ToolsOK, WriteStage
      <4>4. n + 1 \in i..(n + 1)
        BY <1>6
      <4>5. ~CkptAt(n + 1, f)'
        BY <2>8, <4>4 DEF NoneIn
      <4>6. Head(batch[p]).event.file # f
        BY <1>6, <2>1, <4>2, <4>3, <4>5 DEF SameEvent, CkptAt
      <4> QED
        BY <1>3, <3>3, <3>5, <4>6, LaterPops
    <3> QED
      BY <3>4, <3>5
  <2> QED
    BY <1>6, <2>7, <2>8 DEF Settled
<1> QED
  BY <1>5, <1>7

LEMMA KnowsNext ==
  ASSUME IInv, RewindInv, NEW p \in Procs, Operation(p)
  PROVE  LogKnows' /\ BatchKnows'
<1> USE DEF IInv, RewindInv
<1>1. CASE RunTool(p)
  BY <1>1, ToolKnows
<1>2. CASE RestoreFile(p)
  BY <1>2, RestoreKnows
<1>3. CASE Truncate(p)
  BY <1>3, TruncateKnows
<1>4. CASE Prune(p)
  BY <1>4, PruneKnows
<1>5. CASE Write(p)
  BY <1>5, WriteKnows
<1>6. CASE WriteFails(p)
  BY <1>6, WriteFailsKnows
<1>7. CASE RunSnapshot(p)
  BY <1>7, RunSnapshotKnows
<1>8. CASE Crash(p)
  BY <1>8, CrashKnows
<1>9. CASE /\ ~RunTool(p) /\ ~RestoreFile(p) /\ ~Truncate(p) /\ ~Prune(p)
           /\ ~Write(p) /\ ~WriteFails(p) /\ ~RunSnapshot(p) /\ ~Crash(p)
  <2>1. UNCHANGED <<log, work, batch>>
    BY <1>9, Frames
  <2>2. NoMoreKnown
    BY <1>9, ForgetsOnly
  <2>3. \A b : Kept(b) => Kept(b)'
    BY <1>9, BlobsStay
  <2> QED
    BY <2>1, <2>2, <2>3, QuietKnows
<1> QED
  BY <1>1, <1>2, <1>3, <1>4, <1>5, <1>6, <1>7, <1>8, <1>9

-----------------------------------------------------------------------------
(* Tools and their snapshots.                                              *)

LEMMA CoveredStays ==
  ASSUME log' = log, NoMoreKnown, NEW f \in Files, Covered(f)
  PROVE  Covered(f)'
  BY DEF NoMoreKnown, Covered, NoneIn, CkptAt

\* While a tool runs, nobody vouches for its file.
LEMMA ToolCovered ==
  ASSUME IInv, RewindInv, NEW p \in Procs, Operation(p), NEW q \in Procs, q # p, InTool(q),
         NEW f \in Files, Covered(f)
  PROVE  Covered(f)'
<1> USE DEF IInv, RewindInv
<1>1. ~Driving(p)
  BY DEF OneDriver, Driving
<1>2. CASE Write(p)
  <2>1. pc[p] = "write"
    BY <1>2 DEF Write
  <2>2. job[p].op # "flush"
    BY <1>1, <2>1, HeadFacts DEF Driving, InTool
  <2>3. Witnessed(p) = Nowhere
    BY <2>2 DEF Witnessed
  <2>4. PICK n \in Nat :
          /\ Len(log) = n /\ Len(log') = n + 1
          /\ \A i \in 1..n : log'[i] = log[i]
          /\ \A i \in 1..n : was'[i][f] = was[i][f] \/ was'[i][f] = Unknown
          /\ was'[n + 1][f] = Witnessed(p)[f] \/ was'[n + 1][f] = Unknown
    BY <1>2, WriteLine
  <2>5. was'[n + 1][f] = Unknown
    BY <2>3, <2>4, NowhereKnown
  <2>6. ASSUME NEW i \in 1..n, was'[i][f] # Unknown PROVE ~NoneIn(i, n + 1, f)'
    <3>1. PICK j \in i..n : CkptAt(j, f)
      BY <2>4, <2>6 DEF Covered, NoneIn
    <3>2. j \in 1..n /\ j \in i..(n + 1)
      BY <2>4
    <3>3. CkptAt(j, f)'
      BY <2>4, <3>1, <3>2 DEF CkptAt
    <3> QED
      BY <3>2, <3>3 DEF NoneIn
  <2>7. \A i \in 1..(n + 1) : i \in 1..n \/ i = n + 1
    BY <2>4
  <2> QED
    BY <2>4, <2>5, <2>6, <2>7 DEF Covered
<1>3. CASE Truncate(p)
  BY <1>1, <1>3 DEF Truncate, StagesOK, Driving
<1>4. CASE ~Write(p) /\ ~Truncate(p)
  BY <1>4, ForgetsOnly, CoveredStays
<1> QED
  BY <1>2, <1>3, <1>4

LEMMA OtherTools ==
  ASSUME IInv, RewindInv, NEW p \in Procs, Operation(p), NEW q \in Procs, q # p
  PROVE  WriteStage(q)' /\ CaptureStage(q)' /\ ToolStage(q)'
<1> USE DEF IInv, RewindInv
<1>1. pc'[q] = pc[q] /\ job'[q] = job[q] /\ batch'[q] = batch[q]
  BY OthersStay
<1>2. WriteStage(q) /\ CaptureStage(q) /\ ToolStage(q)
  BY DEF ToolsOK
<1>3. WriteStage(q)'
  BY <1>1, <1>2 DEF WriteStage
<1>4. CaptureStage(q)'
  <2> SUFFICES ASSUME job[q].op = "capture" PROVE CaptureStage(q)'
    BY <1>1 DEF CaptureStage
  <2>1. ~Driving(p)
    BY DEF OneDriver, Driving
  <2>2. ~RunTool(p) /\ ~RestoreFile(p) /\ ~Prune(p)
    BY <2>1 DEF RunTool, RestoreFile, Prune, StagesOK, Driving, InTool
  <2>3. UNCHANGED work
    BY <2>2, Frames
  <2>4. \A b : Kept(b) => Kept(b)'
    BY <2>2, BlobsStay
  <2>5. ASSUME pc[q] = "commit" PROVE Covered(job[q].event.file)'
    <3>1. ~Write(p) /\ ~Truncate(p)
      BY <2>5 DEF Exclusive, Locked, Write, Truncate
    <3>2. log' = log /\ NoMoreKnown
      BY <3>1, ForgetsOnly
    <3>3. PICK f \in Files : job[q].event.file = f /\ job'[q].event.file = f /\ Covered(f)
      BY <1>1, <1>2, <2>5 DEF CaptureStage
    <3>4. Covered(f)'
      BY <3>2, <3>3, CoveredStays
    <3> QED
      BY <3>3, <3>4
  <2> QED
    BY <1>1, <1>2, <2>3, <2>4, <2>5 DEF CaptureStage
<1>5. ToolStage(q)'
  <2> SUFFICES ASSUME pc[q] = "tool" PROVE ToolStage(q)'
    BY <1>1 DEF ToolStage
  <2>1. PICK f \in Files : job[q].event.file = f /\ job'[q].event.file = f
    BY <1>1, <1>2 DEF ToolStage
  <2>2. Covered(f) => Covered(f)'
    BY ToolCovered DEF InTool
  <2> QED
    BY <1>1, <1>2, <2>1, <2>2 DEF ToolStage
<1> QED
  BY <1>3, <1>4, <1>5

LEMMA ToolsNext ==
  ASSUME IInv, RewindInv, NEW p \in Procs, Operation(p)
  PROVE  ToolsOK'
<1> USE DEF IInv, RewindInv
<1>0. WriteStage(p) /\ CaptureStage(p) /\ ToolStage(p) /\ JobShape(job[p])
  BY DEF ToolsOK, ProcsOK
<1>1. WriteStage(p)' /\ CaptureStage(p)' /\ ToolStage(p)'
  <2> DEFINE OK == WriteStage(p)' /\ CaptureStage(p)' /\ ToolStage(p)'
  <2> USE DEF ProcsOK, Goto, Set, LockSession, GiveUp
  <2>1. CASE AppendMessage(p) \/ AppendOnce(p) \/ ApplyRewind(p)
    <3>1. /\ batch'[p] = <<>> /\ pc'[p] \in {"number", "check", "restore"}
          /\ job'[p].op \in Plain /\ job'[p].event.kind # "checkpoint"
      <4>1. CASE AppendMessage(p)
        BY <4>1 DEF AppendMessage, Idle, Job, NoJob, Event, Plain
      <4>2. CASE AppendOnce(p)
        BY <4>2 DEF AppendOnce, Idle, Job, NoJob, Event, Plain
      <4>3. CASE ApplyRewind(p)
        BY <4>3 DEF ApplyRewind, Idle, Job, NoJob, Event, Plain
      <4> QED
        BY <2>1, <4>1, <4>2, <4>3
    <3> QED
      BY <3>1 DEF WriteStage, CaptureStage, ToolStage, Plain
  <2>2. CASE Capture(p)
    <3>1. /\ batch'[p] = <<>> /\ pc'[p] = "snapshot" /\ p \notin Tuis
          /\ job'[p].op = "capture" /\ job'[p].event.kind = "checkpoint" /\ job'[p].event.file \in Files
      BY <2>2 DEF Capture, Idle, Job, NoJob, Event
    <3> QED
      BY <3>1 DEF WriteStage, CaptureStage, ToolStage, Plain
  <2>3. CASE FlushNext(p)
    BY <1>0, <2>3 DEF FlushNext, StagesOK, WriteStage, CaptureStage, ToolStage, Plain
  <2>4. CASE Check(p)
    BY <1>0, <2>4, JobShapes DEF Check, StagesOK, WriteStage, CaptureStage, ToolStage, Plain
  <2>5. CASE Snapshot(p)
    <3>1. UNCHANGED <<work, batch>> /\ pc'[p] = "number" /\ job[p].op = "capture"
      BY <2>5 DEF Snapshot, StagesOK
    <3>2. PICK b : /\ b \in {work[job[p].event.file], Skipped}
                   /\ blobs' = Stored(b) /\ job'[p] = [job[p] EXCEPT !.event.before = b]
      BY <2>5 DEF Snapshot
    <3>3. /\ job'[p].op = job[p].op /\ job'[p].event.before = b
          /\ job'[p].event.file = job[p].event.file /\ job'[p].event.kind = job[p].event.kind
      BY <1>0, <3>2 DEF JobShape, Shape
    <3>4. Kept(b)'
      BY <3>2 DEF Kept, Stored
    <3>5. WriteStage(p)' /\ ToolStage(p)'
      BY <1>0, <3>1, <3>3 DEF WriteStage, ToolStage, Plain
    <3>6. CaptureStage(p)'
      BY <1>0, <3>1, <3>2, <3>3, <3>4 DEF CaptureStage, Kept
    <3> QED
      BY <3>5, <3>6
  <2>6. CASE Number(p)
    <3>1. UNCHANGED <<work, batch, blobs>> /\ pc[p] = "number" /\ pc'[p] = "write"
      BY <2>6 DEF Number, disk
    <3>2. Shape(Pending(p)) /\ NextSequence \in Nat
      BY <3>1, PendingShape, NextIsNat
    <3>3. job'[p] = [job[p] EXCEPT !.event = [Pending(p) EXCEPT !.seq = NextSequence]]
      BY <2>6 DEF Number
    <3>4. job'[p].op = job[p].op /\ job'[p].event = [Pending(p) EXCEPT !.seq = NextSequence]
      BY <1>0, <3>3 DEF JobShape
    <3>5. SameEvent(job'[p].event, Pending(p)) /\ job'[p].event.seq = NextSequence
      BY <3>2, <3>4 DEF SameEvent, Shape
    <3>6. NextSequence > 0
      <4>1. LastSequence \in Nat /\ count \in Nat
        BY NextIsNat DEF DiskOK
      <4> QED
        BY <4>1 DEF NextSequence
    <3>7. WriteStage(p)' /\ ToolStage(p)'
      BY <1>0, <3>1, <3>4, <3>5, <3>6 DEF WriteStage, ToolStage, Plain, SameEvent, Pending
    <3>8. CaptureStage(p)'
      BY <1>0, <3>1, <3>4, <3>5 DEF CaptureStage, SameEvent, Pending, Kept
    <3> QED
      BY <3>7, <3>8
  <2>7. CASE Write(p)
    <3>1. /\ UNCHANGED <<work, blobs, job>> /\ pc[p] = "write" /\ pc'[p] = "commit"
          /\ batch'[p] = IF job[p].op = "flush" THEN Tail(batch[p]) ELSE batch[p]
      BY <2>7 DEF Write, AfterHead
    <3>2. job[p].op = "flush" => p \in Tuis
      BY <1>0, <3>1, HeadFacts DEF WriteStage
    <3>3. WriteStage(p)' /\ ToolStage(p)'
      BY <1>0, <3>1, <3>2 DEF WriteStage, ToolStage, Plain
    <3>4. ASSUME job[p].op = "capture" PROVE Covered(job[p].event.file)'
      <4>1. PICK n \in Nat :
              /\ Len(log) = n /\ Len(log') = n + 1
              /\ log'[n + 1] = IF torn THEN BadLine ELSE job[p].event
              /\ \A f \in Files : f = job[p].event.file /\ (torn \/ job[p].event.before = Skipped)
                   => \A i \in 1..(n + 1) : was'[i][f] = Unknown
        BY <2>7, WriteLine
      <4>2. PICK f \in Files : f = job[p].event.file /\ f = job'[p].event.file
        BY <1>0, <3>1, <3>4 DEF CaptureStage
      <4>3. CASE torn
        BY <4>1, <4>2, <4>3 DEF Covered
      <4>4. CASE ~torn
        <5>1. CkptAt(n + 1, f)'
          BY <1>0, <3>4, <4>1, <4>2, <4>4 DEF CkptAt, CaptureStage
        <5>2. \A i \in 1..(n + 1) : n + 1 \in i..(n + 1)
          BY <4>1
        <5>3. \A i \in 1..(n + 1) : ~NoneIn(i, n + 1, f)'
          BY <5>1, <5>2 DEF NoneIn
        <5> QED
          BY <4>1, <4>2, <5>3 DEF Covered
      <4> QED
        BY <4>3, <4>4
    <3>5. CaptureStage(p)'
      BY <1>0, <3>1, <3>4 DEF CaptureStage
    <3> QED
      BY <3>3, <3>5
  <2>8. CASE Commit(p) \/ WriteFails(p)
    <3>1. /\ pc[p] \in {"write", "commit"} /\ Return(p)
          /\ batch'[p] = IF job[p].op = "flush" /\ pc[p] = "write" THEN Tail(batch[p]) ELSE batch[p]
      BY <2>8 DEF Commit, WriteFails, AfterHead
    <3>2. p \notin Tuis => batch'[p] = <<>>
      BY <1>0, <3>1, HeadFacts DEF WriteStage
    <3>3. CASE job[p].op # "capture"
      <4>1. \/ pc'[p] = "lock" /\ job'[p] = Job("flush", BadLine)
            \/ pc'[p] = "idle" /\ job'[p] = NoJob
        BY <3>1, <3>3 DEF Return
      <4> QED
        BY <3>2, <4>1, JobShapes DEF WriteStage, CaptureStage, ToolStage, Plain
    <3>4. CASE job[p].op = "capture"
      <4>1. pc'[p] = "tool" /\ job'[p] = Job("tool", job[p].event)
        BY <3>1, <3>4 DEF Return
      <4>2. job'[p].op = "tool" /\ job'[p].event = job[p].event
        BY <4>1 DEF Job, NoJob
      <4>3. PICK f \in Files : f = job[p].event.file /\ f = job'[p].event.file /\ p \notin Tuis
        BY <1>0, <3>4, <4>2 DEF CaptureStage
      <4>4. Covered(f)'
        <5>1. CASE Commit(p)
          <6>1. pc[p] = "commit" /\ UNCHANGED <<log, was>>
            BY <5>1 DEF Commit
          <6>2. Covered(f)
            BY <1>0, <3>4, <4>3, <6>1 DEF CaptureStage
          <6> QED
            BY <6>1, <6>2 DEF Covered, NoneIn, CkptAt
        <5>2. CASE WriteFails(p)
          <6>1. was' = Forget(was, {f}) /\ log' = log
            BY <4>3, <5>2 DEF WriteFails
          <6>2. Len(log) \in Nat /\ Witnesses(was, Len(log))
            BY DEF DiskOK, IsSeq, FilesOK
          <6>3. \A i \in 1..Len(log) : was'[i][f] = Unknown
            BY <6>1, <6>2, ForgetFacts
          <6> QED
            BY <6>1, <6>3 DEF Covered
        <5> QED
          BY <2>8, <5>1, <5>2
      <4> QED
        BY <3>2, <4>1, <4>2, <4>3, <4>4 DEF WriteStage, CaptureStage, ToolStage, Plain
    <3> QED
      BY <3>3, <3>4
  <2>9. CASE RunSnapshot(p)
    <3>1. PICK h, b :
            /\ h \in Files /\ p \in Tuis /\ pc'[p] = "tool" /\ job'[p] = Job("tool", Event("checkpoint", h, b))
            /\ batch' = [batch EXCEPT ![p] = Append(@, [event |-> Event("checkpoint", h, b), was |-> work])]
      BY <2>9 DEF RunSnapshot
    <3> DEFINE e == [event |-> Event("checkpoint", h, b), was |-> work]
    <3>2. batch'[p] = Append(batch[p], e) /\ e.event.file = h
      BY <3>1 DEF Event
    <3>3. job'[p].op = "tool" /\ job'[p].event.file = h
      BY <3>1 DEF Job, NoJob, Event
    <3> HIDE DEF e
    <3>4. /\ Len(batch[p]) \in Nat /\ Len(batch'[p]) = Len(batch[p]) + 1
          /\ batch'[p][Len(batch[p]) + 1] = e
      <4>1. IsSeq(batch[p])
        BY DEF BatchShape
      <4> QED
        BY <3>2, <4>1, AppendFacts
    <3>5. batch'[p] # <<>> /\ batch'[p][Len(batch'[p])].event.file = h
      BY <3>2, <3>4, EmptyIsSeq
    <3> QED
      BY <3>1, <3>3, <3>5 DEF WriteStage, CaptureStage, ToolStage, Plain
  <2>10. CASE RunTool(p) \/ EndRun(p) \/ Crash(p)
    BY <1>0, <2>10, JobShapes DEF RunTool, EndRun, Crash, WriteStage, CaptureStage, ToolStage, Plain
  <2>11. CASE RestoreFile(p)
    <3>1. /\ UNCHANGED <<pc, batch>> /\ pc[p] = "restore"
      BY <2>11 DEF RestoreFile
    <3>2. job'[p].op = job[p].op /\ job'[p].event = job[p].event /\ job[p].op = "rewind"
      BY <2>11, <3>1, RestoreFacts DEF StagesOK
    <3> QED
      BY <1>0, <3>1, <3>2 DEF WriteStage, CaptureStage, ToolStage, Plain
  <2>12. CASE RestoreFails(p) \/ Truncate(p) \/ Count(p) \/ Prune(p)
    BY <1>0, <2>12, JobShapes
       DEF RestoreFails, Truncate, Count, Prune, StagesOK, WriteStage, CaptureStage, ToolStage, Plain
  <2> QED
    BY <2>1, <2>2, <2>3, <2>4, <2>5, <2>6, <2>7, <2>8, <2>9, <2>10, <2>11, <2>12 DEF Operation
<1> QED
  BY <1>1, OtherTools DEF ToolsOK

-----------------------------------------------------------------------------
(* The rewind.                                                             *)

LEMMA RestoreArrives ==
  ASSUME ProcsOK, NEW p \in Procs, Operation(p), pc'[p] = "restore"
  PROVE  ApplyRewind(p) \/ RestoreFile(p)
<1> USE DEF ProcsOK, Goto, Set, LockSession, GiveUp, Return
<1>1. CASE AppendMessage(p) \/ AppendOnce(p) \/ Capture(p) \/ FlushNext(p)
  BY <1>1 DEF AppendMessage, AppendOnce, Capture, FlushNext
<1>2. CASE Check(p) \/ Snapshot(p) \/ Number(p) \/ Write(p)
  BY <1>2 DEF Check, Snapshot, Number, Write
<1>3. CASE Commit(p) \/ WriteFails(p)
  BY <1>3 DEF Commit, WriteFails
<1>4. CASE RunSnapshot(p) \/ RunTool(p) \/ EndRun(p) \/ Crash(p)
  BY <1>4 DEF RunSnapshot, RunTool, EndRun, Crash
<1>5. CASE RestoreFails(p) \/ Truncate(p) \/ Count(p) \/ Prune(p)
  BY <1>5 DEF RestoreFails, Truncate, Count, Prune
<1> QED
  BY <1>1, <1>2, <1>3, <1>4, <1>5 DEF Operation

LEMMA RewindingNext ==
  ASSUME IInv, RewindInv, NEW p \in Procs, Operation(p)
  PROVE  Rewinding'
<1> USE DEF IInv, RewindInv
<1> SUFFICES ASSUME NEW q \in Procs, pc'[q] = "restore",
                    NEW i \in 1..Len(log'),
                    NEW f \in Files \ (job'[q].todo \cup job'[q].skipped), NEW x \in Values,
                    was'[i][f] = x, Upto(i, job[q].target)',
                    \A j \in i..Len(log') : CkptAt(j, f)' => log'[j].seq > job'[q].target
             PROVE  x = work'[f]
  BY DEF Rewinding
<1>1. CASE q # p
  <2>1. pc[q] = "restore" /\ job'[q] = job[q]
    BY <1>1, OthersStay
  <2>2. Driving(q)
    BY <2>1 DEF StagesOK, Driving
  <2>3. ~Driving(p) /\ pc[p] \notin Locked
    BY <1>1, <2>1, <2>2 DEF OneDriver, Exclusive, Locked
  <2>4. ~RunTool(p) /\ ~RestoreFile(p) /\ ~Write(p) /\ ~Truncate(p)
    BY <2>3 DEF RunTool, RestoreFile, Write, Truncate, Driving, InTool, Locked
  <2>5. UNCHANGED <<log, work>> /\ NoMoreKnown
    BY <2>4, Frames, ForgetsOnly
  <2>6. i \in 1..Len(log) /\ was[i][f] = x
    BY <2>5, ValuesAreKnown DEF NoMoreKnown
  <2>7. Upto(i, job[q].target)
    BY <2>1, <2>5 DEF Upto
  <2>8. \A j \in i..Len(log) : CkptAt(j, f) => log[j].seq > job[q].target
    BY <2>1, <2>5 DEF CkptAt
  <2> QED
    BY <2>1, <2>5, <2>6, <2>7, <2>8 DEF Rewinding
<1>2. CASE q = p /\ ApplyRewind(p)
  <2>1. job'[p].todo = Files
    BY <1>2 DEF ApplyRewind, Set, ProcsOK, Job, NoJob, Event
  <2> QED
    BY <1>2, <2>1
<1>3. CASE q = p /\ RestoreFile(p)
  <2>1. /\ UNCHANGED <<log, pc>> /\ pc[p] = "restore" /\ Readable
        /\ was' = Undone(job[p].target)
    BY <1>3 DEF RestoreFile, disk
  <2>2. PICK h, b :
          /\ h \in job[p].todo /\ b \in {work[h], Restored(h, job[p].target)}
          /\ work' = [work EXCEPT ![h] = b]
          /\ job'[p].todo = job[p].todo \ {h} /\ job'[p].target = job[p].target
          /\ job'[p].skipped \in {job[p].skipped, job[p].skipped \cup {h}}
          /\ b = Restored(h, job[p].target) \/ h \in job'[p].skipped
    BY <1>3, RestoreFacts
  <2>3. JobShape(job[p])
    BY DEF ProcsOK
  <2>4. job'[p].todo = job[p].todo \ {h} /\ job'[p].target = job[p].target /\ job[p].target \in Nat
    BY <2>2, <2>3 DEF JobShape
  <2>5. Upto(i, job[p].target) /\ was[i][f] = x /\ i \in 1..Len(log)
    BY <2>1, <2>4, UndoneFacts, ValuesAreKnown DEF FilesOK
  <2>6. \A j \in i..Len(log) : CkptAt(j, f) => log[j].seq > job[p].target
    BY <1>3, <2>1, <2>4 DEF CkptAt
  <2>7. CASE f = h
    <3>1. Restored(f, job[p].target) = x
      BY <2>1, <2>4, <2>5, <2>6, RestoreMakes
    <3>2. b = Restored(f, job[p].target)
      BY <1>3, <2>2, <2>7
    <3> QED
      BY <2>2, <2>7, <3>1, <3>2 DEF FilesOK, World
  <2>8. CASE f # h
    <3>1. f \in Files \ (job[p].todo \cup job[p].skipped)
      BY <1>3, <2>2, <2>4, <2>8
    <3>2. x = work[f]
      BY <2>1, <2>5, <2>6, <3>1 DEF Rewinding
    <3> QED
      BY <2>2, <2>8, <3>2 DEF FilesOK, World
  <2> QED
    BY <2>7, <2>8
<1> QED
  BY <1>1, <1>2, <1>3, RestoreArrives

-----------------------------------------------------------------------------
LEMMA RewindPower ==
  ASSUME IInv, RewindInv, PowerFails
  PROVE  RewindInv'
<1> USE DEF IInv, RewindInv
<1>1. \A p \in Procs : pc'[p] = "idle" /\ job'[p] = NoJob /\ batch'[p] = <<>>
  BY DEF PowerFails
<1>2. OneDriver'
  BY <1>1, JobShapes DEF OneDriver, Driving, InTool
<1>3. ToolsOK'
  BY <1>1, JobShapes DEF ToolsOK, WriteStage, CaptureStage, ToolStage, Plain
<1>4. Rewinding'
  BY <1>1 DEF Rewinding
<1> QED
  BY <1>2, <1>3, <1>4, PowerKnows

LEMMA RewindStutter ==
  ASSUME RewindInv, UNCHANGED vars
  PROVE  RewindInv'
<1> USE DEF RewindInv, vars, disk, bounds
<1>1. FilesOK' /\ OneDriver'
  BY DEF FilesOK, OneDriver, Driving, InTool
<1>2. LogKnows' /\ BatchKnows'
  <2>1. NoMoreKnown /\ \A b : Kept(b) => Kept(b)'
    BY DEF NoMoreKnown, Kept
  <2> QED
    BY <2>1, QuietKnows
<1>3. ToolsOK'
  BY DEF ToolsOK, WriteStage, CaptureStage, ToolStage, Covered, NoneIn, CkptAt, Kept, SameEvent
<1>4. Rewinding'
  BY DEF Rewinding, Upto, CkptAt
<1> QED
  BY <1>1, <1>2, <1>3, <1>4

LEMMA NextRewindInv ==
  ASSUME IInv, RewindInv, [Next]_vars
  PROVE  RewindInv'
<1>1. CASE PowerFails
  BY <1>1, RewindPower
<1>2. CASE UNCHANGED vars
  BY <1>2, RewindStutter
<1>3. ASSUME NEW p \in Procs, Operation(p) PROVE RewindInv'
  <2>1. FilesOK' /\ OneDriver'
    BY <1>3, FilesNext, DriverNext DEF IInv, RewindInv
  <2>2. LogKnows' /\ BatchKnows'
    BY <1>3, KnowsNext
  <2>3. ToolsOK' /\ Rewinding'
    BY <1>3, ToolsNext, RewindingNext
  <2> QED
    BY <2>1, <2>2, <2>3 DEF RewindInv
<1> QED
  BY <1>1, <1>2, <1>3 DEF Next

\* Only a rewind that has done with every file goes on to the count.
LEMMA CutsAtTruncate ==
  ASSUME ProcsOK, [Next]_vars, NEW p \in Procs, pc[p] = "restore", pc'[p] = "count"
  PROVE  Truncate(p)
<1>1. ~PowerFails /\ ~UNCHANGED vars
  BY DEF PowerFails, vars
<1>2. PICK q \in Procs : Operation(q)
  BY <1>1 DEF Next
<1>3. q = p
  BY <1>2, OthersStay
<1>4. RestoreFile(p) \/ RestoreFails(p) \/ Truncate(p) \/ Crash(p)
  BY <1>2, <1>3 DEF Operation, AppendMessage, AppendOnce, Capture, ApplyRewind, Idle, FlushNext,
     Check, Snapshot, Number, Write, Commit, WriteFails, RunSnapshot, RunTool, EndRun, Count, Prune
<1> QED
  BY <1>4 DEF RestoreFile, RestoreFails, GiveUp, Crash, Goto, ProcsOK

\* Whatever went before, a rewind that cuts the log has put back every file that the
\* first event it cuts vouches for, or reports it as skipped.  (ApplyRewind)
THEOREM RewindDoesOrReports == Spec => RewoundOrReported
<1>1. ASSUME IInv, RewindInv, [Next]_vars, NEW p \in Procs, pc[p] = "restore", pc'[p] = "count",
             Len(log') < Len(log), NEW f \in Files
      PROVE  was[Len(log') + 1][f] \in {Unknown, work[f]} \/ f \in job[p].skipped
  <2> USE DEF IInv, RewindInv
  <2>1. Truncate(p)
    BY <1>1, CutsAtTruncate
  <2>2. PICK n \in 0..Len(log) :
          /\ Len(log) \in Nat /\ Len(log') = n
          /\ \A i \in 1..Len(log) : i <= n <=> log[i].seq <= job[p].target
    BY <1>1, <2>1, TruncateLines
  <2>3. n \in Nat /\ n + 1 \in 1..Len(log) /\ (n + 1) - 1 = n /\ (n + 1 # 1 => n \in 1..Len(log))
    BY <1>1, <2>2
  <2>4. Upto(n + 1, job[p].target)
    BY <2>2, <2>3 DEF Upto
  <2>5. ASSUME NEW j \in (n + 1)..Len(log) PROVE log[j].seq > job[p].target
    <3>1. j \in 1..Len(log) /\ ~(j <= n)
      BY <2>2, <2>3
    <3>2. log[j].seq \in Nat /\ job[p].target \in Nat
      BY <1>1, <3>1 DEF DiskOK, Shape, ProcsOK, JobShape
    <3> QED
      BY <2>2, <3>1, <3>2
  <2>6. was[n + 1][f] \in Values \cup {Unknown}
    BY <1>1, <2>3 DEF FilesOK, Witnesses, Known
  <2>7. job[p].todo = {}
    BY <2>1 DEF Truncate
  <2> QED
    BY <1>1, <2>2, <2>3, <2>4, <2>5, <2>6, <2>7 DEF Rewinding
<1>2. IInv /\ RewindInv /\ [Next]_vars =>
        [\A p \in Procs : pc[p] = "restore" /\ pc'[p] = "count" /\ Len(log') < Len(log) =>
           \A f \in Files :
             was[Len(log') + 1][f] \in {Unknown, work[f]} \/ f \in job[p].skipped]_vars
  BY <1>1
<1>3. IInv /\ RewindInv /\ [Next]_vars => RewindInv'
  BY NextRewindInv
<1> QED
  BY SessionInvariant, InitRewindInv, <1>2, <1>3, PTL DEF Spec, RewoundOrReported

\* The log and the blobs always have what it takes to put back every file the log
\* vouches for, whatever crashes, lost lines, half-finished rewinds and rewinds that
\* skipped files went before.
\* (RestoreToSequence, CaptureToolCheckpoint, pruneOrphanBlobs)
THEOREM RewindAlwaysRestores == Spec => []RewindRestores
<1>1. IInv /\ RewindInv => RewindRestores
  <2> SUFFICES ASSUME IInv, RewindInv, Readable, \A p \in Procs : batch[p] = <<>>,
                      NEW i \in DOMAIN log, NEW f \in Files, was[i][f] # Unknown
               PROVE  was[i][f] = Restored(f, IF i = 1 THEN 0 ELSE log[i - 1].seq)
    BY DEF RewindRestores
  <2> USE DEF IInv, RewindInv
  <2>1. Len(log) \in Nat /\ DOMAIN log = 1..Len(log) /\ i \in 1..Len(log)
    BY DEF DiskOK, IsSeq
  <2>2. was[i][f] \in Values
    BY <2>1 DEF FilesOK, Witnesses, Known
  <2>3. Settled(i, f, was[i][f])
    BY <2>1, <2>2 DEF LogKnows
  <2> DEFINE t == IF i = 1 THEN 0 ELSE log[i - 1].seq
  <2>4. ASSUME NEW j \in 1..Len(log), CkptAt(j, f) PROVE log[j].seq > t <=> j >= i
    <3>1. Good(j) /\ Good(i - 1)
      BY <2>1, ReadableIsGood DEF Good
    <3>2. log[j].seq \in Nat /\ log[j].seq > 0
      BY <2>4 DEF DiskOK, Shape, FilesOK, CkptAt
    <3>3. CASE i = 1
      BY <3>2, <3>3
    <3>4. CASE i # 1
      <4>1. i - 1 \in 1..Len(log) /\ log[i - 1].seq \in Nat
        BY <2>1, <3>4 DEF DiskOK, Shape
      <4>2. j >= i => log[i - 1].seq < log[j].seq
        <5>1. j >= i => i - 1 \in 1..(j - 1)
          BY <2>1, <4>1
        <5> QED
          BY <3>1, <5>1 DEF PrefixesIncrease
      <4>3. j < i => log[j].seq <= log[i - 1].seq
        <5>1. j < i => j = i - 1 \/ j \in 1..((i - 1) - 1)
          BY <2>1
        <5> QED
          BY <3>1, <3>2, <4>1, <5>1 DEF PrefixesIncrease
      <4> QED
        BY <2>1, <3>2, <3>4, <4>1, <4>2, <4>3
    <3> QED
      BY <3>3, <3>4
  <2> HIDE DEF t
  <2>5. Restored(f, t) = was[i][f]
    BY <2>1, <2>2, <2>3, <2>4, RestoredIs
  <2> QED
    BY <2>5 DEF t
<1>2. IInv /\ RewindInv /\ [Next]_vars => RewindInv'
  BY NextRewindInv
<1> QED
  BY SessionInvariant, InitRewindInv, <1>1, <1>2, PTL DEF Spec
=============================================================================
