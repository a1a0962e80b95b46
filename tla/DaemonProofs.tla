---------------------------- MODULE DaemonProofs ----------------------------
(***************************************************************************)
(* Theorems about DaemonLock, for any number of processes, about           *)
(* DaemonServer, for any number of connections, and about DaemonSession,   *)
(* for any number of clients and any lengths of the ring, the channels and *)
(* the run.                                                                *)
(***************************************************************************)
EXTENDS DaemonLock, DaemonServer, DaemonSession, WellFoundedInduction, TLAPS

-----------------------------------------------------------------------------
(* The lock.                                                               *)

LEMMA Distinct == Empty \notin Procs /\ NoFile \notin Procs /\ NoFile # Empty
  BY FileAssumption

\* A file and its creator come and go together.
FilesInv ==
  /\ lock = NoFile <=> mine = NoFile
  /\ \A p \in Procs : aside[p] = NoFile <=> asideOf[p] = NoFile

TypeInv == TypeOK /\ FilesInv

LEMMA TypeStep == TypeInv /\ [Next]_vars => TypeInv'
<1> SUFFICES ASSUME TypeInv, [Next]_vars PROVE TypeInv'
  OBVIOUS
<1> USE Distinct DEF TypeInv, TypeOK, FilesInv, Stages, Starting, Alive, Goto
<1>1. ASSUME NEW p \in Procs, Start(p) PROVE TypeInv'
  BY <1>1 DEF Start
<1>2. ASSUME NEW p \in Procs, Create(p) PROVE TypeInv'
  BY <1>2 DEF Create
<1>3. ASSUME NEW p \in Procs, WritePid(p) PROVE TypeInv'
  BY <1>3 DEF WritePid
<1>4. ASSUME NEW p \in Procs, WriteFails(p) \/ ReadPid(p) \/ CheckAside(p) PROVE TypeInv'
  BY <1>4 DEF WriteFails, ReadPid, CheckAside
<1>5. ASSUME NEW p \in Procs, RenameAside(p) PROVE TypeInv'
  BY <1>5 DEF RenameAside, Retry
<1>6. ASSUME NEW p \in Procs, Restore(p) PROVE TypeInv'
  BY <1>6 DEF Restore, TakeAside, Retry
<1>7. ASSUME NEW p \in Procs, RemoveAside(p) PROVE TypeInv'
  BY <1>7 DEF RemoveAside, TakeAside, Retry
<1>8. ASSUME NEW p \in Procs, Release(p) \/ Crash(p) PROVE TypeInv'
  BY <1>8 DEF Release, Crash
<1>9. CASE UNCHANGED vars
  BY <1>9 DEF vars
<1> QED
  BY <1>1, <1>2, <1>3, <1>4, <1>5, <1>6, <1>7, <1>8, <1>9 DEF Next, Acquire

LEMMA TypeInvariant == Spec => []TypeInv
<1>1. Init => TypeInv
  BY DEF Init, TypeInv, TypeOK, FilesInv, Stages
<1> QED
  BY <1>1, TypeStep, PTL DEF Spec

\* The variables keep their types.
THEOREM TypeCorrect == Spec => []TypeOK
<1>1. TypeInv => TypeOK
  BY DEF TypeInv
<1> QED
  BY <1>1, TypeInvariant, PTL

-----------------------------------------------------------------------------
\* A daemon that holds its lock while every other process is still at the
\* checks keeps it, however many start beside it and wherever they crash.
THEOREM SettledForever == Spec => SettledDaemonKeepsLock
<1>1. TypeOK /\ [Next]_vars =>
        [\A p \in Procs : Settled(p) /\ pc'[p] = "serving" => Settled(p)']_vars
  <2> SUFFICES ASSUME TypeOK, Next, NEW p \in Procs, Settled(p), pc'[p] = "serving"
               PROVE  Settled(p)'
    BY DEF Settled, Alive, Starting, vars
  <2> USE Distinct DEF TypeOK, Settled, Starting, Alive, Goto
  <2>1. ASSUME NEW q \in Procs, Start(q) PROVE Settled(p)'
    BY <2>1 DEF Start
  <2>2. ASSUME NEW q \in Procs, Create(q) PROVE Settled(p)'
    BY <2>2 DEF Create
  <2>3. ASSUME NEW q \in Procs, ReadPid(q) PROVE Settled(p)'
    BY <2>3 DEF ReadPid, LivePid
  <2>4. ASSUME NEW q \in Procs, Crash(q) \/ Release(q) PROVE Settled(p)'
    BY <2>4 DEF Crash, Release
  <2>5. ASSUME NEW q \in Procs
        PROVE  ~ (WritePid(q) \/ WriteFails(q) \/ RenameAside(q) \/ CheckAside(q)
                   \/ Restore(q) \/ RemoveAside(q))
    BY DEF WritePid, WriteFails, RenameAside, CheckAside, Restore, RemoveAside
  <2> QED
    BY <2>1, <2>2, <2>3, <2>4, <2>5 DEF Next, Acquire
<1>2. TypeInv => TypeOK
  BY DEF TypeInv
<1> QED
  BY <1>1, <1>2, TypeInvariant, PTL DEF Spec, SettledDaemonKeepsLock

-----------------------------------------------------------------------------
\* The PID of a process is in no file before the process has written it.
PidInv ==
  \A p \in Procs : pc[p] \in Starting \cup {"new"} =>
    lock # p /\ \A q \in Procs : aside[q] # p

NewInv == \A p \in Procs : pc[p] = "new" => pass[p] = 0

\* Where a process that is alone stands: it finds at most one stale file, in its
\* first pass, and none in its second.
LoneInv ==
  \A p \in Procs : alone[p] =>
    /\ pc[p] \notin {"new", "refused", "restore"}
    /\ Alive(p) => \A q \in Procs \ {p} : ~ Alive(q)
    /\ pc[p] \in {"read", "rename"} => pass[p] = 0 /\ lock # NoFile
    /\ pc[p] \in {"check", "remove"} => pass[p] = 0 /\ lock = NoFile
    /\ pc[p] = "create" /\ pass[p] = 1 => lock = NoFile

StartInv == PidInv /\ NewInv /\ LoneInv

LEMMA PidStep == TypeInv /\ PidInv /\ [Next]_vars => PidInv'
<1> SUFFICES ASSUME TypeInv, PidInv, [Next]_vars PROVE PidInv'
  OBVIOUS
<1> USE Distinct DEF TypeInv, TypeOK, PidInv, Starting, Alive, Goto
<1>1. ASSUME NEW p \in Procs, Start(p) \/ Create(p) \/ WriteFails(p) \/ ReadPid(p) \/ CheckAside(p)
      PROVE  PidInv'
  BY <1>1 DEF Start, Create, WriteFails, ReadPid, CheckAside
<1>2. ASSUME NEW p \in Procs, WritePid(p) PROVE PidInv'
  BY <1>2 DEF WritePid
<1>3. ASSUME NEW p \in Procs, RenameAside(p) PROVE PidInv'
  BY <1>3 DEF RenameAside, Retry
<1>4. ASSUME NEW p \in Procs, Restore(p) PROVE PidInv'
  BY <1>4 DEF Restore, TakeAside, Retry
<1>5. ASSUME NEW p \in Procs, RemoveAside(p) PROVE PidInv'
  BY <1>5 DEF RemoveAside, TakeAside, Retry
<1>6. ASSUME NEW p \in Procs, Release(p) \/ Crash(p) PROVE PidInv'
  BY <1>6 DEF Release, Crash
<1>7. CASE UNCHANGED vars
  BY <1>7 DEF vars
<1> QED
  BY <1>1, <1>2, <1>3, <1>4, <1>5, <1>6, <1>7 DEF Next, Acquire

LEMMA LoneStep == TypeInv /\ StartInv /\ [Next]_vars => NewInv' /\ LoneInv'
<1> SUFFICES ASSUME TypeInv, StartInv, [Next]_vars PROVE NewInv' /\ LoneInv'
  OBVIOUS
<1> USE Distinct DEF TypeInv, TypeOK, StartInv, NewInv, LoneInv, Starting, Alive, Goto
<1>1. ASSUME NEW p \in Procs, Start(p) PROVE NewInv' /\ LoneInv'
  BY <1>1 DEF Start
<1>2. ASSUME NEW p \in Procs, Create(p) PROVE NewInv' /\ LoneInv'
  BY <1>2 DEF Create
<1>3. ASSUME NEW p \in Procs, WritePid(p) \/ WriteFails(p) PROVE NewInv' /\ LoneInv'
  BY <1>3 DEF WritePid, WriteFails
<1>4. ASSUME NEW p \in Procs, ReadPid(p) PROVE NewInv' /\ LoneInv'
  BY <1>4 DEF ReadPid, LivePid, PidInv
<1>5. ASSUME NEW p \in Procs, RenameAside(p) PROVE NewInv' /\ LoneInv'
  BY <1>5 DEF RenameAside, Retry
<1>6. ASSUME NEW p \in Procs, CheckAside(p) PROVE NewInv' /\ LoneInv'
  BY <1>6 DEF CheckAside, LivePid, PidInv
<1>7. ASSUME NEW p \in Procs, Restore(p) PROVE NewInv' /\ LoneInv'
  BY <1>7 DEF Restore, TakeAside, Retry
<1>8. ASSUME NEW p \in Procs, RemoveAside(p) PROVE NewInv' /\ LoneInv'
  BY <1>8 DEF RemoveAside, TakeAside, Retry
<1>9. ASSUME NEW p \in Procs, Release(p) \/ Crash(p) PROVE NewInv' /\ LoneInv'
  BY <1>9 DEF Release, Crash
<1>10. CASE UNCHANGED vars
  BY <1>10 DEF vars
<1> QED
  BY <1>1, <1>2, <1>3, <1>4, <1>5, <1>6, <1>7, <1>8, <1>9, <1>10 DEF Next, Acquire

\* A daemon that starts with no other process around is not refused, whatever
\* files the crashes before it have left.
THEOREM CrashNeverBlocks == Spec => []LoneStartSucceeds
<1>1. Init => StartInv
  BY Distinct DEF Init, StartInv, PidInv, NewInv, LoneInv
<1>2. TypeInv /\ StartInv /\ [Next]_vars => StartInv'
  BY PidStep, LoneStep DEF StartInv
<1>3. StartInv => LoneStartSucceeds
  BY DEF StartInv, LoneInv, LoneStartSucceeds
<1> QED
  BY <1>1, <1>2, <1>3, TypeInvariant, PTL DEF Spec

-----------------------------------------------------------------------------
(* The server.                                                             *)

\* The variables keep their types, and Server.conns its handlers.
THEOREM ServerTypeCorrect == ServerSpec => []ServerTypeOK
<1>1. ServerInit => ServerTypeOK
  BY DEF ServerInit, ServerTypeOK, Handled
<1>2. ServerTypeOK /\ [ServerNext]_serverVars => ServerTypeOK'
  <2> SUFFICES ASSUME ServerTypeOK, [ServerNext]_serverVars PROVE ServerTypeOK'
    OBVIOUS
  <2> USE ConnsAssumption DEF ServerTypeOK, Handled, Conns, connVars, Enter
  <2>1. CASE ServeStep
    <3>1. CASE ServeLock \/ ServeListen \/ ServePublish \/ ServeRecheck \/ ServeStop \/ ServeReturn
      BY <3>1 DEF ServeLock, ServeListen, ServePublish, ServeRecheck, ServeStop, ServeReturn
    <3>2. CASE ServeHandle
      <4>1. accepted \in Local /\ accepted \in Conns
        BY <3>2 DEF ServeHandle
      <4> QED
        BY <3>2, <4>1 DEF ServeHandle, TrackConn
    <3>3. ASSUME NEW c \in Local, ServeAccept(c) PROVE ServerTypeOK'
      BY <3>3 DEF ServeAccept
    <3> QED
      BY <2>1, <3>1, <3>2, <3>3 DEF ServeStep
  <2>2. CASE ServeFail \/ Signal \/ ShutdownStep
    BY <2>2 DEF ServeFail, Signal, ShutdownStep, ShutdownSweep, ShutdownDrain
  <2>3. ASSUME NEW c \in Conns, Dial(c) \/ ServeConn(c) \/ Command(c) PROVE ServerTypeOK'
    <3>1. CASE Dial(c)
      BY <3>1 DEF Dial
    <3>2. CASE ServeConn(c)
      BY <3>2 DEF ServeConn
    <3>3. CASE Command(c)
      BY <3>3 DEF Command
    <3> QED
      BY <2>3, <3>1, <3>2, <3>3
  <2>4. ASSUME NEW c \in Conns, StreamItem(c) \/ ClientReads(c) \/ ClientGone(c) PROVE ServerTypeOK'
    BY <2>4 DEF StreamItem, ClientReads, Leave, ClientGone
  <2>5. ASSUME NEW c \in Conns, HandlerEnds(c) PROVE ServerTypeOK'
    BY <2>5 DEF HandlerEnds, Leave
  <2>6. CASE UNCHANGED serverVars
    BY <2>6 DEF serverVars
  <2> QED
    BY <2>1, <2>2, <2>3, <2>4, <2>5, <2>6 DEF ServerNext, ClientStep
<1> QED
  BY <1>1, <1>2, PTL DEF ServerSpec

-----------------------------------------------------------------------------
\* trackConn closes what it does not register: an open connection that is being
\* handled is in Server.conns, where the sweep finds it.
OpenAreTracked == \A c \in Handled : open[c] => c \in conns

\* A connection that has not arrived is not open.
UnarrivedAreClosed == \A c \in Conns : handler[c] = "out" => ~ open[c]

SweepInv == OpenAreTracked /\ UnarrivedAreClosed /\ SweptConnsAreClosed

\* After its sweep, Shutdown has left no handler on an open connection, for any
\* number of local and remote connections that arrive at any time.
THEOREM SweepMissesNone == ServerSpec => []SweptConnsAreClosed
<1>1. ServerInit => SweepInv
  BY DEF ServerInit, SweepInv, OpenAreTracked, UnarrivedAreClosed, SweptConnsAreClosed, Handled
<1>2. ServerTypeOK /\ SweepInv /\ [ServerNext]_serverVars => SweepInv'
  <2> SUFFICES ASSUME ServerTypeOK, SweepInv, [ServerNext]_serverVars PROVE SweepInv'
    OBVIOUS
  <2> USE ConnsAssumption
      DEF ServerTypeOK, SweepInv, OpenAreTracked, UnarrivedAreClosed, SweptConnsAreClosed,
          Handled, Done, Conns, connVars, Enter
  <2>1. CASE ServeStep
    <3>1. CASE ServeLock \/ ServeListen \/ ServePublish \/ ServeRecheck \/ ServeStop \/ ServeReturn
      BY <3>1 DEF ServeLock, ServeListen, ServePublish, ServeRecheck, ServeStop, ServeReturn
    <3>2. CASE ServeHandle
      <4>1. accepted \in Local /\ accepted \in Conns
        BY <3>2 DEF ServeHandle
      <4> QED
        BY <3>2, <4>1 DEF ServeHandle, TrackConn
    <3>3. ASSUME NEW c \in Local, ServeAccept(c) PROVE SweepInv'
      BY <3>3 DEF ServeAccept
    <3> QED
      BY <2>1, <3>1, <3>2, <3>3 DEF ServeStep
  <2>2. CASE ShutdownSweep
    BY <2>2 DEF ShutdownSweep
  <2>3. CASE ServeFail \/ Signal \/ ShutdownDrain
    BY <2>3 DEF ServeFail, Signal, ShutdownDrain
  <2>4. ASSUME NEW c \in Conns, Dial(c) \/ ServeConn(c) \/ Command(c) PROVE SweepInv'
    <3>1. CASE Dial(c)
      BY <3>1 DEF Dial
    <3>2. CASE ServeConn(c)
      BY <3>2 DEF ServeConn
    <3>3. CASE Command(c)
      BY <3>3 DEF Command
    <3> QED
      BY <2>4, <3>1, <3>2, <3>3
  <2>5. ASSUME NEW c \in Conns, StreamItem(c) \/ ClientReads(c) \/ ClientGone(c) PROVE SweepInv'
    BY <2>5 DEF StreamItem, ClientReads, Leave, ClientGone
  <2>6. ASSUME NEW c \in Conns, HandlerEnds(c) PROVE SweepInv'
    BY <2>6 DEF HandlerEnds, Leave
  <2>7. CASE UNCHANGED serverVars
    BY <2>7 DEF serverVars
  <2> QED
    BY <2>1, <2>2, <2>3, <2>4, <2>5, <2>6, <2>7 DEF ServerNext, ShutdownStep, ClientStep
<1>3. SweepInv => SweptConnsAreClosed
  BY DEF SweepInv
<1> QED
  BY <1>1, <1>2, <1>3, ServerTypeCorrect, PTL DEF ServerSpec

-----------------------------------------------------------------------------
(* A session: types.                                                       *)

SessionTypeInv ==
  /\ SessionTypeOK
  /\ ch \in [Clients -> Seq(Items)] /\ seen \in [Clients -> Seq(Items)]
  /\ dropped \in [Clients -> Nat] /\ base \in [Clients -> Nat]
  /\ stage \in [Clients -> {"new", "reading", "ended", "left"}]
  /\ Len(buffer) <= lines
  /\ \A c \in Clients : dropped[c] <= lines

\* What Line makes of a channel: at most a notice and the line are added.
LEMMA DeliverTypes ==
  ASSUME SessionTypeInv, lines < MaxLines, NEW c \in Clients
  PROVE  LET d == Deliver(c, Line(lines + 1))
         IN /\ d.ch \in Seq(Items) /\ Len(d.ch) <= ChanCap
            /\ d.dropped \in Nat /\ d.dropped <= lines + 1
<1> DEFINE x == Line(lines + 1)
           q == ch[c]
           k == dropped[c]
           noticed == IF k > 0 THEN Append(q, Gap(k)) ELSE q
<1>1. /\ q \in Seq(Items) /\ Len(q) \in Nat /\ Len(q) <= ChanCap
      /\ k \in Nat /\ k <= lines /\ lines \in Nat /\ MaxLines \in Nat /\ ChanCap \in Nat
  BY BoundsAssumption DEF SessionTypeInv, SessionTypeOK
<1>2. x \in Items /\ (k > 0 => Gap(k) \in Items)
  BY <1>1 DEF Line, Gap, Items
<1> HIDE DEF x, q, k
<1>3. noticed \in Seq(Items) /\ (Len(q) < ChanCap => Len(noticed) <= ChanCap)
  BY <1>1, <1>2
<1>4. CASE Len(q) >= ChanCap
  <2>1. Deliver(c, x) = [ch |-> q, dropped |-> k + 1]
    BY <1>1, <1>4 DEF Deliver, Room, q, k
  <2> QED
    BY <1>1, <2>1 DEF x
<1>5. CASE Len(q) < ChanCap /\ Len(noticed) = ChanCap
  <2>1. Deliver(c, x) = [ch |-> noticed, dropped |-> 1]
    BY <1>1, <1>5 DEF Deliver, Room, q, k
  <2> QED
    BY <1>1, <1>3, <1>5, <2>1 DEF x
<1>6. CASE Len(q) < ChanCap /\ Len(noticed) < ChanCap
  <2>1. Deliver(c, x) = [ch |-> Append(noticed, x), dropped |-> 0]
    BY <1>1, <1>6 DEF Deliver, Room, q, k
  <2> HIDE DEF noticed
  <2>2. Append(noticed, x) \in Seq(Items) /\ Len(Append(noticed, x)) <= ChanCap
    BY <1>1, <1>2, <1>3, <1>6
  <2>3. Deliver(c, x).ch = Append(noticed, x) /\ Deliver(c, x).dropped = 0
    BY <2>1
  <2> QED
    <3>1. 0 \in Nat /\ 0 <= lines + 1
      BY <1>1
    <3> QED
      BY <2>2, <2>3, <3>1 DEF x
<1> QED
  BY <1>1, <1>3, <1>4, <1>5, <1>6

\* The ring holds the newest lines, and no more than MaxBuffer of them.
LEMMA RingFacts ==
  ASSUME NEW s \in Seq(Items)
  PROVE  /\ Recent(s) \in Seq(Items)
         /\ Len(Recent(s)) <= MaxBuffer /\ Len(Recent(s)) <= Len(s)
         /\ \A i \in 1..Len(Recent(s)) : Recent(s)[i] = s[Len(s) - Len(Recent(s)) + i]
<1> DEFINE r == SubSeq(s, Len(s) - MaxBuffer + 1, Len(s))
<1>1. MaxBuffer \in Nat \ {0} /\ Len(s) \in Nat
  BY BoundsAssumption
<1>2. CASE Len(s) > MaxBuffer
  <2>1. Recent(s) = r
    BY <1>2 DEF Recent
  <2>2. r \in Seq(Items) /\ Len(r) = MaxBuffer
    BY <1>1, <1>2
  <2>3. \A i \in 1..MaxBuffer : r[i] = s[Len(s) - MaxBuffer + i]
    BY <1>1, <1>2
  <2> HIDE DEF r
  <2> QED
    BY <1>1, <1>2, <2>1, <2>2, <2>3
<1>3. CASE Len(s) <= MaxBuffer
  <2>1. Recent(s) = s
    BY <1>1, <1>3 DEF Recent
  <2> QED
    BY <1>1, <1>3, <2>1
<1> QED
  BY <1>1, <1>2, <1>3

LEMMA SessionTypeStep == SessionTypeInv /\ [SessionNext]_allVars => SessionTypeInv'
<1> SUFFICES ASSUME SessionTypeInv, [SessionNext]_allVars PROVE SessionTypeInv'
  OBVIOUS
<1> USE DEF SessionTypeInv, SessionTypeOK, clientVars
<1>0. MaxLines \in Nat /\ ChanCap \in Nat /\ MaxBuffer \in Nat /\ lines \in Nat
  BY BoundsAssumption
<1>1. ASSUME Started PROVE SessionTypeInv'
  BY <1>1 DEF Started
<1>2. ASSUME WriteLine PROVE SessionTypeInv'
  <2> DEFINE D(c) == Deliver(c, Line(lines + 1))
             s == Append(buffer, Line(lines + 1))
  <2>1. /\ lines < MaxLines /\ lines' = lines + 1
        /\ buffer' = Recent(s)
        /\ ch' = [c \in Clients |-> IF c \in subscribed THEN D(c).ch ELSE ch[c]]
        /\ dropped' = [c \in Clients |-> IF c \in subscribed THEN D(c).dropped ELSE dropped[c]]
        /\ UNCHANGED <<state, subscribed, closing, closed, done, base, seen, stage>>
    BY <1>2 DEF WriteLine
  <2>2. \A c \in Clients : /\ D(c).ch \in Seq(Items) /\ Len(D(c).ch) <= ChanCap
                           /\ D(c).dropped \in Nat /\ D(c).dropped <= lines + 1
    BY <2>1, DeliverTypes
  <2>3. s \in Seq(Items) /\ Len(s) = Len(buffer) + 1
    <3>1. Line(lines + 1) \in Items
      BY <1>0, <2>1 DEF Line, Items
    <3> QED
      BY <3>1
  <2> HIDE DEF D, s
  <2>4. buffer' \in Seq(Items) /\ Len(buffer') <= MaxBuffer /\ Len(buffer') <= lines'
    <3>1. Recent(s) \in Seq(Items) /\ Len(Recent(s)) <= MaxBuffer /\ Len(Recent(s)) <= Len(s)
      BY <2>3, RingFacts
    <3> QED
      BY <1>0, <2>1, <2>3, <3>1
  <2>5. ch' \in [Clients -> Seq(Items)] /\ \A c \in Clients : Len(ch'[c]) <= ChanCap
    BY <2>1, <2>2
  <2>6. /\ dropped' \in [Clients -> Nat]
        /\ \A c \in Clients : dropped'[c] <= lines' /\ dropped'[c] \in 0..MaxLines
    BY <1>0, <2>1, <2>2
  <2>7. lines' \in 0..MaxLines
    BY <1>0, <2>1
  <2> QED
    BY <2>1, <2>4, <2>5, <2>6, <2>7
<1>3. ASSUME NEW o \in {"done", "failed"}, Finish(o) PROVE SessionTypeInv'
  BY <1>3 DEF Finish
<1>4. ASSUME FinishStep PROVE SessionTypeInv'
  BY <1>4 DEF FinishStep, FinishDone, FinishClose
<1>5. ASSUME NEW c \in Clients, Subscribe(c) PROVE SessionTypeInv'
  BY <1>0, <1>5 DEF Subscribe
<1>6. ASSUME NEW c \in Clients, Receive(c) PROVE SessionTypeInv'
  <2>1. /\ ch[c] # <<>> /\ ch[c] \in Seq(Items) /\ seen[c] \in Seq(Items)
        /\ seen' = [seen EXCEPT ![c] = Append(@, Head(ch[c]))]
        /\ ch' = [ch EXCEPT ![c] = Tail(@)]
        /\ UNCHANGED <<sessionVars, dropped, base, stage>>
    BY <1>6 DEF Receive
  <2>2. /\ Append(seen[c], Head(ch[c])) \in Seq(Items)
        /\ Tail(ch[c]) \in Seq(Items) /\ Len(Tail(ch[c])) <= ChanCap
    BY <1>0, <2>1
  <2>3. ch' \in [Clients -> Seq(Items)] /\ seen' \in [Clients -> Seq(Items)]
    BY <2>1, <2>2
  <2>4. \A d \in Clients : Len(ch'[d]) <= ChanCap
    BY <2>1, <2>2
  <2> QED
    BY <2>1, <2>3, <2>4 DEF sessionVars
<1>7. ASSUME NEW c \in Clients, ReceiveEnd(c) \/ Cancel(c) PROVE SessionTypeInv'
  BY <1>7 DEF ReceiveEnd, Cancel, sessionVars
<1>8. CASE UNCHANGED allVars
  BY <1>8 DEF allVars, sessionVars
<1> QED
  BY <1>1, <1>2, <1>3, <1>4, <1>5, <1>6, <1>7, <1>8 DEF SessionNext, ReadStep

LEMMA SessionTypes == SessionSpec => []SessionTypeInv
<1>1. SessionInit => SessionTypeInv
  <2> SUFFICES ASSUME SessionInit PROVE SessionTypeInv
    OBVIOUS
  <2>1. <<>> \in Seq(Items) /\ Len(<<>>) = 0 /\ 0 \in 0..MaxLines /\ 0 <= ChanCap /\ 0 <= MaxBuffer
    BY BoundsAssumption
  <2>2. /\ ch \in [Clients -> Seq(Items)] /\ seen \in [Clients -> Seq(Items)]
        /\ dropped \in [Clients -> Nat] /\ base \in [Clients -> Nat]
        /\ \A c \in Clients : ch[c] = <<>> /\ seen[c] = <<>> /\ dropped[c] = 0 /\ base[c] = 0
    BY <2>1 DEF SessionInit
  <2>3. /\ stage = [c \in Clients |-> "new"] /\ state = "queued" /\ lines = 0 /\ buffer = <<>>
        /\ subscribed = {} /\ closing = {} /\ closed = {} /\ done = FALSE
    BY DEF SessionInit
  <2>4. stage \in [Clients -> {"new", "reading", "ended", "left"}]
    BY <2>3
  <2>5. ASSUME NEW c \in Clients
        PROVE  /\ ch[c] \in Seq(Items) /\ Len(ch[c]) <= ChanCap /\ seen[c] \in Seq(Items)
               /\ dropped[c] \in 0..MaxLines /\ base[c] \in 0..MaxLines /\ dropped[c] <= lines
               /\ stage[c] \in {"new", "reading", "ended", "left"}
    <3>1. ch[c] = <<>> /\ seen[c] = <<>> /\ dropped[c] = 0 /\ base[c] = 0
      BY <2>2
    <3>2. stage[c] \in {"new", "reading", "ended", "left"}
      BY <2>4
    <3>3. Len(ch[c]) = 0 /\ dropped[c] <= lines
      BY <2>3, <3>1
    <3> QED
      BY <2>1, <2>2, <3>1, <3>2, <3>3
  <2>6. SessionTypeOK
    BY <2>1, <2>3, <2>5 DEF SessionTypeOK
  <2> QED
    BY <2>1, <2>2, <2>3, <2>4, <2>5, <2>6 DEF SessionTypeInv
<1> QED
  BY <1>1, SessionTypeStep, PTL DEF SessionSpec

\* The ring and the channels keep their bounds, and every line and notice names a
\* line of the run (ringBuffer and the subscribers' channels, session.go).
THEOREM SessionTypeCorrect == SessionSpec => []SessionTypeOK
<1>1. SessionTypeInv => SessionTypeOK
  BY DEF SessionTypeInv
<1> QED
  BY <1>1, SessionTypes, PTL

-----------------------------------------------------------------------------
(* A session: channels.                                                    *)

\* A channel is the business of the subscribers, of finish or of nobody any more,
\* and a client has none before it subscribes.
ChannelsInv ==
  /\ ChannelsClosedOnce
  /\ Finished => subscribed = {}
  /\ ~Finished => closing = {}
  /\ \A c \in subscribed \cup closing \cup closed : stage[c] # "new"

LEMMA ChannelsStep == SessionTypeInv /\ ChannelsInv /\ [SessionNext]_allVars => ChannelsInv'
<1> SUFFICES ASSUME SessionTypeInv, ChannelsInv, [SessionNext]_allVars PROVE ChannelsInv'
  OBVIOUS
<1> USE DEF ChannelsInv, ChannelsClosedOnce, SessionTypeInv, SessionTypeOK, Finished, clientVars
<1>1. ASSUME Started PROVE ChannelsInv'
  BY <1>1 DEF Started
<1>2. ASSUME WriteLine PROVE ChannelsInv'
  BY <1>2 DEF WriteLine
<1>3. ASSUME NEW o \in {"done", "failed"}, Finish(o) PROVE ChannelsInv'
  BY <1>3 DEF Finish
<1>4. ASSUME FinishStep PROVE ChannelsInv'
  BY <1>4 DEF FinishStep, FinishDone, FinishClose
<1>5. ASSUME NEW c \in Clients, Subscribe(c) PROVE ChannelsInv'
  BY <1>5 DEF Subscribe
<1>6. ASSUME NEW c \in Clients, Receive(c) \/ ReceiveEnd(c) PROVE ChannelsInv'
  BY <1>6 DEF Receive, ReceiveEnd, sessionVars
<1>7. ASSUME NEW c \in Clients, Cancel(c) PROVE ChannelsInv'
  BY <1>7 DEF Cancel
<1>8. CASE UNCHANGED allVars
  BY <1>8 DEF allVars, sessionVars
<1> QED
  BY <1>1, <1>2, <1>3, <1>4, <1>5, <1>6, <1>7, <1>8 DEF SessionNext, ReadStep

LEMMA ChannelsInvariant == SessionSpec => []ChannelsInv
<1>1. SessionInit => ChannelsInv
  BY DEF SessionInit, ChannelsInv, ChannelsClosedOnce, Finished
<1> QED
  BY <1>1, SessionTypes, ChannelsStep, PTL DEF SessionSpec

\* However finish, Subscribe and the deferred cancel of a handler interleave, no
\* line is sent on a closed channel and none is closed twice (session.go).
THEOREM ChannelsNeverPanic == SessionSpec => []ChannelsClosedOnce
<1>1. ChannelsInv => ChannelsClosedOnce
  BY DEF ChannelsInv
<1> QED
  BY <1>1, ChannelsInvariant, PTL

-----------------------------------------------------------------------------
(* A session: what a stream stands for.                                    *)

\* A set of naturals has a least member: the induction of the proofs below.
LEMMA Least ==
  ASSUME NEW T \in SUBSET Nat, T # {}
  PROVE  \E x \in T : \A y \in T : x <= y
<1> DEFINE R == OpToRel(<, Nat)
<1>1. IsWellFoundedOn(R, Nat)
  BY NatLessThanWellFounded
<1>2. \A x, y \in Nat : y < x => <<y, x>> \in R
  BY DEF OpToRel
<1> HIDE DEF R
<1>3. PICK x \in T : \A y \in T : ~ (<<y, x>> \in R)
  BY <1>1, WFMin
<1>4. \A y \in T : x \in Nat /\ y \in Nat /\ ~ (y < x)
  BY <1>2, <1>3
<1>5. \A y \in T : x <= y
  BY <1>4
<1> QED
  BY <1>5

\* In s, that starts behind line a, the items reach the lines that the marks say.
Marked(s, a, marks) ==
  /\ marks \in [0..Len(s) -> Nat]
  /\ marks[0] = a
  /\ \A i \in 1..Len(s) : /\ marks[i] = marks[i - 1] + Weight(s[i])
                          /\ s[i].kind = "line" => s[i].n = marks[i]

Reaches(s, a, b) == \E marks : Marked(s, a, marks) /\ marks[Len(s)] = b

LEMMA WeightIsNat == \A x \in Items : Weight(x) \in Nat
  BY DEF Items, Weight

LEMMA ReachesNothing ==
  ASSUME NEW a \in Nat
  PROVE  Reaches(<<>>, a, a)
<1> DEFINE marks == [i \in 0..0 |-> a]
<1>1. Len(<<>>) = 0 /\ marks[0] = a
  OBVIOUS
<1>2. Marked(<<>>, a, marks)
  BY DEF Marked
<1> QED
  BY <1>1, <1>2 DEF Reaches

LEMMA ReachesMore ==
  ASSUME NEW s \in Seq(Items), NEW x \in Items, NEW a, NEW b, Reaches(s, a, b),
         x.kind = "line" => x.n = b + Weight(x)
  PROVE  Reaches(Append(s, x), a, b + Weight(x))
<1>1. PICK marks : Marked(s, a, marks) /\ marks[Len(s)] = b
  BY DEF Reaches
<1> DEFINE t == Append(s, x)
           more == [i \in 0..Len(t) |-> IF i <= Len(s) THEN marks[i] ELSE b + Weight(x)]
<1>2. /\ Len(s) \in Nat /\ Len(t) = Len(s) + 1
      /\ t[Len(s) + 1] = x /\ \A i \in 1..Len(s) : t[i] = s[i]
  OBVIOUS
<1>3. marks \in [0..Len(s) -> Nat] /\ b \in Nat /\ Weight(x) \in Nat
  BY <1>1, <1>2, WeightIsNat DEF Marked
<1>4. more \in [0..Len(t) -> Nat] /\ more[0] = a
  BY <1>1, <1>2, <1>3 DEF Marked
<1>5. ASSUME NEW i \in 1..Len(t)
      PROVE  /\ more[i] = more[i - 1] + Weight(t[i])
             /\ t[i].kind = "line" => t[i].n = more[i]
  <2>1. CASE i <= Len(s)
    <3>1. /\ more[i] = marks[i] /\ more[i - 1] = marks[i - 1]
          /\ t[i] = s[i] /\ i \in 1..Len(s)
      BY <1>2, <2>1
    <3> QED
      BY <1>1, <3>1 DEF Marked
  <2>2. CASE i = Len(s) + 1
    <3>1. more[i] = b + Weight(x) /\ more[i - 1] = b /\ t[i] = x
      BY <1>1, <1>2, <2>2
    <3> QED
      BY <3>1
  <2> QED
    BY <1>2, <2>1, <2>2
<1>6. more[Len(t)] = b + Weight(x)
  BY <1>2
<1>7. Marked(t, a, more)
  BY <1>4, <1>5 DEF Marked
<1> QED
  BY <1>6, <1>7 DEF Reaches

\* The function that Extent computes with exists, and is the marks from 0.
UpTo(s, f) == f = [n \in 0..Len(s) |-> IF n = 0 THEN 0 ELSE f[n - 1] + Weight(s[n])]

LEMMA ExtentFromMarks ==
  ASSUME NEW s \in Seq(Items), NEW a, NEW marks, Marked(s, a, marks)
  PROVE  a + Extent(s) = marks[Len(s)]
<1> DEFINE f == [n \in 0..Len(s) |-> marks[n] - a]
           g == CHOOSE u : UpTo(s, u)
<1>1. Len(s) \in Nat /\ a \in Nat /\ marks \in [0..Len(s) -> Nat] /\ marks[0] = a
  BY DEF Marked
<1>2. \A i \in 1..Len(s) : Weight(s[i]) \in Nat
  BY WeightIsNat
<1>3. UpTo(s, f)
  <2>1. \A n \in 0..Len(s) : f[n] = IF n = 0 THEN 0 ELSE f[n - 1] + Weight(s[n])
    <3>1. ASSUME NEW n \in 0..Len(s)
          PROVE f[n] = IF n = 0 THEN 0 ELSE f[n - 1] + Weight(s[n])
      <4>1. CASE n = 0
        BY <1>1, <4>1
      <4>2. CASE n # 0
        <5>1. n \in 1..Len(s) /\ n - 1 \in 0..Len(s)
          BY <1>1, <4>2
        <5>2. marks[n] = marks[n - 1] + Weight(s[n])
          BY <5>1 DEF Marked
        <5>3. f[n] = marks[n] - a /\ f[n - 1] = marks[n - 1] - a
          BY <5>1
        <5>4. marks[n - 1] \in Nat /\ Weight(s[n]) \in Nat
          BY <1>1, <1>2, <5>1
        <5> QED
          BY <1>1, <4>2, <5>2, <5>3, <5>4
      <4> QED
        BY <4>1, <4>2
    <3> QED
      BY <3>1
  <2> HIDE DEF f
  <2>2. f = [n \in 0..Len(s) |-> f[n]]
    BY DEF f
  <2> QED
    BY <2>1, <2>2 DEF UpTo
<1>4. UpTo(s, g)
  BY <1>3
<1> HIDE DEF f, g
<1>5. /\ g[0] = 0
      /\ \A n \in 1..Len(s) : g[n] = g[n - 1] + Weight(s[n])
  <2>1. \A n \in 0..Len(s) : g[n] = IF n = 0 THEN 0 ELSE g[n - 1] + Weight(s[n])
    BY <1>4 DEF UpTo
  <2> QED
    BY <1>1, <2>1
<1>6. \A n \in 0..Len(s) : g[n] = marks[n] - a
  <2> DEFINE Odd == {n \in 0..Len(s) : g[n] # marks[n] - a}
  <2>1. SUFFICES ASSUME Odd # {} PROVE FALSE
    OBVIOUS
  <2>2. PICK k \in Odd : \A n \in Odd : k <= n
    <3>1. Odd \in SUBSET Nat
      BY <1>1
    <3> HIDE DEF Odd
    <3> QED
      BY <2>1, <3>1, Least
  <2>3. k # 0
    BY <1>1, <1>5
  <2>4. k \in 1..Len(s) /\ k - 1 \in 0..Len(s) /\ k - 1 \notin Odd
    BY <1>1, <2>2, <2>3
  <2>5. g[k - 1] = marks[k - 1] - a
    BY <2>4
  <2>6. marks[k] = marks[k - 1] + Weight(s[k]) /\ g[k] = g[k - 1] + Weight(s[k])
    BY <1>5, <2>4 DEF Marked
  <2>7. marks[k - 1] \in Nat /\ Weight(s[k]) \in Nat
    BY <1>1, <1>2, <2>4
  <2> QED
    BY <1>1, <2>2, <2>5, <2>6, <2>7
<1>7. Extent(s) = g[Len(s)]
  BY DEF Extent, g, UpTo
<1> QED
  BY <1>1, <1>6, <1>7

\* The same of every beginning of a stream.
LEMMA ExtentOfPrefix ==
  ASSUME NEW s \in Seq(Items), NEW a, NEW marks, Marked(s, a, marks), NEW i \in 1..Len(s)
  PROVE  a + Extent(SubSeq(s, 1, i)) = marks[i]
<1> DEFINE p == SubSeq(s, 1, i)
           few == [n \in 0..Len(p) |-> marks[n]]
<1>1. Len(s) \in Nat /\ i \in Nat /\ 1 <= i /\ i <= Len(s)
  OBVIOUS
<1>2. p \in Seq(Items) /\ Len(p) = i /\ \A n \in 1..i : p[n] = s[n]
  BY <1>1
<1> HIDE DEF p
<1>3. few \in [0..Len(p) -> Nat] /\ few[0] = a
  BY <1>1, <1>2 DEF Marked
<1>4. ASSUME NEW n \in 1..Len(p)
      PROVE  /\ few[n] = few[n - 1] + Weight(p[n])
             /\ p[n].kind = "line" => p[n].n = few[n]
  <2>1. n \in 1..Len(s) /\ p[n] = s[n] /\ few[n] = marks[n] /\ few[n - 1] = marks[n - 1]
    BY <1>1, <1>2
  <2> QED
    BY <2>1 DEF Marked
<1>5. Marked(p, a, few)
  BY <1>3, <1>4 DEF Marked
<1>6. few[Len(p)] = marks[i]
  BY <1>1, <1>2
<1>7. a + Extent(p) = few[Len(p)]
  BY <1>2, <1>5, ExtentFromMarks
<1> QED
  BY <1>6, <1>7 DEF p

-----------------------------------------------------------------------------
(* A session: streams.                                                     *)

\* The ring holds the last lines of the run.
RingIsTail == \A i \in 1..Len(buffer) : buffer[i] = Line(lines - Len(buffer) + i)

\* Nothing is sent to a client before it subscribes.
NewHasNothing ==
  \A c \in Clients : stage[c] = "new" => ch[c] = <<>> /\ dropped[c] = 0 /\ c \notin subscribed

\* What a client was and will be given reaches a line and, while it is
\* subscribed, leaves out just the lines that are counted for its next notice.
StreamReaches(c, to) ==
  /\ Reaches(Stream(c), base[c], to)
  /\ c \in subscribed => to + dropped[c] = lines

StreamInv ==
  /\ RingIsTail
  /\ NewHasNothing
  /\ \A c \in Clients : \E to \in Nat : StreamReaches(c, to)

\* The history that Subscribe hands over reaches the last line.
LEMMA HistoryReaches ==
  ASSUME SessionTypeInv, RingIsTail
  PROVE  Reaches(buffer, lines - Len(buffer), lines)
<1> DEFINE a == lines - Len(buffer)
           marks == [i \in 0..Len(buffer) |-> a + i]
<1>1. Len(buffer) \in Nat /\ lines \in Nat /\ a \in Nat /\ a + Len(buffer) = lines
  BY DEF SessionTypeInv, SessionTypeOK
<1>2. ASSUME NEW i \in 1..Len(buffer)
      PROVE  buffer[i].kind = "line" /\ buffer[i].n = a + i /\ Weight(buffer[i]) = 1
  <2>1. buffer[i] = Line(a + i)
    BY DEF RingIsTail
  <2>2. Line(a + i).kind = "line" /\ Line(a + i).n = a + i
    BY DEF Line
  <2> QED
    BY <2>1, <2>2 DEF Weight
<1> HIDE DEF a
<1>3. marks \in [0..Len(buffer) -> Nat] /\ marks[0] = a /\ marks[Len(buffer)] = lines
  BY <1>1
<1>4. \A i \in 1..Len(buffer) : marks[i] = marks[i - 1] + 1 /\ marks[i] = a + i
  BY <1>1
<1>5. Marked(buffer, a, marks)
  <2> HIDE DEF marks
  <2> QED
    BY <1>2, <1>3, <1>4 DEF Marked
<1>6. Reaches(buffer, a, lines)
  BY <1>3, <1>5 DEF Reaches
<1> QED
  BY <1>6 DEF a

\* What Line sends to a subscriber, and what it counts, make up for one line more.
LEMMA DeliverReaches ==
  ASSUME SessionTypeInv, lines < MaxLines, NEW c \in subscribed, NEW to \in Nat,
         Reaches(Stream(c), base[c], to), to + dropped[c] = lines
  PROVE  LET d == Deliver(c, Line(lines + 1))
         IN \E far \in Nat : /\ Reaches(seen[c] \o d.ch, base[c], far)
                             /\ far + d.dropped = lines + 1
<1> DEFINE x == Line(lines + 1)
           q == ch[c]
           k == dropped[c]
           h == seen[c]
           noticed == IF k > 0 THEN Append(q, Gap(k)) ELSE q
<1>1. /\ c \in Clients /\ q \in Seq(Items) /\ h \in Seq(Items) /\ Len(q) \in Nat /\ Len(q) <= ChanCap
      /\ k \in Nat /\ k <= lines /\ lines \in Nat /\ MaxLines \in Nat /\ ChanCap \in Nat
  BY BoundsAssumption DEF SessionTypeInv, SessionTypeOK
<1>2. /\ x \in Items /\ x.kind = "line" /\ x.n = lines + 1 /\ Weight(x) = 1
      /\ k > 0 => Gap(k) \in Items /\ Gap(k).kind = "gap" /\ Weight(Gap(k)) = k
  BY <1>1 DEF Line, Gap, Items, Weight
<1>3. Reaches(h \o q, base[c], to) /\ to + k = lines
  BY DEF Stream
<1> HIDE DEF x, q, k, h
<1>4. /\ noticed \in Seq(Items)
      /\ Reaches(h \o noticed, base[c], lines)
  <2>1. CASE k = 0
    BY <1>1, <1>3, <2>1
  <2>2. CASE k > 0
    <3>1. noticed = Append(q, Gap(k)) /\ h \o noticed = Append(h \o q, Gap(k)) /\ h \o q \in Seq(Items)
      BY <1>1, <1>2, <2>2
    <3>2. Reaches(Append(h \o q, Gap(k)), base[c], to + Weight(Gap(k)))
      BY <1>2, <1>3, <2>2, <3>1, ReachesMore
    <3>3. to + Weight(Gap(k)) = lines
      BY <1>2, <1>3, <2>2
    <3>4. noticed \in Seq(Items)
      BY <1>1, <1>2, <2>2
    <3> QED
      BY <3>1, <3>2, <3>3, <3>4
  <2> QED
    BY <1>1, <2>1, <2>2
<1>5. CASE Len(q) >= ChanCap
  <2>1. Deliver(c, x) = [ch |-> q, dropped |-> k + 1]
    BY <1>1, <1>5 DEF Deliver, Room, q, k
  <2>2. Deliver(c, x).ch = q /\ Deliver(c, x).dropped = k + 1
    BY <2>1
  <2>3. to + (k + 1) = lines + 1
    BY <1>1, <1>3
  <2>4. Reaches(h \o Deliver(c, x).ch, base[c], to) /\ to + Deliver(c, x).dropped = lines + 1
    BY <1>3, <2>2, <2>3
  <2> QED
    BY <2>4 DEF x, h
<1>6. CASE Len(q) < ChanCap /\ Len(noticed) = ChanCap
  <2>1. Deliver(c, x) = [ch |-> noticed, dropped |-> 1]
    BY <1>1, <1>6 DEF Deliver, Room, q, k
  <2>2. Deliver(c, x).ch = noticed /\ Deliver(c, x).dropped = 1
    BY <2>1
  <2> QED
    BY <1>1, <1>4, <2>2 DEF x, h
<1>7. CASE Len(q) < ChanCap /\ Len(noticed) # ChanCap
  <2>0. Len(noticed) < ChanCap
    BY <1>1, <1>7
  <2>1. Deliver(c, x) = [ch |-> Append(noticed, x), dropped |-> 0]
    BY <1>1, <1>7, <2>0 DEF Deliver, Room, q, k
  <2>2. Deliver(c, x).ch = Append(noticed, x) /\ Deliver(c, x).dropped = 0
    BY <2>1
  <2> HIDE DEF noticed
  <2>3. h \o Append(noticed, x) = Append(h \o noticed, x) /\ h \o noticed \in Seq(Items)
    BY <1>1, <1>2, <1>4
  <2>4. Reaches(Append(h \o noticed, x), base[c], lines + Weight(x))
    BY <1>2, <1>4, <2>3, ReachesMore
  <2>5. Reaches(h \o Append(noticed, x), base[c], lines + 1)
    BY <1>2, <2>3, <2>4
  <2>6. lines + 1 \in Nat /\ (lines + 1) + 0 = lines + 1
    BY <1>1
  <2> QED
    BY <2>2, <2>5, <2>6 DEF x, h
<1> QED
  BY <1>1, <1>5, <1>6, <1>7

LEMMA RingStep ==
  ASSUME SessionTypeInv, RingIsTail, WriteLine
  PROVE  RingIsTail'
<1> DEFINE s == Append(buffer, Line(lines + 1))
<1>1. /\ lines < MaxLines /\ lines' = lines + 1 /\ buffer' = Recent(s)
      /\ lines \in Nat /\ MaxLines \in Nat /\ buffer \in Seq(Items) /\ Len(buffer) <= lines
  BY BoundsAssumption DEF WriteLine, SessionTypeInv, SessionTypeOK
<1>2. s \in Seq(Items) /\ Len(s) = Len(buffer) + 1 /\ Len(buffer) \in Nat
  <2>1. Line(lines + 1) \in Items
    BY <1>1 DEF Line, Items
  <2> QED
    BY <1>1, <2>1
<1>3. \A i \in 1..Len(s) : s[i] = Line(lines + 1 - Len(s) + i)
  <2> SUFFICES ASSUME NEW i \in 1..Len(s) PROVE s[i] = Line(lines + 1 - Len(s) + i)
    OBVIOUS
  <2>1. CASE i <= Len(buffer)
    <3>1. s[i] = buffer[i] /\ i \in 1..Len(buffer)
      BY <1>1, <1>2, <2>1
    <3>2. lines + 1 - Len(s) + i = lines - Len(buffer) + i
      BY <1>1, <1>2
    <3> QED
      BY <3>1, <3>2 DEF RingIsTail
  <2>2. CASE i = Len(buffer) + 1
    <3>1. s[i] = Line(lines + 1)
      BY <1>1, <2>2
    <3>2. lines + 1 - Len(s) + i = lines + 1
      BY <1>1, <1>2, <2>2
    <3> QED
      BY <3>1, <3>2
  <2> QED
    BY <1>2, <2>1, <2>2
<1> HIDE DEF s
<1>4. /\ Len(Recent(s)) \in Nat /\ Len(Recent(s)) <= Len(s)
      /\ \A i \in 1..Len(Recent(s)) : Recent(s)[i] = s[Len(s) - Len(Recent(s)) + i]
  <2>1. Recent(s) \in Seq(Items)
    BY <1>2, RingFacts
  <2>2. Len(Recent(s)) <= Len(s)
    BY <1>2, RingFacts
  <2>3. \A i \in 1..Len(Recent(s)) : Recent(s)[i] = s[Len(s) - Len(Recent(s)) + i]
    BY <1>2, RingFacts
  <2> QED
    BY <2>1, <2>2, <2>3
<1>5. ASSUME NEW i \in 1..Len(Recent(s))
      PROVE  Recent(s)[i] = Line(lines + 1 - Len(Recent(s)) + i)
  <2> DEFINE j == Len(s) - Len(Recent(s)) + i
  <2>1. j \in 1..Len(s) /\ lines + 1 - Len(s) + j = lines + 1 - Len(Recent(s)) + i
    BY <1>1, <1>2, <1>4
  <2>2. Recent(s)[i] = s[j]
    BY <1>4
  <2> HIDE DEF j
  <2> QED
    BY <1>3, <2>1, <2>2
<1>6. \A i \in 1..Len(buffer') : buffer'[i] = Line(lines' - Len(buffer') + i)
  <2> DEFINE r == Recent(s)
             line == lines'
  <2>1. line = lines + 1 /\ buffer' = r /\ lines \in Nat /\ line \in Nat /\ Len(r) \in Nat
    BY <1>1, <1>4
  <2>2. \A i \in 1..Len(r) : r[i] = Line(lines + 1 - Len(r) + i)
    BY <1>5
  <2> HIDE DEF r, line
  <2>3. ASSUME NEW i \in 1..Len(r) PROVE r[i] = Line(line - Len(r) + i)
    <3>1. lines + 1 - Len(r) + i = line - Len(r) + i
      BY <2>1
    <3> QED
      BY <2>2, <3>1
  <2> QED
    BY <2>1, <2>3 DEF line
<1> QED
  BY <1>6 DEF RingIsTail

LEMMA StreamStep ==
  SessionTypeInv /\ ChannelsInv /\ StreamInv /\ [SessionNext]_allVars => StreamInv'
<1> SUFFICES ASSUME SessionTypeInv, ChannelsInv, StreamInv, [SessionNext]_allVars PROVE StreamInv'
  OBVIOUS
\* A step that sends nothing, gives nothing and subscribes nobody.
<1>0. ASSUME UNCHANGED <<lines, buffer, ch, dropped, base, seen>>,
             subscribed' \subseteq subscribed,
             \A c \in Clients : stage'[c] = "new" => stage[c] = "new"
      PROVE  StreamInv'
  <2>1. RingIsTail' /\ NewHasNothing'
    BY <1>0 DEF StreamInv, RingIsTail, NewHasNothing
  <2>2. ASSUME NEW c \in Clients PROVE \E to \in Nat : StreamReaches(c, to)'
    <3>1. PICK to \in Nat : StreamReaches(c, to)
      BY DEF StreamInv
    <3>2. StreamReaches(c, to)'
      BY <1>0, <3>1 DEF StreamReaches, Stream
    <3> QED
      BY <3>2
  <2> QED
    BY <2>1, <2>2 DEF StreamInv
<1>1. ASSUME Started PROVE StreamInv'
  BY <1>0, <1>1 DEF Started, clientVars
<1>2. ASSUME WriteLine PROVE StreamInv'
  <2> DEFINE D(c) == Deliver(c, Line(lines + 1))
  <2>1. /\ lines < MaxLines /\ lines' = lines + 1
        /\ ch' = [c \in Clients |-> IF c \in subscribed THEN D(c).ch ELSE ch[c]]
        /\ dropped' = [c \in Clients |-> IF c \in subscribed THEN D(c).dropped ELSE dropped[c]]
        /\ UNCHANGED <<subscribed, base, seen, stage>>
    BY <1>2 DEF WriteLine
  <2>2. RingIsTail'
    BY <1>2, RingStep DEF StreamInv
  <2>3. ASSUME NEW c \in subscribed PROVE \E to \in Nat : StreamReaches(c, to)'
    <3>1. c \in Clients
      BY DEF SessionTypeInv, SessionTypeOK
    <3>2. PICK to \in Nat : Reaches(Stream(c), base[c], to) /\ to + dropped[c] = lines
      BY <3>1 DEF StreamInv, StreamReaches
    <3>3. PICK far \in Nat : /\ Reaches(seen[c] \o D(c).ch, base[c], far)
                             /\ far + D(c).dropped = lines + 1
      BY <2>1, <3>2, DeliverReaches
    <3> HIDE DEF D
    <3>4. /\ seen'[c] = seen[c] /\ ch'[c] = D(c).ch /\ base'[c] = base[c]
          /\ dropped'[c] = D(c).dropped
      BY <2>1, <3>1
    <3>5. StreamReaches(c, far)'
      BY <2>1, <3>3, <3>4 DEF StreamReaches, Stream
    <3> QED
      BY <3>5
  <2> HIDE DEF D
  <2>4. ASSUME NEW c \in Clients, c \notin subscribed PROVE \E to \in Nat : StreamReaches(c, to)'
    <3>1. PICK to \in Nat : Reaches(Stream(c), base[c], to)
      BY DEF StreamInv, StreamReaches
    <3>2. seen'[c] = seen[c] /\ ch'[c] = ch[c] /\ base'[c] = base[c] /\ c \notin subscribed'
      BY <2>1, <2>4
    <3>3. StreamReaches(c, to)'
      BY <3>1, <3>2 DEF StreamReaches, Stream
    <3> QED
      BY <3>3
  <2>5. NewHasNothing'
    BY <2>1 DEF StreamInv, NewHasNothing
  <2> QED
    BY <2>2, <2>3, <2>4, <2>5 DEF StreamInv
<1>3. ASSUME NEW o \in {"done", "failed"}, Finish(o) PROVE StreamInv'
  BY <1>0, <1>3 DEF Finish, clientVars
<1>4. ASSUME FinishStep PROVE StreamInv'
  BY <1>0, <1>4 DEF FinishStep, FinishDone, FinishClose, clientVars
<1>5. ASSUME NEW c \in Clients, Subscribe(c) PROVE StreamInv'
  <2>1. /\ stage[c] = "new" /\ ch[c] = <<>> /\ dropped[c] = 0
        /\ seen' = [seen EXCEPT ![c] = buffer]
        /\ base' = [base EXCEPT ![c] = lines - Len(buffer)]
        /\ stage' = [stage EXCEPT ![c] = "reading"]
        /\ subscribed' \subseteq subscribed \cup {c}
        /\ UNCHANGED <<lines, buffer, ch, dropped>>
    BY <1>5 DEF Subscribe, StreamInv, NewHasNothing
  <2>2. /\ seen \in [Clients -> Seq(Items)] /\ base \in [Clients -> Nat] /\ lines \in Nat
        /\ stage \in [Clients -> {"new", "reading", "ended", "left"}] /\ buffer \in Seq(Items)
    BY DEF SessionTypeInv, SessionTypeOK
  <2>3. RingIsTail'
    BY <2>1 DEF StreamInv, RingIsTail
  <2>4. NewHasNothing'
    BY <2>1, <2>2 DEF StreamInv, NewHasNothing
  <2>5. StreamReaches(c, lines)'
    <3>1. Reaches(buffer, lines - Len(buffer), lines)
      BY HistoryReaches DEF StreamInv
    <3>2. seen'[c] = buffer /\ base'[c] = lines - Len(buffer) /\ ch'[c] = <<>> /\ dropped'[c] = 0
      BY <2>1, <2>2
    <3>3. Stream(c)' = buffer
      BY <2>2, <3>2 DEF Stream
    <3> QED
      BY <2>1, <2>2, <3>1, <3>2, <3>3 DEF StreamReaches
  <2>6. ASSUME NEW d \in Clients, d # c PROVE \E to \in Nat : StreamReaches(d, to)'
    <3>1. PICK to \in Nat : StreamReaches(d, to)
      BY DEF StreamInv
    <3>2. seen'[d] = seen[d] /\ base'[d] = base[d] /\ (d \in subscribed' => d \in subscribed)
      BY <2>1, <2>2, <2>6
    <3>3. StreamReaches(d, to)'
      BY <2>1, <3>1, <3>2 DEF StreamReaches, Stream
    <3> QED
      BY <3>3
  <2> QED
    BY <2>1, <2>2, <2>3, <2>4, <2>5, <2>6 DEF StreamInv
<1>6. ASSUME NEW c \in Clients, Receive(c) PROVE StreamInv'
  <2>1. /\ ch[c] # <<>> /\ ch \in [Clients -> Seq(Items)] /\ seen \in [Clients -> Seq(Items)]
        /\ seen' = [seen EXCEPT ![c] = Append(@, Head(ch[c]))]
        /\ ch' = [ch EXCEPT ![c] = Tail(@)]
        /\ UNCHANGED <<sessionVars, dropped, base, stage>>
    BY <1>6 DEF Receive, SessionTypeInv
  <2>2. RingIsTail'
    BY <2>1 DEF StreamInv, RingIsTail, sessionVars
  <2>3. NewHasNothing'
    BY <1>6, <2>1 DEF StreamInv, NewHasNothing, sessionVars, Receive
  <2>4. ASSUME NEW d \in Clients PROVE Stream(d)' = Stream(d)
    <3>1. CASE d = c
      <4>1. ch[c] \in Seq(Items) /\ seen[c] \in Seq(Items)
        BY <2>1
      <4>2. seen'[c] = Append(seen[c], Head(ch[c])) /\ ch'[c] = Tail(ch[c])
        BY <2>1
      <4>3. Append(seen[c], Head(ch[c])) \o Tail(ch[c]) = seen[c] \o ch[c]
        BY <2>1, <4>1
      <4> QED
        BY <3>1, <4>2, <4>3 DEF Stream
    <3>2. CASE d # c
      BY <2>1, <3>2 DEF Stream
    <3> QED
      BY <3>1, <3>2
  <2>5. ASSUME NEW d \in Clients PROVE \E to \in Nat : StreamReaches(d, to)'
    <3>1. PICK to \in Nat : StreamReaches(d, to)
      BY DEF StreamInv
    <3>2. StreamReaches(d, to)'
      BY <2>1, <2>4, <3>1 DEF StreamReaches, sessionVars
    <3> QED
      BY <3>2
  <2> QED
    BY <2>2, <2>3, <2>5 DEF StreamInv
<1>7. ASSUME NEW c \in Clients, ReceiveEnd(c) \/ Cancel(c) PROVE StreamInv'
  <2>1. \A d \in Clients : stage'[d] = "new" => stage[d] = "new"
    BY <1>7 DEF ReceiveEnd, Cancel, SessionTypeInv
  <2> QED
    BY <1>0, <1>7, <2>1 DEF ReceiveEnd, Cancel, sessionVars
<1>8. CASE UNCHANGED allVars
  BY <1>0, <1>8 DEF allVars, sessionVars, clientVars
<1> QED
  BY <1>1, <1>2, <1>3, <1>4, <1>5, <1>6, <1>7, <1>8 DEF SessionNext, ReadStep

LEMMA StreamInvariant == SessionSpec => [](SessionTypeInv /\ StreamInv)
<1>1. SessionInit => StreamInv
  <2> SUFFICES ASSUME SessionInit PROVE StreamInv
    OBVIOUS
  <2>1. /\ lines = 0 /\ buffer = <<>> /\ subscribed = {}
        /\ \A c \in Clients : ch[c] = <<>> /\ seen[c] = <<>> /\ dropped[c] = 0 /\ base[c] = 0
    BY DEF SessionInit
  <2>2. RingIsTail /\ NewHasNothing
    BY <2>1 DEF RingIsTail, NewHasNothing
  <2>3. ASSUME NEW c \in Clients PROVE StreamReaches(c, 0)
    <3>1. Stream(c) = <<>>
      BY <2>1 DEF Stream
    <3> QED
      BY <2>1, <3>1, ReachesNothing DEF StreamReaches
  <2> QED
    BY <2>2, <2>3 DEF StreamInv
<1> QED
  BY <1>1, SessionTypes, ChannelsInvariant, StreamStep, PTL DEF SessionSpec

\* Each line a client gets stands where the history and the notices before it say:
\* nothing is lost, repeated or reordered where the history meets the live
\* stream, and a notice counts the lines missing at its place (session.go Line,
\* Subscribe), whatever the lengths of the ring and of the channels.
THEOREM NoticesAreExact == SessionSpec => []GapsAreExact
<1>1. SessionTypeInv /\ StreamInv => GapsAreExact
  <2> SUFFICES ASSUME SessionTypeInv, StreamInv, NEW c \in Clients, NEW i \in DOMAIN Stream(c),
                      Stream(c)[i].kind = "line"
               PROVE  Stream(c)[i].n = base[c] + Extent(SubSeq(Stream(c), 1, i))
    BY DEF GapsAreExact
  <2> DEFINE s == Stream(c)
  <2>1. s \in Seq(Items)
    BY DEF Stream, SessionTypeInv
  <2>2. PICK marks : Marked(s, base[c], marks)
    BY DEF StreamInv, StreamReaches, Reaches
  <2>3. i \in 1..Len(s)
    BY <2>1
  <2> HIDE DEF s
  <2>4. base[c] + Extent(SubSeq(s, 1, i)) = marks[i]
    BY <2>1, <2>2, <2>3, ExtentOfPrefix
  <2>5. s[i].kind = "line" => s[i].n = marks[i]
    BY <2>2, <2>3 DEF Marked
  <2> QED
    BY <2>4, <2>5 DEF s
<1> QED
  BY <1>1, StreamInvariant, PTL

\* While a client is subscribed every line of the run is in its history, in its
\* stream, in a notice, or counted for the next notice (session.go Line).
THEOREM NoLineIsUncounted == SessionSpec => []NothingUncounted
<1>1. SessionTypeInv /\ StreamInv => NothingUncounted
  <2> SUFFICES ASSUME SessionTypeInv, StreamInv, NEW c \in subscribed
               PROVE  base[c] + Extent(Stream(c)) + dropped[c] = lines
    BY DEF NothingUncounted
  <2> DEFINE s == Stream(c)
  <2>1. c \in Clients
    BY DEF SessionTypeInv, SessionTypeOK
  <2>2. s \in Seq(Items)
    BY <2>1 DEF Stream, SessionTypeInv
  <2>3. PICK to \in Nat : Reaches(s, base[c], to) /\ to + dropped[c] = lines
    BY <2>1 DEF StreamInv, StreamReaches
  <2>4. PICK marks : Marked(s, base[c], marks) /\ marks[Len(s)] = to
    BY <2>3 DEF Reaches
  <2> HIDE DEF s
  <2>5. base[c] + Extent(s) = to
    BY <2>2, <2>4, ExtentFromMarks
  <2> QED
    BY <2>3, <2>5 DEF s
<1> QED
  BY <1>1, StreamInvariant, PTL
=============================================================================
