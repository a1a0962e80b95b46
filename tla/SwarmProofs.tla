---------------------------- MODULE SwarmProofs ----------------------------
(***************************************************************************)
(* Theorems about Swarm, for every number of callers, teams, slots, ids,   *)
(* restarts and inherited tasks.                                           *)
(***************************************************************************)
EXTENDS Swarm, TLAPS, FiniteSetTheorems

LEMMA HomeTeamType == HomeTeam \in Teams
  BY CallersAssumption DEF HomeTeam

LEMMA IdType ==
  ASSUME NEW a \in Ids
  PROVE  a \in Nat /\ (MintId(a) => idSeq' \in 0..MaxIds)
  BY CountAssumption DEF Ids, MintId

LEMMA SeqTypes ==
  /\ <<>> \in Seq(Ids)
  /\ \A q \in Seq(Ids), a \in Ids : Append(q, a) \in Seq(Ids)
  /\ \A q \in Seq(Ids) : q # <<>> => Head(q) \in Ids /\ Tail(q) \in Seq(Ids)
  OBVIOUS

\* The variables keep their types.  Only TypeOK itself is needed to show that
\* a step preserves it.
THEOREM TypeCorrect == Spec => []TypeOK
<1>1. Init => TypeOK
  <2> SUFFICES ASSUME Init PROVE TypeOK
    OBVIOUS
  <2>1. idSeq \in 0..MaxIds /\ restarts \in [Ids -> 0..MaxRestarts]
    BY CountAssumption DEF Init
  <2>2. /\ queue \in [Teams -> Seq(Ids)] /\ running \in [Teams -> Nat]
        /\ team \in [Ids -> Teams] /\ scope \in [Callers -> Teams]
    BY SeqTypes, HomeTeamType DEF Init
  <2>3. /\ status \in [Ids -> Statuses \cup {"none"}]
        /\ phase \in [Ids -> Phases] /\ taskOf \in [Ids -> Ids]
    BY DEF Init, Statuses, Open, Phases
  <2>4. pc \in [Callers -> PCs] /\ \A c \in Callers : pc[c] = "idle"
    BY DEF Init, PCs
  <2> QED
    BY <2>1, <2>2, <2>3, <2>4 DEF Init, TypeOK
<1>2. TypeOK /\ [Next]_vars => TypeOK'
  <2> SUFFICES ASSUME TypeOK, [Next]_vars PROVE TypeOK'
    OBVIOUS
  <2> USE CountAssumption, IdType, SeqTypes DEF TypeOK, Statuses, Open, Terminal, Phases, Holding, PCs,
        coordVars, teamVars, agentVars, opVars
  <2>1. ASSUME NEW c \in Callers, NEW t \in Teams, Spawn(c, t) PROVE TypeOK'
    BY <2>1 DEF Spawn, Register, Prepare, NotifyChange
  <2>2. ASSUME NEW c \in Callers, NEW i \in Ids, HandoffGet(c, i) PROVE TypeOK'
    BY <2>2 DEF HandoffGet
  <2>3. ASSUME NEW c \in Callers, HandoffMailFails(c) PROVE TypeOK'
    BY <2>3 DEF HandoffMailFails
  <2>4. ASSUME NEW c \in Callers, NEW t \in Teams, HandoffRegister(c, t) PROVE TypeOK'
    BY <2>4 DEF HandoffRegister, Register, Prepare, NotifyChange
  <2>5. ASSUME NEW c \in Callers, NEW t \in Teams, AdoptLive(c, t) PROVE TypeOK'
    BY <2>5 DEF AdoptLive
  <2>6. ASSUME NEW c \in Callers, AdoptList(c) PROVE TypeOK'
    BY <2>6 DEF AdoptList, TasksOf
  <2>7. ASSUME NEW c \in Callers, AdoptReassign(c) PROVE TypeOK'
    <3> PICK i \in todo[c], a \in Ids :
          /\ MintId(a)
          /\ todo' = [todo EXCEPT ![c] = @ \ {i}]
          /\ IF status[i] \in Terminal
               THEN /\ pc' = [pc EXCEPT ![c] = IF todo[c] = {i} THEN "idle" ELSE "reassign"]
                    /\ UNCHANGED <<status, owner, woken, taskOf, phase, cur>>
               ELSE /\ status' = [status EXCEPT ![i] = "pending"]
                    /\ owner' = [owner EXCEPT ![i] = a]
                    /\ NotifyChange
                    /\ taskOf' = [taskOf EXCEPT ![a] = i]
                    /\ Prepare(c, a, "cwd")
      BY <2>7 DEF AdoptReassign
    <3>1. i \in Ids
      OBVIOUS
    <3>2. UNCHANGED <<team, taskCwd, specCwd, restarts, teamVars, target, live, scope, closed>>
      BY <2>7 DEF AdoptReassign
    <3>3. CASE status[i] \in Terminal
      BY <3>1, <3>2, <3>3
    <3>4. CASE status[i] \notin Terminal
      <4>1. idSeq' \in 0..MaxIds
        OBVIOUS
      <4>2. /\ status' = [status EXCEPT ![i] = "pending"]
            /\ owner' = [owner EXCEPT ![i] = a]
            /\ taskOf' = [taskOf EXCEPT ![a] = i]
            /\ NotifyChange /\ Prepare(c, a, "cwd")
        BY <3>4
      <4>3. todo' \in [Callers -> SUBSET Ids]
        OBVIOUS
      <4> QED
        BY <3>1, <3>2, <4>1, <4>2, <4>3 DEF Prepare, NotifyChange
    <3> QED
      BY <3>3, <3>4
  <2>8. ASSUME NEW c \in Callers, RememberCwd(c) PROVE TypeOK'
    BY <2>8 DEF RememberCwd
  <2>9. ASSUME NEW c \in Callers, Retire(c) PROVE TypeOK'
    BY <2>9 DEF Retire, SetStatus, NotifyChange
  <2>10. ASSUME NEW c \in Callers, AdmitNow(c) PROVE TypeOK'
    BY <2>10 DEF AdmitNow, TeamOf
  <2>11. ASSUME NEW c \in Callers, AdmitQueue(c) PROVE TypeOK'
    BY <2>11 DEF AdmitQueue, TeamOf, After
  <2>12. ASSUME NEW a \in Ids, LaunchOK(a) PROVE TypeOK'
    BY <2>12 DEF LaunchOK
  <2>13. ASSUME NEW a \in Ids, LaunchFails(a) PROVE TypeOK'
    BY <2>13 DEF LaunchFails, Finish, NotifyChange
  <2>14. ASSUME NEW a \in Ids, MarkRunning(a) PROVE TypeOK'
    BY <2>14 DEF MarkRunning, SetStatus, NotifyChange, LaunchReturns, After
  <2>15. ASSUME NEW a \in Ids, Relaunch(a) PROVE TypeOK'
    BY <2>15 DEF Relaunch
  <2>16. ASSUME NEW a \in Ids, RecordOutcome(a) PROVE TypeOK'
    BY <2>16 DEF RecordOutcome, Finish, NotifyChange
  <2>17. ASSUME NEW a \in Ids, RemoveMember(a) PROVE TypeOK'
    BY <2>17 DEF RemoveMember
  <2>18. ASSUME NEW a \in Ids, ExitFree(a) PROVE TypeOK'
    <3>1. running' \in [Teams -> Nat]
      BY <2>18 DEF ExitFree, TeamOf
    <3> QED
      BY <2>18, <3>1 DEF ExitFree, LaunchReturns, After
  <2>19. ASSUME NEW a \in Ids, ExitNext(a) PROVE TypeOK'
    <3> DEFINE t == TeamOf(a)
               next == Head(queue[t])
    <3>1. t \in Teams
      BY DEF TeamOf
    <3>2. queue[t] \in Seq(Ids) /\ queue[t] # <<>>
      BY <2>19, <3>1 DEF ExitNext
    <3>3. next \in Ids /\ Tail(queue[t]) \in Seq(Ids)
      BY <3>2
    <3>4. running' \in [Teams -> Nat] /\ queue' \in [Teams -> Seq(Ids)]
      <4>1. /\ running' = [running EXCEPT ![t] =
                             (IF running[t] > 0 THEN running[t] - 1 ELSE running[t]) + 1]
            /\ queue' = [queue EXCEPT ![t] = Tail(queue[t])]
        BY <2>19 DEF ExitNext
      <4>2. running[t] \in Nat
        BY <3>1
      <4> HIDE DEF t
      <4>3. (IF running[t] > 0 THEN running[t] - 1 ELSE running[t]) + 1 \in Nat
        BY <4>2
      <4> QED
        BY <4>1, <4>3, <3>1, <3>3
    <3>5. cur' = [c \in Callers |-> IF Drives(c, a) THEN next ELSE cur[c]]
      BY <2>19 DEF ExitNext
    <3>6. phase' = [phase EXCEPT ![a] = "gone", ![next] = "launching"]
      BY <2>19 DEF ExitNext
    <3>7. UNCHANGED <<idSeq, coordVars, taskCwd, taskOf, specCwd, restarts, pc, opVars, closed>>
      BY <2>19 DEF ExitNext
    <3> HIDE DEF next, t
    <3> QED
      BY <3>3, <3>4, <3>5, <3>6, <3>7
  <2>20. ASSUME NEW c \in Callers, NEW t \in Teams, Collect(c, t) PROVE TypeOK'
    BY <2>20 DEF Collect
  <2>21. ASSUME NEW c \in Callers, CollectSettled(c) PROVE TypeOK'
    BY <2>21 DEF CollectSettled
  <2>22. ASSUME NEW c \in Callers, CollectBlocks(c) PROVE TypeOK'
    BY <2>22 DEF CollectBlocks
  <2>23. ASSUME NEW c \in Callers, CollectWakes(c) PROVE TypeOK'
    BY <2>23 DEF CollectWakes
  <2>24. ASSUME NEW c \in Callers, CollectGivesUp(c) PROVE TypeOK'
    BY <2>24 DEF CollectGivesUp
  <2>25. ASSUME NEW c \in Callers, Close(c) PROVE TypeOK'
    BY <2>25 DEF Close
  <2>26. CASE UNCHANGED vars
    BY <2>26 DEF vars
  <2> QED
    BY <2>1, <2>2, <2>3, <2>4, <2>5, <2>6, <2>7, <2>8, <2>9, <2>10, <2>11, <2>12, <2>13, <2>14,
       <2>15, <2>16, <2>17, <2>18, <2>19, <2>20, <2>21, <2>22, <2>23, <2>24, <2>25, <2>26
       DEF Next, Enter, CallerStep, AgentStep, MemberExit
<1> QED
  BY <1>1, <1>2, PTL DEF Spec

-----------------------------------------------------------------------------
(* Ids: what has not been minted is nobody's, and every id that is in use  *)
(* has been minted.                                                        *)

IdsInv ==
  /\ \A a \in Ids : a > idSeq => status[a] = "none" /\ phase[a] = "none" /\ taskOf[a] = a
  /\ \A a \in Ids : a <= idSeq => taskOf[a] <= idSeq
  /\ \A c \in Callers : target[c] <= idSeq /\ cur[c] <= idSeq
  /\ \A c \in Callers : \A i \in todo[c] : i <= idSeq

LEMMA IdNat ==
  ASSUME TypeOK
  PROVE  idSeq \in Nat /\ \A a \in Ids : a \in Nat
  BY CountAssumption DEF TypeOK, Ids

\* Minting an id makes it the newest one.
LEMMA MintNext ==
  ASSUME TypeOK, NEW a \in Ids, MintId(a)
  PROVE  /\ idSeq' = idSeq + 1 /\ a = idSeq + 1
         /\ \A b \in Ids : b # a => (b <= idSeq <=> b <= idSeq') /\ (b > idSeq <=> b > idSeq')
  BY IdNat DEF MintId

LEMMA InUse ==
  ASSUME TypeOK, IdsInv, NEW a \in Ids, phase[a] # "none"
  PROVE  a <= idSeq /\ taskOf[a] \in Ids /\ taskOf[a] <= idSeq
  BY IdNat DEF TypeOK, IdsInv

LEMMA IdsStep == TypeOK /\ IdsInv /\ [Next]_vars => IdsInv'
<1> SUFFICES ASSUME TypeOK, IdsInv, [Next]_vars PROVE IdsInv'
  OBVIOUS
<1>0. /\ idSeq \in Nat /\ \A a \in Ids : a \in Nat
      /\ taskOf \in [Ids -> Ids] /\ DOMAIN status = Ids /\ DOMAIN phase = Ids
      /\ \A c \in Callers : target[c] \in Nat /\ cur[c] \in Nat /\ todo[c] \subseteq Ids
      /\ DOMAIN target = Callers /\ DOMAIN cur = Callers /\ DOMAIN todo = Callers
      /\ status = [i \in Ids |-> status[i]] /\ phase = [i \in Ids |-> phase[i]]
      /\ target = [c \in Callers |-> target[c]] /\ cur = [c \in Callers |-> cur[c]]
      /\ todo = [c \in Callers |-> todo[c]]
  BY IdNat DEF TypeOK
<1> USE <1>0 DEF IdsInv, coordVars, teamVars, agentVars, opVars
<1>1. ASSUME NEW c \in Callers, NEW t \in Teams, Spawn(c, t) PROVE IdsInv'
  <2>1. PICK a \in Ids : MintId(a) /\ Register(a, t) /\ Prepare(c, a, "cwd")
    BY <1>1 DEF Spawn
  <2>2. /\ idSeq' = idSeq + 1 /\ a = idSeq + 1
        /\ \A b \in Ids : b # a => (b <= idSeq <=> b <= idSeq') /\ (b > idSeq <=> b > idSeq')
    BY <2>1, MintNext
  <2>3. /\ \A b \in Ids : b # a => status'[b] = status[b] /\ phase'[b] = phase[b]
        /\ UNCHANGED <<taskOf, target, todo>>
    BY <1>1, <2>1 DEF Spawn, Register, Prepare
  <2>4. \A d \in Callers : cur'[d] = cur[d] \/ cur'[d] = a
    BY <2>1 DEF Prepare
  <2> QED
    BY <2>2, <2>3, <2>4
<1>2. ASSUME NEW c \in Callers, NEW i \in Ids, HandoffGet(c, i) PROVE IdsInv'
  <2>1. i <= idSeq
    BY <1>2 DEF HandoffGet, Open
  <2> QED
    BY <1>2, <2>1 DEF HandoffGet
<1>3. ASSUME NEW c \in Callers, HandoffMailFails(c) PROVE IdsInv'
  BY <1>3 DEF HandoffMailFails
<1>4. ASSUME NEW c \in Callers, NEW t \in Teams, HandoffRegister(c, t) PROVE IdsInv'
  <2>1. PICK a \in Ids : MintId(a) /\ Register(a, t) /\ Prepare(c, a, "cwd")
    BY <1>4 DEF HandoffRegister
  <2>2. /\ idSeq' = idSeq + 1 /\ a = idSeq + 1
        /\ \A b \in Ids : b # a => (b <= idSeq <=> b <= idSeq') /\ (b > idSeq <=> b > idSeq')
    BY <2>1, MintNext
  <2>3. /\ \A b \in Ids : b # a => status'[b] = status[b] /\ phase'[b] = phase[b]
        /\ UNCHANGED <<taskOf, target, todo>>
    BY <1>4, <2>1 DEF HandoffRegister, Register, Prepare
  <2>4. \A d \in Callers : cur'[d] = cur[d] \/ cur'[d] = a
    BY <2>1 DEF Prepare
  <2> QED
    BY <2>2, <2>3, <2>4
<1>5. ASSUME NEW c \in Callers, NEW t \in Teams, AdoptLive(c, t) PROVE IdsInv'
  BY <1>5 DEF AdoptLive
<1>6. ASSUME NEW c \in Callers, AdoptList(c) PROVE IdsInv'
  BY <1>6 DEF AdoptList, TasksOf
<1>7. ASSUME NEW c \in Callers, AdoptReassign(c) PROVE IdsInv'
  <2>1. PICK i \in todo[c], a \in Ids :
          /\ MintId(a)
          /\ todo' = [todo EXCEPT ![c] = @ \ {i}]
          /\ IF status[i] \in Terminal
               THEN /\ pc' = [pc EXCEPT ![c] = IF todo[c] = {i} THEN "idle" ELSE "reassign"]
                    /\ UNCHANGED <<status, owner, woken, taskOf, phase, cur>>
               ELSE /\ status' = [status EXCEPT ![i] = "pending"]
                    /\ owner' = [owner EXCEPT ![i] = a]
                    /\ NotifyChange
                    /\ taskOf' = [taskOf EXCEPT ![a] = i]
                    /\ Prepare(c, a, "cwd")
    BY <1>7 DEF AdoptReassign
  <2>2. /\ idSeq' = idSeq + 1 /\ a = idSeq + 1
        /\ \A b \in Ids : b # a => (b <= idSeq <=> b <= idSeq') /\ (b > idSeq <=> b > idSeq')
    BY <2>1, MintNext
  <2>3. i \in Ids /\ i <= idSeq /\ i \in Nat /\ i # a
    BY <2>2
  <2>4. /\ \A d \in Callers : \A j \in todo'[d] : j <= idSeq'
        /\ UNCHANGED target
    BY <1>7, <2>1, <2>2 DEF AdoptReassign
  <2>5. \A d \in Callers : cur'[d] = cur[d] \/ cur'[d] = a
    BY <2>1 DEF Prepare
  <2>6. /\ \A b \in Ids : b # a => phase'[b] = phase[b] /\ taskOf'[b] = taskOf[b]
        /\ \A b \in Ids : b # i => status'[b] = status[b]
        /\ taskOf'[a] \in {a, i}
    BY <2>1, <2>2 DEF Prepare
  <2> QED
    BY <2>2, <2>3, <2>4, <2>5, <2>6
<1>8. ASSUME NEW c \in Callers, RememberCwd(c) PROVE IdsInv'
  BY <1>8 DEF RememberCwd
<1>9. ASSUME NEW c \in Callers, Retire(c) PROVE IdsInv'
  <2>1. \A b \in Ids : b > idSeq => status'[b] = status[b]
    BY <1>9 DEF Retire, SetStatus
  <2> QED
    BY <1>9, <2>1 DEF Retire
<1>10. ASSUME NEW c \in Callers, AdmitNow(c) PROVE IdsInv'
  <2>1. cur[c] \in Ids /\ cur[c] <= idSeq
    BY <1>10 DEF AdmitNow, TypeOK
  <2> QED
    BY <1>10, <2>1 DEF AdmitNow
<1>11. ASSUME NEW c \in Callers, AdmitQueue(c) PROVE IdsInv'
  BY <1>11 DEF AdmitQueue
<1>12. ASSUME NEW a \in Ids, LaunchOK(a) PROVE IdsInv'
  BY <1>12 DEF LaunchOK
<1>13. ASSUME NEW a \in Ids, LaunchFails(a) PROVE IdsInv'
  <2>1. a <= idSeq /\ taskOf[a] \in Ids /\ taskOf[a] <= idSeq
    BY <1>13, InUse DEF LaunchFails
  <2>2. \A b \in Ids : b > idSeq => status'[b] = status[b]
    BY <1>13, <2>1 DEF LaunchFails, Finish
  <2> QED
    BY <1>13, <2>1, <2>2 DEF LaunchFails
<1>14. ASSUME NEW a \in Ids, MarkRunning(a) PROVE IdsInv'
  <2>1. a <= idSeq /\ taskOf[a] \in Ids /\ taskOf[a] <= idSeq
    BY <1>14, InUse DEF MarkRunning
  <2>2. \A b \in Ids : b > idSeq => status'[b] = status[b]
    BY <1>14, <2>1 DEF MarkRunning, SetStatus
  <2> QED
    BY <1>14, <2>1, <2>2 DEF MarkRunning, LaunchReturns
<1>15. ASSUME NEW a \in Ids, Relaunch(a) PROVE IdsInv'
  BY <1>15 DEF Relaunch
<1>16. ASSUME NEW a \in Ids, RecordOutcome(a) PROVE IdsInv'
  <2>1. a <= idSeq /\ taskOf[a] \in Ids /\ taskOf[a] <= idSeq
    BY <1>16, InUse DEF RecordOutcome
  <2>2. \A b \in Ids : b > idSeq => status'[b] = status[b]
    BY <1>16, <2>1 DEF RecordOutcome, Finish
  <2> QED
    BY <1>16, <2>1, <2>2 DEF RecordOutcome
<1>17. ASSUME NEW a \in Ids, RemoveMember(a) PROVE IdsInv'
  BY <1>17 DEF RemoveMember
<1>18. ASSUME NEW a \in Ids, ExitFree(a) PROVE IdsInv'
  BY <1>18 DEF ExitFree, LaunchReturns
<1>19. ASSUME NEW a \in Ids, ExitNext(a) PROVE IdsInv'
  <2>1. PICK next \in Ids :
          /\ phase[next] = "queued"
          /\ phase' = [phase EXCEPT ![a] = "gone", ![next] = "launching"]
          /\ cur' = [d \in Callers |-> IF Drives(d, a) THEN next ELSE cur[d]]
    BY <1>19 DEF ExitNext, TypeOK
  <2>2. next <= idSeq /\ a <= idSeq
    BY <1>19, <2>1, InUse DEF ExitNext
  <2>3. UNCHANGED <<idSeq, status, taskOf, target, todo>>
    BY <1>19 DEF ExitNext
  <2> QED
    BY <2>1, <2>2, <2>3
<1>20. ASSUME NEW c \in Callers, NEW t \in Teams, Collect(c, t) PROVE IdsInv'
  BY <1>20 DEF Collect
<1>21. ASSUME NEW c \in Callers, CollectSettled(c) PROVE IdsInv'
  BY <1>21 DEF CollectSettled
<1>22. ASSUME NEW c \in Callers, CollectBlocks(c) PROVE IdsInv'
  BY <1>22 DEF CollectBlocks
<1>23. ASSUME NEW c \in Callers, CollectWakes(c) PROVE IdsInv'
  BY <1>23 DEF CollectWakes
<1>24. ASSUME NEW c \in Callers, CollectGivesUp(c) PROVE IdsInv'
  BY <1>24 DEF CollectGivesUp
<1>25. ASSUME NEW c \in Callers, Close(c) PROVE IdsInv'
  BY <1>25 DEF Close
<1>26. CASE UNCHANGED vars
  BY <1>26 DEF vars
<1> QED
  BY <1>1, <1>2, <1>3, <1>4, <1>5, <1>6, <1>7, <1>8, <1>9, <1>10, <1>11, <1>12, <1>13, <1>14,
     <1>15, <1>16, <1>17, <1>18, <1>19, <1>20, <1>21, <1>22, <1>23, <1>24, <1>25, <1>26
     DEF Next, Enter, CallerStep, AgentStep, MemberExit
\* What the identifiers promise, as an invariant of the specification.
THEOREM IdsCorrect == Spec => []IdsInv
<1>1. Init => IdsInv
  BY CountAssumption DEF Init, IdsInv, Ids
<1> QED
  BY <1>1, TypeCorrect, IdsStep, PTL DEF Spec

-----------------------------------------------------------------------------
(* Terminal statuses.                                                      *)

LEMMA TerminalStep ==
  TypeOK /\ IdsInv /\ [Next]_vars
    => \A i \in Ids : status[i] \in Terminal => status'[i] = status[i]
<1> DEFINE Final == \A i \in Ids : status[i] \in Terminal => status'[i] = status[i]
<1> SUFFICES ASSUME TypeOK, IdsInv, [Next]_vars PROVE Final
  OBVIOUS
<1>0. DOMAIN status = Ids /\ status = [i \in Ids |-> status[i]]
  BY DEF TypeOK
<1> USE <1>0 DEF coordVars, teamVars, agentVars, opVars
<1>1. ASSUME NEW c \in Callers, NEW t \in Teams, Spawn(c, t) PROVE Final
  <2>1. PICK a \in Ids : MintId(a) /\ Register(a, t)
    BY <1>1 DEF Spawn
  <2>2. status[a] = "none" /\ a \in Ids
    BY <2>1, MintNext, IdNat DEF IdsInv
  <2> QED
    BY <2>1, <2>2 DEF Register, Terminal
<1>2. ASSUME NEW c \in Callers, NEW i \in Ids, HandoffGet(c, i) PROVE Final
  BY <1>2 DEF HandoffGet
<1>3. ASSUME NEW c \in Callers, HandoffMailFails(c) PROVE Final
  BY <1>3 DEF HandoffMailFails
<1>4. ASSUME NEW c \in Callers, NEW t \in Teams, HandoffRegister(c, t) PROVE Final
  <2>1. PICK a \in Ids : MintId(a) /\ Register(a, t)
    BY <1>4 DEF HandoffRegister
  <2>2. status[a] = "none" /\ a \in Ids
    BY <2>1, MintNext, IdNat DEF IdsInv
  <2> QED
    BY <2>1, <2>2 DEF Register, Terminal
<1>5. ASSUME NEW c \in Callers, NEW t \in Teams, AdoptLive(c, t) PROVE Final
  BY <1>5 DEF AdoptLive
<1>6. ASSUME NEW c \in Callers, AdoptList(c) PROVE Final
  BY <1>6 DEF AdoptList
<1>7. ASSUME NEW c \in Callers, AdoptReassign(c) PROVE Final
  BY <1>7 DEF AdoptReassign
<1>8. ASSUME NEW c \in Callers, RememberCwd(c) PROVE Final
  BY <1>8 DEF RememberCwd
<1>9. ASSUME NEW c \in Callers, Retire(c) PROVE Final
  BY <1>9 DEF Retire, SetStatus
<1>10. ASSUME NEW c \in Callers, AdmitNow(c) PROVE Final
  BY <1>10 DEF AdmitNow
<1>11. ASSUME NEW c \in Callers, AdmitQueue(c) PROVE Final
  BY <1>11 DEF AdmitQueue
<1>12. ASSUME NEW a \in Ids, LaunchOK(a) PROVE Final
  BY <1>12 DEF LaunchOK
<1>13. ASSUME NEW a \in Ids, LaunchFails(a) PROVE Final
  BY <1>13 DEF LaunchFails, Finish
<1>14. ASSUME NEW a \in Ids, MarkRunning(a) PROVE Final
  BY <1>14 DEF MarkRunning, SetStatus
<1>15. ASSUME NEW a \in Ids, Relaunch(a) PROVE Final
  BY <1>15 DEF Relaunch
<1>16. ASSUME NEW a \in Ids, RecordOutcome(a) PROVE Final
  BY <1>16 DEF RecordOutcome, Finish
<1>17. ASSUME NEW a \in Ids, RemoveMember(a) PROVE Final
  BY <1>17 DEF RemoveMember
<1>18. ASSUME NEW a \in Ids, ExitFree(a) PROVE Final
  BY <1>18 DEF ExitFree
<1>19. ASSUME NEW a \in Ids, ExitNext(a) PROVE Final
  BY <1>19 DEF ExitNext
<1>20. ASSUME NEW c \in Callers, NEW t \in Teams, Collect(c, t) PROVE Final
  BY <1>20 DEF Collect
<1>21. ASSUME NEW c \in Callers, CollectSettled(c) PROVE Final
  BY <1>21 DEF CollectSettled
<1>22. ASSUME NEW c \in Callers, CollectBlocks(c) PROVE Final
  BY <1>22 DEF CollectBlocks
<1>23. ASSUME NEW c \in Callers, CollectWakes(c) PROVE Final
  BY <1>23 DEF CollectWakes
<1>24. ASSUME NEW c \in Callers, CollectGivesUp(c) PROVE Final
  BY <1>24 DEF CollectGivesUp
<1>25. ASSUME NEW c \in Callers, Close(c) PROVE Final
  BY <1>25 DEF Close
<1>26. CASE UNCHANGED vars
  BY <1>26 DEF vars
<1> QED
  BY <1>1, <1>2, <1>3, <1>4, <1>5, <1>6, <1>7, <1>8, <1>9, <1>10, <1>11, <1>12, <1>13, <1>14,
     <1>15, <1>16, <1>17, <1>18, <1>19, <1>20, <1>21, <1>22, <1>23, <1>24, <1>25, <1>26
     DEF Next, Enter, CallerStep, AgentStep, MemberExit

\* A finished task is never resurrected.  It rests on the coordinator's guards
\* and, for Register, on ids being fresh.
THEOREM TerminalForever == Spec => TerminalIsFinal
  BY TypeCorrect, IdsCorrect, TerminalStep, PTL DEF Spec, TerminalIsFinal

-----------------------------------------------------------------------------
(* The counter of a team and its queue.                                    *)

CounterInv ==
  /\ \A t \in Teams : running[t] <= MaxTeamSize
  /\ QueueOnlyWhenFull

LEMMA CounterStep == TypeOK /\ CounterInv /\ [Next]_vars => CounterInv'
<1> SUFFICES ASSUME TypeOK, CounterInv, [Next]_vars PROVE CounterInv'
  OBVIOUS
<1>0. /\ queue \in [Teams -> Seq(Ids)] /\ running \in [Teams -> Nat]
      /\ \A a \in Ids : TeamOf(a) \in Teams
      /\ \A c \in Callers : pc[c] = "admit" => cur[c] \in Ids
      /\ MaxTeamSize \in Nat \ {0}
  BY SizeAssumption DEF TypeOK, TeamOf
<1> USE <1>0 DEF CounterInv, QueueOnlyWhenFull, coordVars, teamVars, agentVars, opVars
<1>1. ASSUME NEW c \in Callers, NEW t \in Teams, Spawn(c, t) PROVE CounterInv'
  BY <1>1 DEF Spawn
<1>2. ASSUME NEW c \in Callers, NEW i \in Ids, HandoffGet(c, i) PROVE CounterInv'
  BY <1>2 DEF HandoffGet
<1>3. ASSUME NEW c \in Callers, HandoffMailFails(c) PROVE CounterInv'
  BY <1>3 DEF HandoffMailFails
<1>4. ASSUME NEW c \in Callers, NEW t \in Teams, HandoffRegister(c, t) PROVE CounterInv'
  BY <1>4 DEF HandoffRegister
<1>5. ASSUME NEW c \in Callers, NEW t \in Teams, AdoptLive(c, t) PROVE CounterInv'
  BY <1>5 DEF AdoptLive
<1>6. ASSUME NEW c \in Callers, AdoptList(c) PROVE CounterInv'
  BY <1>6 DEF AdoptList
<1>7. ASSUME NEW c \in Callers, AdoptReassign(c) PROVE CounterInv'
  BY <1>7 DEF AdoptReassign
<1>8. ASSUME NEW c \in Callers, RememberCwd(c) PROVE CounterInv'
  BY <1>8 DEF RememberCwd
<1>9. ASSUME NEW c \in Callers, Retire(c) PROVE CounterInv'
  BY <1>9 DEF Retire
<1>10. ASSUME NEW c \in Callers, AdmitNow(c) PROVE CounterInv'
  BY <1>10 DEF AdmitNow
<1>11. ASSUME NEW c \in Callers, AdmitQueue(c) PROVE CounterInv'
  BY <1>11 DEF AdmitQueue
<1>12. ASSUME NEW a \in Ids, LaunchOK(a) PROVE CounterInv'
  BY <1>12 DEF LaunchOK
<1>13. ASSUME NEW a \in Ids, LaunchFails(a) PROVE CounterInv'
  BY <1>13 DEF LaunchFails
<1>14. ASSUME NEW a \in Ids, MarkRunning(a) PROVE CounterInv'
  BY <1>14 DEF MarkRunning
<1>15. ASSUME NEW a \in Ids, Relaunch(a) PROVE CounterInv'
  BY <1>15 DEF Relaunch
<1>16. ASSUME NEW a \in Ids, RecordOutcome(a) PROVE CounterInv'
  BY <1>16 DEF RecordOutcome
<1>17. ASSUME NEW a \in Ids, RemoveMember(a) PROVE CounterInv'
  BY <1>17 DEF RemoveMember
<1>18. ASSUME NEW a \in Ids, ExitFree(a) PROVE CounterInv'
  BY <1>18 DEF ExitFree
<1>19. ASSUME NEW a \in Ids, ExitNext(a) PROVE CounterInv'
  BY <1>19 DEF ExitNext
<1>20. ASSUME NEW c \in Callers, NEW t \in Teams, Collect(c, t) PROVE CounterInv'
  BY <1>20 DEF Collect
<1>21. ASSUME NEW c \in Callers, CollectSettled(c) PROVE CounterInv'
  BY <1>21 DEF CollectSettled
<1>22. ASSUME NEW c \in Callers, CollectBlocks(c) PROVE CounterInv'
  BY <1>22 DEF CollectBlocks
<1>23. ASSUME NEW c \in Callers, CollectWakes(c) PROVE CounterInv'
  BY <1>23 DEF CollectWakes
<1>24. ASSUME NEW c \in Callers, CollectGivesUp(c) PROVE CounterInv'
  BY <1>24 DEF CollectGivesUp
<1>25. ASSUME NEW c \in Callers, Close(c) PROVE CounterInv'
  BY <1>25 DEF Close
<1>26. CASE UNCHANGED vars
  BY <1>26 DEF vars
<1> QED
  BY <1>1, <1>2, <1>3, <1>4, <1>5, <1>6, <1>7, <1>8, <1>9, <1>10, <1>11, <1>12, <1>13, <1>14,
     <1>15, <1>16, <1>17, <1>18, <1>19, <1>20, <1>21, <1>22, <1>23, <1>24, <1>25, <1>26
     DEF Next, Enter, CallerStep, AgentStep, MemberExit

\* A spec waits in the queue only while every slot of its team is taken: each
\* exit that could leave a free slot behind a waiting spec hands the slot over.
THEOREM QueueNeverStarves == Spec => []QueueOnlyWhenFull
<1>1. Init => CounterInv
  BY SizeAssumption DEF Init, CounterInv, QueueOnlyWhenFull
<1>2. CounterInv => QueueOnlyWhenFull
  BY DEF CounterInv
<1> QED
  BY <1>1, <1>2, TypeCorrect, CounterStep, PTL DEF Spec

-----------------------------------------------------------------------------
(* The agents of a team.                                                   *)

\* Steps of a caller between minting an agent and dispatching it.
Dispatching == {"cwd", "retire", "admit"}

\* A queue holds each of its agents once, and they are agents of that team that
\* wait; an agent that is still to be dispatched is the business of one caller.
DispatchInv ==
  /\ \A t \in Teams : \A m \in 1..Len(queue[t]) :
       phase[queue[t][m]] = "queued" /\ TeamOf(queue[t][m]) = t
  /\ \A t \in Teams : \A m, n \in 1..Len(queue[t]) : queue[t][m] = queue[t][n] => m = n
  /\ \A c \in Callers : pc[c] \in Dispatching => phase[cur[c]] = "minted"
  /\ \A c, d \in Callers :
       pc[c] \in Dispatching /\ pc[d] \in Dispatching /\ cur[c] = cur[d] => c = d

\* The task of an agent in use is neither exchanged nor moved to another team.
LEMMA TeamStable ==
  TypeOK /\ IdsInv /\ [Next]_vars
    => \A b \in Ids : phase[b] # "none" => TeamOf(b)' = TeamOf(b)
<1> DEFINE Same == \A b \in Ids : phase[b] # "none" => TeamOf(b)' = TeamOf(b)
<1> SUFFICES ASSUME TypeOK, IdsInv, [Next]_vars PROVE Same
  OBVIOUS
<1> USE DEF TeamOf, coordVars, teamVars, agentVars, opVars
<1>1. ASSUME NEW c \in Callers, NEW t \in Teams, Spawn(c, t) PROVE Same
  <2>1. PICK a \in Ids : MintId(a) /\ Register(a, t)
    BY <1>1 DEF Spawn
  <2>2. UNCHANGED taskOf /\ \A b \in Ids : b # a => team'[b] = team[b]
    BY <1>1, <2>1 DEF Spawn, Register, TypeOK
  <2>3. \A b \in Ids : phase[b] # "none" => taskOf[b] \in Ids /\ taskOf[b] # a
    BY <2>1, InUse, MintNext, IdNat
  <2> QED
    BY <2>2, <2>3
<1>2. ASSUME NEW c \in Callers, NEW i \in Ids, HandoffGet(c, i) PROVE Same
  BY <1>2 DEF HandoffGet
<1>3. ASSUME NEW c \in Callers, HandoffMailFails(c) PROVE Same
  BY <1>3 DEF HandoffMailFails
<1>4. ASSUME NEW c \in Callers, NEW t \in Teams, HandoffRegister(c, t) PROVE Same
  <2>1. PICK a \in Ids : MintId(a) /\ Register(a, t)
    BY <1>4 DEF HandoffRegister
  <2>2. UNCHANGED taskOf /\ \A b \in Ids : b # a => team'[b] = team[b]
    BY <1>4, <2>1 DEF HandoffRegister, Register, TypeOK
  <2>3. \A b \in Ids : phase[b] # "none" => taskOf[b] \in Ids /\ taskOf[b] # a
    BY <2>1, InUse, MintNext, IdNat
  <2> QED
    BY <2>2, <2>3
<1>5. ASSUME NEW c \in Callers, NEW t \in Teams, AdoptLive(c, t) PROVE Same
  BY <1>5 DEF AdoptLive
<1>6. ASSUME NEW c \in Callers, AdoptList(c) PROVE Same
  BY <1>6 DEF AdoptList
<1>7. ASSUME NEW c \in Callers, AdoptReassign(c) PROVE Same
  <2>1. PICK a \in Ids : MintId(a) /\ (UNCHANGED taskOf \/ \E i \in Ids : taskOf' = [taskOf EXCEPT ![a] = i])
    BY <1>7 DEF AdoptReassign, TypeOK
  <2>2. UNCHANGED team /\ \A b \in Ids : b # a => taskOf'[b] = taskOf[b]
    BY <1>7, <2>1 DEF AdoptReassign, TypeOK
  <2>3. \A b \in Ids : phase[b] # "none" => b # a
    BY <2>1, InUse, MintNext, IdNat
  <2> QED
    BY <2>2, <2>3
<1>8. ASSUME NEW c \in Callers, RememberCwd(c) PROVE Same
  BY <1>8 DEF RememberCwd
<1>9. ASSUME NEW c \in Callers, Retire(c) PROVE Same
  BY <1>9 DEF Retire
<1>10. ASSUME NEW c \in Callers, AdmitNow(c) PROVE Same
  BY <1>10 DEF AdmitNow
<1>11. ASSUME NEW c \in Callers, AdmitQueue(c) PROVE Same
  BY <1>11 DEF AdmitQueue
<1>12. ASSUME NEW a \in Ids, LaunchOK(a) PROVE Same
  BY <1>12 DEF LaunchOK
<1>13. ASSUME NEW a \in Ids, LaunchFails(a) PROVE Same
  BY <1>13 DEF LaunchFails
<1>14. ASSUME NEW a \in Ids, MarkRunning(a) PROVE Same
  BY <1>14 DEF MarkRunning
<1>15. ASSUME NEW a \in Ids, Relaunch(a) PROVE Same
  BY <1>15 DEF Relaunch
<1>16. ASSUME NEW a \in Ids, RecordOutcome(a) PROVE Same
  BY <1>16 DEF RecordOutcome
<1>17. ASSUME NEW a \in Ids, RemoveMember(a) PROVE Same
  BY <1>17 DEF RemoveMember
<1>18. ASSUME NEW a \in Ids, ExitFree(a) PROVE Same
  BY <1>18 DEF ExitFree
<1>19. ASSUME NEW a \in Ids, ExitNext(a) PROVE Same
  BY <1>19 DEF ExitNext
<1>20. ASSUME NEW c \in Callers, NEW t \in Teams, Collect(c, t) PROVE Same
  BY <1>20 DEF Collect
<1>21. ASSUME NEW c \in Callers, CollectSettled(c) PROVE Same
  BY <1>21 DEF CollectSettled
<1>22. ASSUME NEW c \in Callers, CollectBlocks(c) PROVE Same
  BY <1>22 DEF CollectBlocks
<1>23. ASSUME NEW c \in Callers, CollectWakes(c) PROVE Same
  BY <1>23 DEF CollectWakes
<1>24. ASSUME NEW c \in Callers, CollectGivesUp(c) PROVE Same
  BY <1>24 DEF CollectGivesUp
<1>25. ASSUME NEW c \in Callers, Close(c) PROVE Same
  BY <1>25 DEF Close
<1>26. CASE UNCHANGED vars
  BY <1>26 DEF vars
<1> QED
  BY <1>1, <1>2, <1>3, <1>4, <1>5, <1>6, <1>7, <1>8, <1>9, <1>10, <1>11, <1>12, <1>13, <1>14,
     <1>15, <1>16, <1>17, <1>18, <1>19, <1>20, <1>21, <1>22, <1>23, <1>24, <1>25, <1>26
     DEF Next, Enter, CallerStep, AgentStep, MemberExit

LEMMA Queued ==
  ASSUME TypeOK, DispatchInv, NEW t \in Teams, queue[t] # <<>>
  PROVE  /\ Head(queue[t]) \in Ids /\ phase[Head(queue[t])] = "queued" /\ TeamOf(Head(queue[t])) = t
         /\ \A m \in 1..Len(Tail(queue[t])) :
              /\ m + 1 \in 1..Len(queue[t])
              /\ Tail(queue[t])[m] = queue[t][m + 1]
              /\ Tail(queue[t])[m] # Head(queue[t])
<1>1. queue[t] \in Seq(Ids) /\ 1 \in 1..Len(queue[t]) /\ Head(queue[t]) = queue[t][1]
  BY DEF TypeOK
<1>2. \A m \in 1..Len(Tail(queue[t])) : m + 1 \in 1..Len(queue[t]) /\ Tail(queue[t])[m] = queue[t][m + 1]
  BY <1>1
<1>3. \A m \in 1..Len(Tail(queue[t])) : m + 1 # 1
  BY <1>1
<1> QED
  BY <1>1, <1>2, <1>3 DEF DispatchInv, TypeOK

\* Minting an agent disturbs no other.
LEMMA DispatchMint ==
  ASSUME TypeOK, IdsInv, DispatchInv, NEW c \in Callers, NEW a \in Ids,
         \A b \in Ids : phase[b] # "none" => TeamOf(b)' = TeamOf(b),
         phase[a] = "none", Prepare(c, a, "cwd"), UNCHANGED queue
  PROVE  DispatchInv'
<1>1. /\ phase \in [Ids -> Phases] /\ pc \in [Callers -> PCs] /\ cur \in [Callers -> Ids \cup {0}]
      /\ \A d \in Callers : pc[d] \in Dispatching => cur[d] \in Ids
      /\ \A t \in Teams : \A m \in 1..Len(queue[t]) : queue[t][m] \in Ids
  BY DEF TypeOK, Dispatching
<1>2. \A b \in Ids : phase[b] # "none" => phase'[b] = phase[b]
  BY <1>1 DEF Prepare
<1>3. \A d \in Callers : pc[d] \in Dispatching => cur[d] # a
  BY DEF DispatchInv
<1>4. phase'[a] = "minted" /\ cur'[c] = a
  BY <1>1 DEF Prepare
<1>5. \A d \in Callers : d # c => pc'[d] = pc[d] /\ cur'[d] = cur[d]
  BY DEF Prepare
<1> QED
  BY <1>1, <1>2, <1>3, <1>4, <1>5 DEF DispatchInv

LEMMA DispatchStep == TypeOK /\ IdsInv /\ DispatchInv /\ [Next]_vars => DispatchInv'
<1> SUFFICES ASSUME TypeOK, IdsInv, DispatchInv, [Next]_vars PROVE DispatchInv'
  OBVIOUS
<1>0. /\ \A b \in Ids : phase[b] # "none" => TeamOf(b)' = TeamOf(b)
      /\ queue \in [Teams -> Seq(Ids)] /\ phase \in [Ids -> Phases]
      /\ pc \in [Callers -> PCs] /\ cur \in [Callers -> Ids \cup {0}]
      /\ \A c \in Callers : pc[c] \in Dispatching => cur[c] \in Ids
      /\ \A t \in Teams : \A m \in 1..Len(queue[t]) : queue[t][m] \in Ids
  BY TeamStable DEF TypeOK, Dispatching
<1> USE <1>0 DEF coordVars, teamVars, agentVars, opVars
\* A step that leaves the queues alone and moves no agent out of "queued", nor
\* changes what the callers dispatch, preserves the invariant.
<1> DEFINE Aside ==
      /\ UNCHANGED queue
      /\ \A b \in Ids : phase[b] \in {"queued", "minted"} => phase'[b] = phase[b]
      /\ \A d \in Callers : pc'[d] \in Dispatching => pc[d] \in Dispatching /\ cur'[d] = cur[d]
<1>a. Aside => DispatchInv'
  BY DEF DispatchInv
<1> HIDE DEF Aside
<1>1. ASSUME NEW c \in Callers, NEW t \in Teams, Spawn(c, t) PROVE DispatchInv'
  <2>1. PICK a \in Ids : MintId(a) /\ Prepare(c, a, "cwd")
    BY <1>1 DEF Spawn
  <2>2. phase[a] = "none"
    BY <2>1, MintNext, IdNat DEF IdsInv
  <2>3. UNCHANGED queue
    BY <1>1 DEF Spawn
  <2> QED
    BY <2>1, <2>2, <2>3, DispatchMint
<1>2. ASSUME NEW c \in Callers, NEW i \in Ids, HandoffGet(c, i) PROVE DispatchInv'
  <2>1. Aside
    BY <1>2 DEF Aside, HandoffGet, Dispatching
  <2> QED
    BY <2>1, <1>a
<1>3. ASSUME NEW c \in Callers, HandoffMailFails(c) PROVE DispatchInv'
  <2>1. Aside
    BY <1>3 DEF Aside, HandoffMailFails, Dispatching
  <2> QED
    BY <2>1, <1>a
<1>4. ASSUME NEW c \in Callers, NEW t \in Teams, HandoffRegister(c, t) PROVE DispatchInv'
  <2>1. PICK a \in Ids : MintId(a) /\ Prepare(c, a, "cwd")
    BY <1>4 DEF HandoffRegister
  <2>2. phase[a] = "none"
    BY <2>1, MintNext, IdNat DEF IdsInv
  <2>3. UNCHANGED queue
    BY <1>4 DEF HandoffRegister
  <2> QED
    BY <2>1, <2>2, <2>3, DispatchMint
<1>5. ASSUME NEW c \in Callers, NEW t \in Teams, AdoptLive(c, t) PROVE DispatchInv'
  <2>1. Aside
    BY <1>5 DEF Aside, AdoptLive, Dispatching
  <2> QED
    BY <2>1, <1>a
<1>6. ASSUME NEW c \in Callers, AdoptList(c) PROVE DispatchInv'
  <2>1. Aside
    BY <1>6 DEF Aside, AdoptList, Dispatching
  <2> QED
    BY <2>1, <1>a
<1>7. ASSUME NEW c \in Callers, AdoptReassign(c) PROVE DispatchInv'
  <2>1. PICK i \in Ids, a \in Ids :
          /\ MintId(a)
          /\ IF status[i] \in Terminal
               THEN /\ pc' = [pc EXCEPT ![c] = IF todo[c] = {i} THEN "idle" ELSE "reassign"]
                    /\ UNCHANGED <<phase, cur>>
               ELSE Prepare(c, a, "cwd")
    BY <1>7 DEF AdoptReassign, TypeOK
  <2>2. UNCHANGED queue
    BY <1>7 DEF AdoptReassign
  <2>3. CASE status[i] \in Terminal
    <3>1. Aside
      BY <2>1, <2>2, <2>3 DEF Aside, Dispatching
    <3> QED
      BY <3>1, <1>a
  <2>4. CASE status[i] \notin Terminal
    <3>1. phase[a] = "none"
      BY <2>1, MintNext, IdNat DEF IdsInv
    <3> QED
      BY <2>1, <2>2, <2>4, <3>1, DispatchMint
  <2> QED
    BY <2>3, <2>4
<1>8. ASSUME NEW c \in Callers, RememberCwd(c) PROVE DispatchInv'
  <2>1. /\ UNCHANGED <<queue, phase, cur>>
        /\ \A d \in Callers : pc'[d] \in Dispatching => pc[d] \in Dispatching
    BY <1>8 DEF RememberCwd, Dispatching
  <2>2. Aside
    BY <2>1 DEF Aside
  <2> QED
    BY <2>2, <1>a
<1>9. ASSUME NEW c \in Callers, Retire(c) PROVE DispatchInv'
  <2>1. /\ UNCHANGED <<queue, phase, cur>>
        /\ \A d \in Callers : pc'[d] \in Dispatching => pc[d] \in Dispatching
    BY <1>9 DEF Retire, Dispatching
  <2>2. Aside
    BY <2>1 DEF Aside
  <2> QED
    BY <2>2, <1>a
<1>10. ASSUME NEW c \in Callers, AdmitNow(c) PROVE DispatchInv'
  <2> DEFINE a == cur[c]
  <2>1. a \in Ids /\ phase[a] = "minted" /\ pc[c] \in Dispatching
    BY <1>10 DEF AdmitNow, DispatchInv, Dispatching
  <2>2. \A d \in Callers : pc'[d] \in Dispatching => pc[d] \in Dispatching /\ cur'[d] = cur[d] /\ d # c
    BY <1>10 DEF AdmitNow, Dispatching
  <2>3. UNCHANGED queue /\ \A b \in Ids : b # a => phase'[b] = phase[b]
    BY <1>10 DEF AdmitNow
  <2> QED
    BY <2>1, <2>2, <2>3 DEF DispatchInv
<1>11. ASSUME NEW c \in Callers, AdmitQueue(c) PROVE DispatchInv'
  <2> DEFINE t == TeamOf(cur[c])
  <2>0. PICK a \in Ids : a = cur[c]
    BY <1>11 DEF AdmitQueue, Dispatching
  <2>1. phase[a] = "minted" /\ pc[c] \in Dispatching /\ t = TeamOf(a)
    BY <1>11, <2>0 DEF AdmitQueue, DispatchInv, Dispatching
  <2>2. \A d \in Callers : pc'[d] \in Dispatching => pc[d] \in Dispatching /\ cur'[d] = cur[d] /\ d # c
    BY <1>11 DEF AdmitQueue, Dispatching, After
  <2>3. phase'[a] = "queued" /\ \A b \in Ids : b # a => phase'[b] = phase[b]
    BY <1>11, <2>0, <2>1 DEF AdmitQueue
  <2>4. queue' = [queue EXCEPT ![t] = Append(queue[t], a)]
    BY <1>11, <2>0 DEF AdmitQueue
  <2>5. t \in Teams
    BY <2>1 DEF TypeOK, TeamOf
  <2>6. team'[taskOf'[a]] = t
    BY <2>1 DEF TeamOf
  <2> HIDE DEF t
  <2>7. \A u \in Teams : \A m \in 1..Len(queue'[u]) :
          \/ m \in 1..Len(queue[u]) /\ queue'[u][m] = queue[u][m]
          \/ u = t /\ m = Len(queue[u]) + 1 /\ queue'[u][m] = a
    BY <2>1, <2>4, <2>5
  <2>8. \A u \in Teams : \A m \in 1..Len(queue[u]) : queue[u][m] # a
    BY <2>1 DEF DispatchInv
  <2>9. \A u \in Teams : \A m \in 1..Len(queue'[u]) :
          phase'[queue'[u][m]] = "queued" /\ team'[taskOf'[queue'[u][m]]] = u
    BY <2>1, <2>3, <2>6, <2>7, <2>8 DEF DispatchInv, TeamOf
  <2>10. \A u \in Teams : \A m, n \in 1..Len(queue'[u]) : queue'[u][m] = queue'[u][n] => m = n
    BY <2>7, <2>8 DEF DispatchInv
  <2>11. /\ \A d \in Callers : pc'[d] \in Dispatching => phase'[cur'[d]] = "minted"
         /\ \A d, e \in Callers :
              pc'[d] \in Dispatching /\ pc'[e] \in Dispatching /\ cur'[d] = cur'[e] => d = e
    BY <2>0, <2>1, <2>2, <2>3 DEF DispatchInv
  <2> QED
    BY <2>9, <2>10, <2>11 DEF DispatchInv, TeamOf
<1>12. ASSUME NEW a \in Ids, LaunchOK(a) PROVE DispatchInv'
  <2>1. Aside
    BY <1>12 DEF Aside, LaunchOK, Dispatching
  <2> QED
    BY <2>1, <1>a
<1>13. ASSUME NEW a \in Ids, LaunchFails(a) PROVE DispatchInv'
  <2>1. Aside
    BY <1>13 DEF Aside, LaunchFails, Dispatching
  <2> QED
    BY <2>1, <1>a
<1>14. ASSUME NEW a \in Ids, MarkRunning(a) PROVE DispatchInv'
  <2>1. Aside
    BY <1>14 DEF Aside, MarkRunning, Dispatching, LaunchReturns, After
  <2> QED
    BY <2>1, <1>a
<1>15. ASSUME NEW a \in Ids, Relaunch(a) PROVE DispatchInv'
  <2>1. Aside
    BY <1>15 DEF Aside, Relaunch, Dispatching
  <2> QED
    BY <2>1, <1>a
<1>16. ASSUME NEW a \in Ids, RecordOutcome(a) PROVE DispatchInv'
  <2>1. Aside
    BY <1>16 DEF Aside, RecordOutcome, Dispatching
  <2> QED
    BY <2>1, <1>a
<1>17. ASSUME NEW a \in Ids, RemoveMember(a) PROVE DispatchInv'
  <2>1. Aside
    BY <1>17 DEF Aside, RemoveMember, Dispatching
  <2> QED
    BY <2>1, <1>a
<1>18. ASSUME NEW a \in Ids, ExitFree(a) PROVE DispatchInv'
  <2>1. Aside
    BY <1>18 DEF Aside, ExitFree, Dispatching, LaunchReturns, After
  <2> QED
    BY <2>1, <1>a
<1>19. ASSUME NEW a \in Ids, ExitNext(a) PROVE DispatchInv'
  <2> DEFINE t == TeamOf(a)
             next == Head(queue[t])
  <2>1. t \in Teams /\ queue[t] # <<>>
    BY <1>19 DEF ExitNext, TypeOK, TeamOf
  <2>2. /\ phase' = [phase EXCEPT ![a] = "gone", ![next] = "launching"]
        /\ queue' = [queue EXCEPT ![t] = Tail(queue[t])]
        /\ phase[a] = "leaving"
    BY <1>19 DEF ExitNext
  <2>3. \A d \in Callers : pc'[d] \in Dispatching => pc[d] \in Dispatching /\ cur'[d] = cur[d]
    BY <1>19 DEF ExitNext, Drives, Dispatching
  <2>4. next \in Ids /\ phase[next] = "queued" /\ TeamOf(next) = t
    BY <2>1, Queued
  <2>5. \A m \in 1..Len(Tail(queue[t])) :
          m + 1 \in 1..Len(queue[t]) /\ Tail(queue[t])[m] = queue[t][m + 1] /\ Tail(queue[t])[m] # next
    BY <2>1, Queued
  <2> HIDE DEF t, next
  <2>6. \A b \in Ids : b # next /\ phase[b] \in {"queued", "minted"} => phase'[b] = phase[b]
    BY <2>2, <2>4
  <2>7. queue'[t] = Tail(queue[t]) /\ \A u \in Teams : u # t => queue'[u] = queue[u]
    BY <2>1, <2>2
  <2>8. \A u \in Teams : u # t => \A m \in 1..Len(queue[u]) : queue[u][m] # next
    BY <2>4 DEF DispatchInv
  <2>9. \A u \in Teams : \A m \in 1..Len(queue'[u]) :
          phase'[queue'[u][m]] = "queued" /\ team'[taskOf'[queue'[u][m]]] = u
    <3> SUFFICES ASSUME NEW u \in Teams, NEW m \in 1..Len(queue'[u])
                 PROVE  phase'[queue'[u][m]] = "queued" /\ team'[taskOf'[queue'[u][m]]] = u
      OBVIOUS
    <3>1. CASE u # t
      <4>1. queue'[u][m] = queue[u][m] /\ m \in 1..Len(queue[u]) /\ queue[u][m] # next
        BY <3>1, <2>7, <2>8
      <4>2. phase[queue[u][m]] = "queued" /\ TeamOf(queue[u][m]) = u /\ queue[u][m] \in Ids
        BY <4>1 DEF DispatchInv
      <4> QED
        BY <4>1, <4>2, <2>6 DEF TeamOf
    <3>2. CASE u = t
      <4>1. m + 1 \in 1..Len(queue[t]) /\ queue'[u][m] = queue[t][m + 1] /\ queue'[u][m] # next
        BY <3>2, <2>5, <2>7
      <4>2. phase[queue[t][m + 1]] = "queued" /\ TeamOf(queue[t][m + 1]) = t /\ queue[t][m + 1] \in Ids
        BY <4>1, <2>1 DEF DispatchInv
      <4> QED
        BY <3>2, <4>1, <4>2, <2>6 DEF TeamOf
    <3> QED
      BY <3>1, <3>2
  <2>10. \A u \in Teams : \A m, n \in 1..Len(queue'[u]) : queue'[u][m] = queue'[u][n] => m = n
    <3> SUFFICES ASSUME NEW u \in Teams, NEW m \in 1..Len(queue'[u]), NEW n \in 1..Len(queue'[u]),
                        queue'[u][m] = queue'[u][n]
                 PROVE  m = n
      OBVIOUS
    <3>1. CASE u # t
      BY <3>1, <2>7 DEF DispatchInv
    <3>2. CASE u = t
      <4>1. /\ m + 1 \in 1..Len(queue[t]) /\ queue'[u][m] = queue[t][m + 1]
            /\ n + 1 \in 1..Len(queue[t]) /\ queue'[u][n] = queue[t][n + 1]
        BY <3>2, <2>5, <2>7
      <4>2. \A p, q \in 1..Len(queue[t]) : queue[t][p] = queue[t][q] => p = q
        BY <2>1 DEF DispatchInv
      <4>3. m + 1 = n + 1
        BY <4>1, <4>2
      <4> QED
        BY <4>3
    <3> QED
      BY <3>1, <3>2
  <2>11. /\ \A d \in Callers : pc'[d] \in Dispatching => phase'[cur'[d]] = "minted"
         /\ \A d, e \in Callers :
              pc'[d] \in Dispatching /\ pc'[e] \in Dispatching /\ cur'[d] = cur'[e] => d = e
    BY <2>3, <2>4, <2>6 DEF DispatchInv
  <2> QED
    BY <2>9, <2>10, <2>11 DEF DispatchInv, TeamOf
<1>20. ASSUME NEW c \in Callers, NEW t \in Teams, Collect(c, t) PROVE DispatchInv'
  <2>1. Aside
    BY <1>20 DEF Aside, Collect, Dispatching
  <2> QED
    BY <2>1, <1>a
<1>21. ASSUME NEW c \in Callers, CollectSettled(c) PROVE DispatchInv'
  <2>1. Aside
    BY <1>21 DEF Aside, CollectSettled, Dispatching
  <2> QED
    BY <2>1, <1>a
<1>22. ASSUME NEW c \in Callers, CollectBlocks(c) PROVE DispatchInv'
  <2>1. Aside
    BY <1>22 DEF Aside, CollectBlocks, Dispatching
  <2> QED
    BY <2>1, <1>a
<1>23. ASSUME NEW c \in Callers, CollectWakes(c) PROVE DispatchInv'
  <2>1. Aside
    BY <1>23 DEF Aside, CollectWakes, Dispatching
  <2> QED
    BY <2>1, <1>a
<1>24. ASSUME NEW c \in Callers, CollectGivesUp(c) PROVE DispatchInv'
  <2>1. Aside
    BY <1>24 DEF Aside, CollectGivesUp, Dispatching
  <2> QED
    BY <2>1, <1>a
<1>25. ASSUME NEW c \in Callers, Close(c) PROVE DispatchInv'
  <2>1. Aside
    BY <1>25 DEF Aside, Close, Dispatching
  <2> QED
    BY <2>1, <1>a
<1>26. CASE UNCHANGED vars
  <2>1. Aside
    BY <1>26 DEF Aside, vars
  <2> QED
    BY <2>1, <1>a
<1> QED
  BY <1>1, <1>2, <1>3, <1>4, <1>5, <1>6, <1>7, <1>8, <1>9, <1>10, <1>11, <1>12, <1>13, <1>14,
     <1>15, <1>16, <1>17, <1>18, <1>19, <1>20, <1>21, <1>22, <1>23, <1>24, <1>25, <1>26
     DEF Next, Enter, CallerStep, AgentStep, MemberExit

\* Of what the queues and the callers hold.
LEMMA DispatchCorrect == Spec => []DispatchInv
<1>1. Init => DispatchInv
  BY DEF Init, DispatchInv, Dispatching
<1> QED
  BY <1>1, TypeCorrect, IdsCorrect, DispatchStep, PTL DEF Spec

-----------------------------------------------------------------------------
(* The slots of a team.                                                    *)

LEMMA HoldersFinite == \A t \in Teams : IsFiniteSet(Holders(t)) /\ Cardinality(Holders(t)) \in Nat
<1>1. IsFiniteSet(Ids)
  BY CountAssumption, FS_Interval DEF Ids
<1> SUFFICES ASSUME NEW t \in Teams
             PROVE  IsFiniteSet(Holders(t)) /\ Cardinality(Holders(t)) \in Nat
  OBVIOUS
<1>2. Holders(t) \in SUBSET Ids
  BY DEF Holders
<1>3. IsFiniteSet(Holders(t))
  BY <1>1, <1>2, FS_Subset
<1> QED
  BY <1>3, FS_CardinalityType

\* Only these steps move an agent to, out of or past the queue of a team.
LEMMA PoolMoves ==
  ASSUME TypeOK, IdsInv, [Next]_vars
  PROVE  \/ /\ UNCHANGED <<running, queue>>
            /\ \A t \in Teams : Holders(t)' = Holders(t)
         \/ \E c \in Callers : AdmitNow(c) \/ AdmitQueue(c)
         \/ \E a \in Ids : ExitFree(a) \/ ExitNext(a)
<1> DEFINE Aside == /\ UNCHANGED <<running, queue>>
                    /\ \A b \in Ids : phase'[b] \in Holding <=> phase[b] \in Holding
           Moved == \/ \E c \in Callers : AdmitNow(c) \/ AdmitQueue(c)
                    \/ \E a \in Ids : ExitFree(a) \/ ExitNext(a)
<1>0. phase \in [Ids -> Phases] /\ \A b \in Ids : phase[b] # "none" => TeamOf(b)' = TeamOf(b)
  BY TeamStable DEF TypeOK
<1>a. Aside => \A t \in Teams : Holders(t)' = Holders(t)
  BY <1>0 DEF Holders, Holding
<1> SUFFICES Aside \/ Moved
  BY <1>a
<1> USE <1>0 DEF coordVars, teamVars, agentVars, opVars, Holding
<1>1. ASSUME NEW c \in Callers, NEW t \in Teams, Spawn(c, t) PROVE Aside \/ Moved
  <2>1. PICK a \in Ids : MintId(a) /\ Prepare(c, a, "cwd")
    BY <1>1 DEF Spawn
  <2>2. phase[a] = "none"
    BY <2>1, MintNext, IdNat DEF IdsInv
  <2> QED
    BY <1>1, <2>1, <2>2 DEF Spawn, Prepare
<1>2. ASSUME NEW c \in Callers, NEW i \in Ids, HandoffGet(c, i) PROVE Aside \/ Moved
  BY <1>2 DEF HandoffGet
<1>3. ASSUME NEW c \in Callers, HandoffMailFails(c) PROVE Aside \/ Moved
  BY <1>3 DEF HandoffMailFails
<1>4. ASSUME NEW c \in Callers, NEW t \in Teams, HandoffRegister(c, t) PROVE Aside \/ Moved
  <2>1. PICK a \in Ids : MintId(a) /\ Prepare(c, a, "cwd")
    BY <1>4 DEF HandoffRegister
  <2>2. phase[a] = "none"
    BY <2>1, MintNext, IdNat DEF IdsInv
  <2> QED
    BY <1>4, <2>1, <2>2 DEF HandoffRegister, Prepare
<1>5. ASSUME NEW c \in Callers, NEW t \in Teams, AdoptLive(c, t) PROVE Aside \/ Moved
  BY <1>5 DEF AdoptLive
<1>6. ASSUME NEW c \in Callers, AdoptList(c) PROVE Aside \/ Moved
  BY <1>6 DEF AdoptList
<1>7. ASSUME NEW c \in Callers, AdoptReassign(c) PROVE Aside \/ Moved
  <2>1. PICK a \in Ids : MintId(a) /\ (UNCHANGED phase \/ Prepare(c, a, "cwd"))
    BY <1>7 DEF AdoptReassign
  <2>2. phase[a] = "none"
    BY <2>1, MintNext, IdNat DEF IdsInv
  <2> QED
    BY <1>7, <2>1, <2>2 DEF AdoptReassign, Prepare
<1>8. ASSUME NEW c \in Callers, RememberCwd(c) PROVE Aside \/ Moved
  BY <1>8 DEF RememberCwd
<1>9. ASSUME NEW c \in Callers, Retire(c) PROVE Aside \/ Moved
  BY <1>9 DEF Retire
<1>10. ASSUME NEW c \in Callers, AdmitNow(c) PROVE Aside \/ Moved
  BY <1>10
<1>11. ASSUME NEW c \in Callers, AdmitQueue(c) PROVE Aside \/ Moved
  BY <1>11
<1>12. ASSUME NEW a \in Ids, LaunchOK(a) PROVE Aside \/ Moved
  BY <1>12 DEF LaunchOK
<1>13. ASSUME NEW a \in Ids, LaunchFails(a) PROVE Aside \/ Moved
  BY <1>13 DEF LaunchFails
<1>14. ASSUME NEW a \in Ids, MarkRunning(a) PROVE Aside \/ Moved
  BY <1>14 DEF MarkRunning
<1>15. ASSUME NEW a \in Ids, Relaunch(a) PROVE Aside \/ Moved
  BY <1>15 DEF Relaunch
<1>16. ASSUME NEW a \in Ids, RecordOutcome(a) PROVE Aside \/ Moved
  BY <1>16 DEF RecordOutcome
<1>17. ASSUME NEW a \in Ids, RemoveMember(a) PROVE Aside \/ Moved
  BY <1>17 DEF RemoveMember
<1>18. ASSUME NEW a \in Ids, ExitFree(a) PROVE Aside \/ Moved
  BY <1>18
<1>19. ASSUME NEW a \in Ids, ExitNext(a) PROVE Aside \/ Moved
  BY <1>19
<1>20. ASSUME NEW c \in Callers, NEW t \in Teams, Collect(c, t) PROVE Aside \/ Moved
  BY <1>20 DEF Collect
<1>21. ASSUME NEW c \in Callers, CollectSettled(c) PROVE Aside \/ Moved
  BY <1>21 DEF CollectSettled
<1>22. ASSUME NEW c \in Callers, CollectBlocks(c) PROVE Aside \/ Moved
  BY <1>22 DEF CollectBlocks
<1>23. ASSUME NEW c \in Callers, CollectWakes(c) PROVE Aside \/ Moved
  BY <1>23 DEF CollectWakes
<1>24. ASSUME NEW c \in Callers, CollectGivesUp(c) PROVE Aside \/ Moved
  BY <1>24 DEF CollectGivesUp
<1>25. ASSUME NEW c \in Callers, Close(c) PROVE Aside \/ Moved
  BY <1>25 DEF Close
<1>26. CASE UNCHANGED vars
  BY <1>26 DEF vars
<1> QED
  BY <1>1, <1>2, <1>3, <1>4, <1>5, <1>6, <1>7, <1>8, <1>9, <1>10, <1>11, <1>12, <1>13, <1>14,
     <1>15, <1>16, <1>17, <1>18, <1>19, <1>20, <1>21, <1>22, <1>23, <1>24, <1>25, <1>26
     DEF Next, Enter, CallerStep, AgentStep, MemberExit

\* The agent a caller admits is new to its team, and takes one slot of it.
LEMMA SlotTaken ==
  ASSUME TypeOK, IdsInv, DispatchInv, [Next]_vars, NEW c \in Callers, AdmitNow(c)
  PROVE  /\ TeamOf(cur[c]) \in Teams /\ cur[c] \in Ids \ Holders(TeamOf(cur[c]))
         /\ \A t \in Teams : Holders(t)' = IF t = TeamOf(cur[c]) THEN Holders(t) \cup {cur[c]}
                                           ELSE Holders(t)
<1>1. PICK a \in Ids : a = cur[c] /\ phase[a] = "minted"
  BY DEF AdmitNow, TypeOK, DispatchInv, Dispatching
<1>2. \A b \in Ids : phase[b] # "none" => TeamOf(b)' = TeamOf(b)
  BY TeamStable
<1>3. phase' = [phase EXCEPT ![a] = "launching"] /\ phase \in [Ids -> Phases]
  BY <1>1 DEF AdmitNow, TypeOK
<1>4. TeamOf(a) \in Teams
  BY DEF TypeOK, TeamOf
<1>5. \A t \in Teams : Holders(t)' = IF t = TeamOf(a) THEN Holders(t) \cup {a} ELSE Holders(t)
  BY <1>1, <1>2, <1>3 DEF Holders, Holding
<1> QED
  BY <1>1, <1>4, <1>5 DEF Holders, Holding

\* Queueing an agent takes no slot.
LEMMA SlotAwaited ==
  ASSUME TypeOK, IdsInv, DispatchInv, [Next]_vars, NEW c \in Callers, AdmitQueue(c)
  PROVE  /\ TeamOf(cur[c]) \in Teams /\ cur[c] \in Ids \ Holders(TeamOf(cur[c]))
         /\ \A t \in Teams : Holders(t)' = Holders(t)
<1>1. PICK a \in Ids : a = cur[c] /\ phase[a] = "minted"
  BY DEF AdmitQueue, TypeOK, DispatchInv, Dispatching
<1>2. \A b \in Ids : phase[b] # "none" => TeamOf(b)' = TeamOf(b)
  BY TeamStable
<1>3. phase' = [phase EXCEPT ![a] = "queued"] /\ phase \in [Ids -> Phases]
  BY <1>1 DEF AdmitQueue, TypeOK
<1>4. TeamOf(a) \in Teams
  BY DEF TypeOK, TeamOf
<1>5. \A t \in Teams : Holders(t)' = Holders(t)
  BY <1>1, <1>2, <1>3 DEF Holders, Holding
<1> QED
  BY <1>1, <1>4, <1>5 DEF Holders, Holding

\* An exit with nothing to launch gives up the slot of its agent.
LEMMA SlotFreed ==
  ASSUME TypeOK, IdsInv, [Next]_vars, NEW a \in Ids, ExitFree(a)
  PROVE  /\ TeamOf(a) \in Teams /\ a \in Holders(TeamOf(a))
         /\ \A t \in Teams : Holders(t)' = IF t = TeamOf(a) THEN Holders(t) \ {a} ELSE Holders(t)
<1>1. \A b \in Ids : phase[b] # "none" => TeamOf(b)' = TeamOf(b)
  BY TeamStable
<1>2. phase[a] = "leaving" /\ phase' = [phase EXCEPT ![a] = "gone"] /\ phase \in [Ids -> Phases]
  BY DEF ExitFree, TypeOK
<1>3. \A t \in Teams : Holders(t)' = IF t = TeamOf(a) THEN Holders(t) \ {a} ELSE Holders(t)
  BY <1>1, <1>2 DEF Holders, Holding
<1> QED
  BY <1>2, <1>3 DEF Holders, Holding, TypeOK, TeamOf

\* Any other exit passes the slot to the head of the queue, which had none.
LEMMA SlotPassed ==
  ASSUME TypeOK, IdsInv, DispatchInv, [Next]_vars, NEW a \in Ids, ExitNext(a)
  PROVE  /\ TeamOf(a) \in Teams /\ a \in Holders(TeamOf(a))
         /\ Head(queue[TeamOf(a)]) \in Ids \ Holders(TeamOf(a))
         /\ \A t \in Teams : Holders(t)' = IF t = TeamOf(a)
                                             THEN (Holders(t) \ {a}) \cup {Head(queue[t])}
                                             ELSE Holders(t)
<1>1. \A b \in Ids : phase[b] # "none" => TeamOf(b)' = TeamOf(b)
  BY TeamStable
<1>2. PICK t \in Teams : t = TeamOf(a) /\ queue[t] # <<>>
  BY DEF TypeOK, TeamOf, ExitNext
<1>3. PICK next \in Ids : next = Head(queue[t]) /\ phase[next] = "queued" /\ TeamOf(next) = t
  BY <1>2, Queued
<1>4. /\ phase[a] = "leaving" /\ phase \in [Ids -> Phases]
      /\ phase' = [phase EXCEPT ![a] = "gone", ![next] = "launching"]
  BY <1>2, <1>3 DEF ExitNext, TypeOK
<1>5. \A u \in Teams : Holders(u)' = IF u = t THEN (Holders(u) \ {a}) \cup {next} ELSE Holders(u)
  BY <1>1, <1>2, <1>3, <1>4 DEF Holders, Holding
<1> QED
  BY <1>2, <1>3, <1>4, <1>5 DEF Holders, Holding

HeldInv == \A t \in Teams : running[t] = Cardinality(Holders(t))

LEMMA HeldStep ==
  TypeOK /\ TypeOK' /\ IdsInv /\ DispatchInv /\ CounterInv /\ HeldInv /\ [Next]_vars => HeldInv'
<1> SUFFICES ASSUME TypeOK, TypeOK', IdsInv, DispatchInv, CounterInv, HeldInv, [Next]_vars
             PROVE  HeldInv'
  OBVIOUS
<1>0. running \in [Teams -> Nat] /\ \A t \in Teams : running[t] \in Nat /\ running[t] <= MaxTeamSize
  BY DEF TypeOK, CounterInv
<1>1. CASE UNCHANGED <<running, queue>> /\ \A t \in Teams : Holders(t)' = Holders(t)
  BY <1>1 DEF HeldInv
<1>2. ASSUME NEW c \in Callers, AdmitNow(c) PROVE HeldInv'
  <2> DEFINE a == cur[c]
             t == TeamOf(a)
  <2>1. t \in Teams /\ a \in Ids \ Holders(t) /\ running' = [running EXCEPT ![t] = @ + 1]
    BY <1>2, SlotTaken DEF AdmitNow
  <2>2. \A u \in Teams : Holders(u)' = IF u = t THEN Holders(u) \cup {a} ELSE Holders(u)
    BY <1>2, SlotTaken
  <2> HIDE DEF a, t
  <2>3. Cardinality(Holders(t) \cup {a}) = Cardinality(Holders(t)) + 1
    BY <2>1, HoldersFinite, FS_AddElement
  <2> QED
    BY <1>0, <2>1, <2>2, <2>3 DEF HeldInv
<1>3. ASSUME NEW c \in Callers, AdmitQueue(c) PROVE HeldInv'
  <2>1. UNCHANGED running
    BY <1>3 DEF AdmitQueue
  <2> QED
    BY <1>3, <2>1, SlotAwaited DEF HeldInv
<1>4. ASSUME NEW a \in Ids, ExitFree(a) PROVE HeldInv'
  <2> DEFINE t == TeamOf(a)
  <2>1. /\ t \in Teams /\ a \in Holders(t)
        /\ running' = [running EXCEPT ![t] = IF running[t] > 0 THEN running[t] - 1 ELSE running[t]]
    BY <1>4, SlotFreed DEF ExitFree
  <2>2. \A u \in Teams : Holders(u)' = IF u = t THEN Holders(u) \ {a} ELSE Holders(u)
    BY <1>4, SlotFreed
  <2> HIDE DEF t
  <2>3. /\ Cardinality(Holders(t) \ {a}) = Cardinality(Holders(t)) - 1
        /\ Cardinality(Holders(t)) # 0
    BY <2>1, HoldersFinite, FS_RemoveElement, FS_EmptySet
  <2>4. running[t] > 0
    BY <1>0, <2>1, <2>3 DEF HeldInv
  <2> QED
    BY <1>0, <2>1, <2>2, <2>3, <2>4 DEF HeldInv
<1>5. ASSUME NEW a \in Ids, ExitNext(a) PROVE HeldInv'
  <2>0. PICK t \in Teams : t = TeamOf(a)
    BY <1>5, SlotPassed
  <2> DEFINE next == Head(queue[t])
             left == Holders(t) \ {a}
  <2>1. /\ a \in Holders(t) /\ next \in Ids \ Holders(t)
        /\ running' = [running EXCEPT ![t] = (IF running[t] > 0 THEN running[t] - 1 ELSE running[t]) + 1]
    BY <1>5, <2>0, SlotPassed DEF ExitNext
  <2>2. \A u \in Teams : Holders(u)' = IF u = t THEN (Holders(u) \ {a}) \cup {Head(queue[u])} ELSE Holders(u)
    BY <1>5, <2>0, SlotPassed
  <2>3. Holders(t)' = left \cup {next} /\ \A u \in Teams : u # t => Holders(u)' = Holders(u)
    BY <2>1, <2>2
  <2>4. next \notin left
    BY <2>1
  <2>5. /\ Cardinality(left) = Cardinality(Holders(t)) - 1 /\ IsFiniteSet(left)
        /\ Cardinality(Holders(t)) # 0
    BY <2>1, HoldersFinite, FS_RemoveElement, FS_EmptySet
  <2> HIDE DEF next, left
  <2>6. Cardinality(left \cup {next}) = Cardinality(left) + 1
    BY <2>4, <2>5, FS_AddElement
  <2>7. running[t] = Cardinality(Holders(t)) /\ running[t] \in Nat /\ running[t] > 0
    BY <1>0, <2>1, <2>5 DEF HeldInv
  <2>8. running'[t] = running[t] /\ \A u \in Teams : u # t => running'[u] = running[u]
    BY <1>0, <2>1, <2>7
  <2>9. running'[t] = Cardinality(Holders(t)')
    <3>1. Cardinality(left \cup {next}) = running[t]
      BY <2>5, <2>6, <2>7
    <3> QED
      BY <2>3, <2>8, <3>1
  <2>10. \A u \in Teams : u # t => running'[u] = Cardinality(Holders(u)')
    BY <2>3, <2>8 DEF HeldInv
  <2> QED
    BY <2>9, <2>10 DEF HeldInv
<1> QED
  BY <1>1, <1>2, <1>3, <1>4, <1>5, PoolMoves

\* Together the invariants are inductive.
LEMMA SlotInvariants == Spec => [](TypeOK /\ IdsInv /\ DispatchInv /\ CounterInv /\ HeldInv)
<1>1. Init => HeldInv
  <2> SUFFICES ASSUME Init, NEW t \in Teams PROVE running[t] = Cardinality(Holders(t))
    BY DEF HeldInv
  <2>1. Holders(t) = {}
    BY DEF Init, Holders, Holding
  <2> QED
    BY <2>1, FS_EmptySet DEF Init
<1>2. Init => CounterInv
  BY SizeAssumption DEF Init, CounterInv, QueueOnlyWhenFull
<1> QED
  BY <1>1, <1>2, TypeCorrect, IdsCorrect, DispatchCorrect, CounterStep, HeldStep, PTL DEF Spec

\* The counter of a team is the number of agents that hold a slot of it, and no
\* more than there are slots: whichever goroutine gives a slot back, it is one
\* that was taken, and it is given back once.
THEOREM SlotsCorrect == Spec => []SlotsAccounted
<1>1. CounterInv /\ HeldInv => SlotsAccounted
  BY DEF CounterInv, HeldInv, SlotsAccounted
<1> QED
  BY <1>1, SlotInvariants, PTL

-----------------------------------------------------------------------------
(* A team is a FIFO pool.                                                  *)

\* The pool's Cardinality is the one of FiniteSets.
LEMMA PoolCardinality == \A S : Pool!Cardinality(S) = Cardinality(S)
  BY DEF Pool!Cardinality, Cardinality

LEMMA PoolStep ==
  TypeOK /\ IdsInv /\ DispatchInv /\ CounterInv /\ HeldInv /\ [Next]_vars
    => [Pool!Next]_<<queue, [t \in Teams |-> Holders(t)]>>
<1> SUFFICES ASSUME TypeOK, IdsInv, DispatchInv, CounterInv, HeldInv, [Next]_vars
             PROVE  Pool!Next \/ UNCHANGED <<queue, [t \in Teams |-> Holders(t)]>>
  OBVIOUS
<1> DEFINE active == [t \in Teams |-> Holders(t)]
<1>0. queue \in [Teams -> Seq(Ids)] /\ active' = [t \in Teams |-> Holders(t)']
  BY DEF TypeOK
<1>1. CASE UNCHANGED <<running, queue>> /\ \A t \in Teams : Holders(t)' = Holders(t)
  BY <1>0, <1>1
<1>2. ASSUME NEW c \in Callers, AdmitNow(c) PROVE Pool!Next
  <2>0. PICK t \in Teams, a \in Ids : a = cur[c] /\ t = TeamOf(a) /\ a \notin Holders(t)
    BY <1>2, SlotTaken
  <2>1. /\ \A u \in Teams : Holders(u)' = IF u = t THEN Holders(u) \cup {a} ELSE Holders(u)
        /\ UNCHANGED queue /\ running[t] < MaxTeamSize
    <3>1. \A u \in Teams : Holders(u)' = IF u = TeamOf(cur[c]) THEN Holders(u) \cup {cur[c]}
                                           ELSE Holders(u)
      BY <1>2, SlotTaken
    <3> QED
      BY <1>2, <2>0, <3>1 DEF AdmitNow
  <2>2. active' = [active EXCEPT ![t] = @ \cup {a}]
    BY <1>0, <2>1
  <2>3. queue[t] = <<>> /\ Cardinality(active[t]) < MaxTeamSize
    <3>1. running[t] # MaxTeamSize
      BY <2>1, SizeAssumption DEF TypeOK
    <3> QED
      BY <2>1, <3>1 DEF CounterInv, QueueOnlyWhenFull, HeldInv
  <2>4. a \notin Pool!Known(t)
    BY <2>0, <2>3 DEF Pool!Known
  <2>5. Pool!Start(t, a)
    BY <2>1, <2>2, <2>3, <2>4, PoolCardinality DEF Pool!Start
  <2> QED
    BY <2>5 DEF Pool!Next
<1>3. ASSUME NEW c \in Callers, AdmitQueue(c) PROVE Pool!Next
  <2>0. PICK t \in Teams, a \in Ids : a = cur[c] /\ t = TeamOf(a) /\ a \notin Holders(t)
    BY <1>3, SlotAwaited
  <2>1. /\ \A u \in Teams : Holders(u)' = Holders(u)
        /\ queue' = [queue EXCEPT ![t] = Append(@, a)]
        /\ ~ (running[t] < MaxTeamSize) /\ phase[a] = "minted"
    BY <1>3, <2>0, SlotAwaited DEF AdmitQueue, DispatchInv, Dispatching
  <2>2. active' = active
    BY <1>0, <2>1
  <2>3. Cardinality(active[t]) = MaxTeamSize
    <3>1. running[t] = MaxTeamSize
      BY <2>1, SizeAssumption DEF TypeOK, CounterInv
    <3> QED
      BY <3>1 DEF HeldInv
  <2>4. a \notin Pool!Known(t)
    <3>1. \A n \in DOMAIN queue[t] : phase[queue[t][n]] = "queued"
      BY <1>0 DEF DispatchInv
    <3> QED
      BY <2>0, <2>1, <3>1 DEF Pool!Known
  <2>5. Pool!Wait(t, a)
    BY <2>1, <2>2, <2>3, <2>4, PoolCardinality DEF Pool!Wait
  <2> QED
    BY <2>5 DEF Pool!Next
<1>4. ASSUME NEW a \in Ids, ExitFree(a) PROVE Pool!Next
  <2>0. PICK t \in Teams : t = TeamOf(a) /\ a \in Holders(t)
    BY <1>4, SlotFreed
  <2>1. /\ \A u \in Teams : Holders(u)' = IF u = t THEN Holders(u) \ {a} ELSE Holders(u)
        /\ UNCHANGED queue
    BY <1>4, <2>0, SlotFreed DEF ExitFree
  <2>2. active' = [active EXCEPT ![t] = @ \ {a}]
    BY <1>0, <2>1
  <2>3. queue[t] = <<>>
    <3>1. /\ running[t] \in Nat /\ running[t] <= MaxTeamSize /\ running[t] # 0
          /\ queue[t] = <<>> \/ (IF running[t] > 0 THEN running[t] - 1 ELSE running[t]) >= MaxTeamSize
      <4>1. running[t] # 0
        BY <2>0, HoldersFinite, FS_EmptySet DEF HeldInv
      <4> QED
        BY <1>4, <2>0, <4>1 DEF ExitFree, TypeOK, CounterInv
    <3> QED
      BY <3>1, SizeAssumption
  <2>4. Pool!End(t, a)
    BY <2>0, <2>1, <2>2, <2>3 DEF Pool!End
  <2> QED
    BY <2>4 DEF Pool!Next
<1>5. ASSUME NEW a \in Ids, ExitNext(a) PROVE Pool!Next
  <2>0. PICK t \in Teams : t = TeamOf(a) /\ a \in Holders(t)
    BY <1>5, SlotPassed
  <2>1. /\ \A u \in Teams : Holders(u)' = IF u = t THEN (Holders(u) \ {a}) \cup {Head(queue[u])}
                                         ELSE Holders(u)
        /\ queue[t] # <<>> /\ queue' = [queue EXCEPT ![t] = Tail(@)]
    BY <1>5, <2>0, SlotPassed DEF ExitNext
  <2>2. active' = [active EXCEPT ![t] = (@ \ {a}) \cup {Head(queue[t])}]
    BY <1>0, <2>1
  <2>3. Pool!End(t, a)
    BY <2>0, <2>1, <2>2 DEF Pool!End
  <2> QED
    BY <2>3 DEF Pool!Next
<1> QED
  BY <1>1, <1>2, <1>3, <1>4, <1>5, PoolMoves

\* Every team implements the pool.
THEOREM TeamsAreFifoPools == Spec => TeamIsFifoPool
<1>1. Init => Pool!Init
  <2> SUFFICES ASSUME Init PROVE Pool!Init
    OBVIOUS
  <2>1. \A t \in Teams : Holders(t) = {}
    BY DEF Init, Holders, Holding
  <2> QED
    BY <2>1 DEF Init, Pool!Init
<1> QED
  BY <1>1, SlotInvariants, PoolStep, PTL DEF Spec, TeamIsFifoPool, Pool!Spec

-----------------------------------------------------------------------------
(* Open tasks and the agents that serve them.                              *)

Serves == {"minted", "queued", "launching", "started", "watched"}

\* A new agent serves the task it was made for.
LEMMA StrandedMint ==
  ASSUME TypeOK, NoTaskStranded, NEW i \in Ids, NEW a \in Ids, phase[a] = "none",
         \A j \in Ids : j # i => status'[j] = status[j] /\ owner'[j] = owner[j],
         \A b \in Ids : b # a => phase'[b] = phase[b] /\ taskOf'[b] = taskOf[b],
         phase'[a] = "minted", taskOf'[a] = i, status'[i] = "pending"
  PROVE  NoTaskStranded'
<1>1. \A j \in Ids : \A b \in Serving(j) : b \in Serving(j)' /\ phase'[b] = phase[b]
  BY DEF Serving
<1>2. a \in Serving(i)'
  BY DEF Serving
<1>3. \A j \in Ids : j # i =>
        /\ status'[j] = "running" => \E b \in Serving(j)' : phase'[b] = "watched"
        /\ status'[j] = "pending" /\ owner'[j] # 0 => Serving(j)' # {}
  BY <1>1 DEF NoTaskStranded
<1> QED
  BY <1>2, <1>3 DEF NoTaskStranded

LEMMA StrandedStep ==
  TypeOK /\ IdsInv /\ DispatchInv /\ NoTaskStranded /\ [Next]_vars => NoTaskStranded'
<1> SUFFICES ASSUME TypeOK, IdsInv, DispatchInv, NoTaskStranded, [Next]_vars
             PROVE  NoTaskStranded'
  OBVIOUS
\* A step that ends tasks, and takes agents away from ended tasks only.
<1> DEFINE Aside ==
      /\ \A i \in Ids : \/ status'[i] \in Terminal
                        \/ status'[i] = status[i] /\ owner'[i] = owner[i]
      /\ \A b \in Ids : phase[b] \in Serves =>
           \/ /\ phase'[b] \in Serves /\ taskOf'[b] = taskOf[b]
              /\ phase[b] = "watched" => phase'[b] = "watched"
           \/ status'[taskOf[b]] \in Terminal
<1>0. /\ status \in [Ids -> Statuses \cup {"none"}] /\ phase \in [Ids -> Phases]
      /\ taskOf \in [Ids -> Ids] /\ owner \in [Ids -> Ids \cup {0}]
  BY DEF TypeOK
<1>a. Aside => NoTaskStranded'
  <2> SUFFICES ASSUME Aside, NEW i \in Ids
               PROVE  /\ status'[i] = "running" => \E b \in Serving(i)' : phase'[b] = "watched"
                      /\ status'[i] = "pending" /\ owner'[i] # 0 => Serving(i)' # {}
    BY DEF NoTaskStranded
  <2>1. CASE status'[i] \in Terminal
    BY <2>1 DEF Terminal
  <2>2. CASE status'[i] \notin Terminal
    <3>1. status'[i] = status[i] /\ owner'[i] = owner[i]
      BY <2>2
    <3>2. \A b \in Serving(i) : b \in Serving(i)' /\ (phase[b] = "watched" => phase'[b] = "watched")
      BY <2>2 DEF Serving, Serves
    <3> QED
      BY <3>1, <3>2 DEF NoTaskStranded
  <2> QED
    BY <2>1, <2>2
<1> USE <1>0 DEF coordVars, teamVars, agentVars, opVars, Serves
<1>1. ASSUME NEW c \in Callers, NEW t \in Teams, Spawn(c, t) PROVE NoTaskStranded'
  <2>1. PICK a \in Ids : MintId(a) /\ Register(a, t) /\ Prepare(c, a, "cwd")
    BY <1>1 DEF Spawn
  <2>2. phase[a] = "none" /\ taskOf[a] = a
    BY <2>1, MintNext, IdNat DEF IdsInv
  <2>3. /\ \A i \in Ids : i # a => status'[i] = status[i] /\ owner'[i] = owner[i]
        /\ \A b \in Ids : b # a => phase'[b] = phase[b]
        /\ phase'[a] = "minted" /\ UNCHANGED taskOf /\ status'[a] = "pending"
    BY <1>1, <2>1 DEF Spawn, Register, Prepare
  <2> QED
    BY <2>2, <2>3, StrandedMint
<1>2. ASSUME NEW c \in Callers, NEW i \in Ids, HandoffGet(c, i) PROVE NoTaskStranded'
  <2>1. Aside
    BY <1>2 DEF HandoffGet
  <2> QED
    BY <2>1, <1>a
<1>3. ASSUME NEW c \in Callers, HandoffMailFails(c) PROVE NoTaskStranded'
  <2>1. Aside
    BY <1>3 DEF HandoffMailFails
  <2> QED
    BY <2>1, <1>a
<1>4. ASSUME NEW c \in Callers, NEW t \in Teams, HandoffRegister(c, t) PROVE NoTaskStranded'
  <2>1. PICK a \in Ids : MintId(a) /\ Register(a, t) /\ Prepare(c, a, "cwd")
    BY <1>4 DEF HandoffRegister
  <2>2. phase[a] = "none" /\ taskOf[a] = a
    BY <2>1, MintNext, IdNat DEF IdsInv
  <2>3. /\ \A i \in Ids : i # a => status'[i] = status[i] /\ owner'[i] = owner[i]
        /\ \A b \in Ids : b # a => phase'[b] = phase[b]
        /\ phase'[a] = "minted" /\ UNCHANGED taskOf /\ status'[a] = "pending"
    BY <1>4, <2>1 DEF HandoffRegister, Register, Prepare
  <2> QED
    BY <2>2, <2>3, StrandedMint
<1>5. ASSUME NEW c \in Callers, NEW t \in Teams, AdoptLive(c, t) PROVE NoTaskStranded'
  <2>1. Aside
    BY <1>5 DEF AdoptLive
  <2> QED
    BY <2>1, <1>a
<1>6. ASSUME NEW c \in Callers, AdoptList(c) PROVE NoTaskStranded'
  <2>1. Aside
    BY <1>6 DEF AdoptList
  <2> QED
    BY <2>1, <1>a
<1>7. ASSUME NEW c \in Callers, AdoptReassign(c) PROVE NoTaskStranded'
  <2>1. PICK i \in Ids, a \in Ids :
          /\ MintId(a)
          /\ IF status[i] \in Terminal
               THEN UNCHANGED <<status, owner, taskOf, phase>>
               ELSE /\ status' = [status EXCEPT ![i] = "pending"]
                    /\ owner' = [owner EXCEPT ![i] = a]
                    /\ taskOf' = [taskOf EXCEPT ![a] = i]
                    /\ Prepare(c, a, "cwd")
    BY <1>7 DEF AdoptReassign, TypeOK
  <2>2. CASE status[i] \in Terminal
    <3>1. Aside
      BY <2>1, <2>2
    <3> QED
      BY <3>1, <1>a
  <2>3. CASE status[i] \notin Terminal
    <3>1. phase[a] = "none"
      BY <2>1, MintNext, IdNat DEF IdsInv
    <3>2. /\ \A j \in Ids : j # i => status'[j] = status[j] /\ owner'[j] = owner[j]
          /\ \A b \in Ids : b # a => phase'[b] = phase[b] /\ taskOf'[b] = taskOf[b]
          /\ phase'[a] = "minted" /\ taskOf'[a] = i /\ status'[i] = "pending"
      BY <2>1, <2>3 DEF Prepare
    <3> QED
      BY <3>1, <3>2, StrandedMint
  <2> QED
    BY <2>2, <2>3
<1>8. ASSUME NEW c \in Callers, RememberCwd(c) PROVE NoTaskStranded'
  <2>1. Aside
    BY <1>8 DEF RememberCwd
  <2> QED
    BY <2>1, <1>a
<1>9. ASSUME NEW c \in Callers, Retire(c) PROVE NoTaskStranded'
  <2>1. \A i \in Ids : status'[i] = status[i] \/ status'[i] \in Terminal
    BY <1>9 DEF Retire, SetStatus, Terminal
  <2>2. Aside
    BY <1>9, <2>1 DEF Retire
  <2> QED
    BY <2>2, <1>a
<1>10. ASSUME NEW c \in Callers, AdmitNow(c) PROVE NoTaskStranded'
  <2>1. cur[c] \in Ids /\ phase[cur[c]] = "minted"
    BY <1>10 DEF AdmitNow, TypeOK, DispatchInv, Dispatching
  <2>2. Aside
    BY <1>10, <2>1 DEF AdmitNow
  <2> QED
    BY <2>2, <1>a
<1>11. ASSUME NEW c \in Callers, AdmitQueue(c) PROVE NoTaskStranded'
  <2>1. cur[c] \in Ids /\ phase[cur[c]] = "minted"
    BY <1>11 DEF AdmitQueue, TypeOK, DispatchInv, Dispatching
  <2>2. Aside
    BY <1>11, <2>1 DEF AdmitQueue
  <2> QED
    BY <2>2, <1>a
<1>12. ASSUME NEW a \in Ids, LaunchOK(a) PROVE NoTaskStranded'
  <2>1. Aside
    BY <1>12 DEF LaunchOK
  <2> QED
    BY <2>1, <1>a
<1>13. ASSUME NEW a \in Ids, LaunchFails(a) PROVE NoTaskStranded'
  <2>1. /\ \A i \in Ids : i # taskOf[a] => status'[i] = status[i]
        /\ status'[taskOf[a]] \in Terminal /\ UNCHANGED owner
    BY <1>13 DEF LaunchFails, Finish, Terminal
  <2>2. Aside
    BY <1>13, <2>1 DEF LaunchFails
  <2> QED
    BY <2>2, <1>a
<1>14. ASSUME NEW a \in Ids, MarkRunning(a) PROVE NoTaskStranded'
  <2>0. PICK i \in Ids : i = taskOf[a]
    OBVIOUS
  <2>1. /\ phase[a] = "started" /\ phase'[a] = "watched" /\ UNCHANGED <<taskOf, owner>>
        /\ \A b \in Ids : b # a => phase'[b] = phase[b]
    BY <1>14 DEF MarkRunning
  <2>2. CASE status[i] \in Terminal
    <3>1. UNCHANGED status
      BY <1>14, <2>0, <2>2 DEF MarkRunning, SetStatus, Terminal
    <3>2. Aside
      BY <2>1, <3>1
    <3> QED
      BY <3>2, <1>a
  <2>3. CASE status[i] \notin Terminal
    <3>1. status' = [status EXCEPT ![i] = "running"]
      BY <1>14, <2>0, <2>3 DEF MarkRunning, SetStatus
    <3>2. a \in Serving(i)'
      BY <2>0, <2>1 DEF Serving
    <3>3. \A j \in Ids : \A b \in Serving(j) :
            b \in Serving(j)' /\ (phase[b] = "watched" => phase'[b] = "watched")
      BY <2>1 DEF Serving
    <3>4. status'[i] = "running" /\ \A j \in Ids : j # i => status'[j] = status[j] /\ owner'[j] = owner[j]
      BY <2>1, <3>1
    <3>5. \A j \in Ids : j # i =>
            /\ status'[j] = "running" => \E b \in Serving(j)' : phase'[b] = "watched"
            /\ status'[j] = "pending" /\ owner'[j] # 0 => Serving(j)' # {}
      BY <3>3, <3>4 DEF NoTaskStranded
    <3> QED
      BY <2>1, <3>2, <3>4, <3>5 DEF NoTaskStranded
  <2> QED
    BY <2>2, <2>3
<1>15. ASSUME NEW a \in Ids, Relaunch(a) PROVE NoTaskStranded'
  <2>1. Aside
    BY <1>15 DEF Relaunch
  <2> QED
    BY <2>1, <1>a
<1>16. ASSUME NEW a \in Ids, RecordOutcome(a) PROVE NoTaskStranded'
  <2>1. /\ \A i \in Ids : i # taskOf[a] => status'[i] = status[i]
        /\ status'[taskOf[a]] \in Terminal /\ UNCHANGED owner
    BY <1>16 DEF RecordOutcome, Finish, Terminal
  <2>2. Aside
    BY <1>16, <2>1 DEF RecordOutcome
  <2> QED
    BY <2>2, <1>a
<1>17. ASSUME NEW a \in Ids, RemoveMember(a) PROVE NoTaskStranded'
  <2>1. Aside
    BY <1>17 DEF RemoveMember
  <2> QED
    BY <2>1, <1>a
<1>18. ASSUME NEW a \in Ids, ExitFree(a) PROVE NoTaskStranded'
  <2>1. Aside
    BY <1>18 DEF ExitFree
  <2> QED
    BY <2>1, <1>a
<1>19. ASSUME NEW a \in Ids, ExitNext(a) PROVE NoTaskStranded'
  <2>1. TeamOf(a) \in Teams /\ queue[TeamOf(a)] # <<>>
    BY <1>19 DEF ExitNext, TypeOK, TeamOf
  <2>2. PICK next \in Ids : phase[next] = "queued" /\ phase' = [phase EXCEPT ![a] = "gone", ![next] = "launching"]
    BY <1>19, <2>1, Queued DEF ExitNext
  <2>3. phase[a] = "leaving" /\ UNCHANGED <<status, owner, taskOf>>
    BY <1>19 DEF ExitNext
  <2>4. Aside
    BY <2>2, <2>3
  <2> QED
    BY <2>4, <1>a
<1>20. ASSUME NEW c \in Callers, NEW t \in Teams, Collect(c, t) PROVE NoTaskStranded'
  <2>1. Aside
    BY <1>20 DEF Collect
  <2> QED
    BY <2>1, <1>a
<1>21. ASSUME NEW c \in Callers, CollectSettled(c) PROVE NoTaskStranded'
  <2>1. Aside
    BY <1>21 DEF CollectSettled
  <2> QED
    BY <2>1, <1>a
<1>22. ASSUME NEW c \in Callers, CollectBlocks(c) PROVE NoTaskStranded'
  <2>1. Aside
    BY <1>22 DEF CollectBlocks
  <2> QED
    BY <2>1, <1>a
<1>23. ASSUME NEW c \in Callers, CollectWakes(c) PROVE NoTaskStranded'
  <2>1. Aside
    BY <1>23 DEF CollectWakes
  <2> QED
    BY <2>1, <1>a
<1>24. ASSUME NEW c \in Callers, CollectGivesUp(c) PROVE NoTaskStranded'
  <2>1. Aside
    BY <1>24 DEF CollectGivesUp
  <2> QED
    BY <2>1, <1>a
<1>25. ASSUME NEW c \in Callers, Close(c) PROVE NoTaskStranded'
  <2>1. Aside
    BY <1>25 DEF Close
  <2> QED
    BY <2>1, <1>a
<1>26. CASE UNCHANGED vars
  <2>1. Aside
    BY <1>26 DEF vars
  <2> QED
    BY <2>1, <1>a
<1> QED
  BY <1>1, <1>2, <1>3, <1>4, <1>5, <1>6, <1>7, <1>8, <1>9, <1>10, <1>11, <1>12, <1>13, <1>14,
     <1>15, <1>16, <1>17, <1>18, <1>19, <1>20, <1>21, <1>22, <1>23, <1>24, <1>25, <1>26
     DEF Next, Enter, CallerStep, AgentStep, MemberExit

\* An open task always has an agent that will end it: it is safe to wait for it.
THEOREM TasksAreServed == Spec => []NoTaskStranded
<1>1. Init => NoTaskStranded
  BY DEF Init, NoTaskStranded
<1> QED
  BY <1>1, SlotInvariants, StrandedStep, PTL DEF Spec

-----------------------------------------------------------------------------
(* Collectors.                                                             *)

LEMMA WakeupStep == TypeOK /\ NoLostWakeup /\ [Next]_vars => NoLostWakeup'
<1> SUFFICES ASSUME TypeOK, NoLostWakeup, [Next]_vars PROVE NoLostWakeup'
  OBVIOUS
\* Whatever a task does, the collectors that wait are told or it changes nothing.
<1> DEFINE Told ==
      \A c \in Callers : pc'[c] = "blocked" /\ ~ woken'[c] =>
        /\ UNCHANGED <<status, team>>
        /\ pc[c] = "blocked" /\ ~ woken[c] /\ scope'[c] = scope[c]
<1>0. pc \in [Callers -> PCs] /\ woken \in [Callers -> BOOLEAN]
  BY DEF TypeOK
<1>a. Told => NoLostWakeup'
  BY DEF NoLostWakeup, Settled, TasksOf
<1> USE <1>0 DEF coordVars, teamVars, agentVars, opVars
<1>1. ASSUME NEW c \in Callers, NEW t \in Teams, Spawn(c, t) PROVE NoLostWakeup'
  <2>1. Told
    BY <1>1 DEF Spawn, Register, Prepare, NotifyChange
  <2> QED
    BY <2>1, <1>a
<1>2. ASSUME NEW c \in Callers, NEW i \in Ids, HandoffGet(c, i) PROVE NoLostWakeup'
  <2>1. Told
    BY <1>2 DEF HandoffGet
  <2> QED
    BY <2>1, <1>a
<1>3. ASSUME NEW c \in Callers, HandoffMailFails(c) PROVE NoLostWakeup'
  <2>1. Told
    BY <1>3 DEF HandoffMailFails
  <2> QED
    BY <2>1, <1>a
<1>4. ASSUME NEW c \in Callers, NEW t \in Teams, HandoffRegister(c, t) PROVE NoLostWakeup'
  <2>1. Told
    BY <1>4 DEF HandoffRegister, Register, Prepare, NotifyChange
  <2> QED
    BY <2>1, <1>a
<1>5. ASSUME NEW c \in Callers, NEW t \in Teams, AdoptLive(c, t) PROVE NoLostWakeup'
  <2>1. Told
    BY <1>5 DEF AdoptLive
  <2> QED
    BY <2>1, <1>a
<1>6. ASSUME NEW c \in Callers, AdoptList(c) PROVE NoLostWakeup'
  <2>1. Told
    BY <1>6 DEF AdoptList
  <2> QED
    BY <2>1, <1>a
<1>7. ASSUME NEW c \in Callers, AdoptReassign(c) PROVE NoLostWakeup'
  <2>1. Told
    BY <1>7 DEF AdoptReassign, Prepare, NotifyChange
  <2> QED
    BY <2>1, <1>a
<1>8. ASSUME NEW c \in Callers, RememberCwd(c) PROVE NoLostWakeup'
  <2>1. Told
    BY <1>8 DEF RememberCwd
  <2> QED
    BY <2>1, <1>a
<1>9. ASSUME NEW c \in Callers, Retire(c) PROVE NoLostWakeup'
  <2>1. Told
    BY <1>9 DEF Retire, SetStatus, NotifyChange
  <2> QED
    BY <2>1, <1>a
<1>10. ASSUME NEW c \in Callers, AdmitNow(c) PROVE NoLostWakeup'
  <2>1. Told
    BY <1>10 DEF AdmitNow
  <2> QED
    BY <2>1, <1>a
<1>11. ASSUME NEW c \in Callers, AdmitQueue(c) PROVE NoLostWakeup'
  <2>1. Told
    BY <1>11 DEF AdmitQueue, After
  <2> QED
    BY <2>1, <1>a
<1>12. ASSUME NEW a \in Ids, LaunchOK(a) PROVE NoLostWakeup'
  <2>1. Told
    BY <1>12 DEF LaunchOK
  <2> QED
    BY <2>1, <1>a
<1>13. ASSUME NEW a \in Ids, LaunchFails(a) PROVE NoLostWakeup'
  <2>1. Told
    BY <1>13 DEF LaunchFails, Finish, NotifyChange
  <2> QED
    BY <2>1, <1>a
<1>14. ASSUME NEW a \in Ids, MarkRunning(a) PROVE NoLostWakeup'
  <2>1. Told
    BY <1>14 DEF MarkRunning, SetStatus, NotifyChange, LaunchReturns, Drives, After
  <2> QED
    BY <2>1, <1>a
<1>15. ASSUME NEW a \in Ids, Relaunch(a) PROVE NoLostWakeup'
  <2>1. Told
    BY <1>15 DEF Relaunch
  <2> QED
    BY <2>1, <1>a
<1>16. ASSUME NEW a \in Ids, RecordOutcome(a) PROVE NoLostWakeup'
  <2>1. Told
    BY <1>16 DEF RecordOutcome, Finish, NotifyChange
  <2> QED
    BY <2>1, <1>a
<1>17. ASSUME NEW a \in Ids, RemoveMember(a) PROVE NoLostWakeup'
  <2>1. Told
    BY <1>17 DEF RemoveMember
  <2> QED
    BY <2>1, <1>a
<1>18. ASSUME NEW a \in Ids, ExitFree(a) PROVE NoLostWakeup'
  <2>1. Told
    BY <1>18 DEF ExitFree, LaunchReturns, Drives, After
  <2> QED
    BY <2>1, <1>a
<1>19. ASSUME NEW a \in Ids, ExitNext(a) PROVE NoLostWakeup'
  <2>1. Told
    BY <1>19 DEF ExitNext
  <2> QED
    BY <2>1, <1>a
<1>20. ASSUME NEW c \in Callers, NEW t \in Teams, Collect(c, t) PROVE NoLostWakeup'
  <2>1. Told
    BY <1>20 DEF Collect
  <2> QED
    BY <2>1, <1>a
<1>21. ASSUME NEW c \in Callers, CollectSettled(c) PROVE NoLostWakeup'
  <2>1. Told
    BY <1>21 DEF CollectSettled
  <2> QED
    BY <2>1, <1>a
<1>22. ASSUME NEW c \in Callers, CollectBlocks(c) PROVE NoLostWakeup'
  <2>1. \A d \in Callers : d # c => pc'[d] = pc[d] /\ woken'[d] = woken[d]
    BY <1>22 DEF CollectBlocks
  <2>2. UNCHANGED <<status, team, scope>> /\ ~ Settled(scope[c])
    BY <1>22 DEF CollectBlocks
  <2> QED
    BY <2>1, <2>2 DEF NoLostWakeup, Settled, TasksOf
<1>23. ASSUME NEW c \in Callers, CollectWakes(c) PROVE NoLostWakeup'
  <2>1. Told
    BY <1>23 DEF CollectWakes
  <2> QED
    BY <2>1, <1>a
<1>24. ASSUME NEW c \in Callers, CollectGivesUp(c) PROVE NoLostWakeup'
  <2>1. Told
    BY <1>24 DEF CollectGivesUp
  <2> QED
    BY <2>1, <1>a
<1>25. ASSUME NEW c \in Callers, Close(c) PROVE NoLostWakeup'
  <2>1. Told
    BY <1>25 DEF Close
  <2> QED
    BY <2>1, <1>a
<1>26. CASE UNCHANGED vars
  <2>1. Told
    BY <1>26 DEF vars
  <2> QED
    BY <2>1, <1>a
<1> QED
  BY <1>1, <1>2, <1>3, <1>4, <1>5, <1>6, <1>7, <1>8, <1>9, <1>10, <1>11, <1>12, <1>13, <1>14,
     <1>15, <1>16, <1>17, <1>18, <1>19, <1>20, <1>21, <1>22, <1>23, <1>24, <1>25, <1>26
     DEF Next, Enter, CallerStep, AgentStep, MemberExit

\* A collector is never left waiting for a change that has already happened.
THEOREM CollectorsAreWoken == Spec => []NoLostWakeup
<1>1. Init => NoLostWakeup
  BY DEF Init, NoLostWakeup
<1> QED
  BY <1>1, TypeCorrect, WakeupStep, PTL DEF Spec
=============================================================================
