------------------------------- MODULE Swarm -------------------------------
(***************************************************************************)
(* The swarm of internal/swarm: the task registry (coordinator.go), the    *)
(* teams with their bounded slots and FIFO overflow queue (team.go), and   *)
(* the operations that move a task through them (lifecycle.go).            *)
(*                                                                         *)
(* Callers are the goroutines that enter the swarm: tool calls of the      *)
(* orchestrator and loops of the recurring scheduler.  Every member that   *)
(* was launched has a goroutine of its own, watch(), whose program counter *)
(* is phase[a].  A step is one critical section of coordinator.mu, team.mu *)
(* or swarm.mu together with the local code around it, so that the steps   *)
(* of different goroutines interleave as the locks allow.                  *)
(*                                                                         *)
(* An id minted by nextID names an agent, and, when it was minted by Spawn *)
(* or Handoff, also the task that agent was created for; an adopting agent *)
(* has an id of its own and takes over the task taskOf[a].                 *)
(*                                                                         *)
(* A definition named Bug... is the definition after it with a plausible   *)
(* mistake: the properties are shown to notice it.  Next uses none.        *)
(***************************************************************************)
EXTENDS Naturals, Sequences, FiniteSets

CONSTANTS
  Callers,      \* goroutines that call into the swarm
  Teams,        \* team names, after sanitizeName
  MaxTeamSize,  \* Options.MaxTeamSize: slots of one team
  MaxRestarts,  \* maxMemberRestarts
  MaxIds,       \* bound of the model: ids that nextID may mint
  Inherited,    \* tasks 1..Inherited come with Options.Coordinator
  Operations    \* the entry points that the callers use

ASSUME SizeAssumption == MaxTeamSize \in Nat \ {0}
ASSUME CountAssumption == MaxRestarts \in Nat /\ MaxIds \in Nat /\ Inherited \in 0..MaxIds
ASSUME CallersAssumption == Callers # {} /\ Teams # {}
ASSUME OperationsAssumption ==
         Operations \subseteq {"spawn", "handoff", "adopt", "collect", "close"}

VARIABLES
  idSeq,    \* Swarm.idSeq
  status,   \* Task.Status; "none" when the id is not registered as a task
  team,     \* Task.Team
  owner,    \* Task.AgentID; 0 is an agent that is not of this swarm
  taskCwd,  \* Swarm.taskCwd: is the directory of the task's spawn recorded?
  taskOf,   \* MemberSpec.TaskID
  specCwd,  \* MemberSpec.Cwd is the directory of the task's spawn
  phase,    \* where the agent with this id stands between dispatch and exit
  restarts, \* Member.restarts
  queue,    \* Team.queue
  running,  \* Team.running
  pc,       \* where each caller stands in its operation
  cur,      \* the agent a caller is dispatching
  target,   \* the task a caller is handing off, 0 in other operations
  live,     \* the liveAgents snapshot of a caller in AdoptOrphans
  todo,     \* tasks that AdoptOrphans has still to go through
  scope,    \* the team a caller collects
  woken,    \* the "changed" channel a collector waits on has been closed
  closed    \* baseCtx is cancelled

coordVars == <<status, team, owner, woken>>
teamVars  == <<queue, running>>
agentVars == <<taskOf, specCwd, phase, restarts>>
opVars    == <<target, live, todo, scope>>
vars == <<idSeq, coordVars, taskCwd, agentVars, teamVars, pc, cur, opVars, closed>>

Ids == 1..MaxIds

\* TaskStatus.terminal
Terminal == {"done", "failed", "handed-off"}
Open     == {"pending", "running"}
Statuses == Open \cup Terminal

\* Agents that occupy a slot of their team, and those in Team.members.
Holding == {"launching", "started", "watched", "recorded", "leaving"}
Member  == {"started", "watched", "recorded"}
Phases  == {"none", "minted", "queued", "gone"} \cup Holding

TeamOf(a) == team[taskOf[a]]
Holders(t) == {a \in Ids : phase[a] \in Holding /\ TeamOf(a) = t}

\* Tasks of a team, as WaitSettled selects them.
TasksOf(t) == {i \in Ids : status[i] # "none" /\ team[i] = t}
Settled(t) == \A i \in TasksOf(t) : status[i] \in Terminal

\* The team of inherited tasks, and of ids that are no task yet.
HomeTeam == CHOOSE t \in Teams : TRUE

-----------------------------------------------------------------------------
Init ==
  /\ idSeq = Inherited
  /\ status = [i \in Ids |-> IF i <= Inherited THEN "pending" ELSE "none"]
  /\ team = [i \in Ids |-> HomeTeam]
  /\ owner = [i \in Ids |-> 0]
  /\ taskCwd = [i \in Ids |-> FALSE]
  /\ taskOf = [a \in Ids |-> a]
  /\ specCwd = [a \in Ids |-> FALSE]
  /\ phase = [a \in Ids |-> "none"]
  /\ restarts = [a \in Ids |-> 0]
  /\ queue = [t \in Teams |-> <<>>]
  /\ running = [t \in Teams |-> 0]
  /\ pc = [c \in Callers |-> "idle"]
  /\ cur = [c \in Callers |-> 0]
  /\ target = [c \in Callers |-> 0]
  /\ live = [c \in Callers |-> {}]
  /\ todo = [c \in Callers |-> {}]
  /\ scope = [c \in Callers |-> HomeTeam]
  /\ woken = [c \in Callers |-> TRUE]
  /\ closed = FALSE

-----------------------------------------------------------------------------
(* The coordinator.                                                        *)

\* notifyChangeLocked closes the channel every blocked collector captured.
NotifyChange == woken' = [c \in Callers |-> TRUE]

\* Register(id, id, t): ids are fresh, so it never meets a duplicate.
Register(i, t) ==
  /\ status' = [status EXCEPT ![i] = "pending"]
  /\ team' = [team EXCEPT ![i] = t]
  /\ owner' = [owner EXCEPT ![i] = i]
  /\ NotifyChange

BugSetStatusAlways(i, s) == status' = [status EXCEPT ![i] = s] /\ NotifyChange

\* SetStatus, whose callers here ignore its error.
SetStatus(i, s) ==
  IF status[i] \in Terminal /\ status[i] # s
    THEN UNCHANGED <<status, woken>>
    ELSE status' = [status EXCEPT ![i] = s] /\ NotifyChange

BugFinishSilent(i, s) ==
  /\ status' = IF status[i] \in Terminal THEN status ELSE [status EXCEPT ![i] = s]
  /\ UNCHANGED woken

\* finish, whose callers ignore its error.
Finish(i, s) ==
  IF status[i] \in Terminal
    THEN UNCHANGED <<status, woken>>
    ELSE status' = [status EXCEPT ![i] = s] /\ NotifyChange

-----------------------------------------------------------------------------
(* Spawn, Handoff and AdoptOrphans up to the dispatch of the new agent.    *)

\* nextID, bounded by MaxIds.
MintId(a) == a = idSeq + 1 /\ a \in Ids /\ idSeq' = a

\* The agent minted by caller c gets its place and c goes on at step p.
Prepare(c, a, p) ==
  /\ phase' = [phase EXCEPT ![a] = "minted"]
  /\ cur' = [cur EXCEPT ![c] = a]
  /\ pc' = [pc EXCEPT ![c] = p]

Spawn(c, t) ==
  /\ "spawn" \in Operations /\ pc[c] = "idle"
  /\ \E a \in Ids : MintId(a) /\ Register(a, t) /\ Prepare(c, a, "cwd")
  /\ UNCHANGED <<taskCwd, taskOf, specCwd, restarts, teamVars, opVars, closed>>

\* Handoff reads the task; an unknown or terminal one is rejected.
HandoffGet(c, i) ==
  /\ "handoff" \in Operations /\ pc[c] = "idle"
  /\ status[i] \in Open
  /\ target' = [target EXCEPT ![c] = i]
  /\ pc' = [pc EXCEPT ![c] = "handoff"]
  /\ UNCHANGED <<idSeq, coordVars, taskCwd, agentVars, teamVars, cur, live, todo, scope, closed>>

\* The handoff note cannot be delivered: nothing is registered.
HandoffMailFails(c) ==
  /\ pc[c] = "handoff"
  /\ target' = [target EXCEPT ![c] = 0]
  /\ pc' = [pc EXCEPT ![c] = "idle"]
  /\ UNCHANGED <<idSeq, coordVars, taskCwd, agentVars, teamVars, cur, live, todo, scope, closed>>

HandoffRegister(c, t) ==
  /\ pc[c] = "handoff"
  /\ \E a \in Ids : MintId(a) /\ Register(a, t) /\ Prepare(c, a, "cwd")
  /\ UNCHANGED <<taskCwd, taskOf, specCwd, restarts, teamVars, opVars, closed>>

\* liveAgents, under team.mu: the members and the queued specs.
AdoptLive(c, t) ==
  /\ "adopt" \in Operations /\ pc[c] = "idle"
  /\ live' = [live EXCEPT ![c] = {a \in Ids : phase[a] \in Member \cup {"queued"} /\ TeamOf(a) = t}]
  /\ scope' = [scope EXCEPT ![c] = t]
  /\ pc' = [pc EXCEPT ![c] = "list"]
  /\ UNCHANGED <<idSeq, coordVars, taskCwd, agentVars, teamVars, cur, target, todo, closed>>

\* coord.List, under coordinator.mu, and the loop's filter on the snapshot.
AdoptList(c) ==
  LET orphans == {i \in TasksOf(scope[c]) : status[i] \in Open /\ owner[i] \notin live[c]} IN
  /\ pc[c] = "list"
  /\ live' = [live EXCEPT ![c] = {}]
  /\ todo' = [todo EXCEPT ![c] = orphans]
  /\ pc' = [pc EXCEPT ![c] = IF orphans = {} THEN "idle" ELSE "reassign"]
  /\ UNCHANGED <<idSeq, coordVars, taskCwd, agentVars, teamVars, cur, target, scope, closed>>

\* Where a caller goes on after dispatch: AdoptOrphans loops, the others return.
After(c) == IF todo[c] = {} THEN "idle" ELSE "reassign"

\* Reassign the oldest orphan of the snapshot, or skip it when it raced to terminal.
AdoptReassign(c) ==
  /\ pc[c] = "reassign"
  /\ \E i \in todo[c], a \in Ids :
       /\ \A j \in todo[c] : i <= j
       /\ MintId(a)
       /\ todo' = [todo EXCEPT ![c] = @ \ {i}]
       /\ IF status[i] \in Terminal
            THEN /\ pc' = [pc EXCEPT ![c] = IF todo[c] = {i} THEN "idle" ELSE "reassign"]
                 /\ UNCHANGED <<status, owner, woken, taskOf, phase, cur>>
            ELSE /\ status' = [status EXCEPT ![i] = "pending"]
                 /\ owner' = [owner EXCEPT ![i] = a]
                 /\ NotifyChange
                 /\ taskOf' = [taskOf EXCEPT ![a] = i]
                 /\ Prepare(c, a, "cwd")
  /\ UNCHANGED <<team, taskCwd, specCwd, restarts, teamVars, target, live, scope, closed>>

\* rememberCwd, after cwdFor when the task comes from a handoff or an adoption;
\* the spec built from it keeps the directory that was read.
RememberCwd(c) ==
  LET a == cur[c]
      dir == IF target[c] # 0 THEN taskCwd[target[c]]
             ELSE taskOf[a] = a \/ taskCwd[taskOf[a]] IN
  /\ pc[c] = "cwd"
  /\ taskCwd' = [taskCwd EXCEPT ![taskOf[a]] = dir]
  /\ specCwd' = [specCwd EXCEPT ![a] = dir]
  /\ pc' = [pc EXCEPT ![c] = IF target[c] # 0 THEN "retire" ELSE "admit"]
  /\ UNCHANGED <<idSeq, coordVars, taskOf, phase, restarts, teamVars, cur, opVars, closed>>

\* Handoff retires the original task; its old member, if any, keeps running.
Retire(c) ==
  /\ pc[c] = "retire"
  /\ SetStatus(target[c], "handed-off")
  /\ pc' = [pc EXCEPT ![c] = "admit"]
  /\ UNCHANGED <<idSeq, team, owner, taskCwd, agentVars, teamVars, cur, opVars, closed>>

-----------------------------------------------------------------------------
(* Dispatch, launch, watch and exit.                                       *)

\* admit: take a free slot and go on to launch the agent ...
AdmitNow(c) ==
  LET a == cur[c] IN
  /\ pc[c] = "admit"
  /\ running[TeamOf(a)] < MaxTeamSize
  /\ running' = [running EXCEPT ![TeamOf(a)] = @ + 1]
  /\ phase' = [phase EXCEPT ![a] = "launching"]
  /\ pc' = [pc EXCEPT ![c] = "launch"]
  /\ target' = [target EXCEPT ![c] = 0]
  /\ UNCHANGED <<idSeq, coordVars, taskCwd, taskOf, specCwd, restarts, queue, cur, live, todo, scope, closed>>

\* ... or queue its spec.
AdmitQueue(c) ==
  LET a == cur[c] IN
  /\ pc[c] = "admit"
  /\ ~ (running[TeamOf(a)] < MaxTeamSize)
  /\ queue' = [queue EXCEPT ![TeamOf(a)] = Append(@, a)]
  /\ phase' = [phase EXCEPT ![a] = "queued"]
  /\ pc' = [pc EXCEPT ![c] = After(c)]
  /\ cur' = [cur EXCEPT ![c] = 0]
  /\ target' = [target EXCEPT ![c] = 0]
  /\ UNCHANGED <<idSeq, coordVars, taskCwd, taskOf, specCwd, restarts, running, live, todo, scope, closed>>

\* launch runs in a caller, or in the watch goroutine of a member that exited.
Drives(c, a) == pc[c] = "launch" /\ cur[c] = a

\* The goroutine that launched a is done with it.
LaunchReturns(a) ==
  /\ pc' = [c \in Callers |-> IF Drives(c, a) THEN After(c) ELSE pc[c]]
  /\ cur' = [c \in Callers |-> IF Drives(c, a) THEN 0 ELSE cur[c]]

\* Launcher.Launch succeeds and the member is added to the team.
LaunchOK(a) ==
  /\ phase[a] = "launching"
  /\ phase' = [phase EXCEPT ![a] = "started"]
  /\ UNCHANGED <<idSeq, coordVars, taskCwd, taskOf, specCwd, restarts, teamVars, pc, cur, opVars, closed>>

BugLaunchFailsKeepsSlot(a) ==
  /\ phase[a] = "launching"
  /\ Finish(taskOf[a], "failed")
  /\ phase' = [phase EXCEPT ![a] = "gone"]
  /\ LaunchReturns(a)
  /\ UNCHANGED <<idSeq, team, owner, taskCwd, taskOf, specCwd, restarts, teamVars, opVars, closed>>

BugLaunchFailsUnrecorded(a) ==
  /\ phase[a] = "launching"
  /\ phase' = [phase EXCEPT ![a] = "leaving"]
  /\ UNCHANGED <<idSeq, coordVars, taskCwd, taskOf, specCwd, restarts, teamVars, pc, cur, opVars, closed>>

\* Launcher.Launch fails: fail the task, then free the slot (afterExit).
LaunchFails(a) ==
  /\ phase[a] = "launching"
  /\ Finish(taskOf[a], "failed")
  /\ phase' = [phase EXCEPT ![a] = "leaving"]
  /\ UNCHANGED <<idSeq, team, owner, taskCwd, taskOf, specCwd, restarts, teamVars, pc, cur, opVars, closed>>

\* SetStatus(running) and "go s.watch".
MarkRunning(a) ==
  /\ phase[a] = "started"
  /\ SetStatus(taskOf[a], "running")
  /\ phase' = [phase EXCEPT ![a] = "watched"]
  /\ LaunchReturns(a)
  /\ UNCHANGED <<idSeq, team, owner, taskCwd, taskOf, specCwd, restarts, teamVars, opVars, closed>>

\* Wait returns a temporary error and the member is relaunched with its spec.
Relaunch(a) ==
  /\ phase[a] = "watched"
  /\ restarts[a] < MaxRestarts
  /\ restarts' = [restarts EXCEPT ![a] = @ + 1]
  /\ UNCHANGED <<idSeq, coordVars, taskCwd, taskOf, specCwd, phase, teamVars, pc, cur, opVars, closed>>

\* Wait returns for good: a result, a permanent error, or a temporary error
\* that is not (or cannot be) followed by a relaunch.
RecordOutcome(a) ==
  /\ phase[a] = "watched"
  /\ \E s \in {"done", "failed"} : Finish(taskOf[a], s)
  /\ phase' = [phase EXCEPT ![a] = "recorded"]
  /\ UNCHANGED <<idSeq, team, owner, taskCwd, taskOf, specCwd, restarts, teamVars, pc, cur, opVars, closed>>

RemoveMember(a) ==
  /\ phase[a] = "recorded"
  /\ phase' = [phase EXCEPT ![a] = "leaving"]
  /\ UNCHANGED <<idSeq, coordVars, taskCwd, taskOf, specCwd, restarts, teamVars, pc, cur, opVars, closed>>

BugExitIgnoresQueue(a) ==
  /\ phase[a] = "leaving"
  /\ running' = [running EXCEPT ![TeamOf(a)] = @ - 1]
  /\ phase' = [phase EXCEPT ![a] = "gone"]
  /\ LaunchReturns(a)
  /\ UNCHANGED <<idSeq, coordVars, taskCwd, taskOf, specCwd, restarts, queue, opVars, closed>>

\* onExit gives the slot back and finds nothing it can launch.
ExitFree(a) ==
  LET t == TeamOf(a)
      freed == IF running[t] > 0 THEN running[t] - 1 ELSE running[t] IN
  /\ phase[a] = "leaving"
  /\ queue[t] = <<>> \/ freed >= MaxTeamSize
  /\ running' = [running EXCEPT ![t] = freed]
  /\ phase' = [phase EXCEPT ![a] = "gone"]
  /\ LaunchReturns(a)
  /\ UNCHANGED <<idSeq, coordVars, taskCwd, taskOf, specCwd, restarts, queue, opVars, closed>>

BugExitNewestFirst(a) ==
  LET t == TeamOf(a)
      n == Len(queue[t])
      next == queue[t][n] IN
  /\ phase[a] = "leaving"
  /\ queue[t] # <<>>
  /\ queue' = [queue EXCEPT ![t] = SubSeq(@, 1, n - 1)]
  /\ phase' = [phase EXCEPT ![a] = "gone", ![next] = "launching"]
  /\ cur' = [c \in Callers |-> IF Drives(c, a) THEN next ELSE cur[c]]
  /\ UNCHANGED <<idSeq, coordVars, taskCwd, taskOf, specCwd, restarts, running, pc, opVars, closed>>

\* onExit passes the slot to the head of the queue; the same goroutine launches it.
ExitNext(a) ==
  LET t == TeamOf(a)
      freed == IF running[t] > 0 THEN running[t] - 1 ELSE running[t]
      next == Head(queue[t]) IN
  /\ phase[a] = "leaving"
  /\ queue[t] # <<>> /\ freed < MaxTeamSize
  /\ running' = [running EXCEPT ![t] = freed + 1]
  /\ queue' = [queue EXCEPT ![t] = Tail(@)]
  /\ phase' = [phase EXCEPT ![a] = "gone", ![next] = "launching"]
  /\ cur' = [c \in Callers |-> IF Drives(c, a) THEN next ELSE cur[c]]
  /\ UNCHANGED <<idSeq, coordVars, taskCwd, taskOf, specCwd, restarts, pc, opVars, closed>>

-----------------------------------------------------------------------------
(* CollectWait and Close.                                                  *)

Collect(c, t) ==
  /\ "collect" \in Operations /\ pc[c] = "idle"
  /\ scope' = [scope EXCEPT ![c] = t]
  /\ pc' = [pc EXCEPT ![c] = "check"]
  /\ UNCHANGED <<idSeq, coordVars, taskCwd, agentVars, teamVars, cur, target, live, todo, closed>>

\* One locked pass of WaitSettled: the snapshot is settled and returned ...
CollectSettled(c) ==
  /\ pc[c] = "check" /\ Settled(scope[c])
  /\ pc' = [pc EXCEPT ![c] = "idle"]
  /\ UNCHANGED <<idSeq, coordVars, taskCwd, agentVars, teamVars, cur, opVars, closed>>

\* ... or it is not, and the current "changed" channel is captured with it.
CollectBlocks(c) ==
  /\ pc[c] = "check" /\ ~ Settled(scope[c])
  /\ woken' = [woken EXCEPT ![c] = FALSE]
  /\ pc' = [pc EXCEPT ![c] = "blocked"]
  /\ UNCHANGED <<idSeq, status, team, owner, taskCwd, agentVars, teamVars, cur, opVars, closed>>

CollectWakes(c) ==
  /\ pc[c] = "blocked" /\ woken[c]
  /\ pc' = [pc EXCEPT ![c] = "check"]
  /\ UNCHANGED <<idSeq, coordVars, taskCwd, agentVars, teamVars, cur, opVars, closed>>

\* The timeout of the call, or the cancellation of its context.
CollectGivesUp(c) ==
  /\ pc[c] = "blocked"
  /\ woken' = [woken EXCEPT ![c] = TRUE]
  /\ pc' = [pc EXCEPT ![c] = "idle"]
  /\ UNCHANGED <<idSeq, status, team, owner, taskCwd, agentVars, teamVars, cur, opVars, closed>>

Close(c) ==
  /\ "close" \in Operations /\ pc[c] = "idle"
  /\ ~ closed
  /\ closed' = TRUE
  /\ UNCHANGED <<idSeq, coordVars, taskCwd, agentVars, teamVars, pc, cur, opVars>>

-----------------------------------------------------------------------------
Enter(c) ==
  \/ \E t \in Teams : Spawn(c, t) \/ AdoptLive(c, t) \/ Collect(c, t)
  \/ \E i \in Ids : HandoffGet(c, i)
  \/ Close(c)

\* The steps of an operation in progress; the code never waits for an event in
\* them, except for a collector's wake-up.
CallerStep(c) ==
  \/ \E t \in Teams : HandoffRegister(c, t)
  \/ AdoptList(c) \/ AdoptReassign(c)
  \/ RememberCwd(c) \/ Retire(c) \/ AdmitNow(c) \/ AdmitQueue(c)
  \/ CollectSettled(c) \/ CollectBlocks(c) \/ CollectWakes(c)

AgentStep(a) ==
  \/ LaunchOK(a) \/ LaunchFails(a) \/ MarkRunning(a)
  \/ RemoveMember(a) \/ ExitFree(a) \/ ExitNext(a)

MemberExit(a) == Relaunch(a) \/ RecordOutcome(a)

Next ==
  \/ \E c \in Callers : Enter(c) \/ CallerStep(c) \/ HandoffMailFails(c) \/ CollectGivesUp(c)
  \/ \E a \in Ids : AgentStep(a) \/ MemberExit(a)

Spec == Init /\ [][Next]_vars

\* Goroutines in the middle of an operation are scheduled; a member is only
\* known to exit once its context is cancelled by Close.
Fairness ==
  /\ \A c \in Callers : WF_vars(CallerStep(c))
  /\ \A a \in Ids : WF_vars(AgentStep(a)) /\ WF_vars(closed /\ MemberExit(a))

FairSpec == Spec /\ Fairness

-----------------------------------------------------------------------------
(* Properties.                                                             *)

PCs == {"idle", "cwd", "admit", "launch", "handoff", "retire", "list", "reassign",
        "check", "blocked"}

\* The type of every variable; a caller that dispatches has an agent to dispatch.
TypeOK ==
  /\ idSeq \in 0..MaxIds
  /\ status \in [Ids -> Statuses \cup {"none"}]
  /\ team \in [Ids -> Teams]
  /\ owner \in [Ids -> Ids \cup {0}]
  /\ taskCwd \in [Ids -> BOOLEAN]
  /\ taskOf \in [Ids -> Ids]
  /\ specCwd \in [Ids -> BOOLEAN]
  /\ phase \in [Ids -> Phases]
  /\ restarts \in [Ids -> 0..MaxRestarts]
  /\ queue \in [Teams -> Seq(Ids)]
  /\ running \in [Teams -> Nat]
  /\ pc \in [Callers -> PCs]
  /\ cur \in [Callers -> Ids \cup {0}]
  /\ \A c \in Callers : pc[c] \in {"cwd", "retire", "admit", "launch"} => cur[c] \in Ids
  /\ target \in [Callers -> Ids \cup {0}]
  /\ live \in [Callers -> SUBSET Ids]
  /\ todo \in [Callers -> SUBSET Ids]
  /\ scope \in [Callers -> Teams]
  /\ woken \in [Callers -> BOOLEAN]
  /\ closed \in BOOLEAN

\* Team.running is exactly the number of agents that hold a slot, and never more
\* than the slots there are: launches that fail, members that exit and specs
\* that leave the queue move the counter outside of the goroutine that took the
\* slot, and no such path gives a slot back twice or forgets it (team.go admit,
\* onExit).
SlotsAccounted ==
  \A t \in Teams : running[t] = Cardinality(Holders(t)) /\ running[t] <= MaxTeamSize

\* A spec waits in the queue only while every slot is taken, so the slot that
\* will launch it is always still to be given back (team.go onExit).
QueueOnlyWhenFull == \A t \in Teams : queue[t] # <<>> => running[t] = MaxTeamSize

\* A team as a FIFO pool: its queue waits, the agents that hold a slot are active.
Pool == INSTANCE FifoPool WITH
          Pools <- Teams, Jobs <- Ids, Capacity <- MaxTeamSize,
          waiting <- queue, active <- [t \in Teams |-> Holders(t)]

\* Every team keeps the promise of FifoPool: bounded, in order, and no agent
\* waits while a slot is free, whichever goroutines admit, exit and launch.
TeamIsFifoPool == Pool!Spec

\* Agents that still have to run, or are running, task i.
Serving(i) ==
  {a \in Ids : taskOf[a] = i /\ phase[a] \in {"minted", "queued", "launching", "started", "watched"}}

\* A task shown as running is run by a member, and a pending task of this swarm
\* has an agent on its way to run it: no failed launch, handoff, adoption or
\* exit leaves an open task that nobody will ever finish.
NoTaskStranded ==
  \A i \in Ids :
    /\ status[i] = "running" => \E a \in Serving(i) : phase[a] = "watched"
    /\ status[i] = "pending" /\ owner[i] # 0 => Serving(i) # {}

\* A collector that waits for a change waits for one that is still to come:
\* notifyChangeLocked misses no transition that settles the team.
NoLostWakeup ==
  \A c \in Callers : pc[c] = "blocked" /\ ~ woken[c] => ~ Settled(scope[c])

\* A finished task is never resurrected: a late member, a handoff or an
\* adoption does not change a terminal status (coordinator.go SetStatus,
\* finish, Reassign).
TerminalIsFinal ==
  [][\A i \in Ids : status[i] \in Terminal => status'[i] = status[i]]_vars

\* After Close every task of the swarm ends: cancelled members exit, and each
\* exit launches (with a cancelled context) the next queued spec.
ClosedSwarmSettles ==
  \A i \in Ids : closed /\ status[i] \in Open /\ owner[i] # 0 ~> status[i] \in Terminal

\* After Close a blocked swarm_collect returns even without its timeout.
ClosedCollectReturns ==
  \A c \in Callers : closed /\ pc[c] = "blocked" ~> pc[c] = "idle"

\* team.go: queued specs count as live "so orphan adoption never re-dispatches
\* (and thus double-executes) a task whose member is merely waiting for a slot".
NoDoubleExecution ==
  \A i \in Ids : Cardinality({a \in Serving(i) : phase[a] \in {"started", "watched"}}) <= 1

\* lifecycle.go: "A handoff of an already-terminal task is rejected (fail
\* closed)": a successor is dispatched only for a task that was handed off.
\* It does not hold; README.md, "Promises the models refute", has the scenario.
SuccessorOnlyForHandedOff ==
  \A c \in Callers :
    pc[c] = "admit" /\ target[c] # 0 => status[target[c]] = "handed-off"

\* tools.go, swarm_collect: "This BLOCKS until every member completes (bounded
\* by a timeout)": no member of the team is executing when it returns settled.
\* It does not hold; README.md, "Promises the models refute", has the scenario.
CollectAwaitsMembers ==
  [][\A c \in Callers : CollectSettled(c) =>
       \A a \in Ids : TeamOf(a) = scope[c] => phase[a] \notin {"started", "watched"}]_vars

\* team.go, rememberCwd: it "records a task's working dir so a handoff/adoption
\* relaunch keeps it".
\* It does not hold; README.md, "Promises the models refute", has the scenario.
AgentsKeepCwd == \A a \in Ids : phase[a] \in Holding => specCwd[a]
=============================================================================
