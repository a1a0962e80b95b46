--------------------------- MODULE SessionRegistry ---------------------------
(***************************************************************************)
(* The session registry of the daemon (SessionManager in                   *)
(* internal/daemon/session.go) and the handlers of server.go that start    *)
(* and attach to sessions.  What flows through a session is in             *)
(* DaemonSession; here a session is open, done or failed.                  *)
(*                                                                         *)
(* A session object is its number, in the order of creation.  An id can be *)
(* started again once its finished session has been evicted.  MaxStarts    *)
(* bounds the number of objects.                                           *)
(***************************************************************************)
EXTENDS Naturals, Sequences, FiniteSets, SequencesExt

CONSTANTS Ids, Clients, MaxSessions, MaxStarts

ASSUME RegistryAssumption == MaxSessions \in Nat \ {0} /\ MaxStarts \in Nat /\ IsFiniteSet(Ids)

VARIABLES
  idOf,      \* the id of each session object created so far
  phase,     \* the phase of each of them
  sessions,  \* SessionManager.sessions: the object of an id, or None
  order,     \* SessionManager.order
  scan,      \* pruneLocked in progress, or Idle
  stage,     \* each client's handler: "new", "attached", "streaming" or "told"
  stream,    \* the object whose stream the handler forwards
  shown,     \* the object it will ask for the outcome, or None
  told       \* the last frame it sent: "none", "end" or "error"

handlerVars == <<stage, stream, shown, told>>
vars == <<idOf, phase, sessions, order, scan, handlerVars>>

None == 0
Idle == [todo |-> <<>>, kept |-> <<>>, old |-> {}]

\* m.mu is held while pruneLocked scans.
Locked == scan # Idle

Objects == 1..Len(idOf)
Finished(o) == phase[o] \in {"done", "failed"}
Registered == {id \in Ids : sessions[id] # None}
OverCap == Cardinality(Registered) > MaxSessions

Init ==
  /\ idOf = <<>> /\ phase = <<>>
  /\ sessions = [id \in Ids |-> None]
  /\ order = <<>>
  /\ scan = Idle
  /\ stage = [c \in Clients |-> "new"]
  /\ stream = [c \in Clients |-> None]
  /\ shown = [c \in Clients |-> None]
  /\ told = [c \in Clients |-> "none"]

Goto(c, s) == stage' = [stage EXCEPT ![c] = s]

-----------------------------------------------------------------------------
(* Start and prune.                                                        *)

\* handleRun: a free id gets a new session, which the handler then follows.
\* "old" remembers which sessions had finished when the scan began.
Start(c, id) ==
  /\ stage[c] = "new" /\ ~ Locked
  /\ sessions[id] = None /\ Len(idOf) < MaxStarts
  /\ LET o == Len(idOf) + 1 IN
       /\ idOf' = Append(idOf, id)
       /\ phase' = Append(phase, "open")
       /\ sessions' = [sessions EXCEPT ![id] = o]
       /\ stream' = [stream EXCEPT ![c] = o]
       /\ shown' = [shown EXCEPT ![c] = o]
  /\ order' = Append(order, id)
  /\ scan' = IF Cardinality(Registered) >= MaxSessions
               THEN [todo |-> order', kept |-> <<>>, old |-> {p \in Objects : Finished(p)}]
               ELSE Idle
  /\ Goto(c, "streaming")
  /\ UNCHANGED told

\* ErrSessionExists.
StartRefused(c, id) ==
  /\ stage[c] = "new" /\ ~ Locked
  /\ sessions[id] # None
  /\ told' = [told EXCEPT ![c] = "error"]
  /\ Goto(c, "told")
  /\ UNCHANGED <<idOf, phase, sessions, order, scan, stream, shown>>

BugPruneAtCap ==
  /\ scan.todo # <<>>
  /\ LET id == Head(scan.todo) IN
       IF Cardinality(Registered) >= MaxSessions /\ Finished(sessions[id])
         THEN /\ sessions' = [sessions EXCEPT ![id] = None]
              /\ scan' = [scan EXCEPT !.todo = Tail(scan.todo)]
         ELSE /\ scan' = [scan EXCEPT !.todo = Tail(scan.todo), !.kept = Append(scan.kept, id)]
              /\ UNCHANGED sessions
  /\ UNCHANGED <<idOf, phase, order, handlerVars>>

BugPruneStopsAtOpen ==
  /\ scan.todo # <<>>
  /\ LET id == Head(scan.todo) IN
       IF OverCap /\ Finished(sessions[id])
         THEN /\ sessions' = [sessions EXCEPT ![id] = None]
              /\ scan' = [scan EXCEPT !.todo = Tail(scan.todo)]
         ELSE /\ scan' = [scan EXCEPT !.todo = <<>>, !.kept = scan.kept \o scan.todo]
              /\ UNCHANGED sessions
  /\ UNCHANGED <<idOf, phase, order, handlerVars>>

BugPruneAnyState ==
  /\ scan.todo # <<>>
  /\ LET id == Head(scan.todo) IN
       IF OverCap
         THEN /\ sessions' = [sessions EXCEPT ![id] = None]
              /\ scan' = [scan EXCEPT !.todo = Tail(scan.todo)]
         ELSE /\ scan' = [scan EXCEPT !.todo = Tail(scan.todo), !.kept = Append(scan.kept, id)]
              /\ UNCHANGED sessions
  /\ UNCHANGED <<idOf, phase, order, handlerVars>>

\* One turn of the loop of pruneLocked; each session's own lock is taken for
\* this turn only, so sessions finish in the middle of a scan.
Prune ==
  /\ scan.todo # <<>>
  /\ LET id == Head(scan.todo) IN
       IF OverCap /\ Finished(sessions[id])
         THEN /\ sessions' = [sessions EXCEPT ![id] = None]
              /\ scan' = [scan EXCEPT !.todo = Tail(scan.todo)]
         ELSE /\ scan' = [scan EXCEPT !.todo = Tail(scan.todo), !.kept = Append(scan.kept, id)]
              /\ UNCHANGED sessions
  /\ UNCHANGED <<idOf, phase, order, handlerVars>>

PruneEnd ==
  /\ Locked /\ scan.todo = <<>>
  /\ order' = scan.kept
  /\ scan' = Idle
  /\ UNCHANGED <<idOf, phase, sessions, handlerVars>>

\* Session.finish.
Finish(o, outcome) ==
  /\ o \in Objects /\ ~ Finished(o)
  /\ phase' = [phase EXCEPT ![o] = outcome]
  /\ UNCHANGED <<idOf, sessions, order, scan, handlerVars>>

-----------------------------------------------------------------------------
(* Attach.                                                                 *)

\* handleAttach: Attach finds the session and subscribes to it ...
Attach(c, id) ==
  /\ stage[c] = "new" /\ ~ Locked
  /\ IF sessions[id] = None
       THEN /\ told' = [told EXCEPT ![c] = "error"]
            /\ Goto(c, "told") /\ UNCHANGED stream
       ELSE /\ stream' = [stream EXCEPT ![c] = sessions[id]]
            /\ Goto(c, "attached") /\ UNCHANGED told
  /\ UNCHANGED <<idOf, phase, sessions, order, scan, shown>>

\* ... and the handler looks the id up again, ignoring whether it is there.
AttachGet(c) ==
  /\ stage[c] = "attached" /\ ~ Locked
  /\ shown' = [shown EXCEPT ![c] = sessions[idOf[stream[c]]]]
  /\ Goto(c, "streaming")
  /\ UNCHANGED <<idOf, phase, sessions, order, scan, stream, told>>

\* The stream ends with its session; finishStream asks for the error.
FinishStream(c) ==
  /\ stage[c] = "streaming" /\ Finished(stream[c])
  /\ told' = [told EXCEPT ![c] =
       IF shown[c] # None /\ phase[shown[c]] = "failed" THEN "error" ELSE "end"]
  /\ Goto(c, "told")
  /\ UNCHANGED <<idOf, phase, sessions, order, scan, stream, shown>>

-----------------------------------------------------------------------------
Next ==
  \/ \E c \in Clients, id \in Ids : Start(c, id) \/ StartRefused(c, id) \/ Attach(c, id)
  \/ \E c \in Clients : AttachGet(c) \/ FinishStream(c)
  \/ Prune \/ PruneEnd
  \/ \E o \in 1..MaxStarts, outcome \in {"done", "failed"} : Finish(o, outcome)

Spec == Init /\ [][Next]_vars

-----------------------------------------------------------------------------
(* Properties.                                                             *)

TypeOK ==
  /\ Len(idOf) <= MaxStarts /\ idOf \in Seq(Ids)
  /\ phase \in [Objects -> {"open", "done", "failed"}]
  /\ sessions \in [Ids -> Objects \cup {None}]
  /\ order \in Seq(Ids)
  /\ scan \in [todo : Seq(Ids), kept : Seq(Ids), old : SUBSET Objects]
  /\ stage \in [Clients -> {"new", "attached", "streaming", "told"}]
  /\ stream \in [Clients -> Objects \cup {None}]
  /\ shown \in [Clients -> Objects \cup {None}]
  /\ told \in [Clients -> {"none", "end", "error"}]
  /\ \A c \in Clients : stage[c] \in {"attached", "streaming"} => stream[c] # None

\* A session that has not finished can be attached to under its id: eviction
\* never drops it and no second session takes its id (session.go: running and
\* queued sessions are never evicted).
OpenSessionsRegistered == \A o \in Objects : ~ Finished(o) => sessions[idOf[o]] = o

\* The eviction queue and the registry stay in step: outside of a scan, order
\* lists each registered id once, the oldest session first.
OrderIsRegistry ==
  ~ Locked =>
    /\ Range(order) = Registered
    /\ \A i, j \in DOMAIN order : i < j => sessions[order[i]] < sessions[order[j]]

\* A finished session is forgotten only to make room: as long as fewer than
\* MaxSessions are registered, every session ever started still is.
ForgottenOnlyForRoom ==
  (\E o \in Objects : sessions[idOf[o]] # o) => Cardinality(Registered) >= MaxSessions

\* A scan that leaves the registry over its cap has left no session that had
\* finished when it began: the excess is sessions that still ran.
ScanFreesWhatItCan ==
  [][Locked /\ ~ Locked' /\ OverCap' => \A o \in scan.old : sessions'[idOf[o]] # o]_vars

\* server.go, streamToClient: the stream finishes "with CtrlEnd (or CtrlError
\* if the session failed)".
\* It does not hold; README.md, "Promises the models refute", has the scenario.
StreamEndTellsOutcome ==
  \A c \in Clients : stage[c] = "told" /\ stream[c] # None =>
    (told[c] = "error") = (phase[stream[c]] = "failed")
=============================================================================
