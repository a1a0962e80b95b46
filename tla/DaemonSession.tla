---------------------------- MODULE DaemonSession ----------------------------
(***************************************************************************)
(* One session of internal/daemon/session.go: the ring of recent output,   *)
(* the fan-out of live lines to subscribers over bounded channels, and the *)
(* end of the session.  The pool calls Started and Line, the goroutine of  *)
(* SessionManager.Start calls finish, and each attached client has a       *)
(* handler that subscribes, receives and finally cancels.                  *)
(*                                                                         *)
(* A line is its number; ChanCap and MaxBuffer stand for the 256 and 1024  *)
(* of the code.  MaxLines bounds the output of the worker.                 *)
(***************************************************************************)
EXTENDS Naturals, Sequences

CONSTANTS Clients, ChanCap, MaxBuffer, MaxLines

ASSUME BoundsAssumption ==
  /\ ChanCap \in Nat \ {0} /\ MaxBuffer \in Nat \ {0} /\ MaxLines \in Nat

VARIABLES
  state,       \* Session.state
  lines,       \* Session.lines
  buffer,      \* Session.buffer
  subscribed,  \* the clients in Session.subscribers
  closing,     \* those whose channel finish has still to close
  closed,      \* clients whose channel is closed
  done,        \* Session.done is closed
  ch,          \* the items in each client's channel
  dropped,     \* lines not sent since the last gap notice
  base,        \* lines that were gone from the ring at the client's Subscribe
  seen,        \* what the client was given: history, then what it received
  stage        \* the handler: "new", "reading", "ended" or "left"

sessionVars == <<state, lines, buffer, subscribed, closing, closed, done>>
clientVars == <<ch, dropped, base, seen, stage>>
allVars == <<sessionVars, clientVars>>

Line(n) == [kind |-> "line", n |-> n]
Gap(k) == [kind |-> "gap", n |-> k]

Finished == state \in {"done", "failed"}
Room(c) == Len(ch[c]) < ChanCap

SessionInit ==
  /\ state = "queued" /\ lines = 0 /\ buffer = <<>>
  /\ subscribed = {} /\ closing = {} /\ closed = {} /\ done = FALSE
  /\ ch = [c \in Clients |-> <<>>]
  /\ dropped = [c \in Clients |-> 0]
  /\ base = [c \in Clients |-> 0]
  /\ seen = [c \in Clients |-> <<>>]
  /\ stage = [c \in Clients |-> "new"]

-----------------------------------------------------------------------------
(* The run.                                                                *)

Started ==
  /\ state = "queued" /\ state' = "running"
  /\ UNCHANGED <<lines, buffer, subscribed, closing, closed, done, clientVars>>

\* A retried worker goes on writing to the same session.
Recent(s) == IF Len(s) > MaxBuffer THEN SubSeq(s, Len(s) - MaxBuffer + 1, Len(s)) ELSE s

BugDeliverNoGap(c, item) ==
  IF Room(c) THEN [ch |-> Append(ch[c], item), dropped |-> 0]
  ELSE [ch |-> ch[c], dropped |-> dropped[c] + 1]

\* What one subscriber's channel and counter become: a gap notice first when
\* lines were dropped before, and each send only if there is room.
Deliver(c, item) ==
  LET noticed == IF dropped[c] > 0 THEN Append(ch[c], Gap(dropped[c])) ELSE ch[c]
  IN  CASE ~ Room(c) -> [ch |-> ch[c], dropped |-> dropped[c] + 1]
        [] Room(c) /\ Len(noticed) = ChanCap -> [ch |-> noticed, dropped |-> 1]
        [] Room(c) /\ Len(noticed) < ChanCap -> [ch |-> Append(noticed, item), dropped |-> 0]

WriteLine ==
  /\ state = "running" /\ lines < MaxLines
  /\ lines' = lines + 1
  /\ buffer' = Recent(Append(buffer, Line(lines')))
  /\ ch' = [c \in Clients |-> IF c \in subscribed THEN Deliver(c, Line(lines')).ch ELSE ch[c]]
  /\ dropped' = [c \in Clients |-> IF c \in subscribed THEN Deliver(c, Line(lines')).dropped ELSE dropped[c]]
  /\ UNCHANGED <<state, subscribed, closing, closed, done, base, seen, stage>>

BugFinishKeepsSubscribers(outcome) ==
  /\ ~ Finished
  /\ state' = outcome
  /\ closing' = subscribed
  /\ UNCHANGED <<lines, buffer, subscribed, closed, done, clientVars>>

\* finish, under the lock; a run can fail before a worker is leased.
Finish(outcome) ==
  /\ ~ Finished /\ (outcome = "done" => state = "running")
  /\ state' = outcome
  /\ closing' = subscribed
  /\ subscribed' = {}
  /\ UNCHANGED <<lines, buffer, closed, done, clientVars>>

\* finish, after the lock: the channels one by one, then done.
FinishClose(c) ==
  /\ c \in closing
  /\ closing' = closing \ {c}
  /\ closed' = closed \cup {c}
  /\ UNCHANGED <<state, lines, buffer, subscribed, done, clientVars>>

FinishDone ==
  /\ Finished /\ closing = {} /\ ~ done
  /\ done' = TRUE
  /\ UNCHANGED <<state, lines, buffer, subscribed, closing, closed, clientVars>>

-----------------------------------------------------------------------------
(* Clients.                                                                *)

BugSubscribeAlways(c) ==
  /\ stage[c] = "new"
  /\ seen' = [seen EXCEPT ![c] = buffer]
  /\ base' = [base EXCEPT ![c] = lines - Len(buffer)]
  /\ stage' = [stage EXCEPT ![c] = "reading"]
  /\ subscribed' = subscribed \cup {c}
  /\ UNCHANGED <<state, lines, buffer, closing, closed, done, ch, dropped>>

\* The history and the registration are one critical section.
Subscribe(c) ==
  /\ stage[c] = "new"
  /\ seen' = [seen EXCEPT ![c] = buffer]
  /\ base' = [base EXCEPT ![c] = lines - Len(buffer)]
  /\ stage' = [stage EXCEPT ![c] = "reading"]
  /\ IF Finished
       THEN closed' = closed \cup {c} /\ UNCHANGED subscribed
       ELSE subscribed' = subscribed \cup {c} /\ UNCHANGED closed
  /\ UNCHANGED <<state, lines, buffer, closing, done, ch, dropped>>

Receive(c) ==
  /\ stage[c] = "reading" /\ ch[c] # <<>>
  /\ seen' = [seen EXCEPT ![c] = Append(@, Head(ch[c]))]
  /\ ch' = [ch EXCEPT ![c] = Tail(@)]
  /\ UNCHANGED <<sessionVars, dropped, base, stage>>

\* The channel is drained and closed: the handler reports the outcome.
ReceiveEnd(c) ==
  /\ stage[c] = "reading" /\ ch[c] = <<>> /\ c \in closed
  /\ stage' = [stage EXCEPT ![c] = "ended"]
  /\ UNCHANGED <<sessionVars, ch, dropped, base, seen>>

\* The client disconnects, or the server shuts down: the handler runs its
\* deferred cancel, which does nothing once finish has taken the subscribers.
Cancel(c) ==
  /\ stage[c] = "reading"
  /\ stage' = [stage EXCEPT ![c] = "left"]
  /\ subscribed' = subscribed \ {c}
  /\ closed' = IF c \in subscribed THEN closed \cup {c} ELSE closed
  /\ UNCHANGED <<state, lines, buffer, closing, done, ch, dropped, base, seen>>

-----------------------------------------------------------------------------
FinishStep == FinishDone \/ \E c \in Clients : FinishClose(c)
ReadStep(c) == Receive(c) \/ ReceiveEnd(c)

SessionNext ==
  \/ Started \/ WriteLine \/ (\E o \in {"done", "failed"} : Finish(o)) \/ FinishStep
  \/ \E c \in Clients : Subscribe(c) \/ ReadStep(c) \/ Cancel(c)

SessionSpec == SessionInit /\ [][SessionNext]_allVars

\* finish runs to its end, and a handler writes to its client as long as the
\* client is there.  Nothing is assumed of the run.
Fairness == WF_allVars(FinishStep) /\ \A c \in Clients : WF_allVars(ReadStep(c))

FairSpec == SessionSpec /\ Fairness

-----------------------------------------------------------------------------
(* Properties.                                                             *)

Items == [kind : {"line", "gap"}, n : 1..MaxLines]

SessionTypeOK ==
  /\ state \in {"queued", "running", "done", "failed"}
  /\ lines \in 0..MaxLines
  /\ buffer \in Seq(Items) /\ Len(buffer) <= MaxBuffer
  /\ subscribed \subseteq Clients /\ closing \subseteq Clients /\ closed \subseteq Clients
  /\ done \in BOOLEAN
  /\ \A c \in Clients :
       /\ ch[c] \in Seq(Items) /\ Len(ch[c]) <= ChanCap
       /\ seen[c] \in Seq(Items)
       /\ dropped[c] \in 0..MaxLines /\ base[c] \in 0..MaxLines
       /\ stage[c] \in {"new", "reading", "ended", "left"}

\* The lines an item stands for: a gap notice stands for its count.
Weight(i) == IF i.kind = "gap" THEN i.n ELSE 1

\* The lines a stream of items stands for.
Extent(s) ==
  LET upTo[n \in 0..Len(s)] == IF n = 0 THEN 0 ELSE upTo[n - 1] + Weight(s[n])
  IN upTo[Len(s)]

\* What a client was and will be given, in order.
Stream(c) == seen[c] \o ch[c]

\* Each line a client gets stands where the history and the gap notices before
\* it say it does: nothing is lost, repeated or reordered between the history
\* and the live stream, and every notice counts the lines missing at its place
\* (session.go Line, Subscribe; D8).
GapsAreExact ==
  \A c \in Clients : \A i \in DOMAIN Stream(c) :
    Stream(c)[i].kind = "line" => Stream(c)[i].n = base[c] + Extent(SubSeq(Stream(c), 1, i))

\* While a client is subscribed, every line of the run is in its history, in
\* its stream, in a notice, or counted for the next notice.
NothingUncounted ==
  \A c \in subscribed : base[c] + Extent(Stream(c)) + dropped[c] = lines

\* Line never sends on a closed channel and no channel is closed twice, so
\* neither panics, however finish and cancel interleave.
ChannelsClosedOnce ==
  subscribed \cap closing = {} /\ (subscribed \cup closing) \cap closed = {}

\* Every client that is attached to a session that ends is told so, unless it
\* leaves first: also one that attaches while finish is under way.
StreamsEnd ==
  \A c \in Clients : Finished /\ stage[c] = "reading" ~> stage[c] \in {"ended", "left"}

\* session.go: a lagging client "learns its stream is incomplete instead of
\* silently losing output": when its stream has ended, it was given every line
\* or a notice for it.
EndedStreamIsComplete ==
  \A c \in Clients : stage[c] = "ended" => base[c] + Extent(seen[c]) = lines
=============================================================================
