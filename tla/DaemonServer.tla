---------------------------- MODULE DaemonServer ----------------------------
(***************************************************************************)
(* The control server of internal/daemon/server.go: the goroutine of       *)
(* Serve, the handler of each connection, and Shutdown, which a signal or  *)
(* a client's command starts.  Local connections come through the accept   *)
(* loop of Serve; remote ones enter at ServeConn, from the TLS bridge.     *)
(*                                                                         *)
(* A handler is in "hello" while it reads under the handshake deadline, in *)
(* "wait" while it waits for the next line of its session, in "write" or   *)
(* "bye" while a write (the last one) waits for the client to read.        *)
(***************************************************************************)
EXTENDS Naturals, FiniteSets

CONSTANTS Local, Remote, None

ASSUME ConnsAssumption == Local \cap Remote = {} /\ None \notin Local \cup Remote

Conns == Local \cup Remote

VARIABLES
  serve,     \* where Serve stands
  accepted,  \* the connection Serve has accepted and not yet handed on, or None
  listener,  \* "none", "open" or "closed"
  files,     \* the lock, socket and status files are there
  shut,      \* Shutdown: "no", "done" (s.done closed), "swept" or "drained"
  handler,   \* the stage of each connection's handler
  open,      \* the server's end of the connection is open
  conns      \* Server.conns

serverVars == <<serve, accepted, listener, files, shut, handler, open, conns>>
connVars == <<handler, open, conns>>

Done == shut # "no"
Handled == {c \in Conns : handler[c] \notin {"out", "backlog", "over"}}

ServerInit ==
  /\ serve = "start" /\ accepted = None
  /\ listener = "none" /\ files = FALSE
  /\ shut = "no"
  /\ handler = [c \in Conns |-> "out"]
  /\ open = [c \in Conns |-> FALSE]
  /\ conns = {}

-----------------------------------------------------------------------------
(* Serve.                                                                  *)

ServeLock ==
  /\ serve = "start"
  /\ serve' = "locked" /\ files' = TRUE
  /\ UNCHANGED <<accepted, listener, shut, connVars>>

ServeListen ==
  /\ serve = "locked"
  /\ listener' = "open" /\ serve' = "bound"
  /\ UNCHANGED <<accepted, files, shut, connVars>>

\* s.listener is published under the lock; Shutdown sees it from here on.
ServePublish ==
  /\ serve = "bound"
  /\ serve' = "published"
  /\ UNCHANGED <<accepted, listener, files, shut, connVars>>

BugServeNoRecheck ==
  /\ serve = "published"
  /\ serve' = "accepting"
  /\ UNCHANGED <<accepted, listener, files, shut, connVars>>

\* Shutdown may have come and gone before there was a listener to close.
ServeRecheck ==
  /\ serve = "published"
  /\ IF Done THEN listener' = "closed" /\ serve' = "stopping"
     ELSE serve' = "accepting" /\ UNCHANGED listener
  /\ UNCHANGED <<accepted, files, shut, connVars>>

ServeAccept(c) ==
  /\ serve = "accepting" /\ listener = "open" /\ handler[c] = "backlog"
  /\ serve' = "tracking" /\ accepted' = c
  /\ open' = [open EXCEPT ![c] = TRUE]
  /\ UNCHANGED <<listener, files, shut, handler, conns>>

\* trackConn, one critical section of s.mu.
TrackConn(c) ==
  IF Done THEN open' = [open EXCEPT ![c] = FALSE] /\ UNCHANGED conns
          ELSE conns' = conns \cup {c} /\ UNCHANGED open

ServeHandle ==
  /\ serve = "tracking"
  /\ TrackConn(accepted)
  /\ handler' = [handler EXCEPT ![accepted] = "hello"]
  /\ serve' = "accepting" /\ accepted' = None
  /\ UNCHANGED <<listener, files, shut>>

\* Accept fails because Shutdown closed the listener.
ServeStop ==
  /\ serve = "accepting" /\ listener = "closed" /\ Done
  /\ serve' = "stopping"
  /\ UNCHANGED <<accepted, listener, files, shut, connVars>>

\* wg.Wait for the local handlers, then the deferred cleanup.
ServeReturn ==
  /\ serve = "stopping" /\ Local \cap Handled = {}
  /\ serve' = "returned" /\ listener' = "closed" /\ files' = FALSE
  /\ UNCHANGED <<accepted, shut, connVars>>

\* Listen, hardening, the status file or Accept fails: Serve cleans up and
\* returns the error, and handlers go on.
ServeFail ==
  /\ serve \in {"locked", "accepting"}
  /\ serve' = "failed" /\ files' = FALSE
  /\ listener' = IF listener = "none" THEN "none" ELSE "closed"
  /\ UNCHANGED <<accepted, shut, connVars>>

-----------------------------------------------------------------------------
(* Connections and their handlers.                                         *)

Enter(c, s) == handler' = [handler EXCEPT ![c] = s]

Dial(c) ==
  /\ c \in Local /\ listener = "open" /\ handler[c] = "out"
  /\ Enter(c, "backlog")
  /\ UNCHANGED <<serve, accepted, listener, files, shut, open, conns>>

\* The bridge hands an authenticated connection over, at any time: it is closed
\* only after Shutdown has returned.
ServeConn(c) ==
  /\ c \in Remote /\ handler[c] = "out"
  /\ IF Done THEN UNCHANGED <<open, conns>>
     ELSE open' = [open EXCEPT ![c] = TRUE] /\ conns' = conns \cup {c}
  /\ Enter(c, "hello")
  /\ UNCHANGED <<serve, accepted, listener, files, shut>>

\* The handler returns: the deferred untrackConn and Close.
Leave(c) ==
  /\ Enter(c, "over")
  /\ open' = [open EXCEPT ![c] = FALSE]
  /\ conns' = conns \ {c}

\* A command arrived: run, attach and status answer, shutdown calls Shutdown.
Command(c) ==
  /\ handler[c] = "hello" /\ open[c]
  /\ \/ Enter(c, "write") /\ UNCHANGED shut
     \/ Enter(c, "bye") /\ UNCHANGED shut
     \/ Enter(c, "shutdown") /\ shut' = (IF Done THEN shut ELSE "done")
  /\ UNCHANGED <<serve, accepted, listener, files, open, conns>>

\* The next line of the session, or its end.
StreamItem(c) ==
  /\ handler[c] = "wait"
  /\ Enter(c, "write") \/ Enter(c, "bye")
  /\ UNCHANGED <<serve, accepted, listener, files, shut, open, conns>>

\* The client reads what was written.
ClientReads(c) ==
  /\ open[c]
  /\ \/ handler[c] = "write" /\ Enter(c, "wait") /\ UNCHANGED <<open, conns>>
     \/ handler[c] = "bye" /\ Leave(c)
  /\ UNCHANGED <<serve, accepted, listener, files, shut>>

\* The client closes its end: reads and writes on the connection fail.
ClientGone(c) ==
  /\ open[c] /\ handler[c] \in {"hello", "write", "wait", "bye"}
  /\ open' = [open EXCEPT ![c] = FALSE]
  /\ UNCHANGED <<serve, accepted, listener, files, shut, handler, conns>>

\* What ends a handler without the client: the handshake deadline, an error on
\* the closed connection, s.done, and the end of the Shutdown it called.
HandlerEnds(c) ==
  /\ \/ handler[c] = "hello" /\ Leave(c)
     \/ handler[c] \in {"write", "bye"} /\ ~ open[c] /\ Leave(c)
     \/ handler[c] = "wait" /\ Done /\ Enter(c, "bye") /\ UNCHANGED <<open, conns>>
     \/ handler[c] = "shutdown" /\ shut = "drained" /\ Leave(c)
  /\ UNCHANGED <<serve, accepted, listener, files, shut>>

-----------------------------------------------------------------------------
(* Shutdown; a second caller waits for the first.                          *)

Signal ==
  /\ ~ Done
  /\ shut' = "done"
  /\ UNCHANGED <<serve, accepted, listener, files, connVars>>

BugSweepSparesConns ==
  /\ shut = "done"
  /\ shut' = "swept"
  /\ listener' = IF serve \in {"start", "locked", "bound"} THEN listener ELSE "closed"
  /\ UNCHANGED <<serve, accepted, files, connVars>>

\* Under s.mu: the published listener and every tracked connection.
ShutdownSweep ==
  /\ shut = "done"
  /\ shut' = "swept"
  /\ listener' = IF serve \in {"start", "locked", "bound"} THEN listener ELSE "closed"
  /\ open' = [c \in Conns |-> open[c] /\ c \notin conns]
  /\ UNCHANGED <<serve, accepted, files, handler, conns>>

\* Pool.Drain is bounded by its grace window.
ShutdownDrain ==
  /\ shut = "swept"
  /\ shut' = "drained"
  /\ UNCHANGED <<serve, accepted, listener, files, connVars>>

-----------------------------------------------------------------------------
ServeStep ==
  \/ ServeLock \/ ServeListen \/ ServePublish \/ ServeRecheck \/ ServeHandle
  \/ ServeStop \/ ServeReturn \/ \E c \in Local : ServeAccept(c)

ShutdownStep == ShutdownSweep \/ ShutdownDrain

ClientStep(c) ==
  Dial(c) \/ ServeConn(c) \/ Command(c) \/ StreamItem(c) \/ ClientReads(c) \/ ClientGone(c)

ServerNext ==
  \/ ServeStep \/ ServeFail \/ Signal \/ ShutdownStep
  \/ \E c \in Conns : ClientStep(c) \/ HandlerEnds(c)

ServerSpec == ServerInit /\ [][ServerNext]_serverVars

\* Goroutines are scheduled and deadlines fire.  Clients, sessions and signals
\* may do nothing for ever.
ServerFairness ==
  /\ WF_serverVars(ServeStep) /\ WF_serverVars(ShutdownStep)
  /\ \A c \in Conns : WF_serverVars(HandlerEnds(c))

ServerFairSpec == ServerSpec /\ ServerFairness

-----------------------------------------------------------------------------
(* Properties.                                                             *)

\* Types, and Server.conns holds no connection whose handler is gone.
ServerTypeOK ==
  /\ serve \in {"start", "locked", "bound", "published", "accepting", "tracking",
                "stopping", "returned", "failed"}
  /\ accepted \in Local \cup {None} /\ (accepted # None <=> serve = "tracking")
  /\ listener \in {"none", "open", "closed"}
  /\ files \in BOOLEAN
  /\ shut \in {"no", "done", "swept", "drained"}
  /\ handler \in [Conns -> {"out", "backlog", "hello", "write", "wait", "bye", "shutdown", "over"}]
  /\ open \in [Conns -> BOOLEAN]
  /\ conns \subseteq Handled

\* Once Shutdown has swept, no handler is left on an open connection: neither
\* one that was accepted while it swept, nor a remote one (D3, AUDIT-M8).
SweptConnsAreClosed ==
  shut \in {"swept", "drained"} => \A c \in Handled : ~ open[c]

\* A shutdown ends Serve, although clients stall and whatever Serve was doing,
\* binding the socket included (D3, D4).
ShutdownStopsServe ==
  Done /\ serve \notin {"returned", "failed"} ~> serve \in {"returned", "failed"}

\* ... and every handler, remote ones included.
ShutdownEndsHandlers ==
  \A c \in Conns : Done /\ c \in Handled ~> c \notin Handled

\* server.go: "Shutdown stops accepting connections, cancels in-flight runs,
\* drains the pool, and removes the socket/lock/status files."
\* It does not hold; README.md, "Promises the models refute", has the scenario.
ShutdownRemovesFiles == shut = "drained" /\ serve # "start" => ~ files
=============================================================================
