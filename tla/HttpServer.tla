----------------------------- MODULE HttpServer -----------------------------
(***************************************************************************)
(* The HTTP server (HTTPServer.h, HTTPServer.cpp): the listener, which     *)
(* spawns a session per connection, and the sessions, each of which serves *)
(* one request.  All are coroutines of one io_context, so that Server::run *)
(* returns when the listener and every session have ended.                 *)
(*                                                                         *)
(* What a request asks for is left open until its session handles it; the  *)
(* methods are those of the other modules.  An exception that leaves a     *)
(* coroutine leaves io_context::run and ends the process.                  *)
(***************************************************************************)
CONSTANT Conns   \* the connections that are ever made

VARIABLES
  quit,      \* quit_
  listener,  \* where the listener is in its loop
  pc,        \* per connection: where its session is
  gone,      \* the clients that have left
  up         \* the process

vars == <<quit, listener, pc, gone, up>>

\* Where a session is.
InSession == {"header", "continue", "begin", "body", "lookup", "method", "write"}
Ended     == {"ended", "refused"}

TypeOK ==
  /\ quit \in BOOLEAN
  /\ listener \in {"check", "accept", "ended"}
  /\ pc \in [Conns -> {"new", "queued"} \union InSession \union Ended]
  /\ gone \subseteq Conns
  /\ up \in {"running", "stopped", "failed"}
  /\ listener = "ended" => \A c \in Conns : pc[c] # "queued"

Init ==
  /\ quit = FALSE
  /\ listener = "check"
  /\ pc = [c \in Conns |-> "new"]
  /\ gone = {}
  /\ up = "running"

Running == up = "running"

\* A session goes from one place to another.
Goes(c, from, to) ==
  /\ Running /\ pc[c] = from
  /\ pc' = [pc EXCEPT ![c] = to]

\* An exception leaves the coroutine.
Throws ==
  /\ Running
  /\ up' = "failed"
  /\ UNCHANGED <<quit, listener, pc, gone>>

(***************************************************************************)
(* Clients.                                                                *)
(***************************************************************************)
Connect(c) ==
  /\ listener # "ended"
  /\ Goes(c, "new", "queued")
  /\ UNCHANGED <<quit, listener, gone, up>>

Leave(c) ==
  /\ pc[c] \in {"queued"} \union InSession /\ c \notin gone
  /\ gone' = gone \union {c}
  /\ UNCHANGED <<quit, listener, pc, up>>

(***************************************************************************)
(* The listener.                                                           *)
(***************************************************************************)

\* Variant of Check: the flag is not looked at.
CheckNothing ==
  /\ Running /\ listener = "check"
  /\ listener' = "accept"
  /\ UNCHANGED <<quit, pc, gone, up>>

\* Variant of Check: the acceptor stays open when the listener ends.
CheckKeepsQueue ==
  /\ Running /\ listener = "check"
  /\ listener' = IF quit THEN "ended" ELSE "accept"
  /\ UNCHANGED <<quit, pc, gone, up>>

\* while (!server_.quit()); with the listener its acceptor is closed.
Check ==
  /\ Running /\ listener = "check"
  /\ listener' = IF quit THEN "ended" ELSE "accept"
  /\ pc' = IF quit THEN [c \in Conns |-> IF pc[c] = "queued" THEN "refused" ELSE pc[c]] ELSE pc
  /\ UNCHANGED <<quit, gone, up>>

Accept(c) ==
  /\ listener = "accept"
  /\ Goes(c, "queued", "header")
  /\ listener' = "check"
  /\ UNCHANGED <<quit, gone, up>>

\* The session's constructor asks for the name of the peer, which has left.
AcceptThrows(c) ==
  /\ listener = "accept" /\ pc[c] = "queued" /\ c \in gone
  /\ Throws

\* An error of accept ends the loop.
AcceptFails ==
  /\ Running /\ listener = "accept"
  /\ listener' = "ended"
  /\ pc' = [c \in Conns |-> IF pc[c] = "queued" THEN "refused" ELSE pc[c]]
  /\ UNCHANGED <<quit, gone, up>>

(***************************************************************************)
(* A session.                                                              *)
(***************************************************************************)

\* The header, perhaps with Expect: 100-continue.
ReadHeader(c) ==
  /\ \E to \in {"continue", "begin"} : Goes(c, "header", to)
  /\ UNCHANGED <<quit, listener, gone, up>>

\* No header, or one that cannot be parsed.
HeaderFails(c) ==
  /\ Goes(c, "header", "ended")
  /\ UNCHANGED <<quit, listener, gone, up>>

\* Variant of ContinueEnds: a failed write is tried again.
ContinueEndsOnSuccess(c) ==
  /\ c \notin gone
  /\ Goes(c, "continue", "begin")
  /\ UNCHANGED <<quit, listener, gone, up>>

ContinueEnds(c) ==
  /\ \E to \in {"begin", "ended"} : Goes(c, "continue", to)
  /\ UNCHANGED <<quit, listener, gone, up>>

\* GET /quit.
HandleQuit(c) ==
  /\ Goes(c, "begin", "ended")
  /\ quit' = TRUE
  /\ UNCHANGED <<listener, gone, up>>

\* GET /dl: the look-up of the key, and what is served then.
HandleDownload(c) ==
  /\ Goes(c, "begin", "lookup")
  /\ UNCHANGED <<quit, listener, gone, up>>

LookupEnds(c) ==
  /\ Goes(c, "lookup", "write")
  /\ UNCHANGED <<quit, listener, gone, up>>

\* OPTIONS of the API.
HandleOptions(c) ==
  /\ Goes(c, "begin", "write")
  /\ UNCHANGED <<quit, listener, gone, up>>

\* POST to the API: the body, the method and its answer.
HandleApi(c) ==
  /\ Goes(c, "begin", "body")
  /\ UNCHANGED <<quit, listener, gone, up>>

\* The body has been read and parsed: the dispatcher calls the method.
ReadBody(c) ==
  /\ Goes(c, "body", "method")
  /\ UNCHANGED <<quit, listener, gone, up>>

\* A read error, JSON with an error, or JSON that is no request: no answer.
BodyFails(c) ==
  /\ Goes(c, "body", "ended")
  /\ UNCHANGED <<quit, listener, gone, up>>

\* parser.finish() of JSON that has no end throws.
BodyThrows(c) == pc[c] = "body" /\ Throws

MethodEnds(c) ==
  /\ Goes(c, "method", "write")
  /\ UNCHANGED <<quit, listener, gone, up>>

\* Other requests are not answered.
HandleOther(c) ==
  /\ Goes(c, "begin", "ended")
  /\ UNCHANGED <<quit, listener, gone, up>>

\* The name of the logger, for a download or a call, asks for the peer.
LoggerThrows(c) ==
  /\ c \in gone
  /\ pc[c] \in {"begin", "body"}
  /\ Throws

\* Variant of WriteEnds: a failed write is tried again.
WriteEndsOnSuccess(c) ==
  /\ c \notin gone
  /\ Goes(c, "write", "ended")
  /\ UNCHANGED <<quit, listener, gone, up>>

\* An error of the write is logged.
WriteEnds(c) ==
  /\ Goes(c, "write", "ended")
  /\ UNCHANGED <<quit, listener, gone, up>>

(***************************************************************************)
(* Server::run.                                                            *)
(***************************************************************************)

\* io_context::run returns when there is nothing left to wait for.
Stop ==
  /\ Running /\ listener = "ended"
  /\ \A c \in Conns : pc[c] \notin InSession
  /\ up' = "stopped"
  /\ UNCHANGED <<quit, listener, pc, gone>>

ListenerStep == Check \/ (\E c \in Conns : Accept(c) \/ AcceptThrows(c)) \/ AcceptFails

SessionStep(c) ==
  \/ ReadHeader(c)
  \/ HeaderFails(c) \/ ContinueEnds(c)
  \/ HandleQuit(c)
  \/ HandleDownload(c) \/ LookupEnds(c)
  \/ HandleOptions(c) \/ HandleOther(c)
  \/ HandleApi(c) \/ ReadBody(c) \/ BodyFails(c) \/ BodyThrows(c) \/ MethodEnds(c)
  \/ LoggerThrows(c)
  \/ WriteEnds(c)

Next ==
  \/ \E c \in Conns : Connect(c) \/ Leave(c) \/ SessionStep(c)
  \/ ListenerStep
  \/ Stop

Spec == Init /\ [][Next]_vars

\* A session that does not wait for its client.
OwnStep(c) == (c \in gone \/ pc[c] \in {"begin", "lookup", "method"}) /\ SessionStep(c)

\* The listener looks at its flag, sessions run, calls return, and every client
\* leaves some day: there are no timeouts on its reads and writes.  Nobody has
\* to connect.
Fairness ==
  /\ WF_vars(Check) /\ WF_vars(\E c \in Conns : Accept(c)) /\ WF_vars(Stop)
  /\ \A c \in Conns : WF_vars(Leave(c)) /\ WF_vars(OwnStep(c))

FairSpec == Spec /\ Fairness

(***************************************************************************)
(* Properties.                                                             *)
(***************************************************************************)

Phase ==
  CASE up = "stopped" -> "off"
    [] up = "failed"  -> "failed"
    [] Running /\ (listener = "ended" \/ (quit /\ listener = "check")) -> "closed"
    [] Running /\ quit /\ listener = "accept" -> "last"
    [] OTHER -> "open"

Life == INSTANCE ServerLife WITH
  phase   <- Phase,
  waiting <- {c \in Conns : pc[c] = "queued"},
  serving <- {c \in Conns : pc[c] \in InSession}

\* The listener looks at the flag between two connections only, while sessions
\* set it at any time: it takes at most one connection more, and no request is
\* cut off by the end of the process.
ImplementsServerLife == Life!Spec

\* A connection does not wait for ever, neither for the listener nor in its
\* session, also when its client leaves at the wrong moment.
ConnectionsEnd == \A c \in Conns : pc[c] = "queued" ~> (pc[c] \in Ended \/ ~Running)

\* When the server has been asked to quit and the listener has ended, the
\* process ends.
QuitStops == (quit /\ listener = "ended") ~> ~Running
=============================================================================
