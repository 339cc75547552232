----------------------------- MODULE ServerLife -----------------------------
(***************************************************************************)
(* What the HTTP server promises: it takes connections until it is asked   *)
(* to quit, takes at most one more then, and goes off only when nothing is *)
(* being served any more, unless it fails.                                 *)
(***************************************************************************)
CONSTANT Conns

VARIABLES
  phase,    \* "open", "last" (one more connection), "closed", "off", "failed"
  waiting,  \* connections that nobody has taken yet
  serving   \* connections that are being served

vars == <<phase, waiting, serving>>

Init == phase = "open" /\ waiting = {} /\ serving = {}

Arrive(c) ==
  /\ phase \in {"open", "last", "closed"} /\ c \notin waiting \union serving
  /\ waiting' = waiting \union {c}
  /\ UNCHANGED <<phase, serving>>

Take(c) ==
  /\ c \in waiting
  /\ \/ phase = "open" /\ UNCHANGED phase
     \/ phase = "last" /\ phase' = "closed"
  /\ waiting' = waiting \ {c}
  /\ serving' = serving \union {c}

Finish(c) ==
  /\ c \in serving
  /\ serving' = serving \ {c}
  /\ UNCHANGED <<phase, waiting>>

\* A connection that is served asks the server to quit.
Quit(c) ==
  /\ c \in serving /\ phase = "open"
  /\ phase' \in {"last", "closed"}
  /\ serving' = serving \ {c}
  /\ UNCHANGED waiting

\* The server takes no more connections, asked or not.
Close ==
  /\ phase \in {"open", "last", "closed"}
  /\ phase' = "closed"
  /\ waiting' = {}
  /\ UNCHANGED serving

Off ==
  /\ phase = "closed" /\ serving = {}
  /\ phase' = "off"
  /\ UNCHANGED <<waiting, serving>>

Fail ==
  /\ phase \in {"open", "last", "closed"} /\ waiting \union serving # {}
  /\ phase' = "failed"
  /\ UNCHANGED <<waiting, serving>>

Next ==
  \/ \E c \in Conns : Arrive(c) \/ Take(c) \/ Finish(c) \/ Quit(c)
  \/ Close \/ Off \/ Fail

Spec == Init /\ [][Next]_vars
=============================================================================
