-------------------------- MODULE HttpServerProofs --------------------------
(***************************************************************************)
(* Proofs about HttpServer, for any number of connections: its types, and  *)
(* that it implements ServerLife.                                          *)
(*                                                                         *)
(* Each action is shown to be a step of ServerLife or to change nothing    *)
(* that ServerLife sees.  TypeOK is inductive, and all that is needed: it  *)
(* says that nothing waits for a listener that has ended.                  *)
(***************************************************************************)
EXTENDS HttpServer, TLAPS

LEMMA InitTypeOK == Init => TypeOK
  BY DEF Init, TypeOK

\* A session step keeps the types.
LEMMA SessionKeepsTypeOK ==
  ASSUME TypeOK, NEW c \in Conns, SessionStep(c)
  PROVE  TypeOK'
<1>1. ASSUME NEW from, NEW to \in InSession \union {"ended"}, Goes(c, from, to),
             UNCHANGED <<listener, gone, up>>, quit' \in BOOLEAN
      PROVE  TypeOK'
  BY <1>1 DEF Goes, TypeOK, InSession, Ended
<1>2. ASSUME Throws
      PROVE  TypeOK'
  BY <1>2 DEF Throws, TypeOK
<1>3. CASE ReadHeader(c)
  BY <1>1, <1>3 DEF ReadHeader, InSession, TypeOK
<1>4. CASE ContinueEnds(c)
  BY <1>1, <1>4 DEF ContinueEnds, InSession, TypeOK
<1>5. CASE HandleQuit(c)
  BY <1>1, <1>5 DEF HandleQuit
<1>6. CASE HeaderFails(c) \/ HandleDownload(c) \/ LookupEnds(c) \/ HandleOptions(c) \/ HandleOther(c)
  BY <1>1, <1>6
     DEF HeaderFails, HandleDownload, LookupEnds, HandleOptions, HandleOther, InSession, TypeOK
<1>7. CASE HandleApi(c) \/ ReadBody(c) \/ BodyFails(c) \/ MethodEnds(c) \/ WriteEnds(c)
  BY <1>1, <1>7 DEF HandleApi, ReadBody, BodyFails, MethodEnds, WriteEnds, InSession, TypeOK
<1>8. CASE BodyThrows(c) \/ LoggerThrows(c)
  BY <1>2, <1>8 DEF BodyThrows, LoggerThrows
<1> QED
  BY <1>3, <1>4, <1>5, <1>6, <1>7, <1>8 DEF SessionStep

LEMMA StepKeepsTypeOK == TypeOK /\ [Next]_vars => TypeOK'
<1> SUFFICES ASSUME TypeOK, [Next]_vars PROVE TypeOK'
  OBVIOUS
<1>1. ASSUME NEW c \in Conns, Connect(c)
      PROVE  TypeOK'
  BY <1>1 DEF Connect, Goes, TypeOK
<1>2. ASSUME NEW c \in Conns, Leave(c)
      PROVE  TypeOK'
  BY <1>2 DEF Leave, TypeOK
<1>3. ASSUME NEW c \in Conns, SessionStep(c)
      PROVE  TypeOK'
  BY <1>3, SessionKeepsTypeOK
<1>4. CASE Check
  BY <1>4 DEF Check, TypeOK, Ended
<1>5. ASSUME NEW c \in Conns, Accept(c)
      PROVE  TypeOK'
  BY <1>5 DEF Accept, Goes, TypeOK, InSession
<1>6. ASSUME NEW c \in Conns, AcceptThrows(c)
      PROVE  TypeOK'
  BY <1>6 DEF AcceptThrows, Throws, TypeOK
<1>7. CASE AcceptFails
  BY <1>7 DEF AcceptFails, TypeOK, Ended
<1>8. CASE Stop
  BY <1>8 DEF Stop, TypeOK
<1>9. CASE UNCHANGED vars
  BY <1>9 DEF vars, TypeOK
<1> QED
  BY <1>1, <1>2, <1>3, <1>4, <1>5, <1>6, <1>7, <1>8, <1>9 DEF Next, ListenerStep

\* The variables of the server keep their types, and nothing waits for a
\* listener that has ended.
THEOREM TypeCorrect == Spec => []TypeOK
  BY InitTypeOK, StepKeepsTypeOK, PTL DEF Spec

-----------------------------------------------------------------------------
\* The phases, one by one.
LEMMA PhaseRunning ==
  ASSUME TypeOK, Running
  PROVE  /\ listener = "ended" => Phase = "closed"
         /\ listener = "check" => Phase = IF quit THEN "closed" ELSE "open"
         /\ listener = "accept" => Phase = IF quit THEN "last" ELSE "open"
  BY DEF Phase, Running, TypeOK

LEMMA PhaseRunningNext ==
  ASSUME TypeOK', Running'
  PROVE  /\ listener' = "ended" => Phase' = "closed"
         /\ listener' = "check" => Phase' = IF quit' THEN "closed" ELSE "open"
         /\ listener' = "accept" => Phase' = IF quit' THEN "last" ELSE "open"
  BY DEF Phase, Running, TypeOK

LEMMA PhaseFailed == ASSUME up' = "failed" PROVE Phase' = "failed"
  BY DEF Phase, Running

LEMMA PhaseStopped == ASSUME up' = "stopped" PROVE Phase' = "off"
  BY DEF Phase, Running

\* While the process runs, the phase is one of three.
LEMMA PhaseIsOn ==
  ASSUME TypeOK, Running
  PROVE  Phase \in {"open", "last", "closed"}
  BY PhaseRunning DEF TypeOK

Waiting == {c \in Conns : pc[c] = "queued"}
Serving == {c \in Conns : pc[c] \in InSession}

\* A step that changes neither the phase nor what waits or is served.
LEMMA Stutters ==
  ASSUME Phase' = Phase, Waiting' = Waiting, Serving' = Serving
  PROVE  [Life!Next]_(Life!vars)
  BY DEF Life!vars, Waiting, Serving

\* A session that goes on stays in service.
LEMMA GoesOn ==
  ASSUME TypeOK, TypeOK', NEW c \in Conns, NEW from \in InSession, NEW to \in InSession, Goes(c, from, to),
         UNCHANGED <<quit, listener, up>>
  PROVE  [Life!Next]_(Life!vars)
<1>1. Phase' = Phase
  BY PhaseRunning, PhaseRunningNext DEF Goes, Running, TypeOK
<1>2. Waiting' = Waiting /\ Serving' = Serving
  BY DEF Goes, Waiting, Serving, InSession, TypeOK
<1> QED
  BY <1>1, <1>2, Stutters

\* A session that ends is finished.
LEMMA GoesAway ==
  ASSUME TypeOK, TypeOK', NEW c \in Conns, NEW from \in InSession, Goes(c, from, "ended"),
         UNCHANGED <<quit, listener, up>>
  PROVE  [Life!Next]_(Life!vars)
<1>1. Phase' = Phase
  BY PhaseRunning, PhaseRunningNext DEF Goes, Running, TypeOK
<1>2. Waiting' = Waiting /\ Serving' = Serving \ {c} /\ c \in Serving
  BY DEF Goes, Waiting, Serving, InSession, TypeOK
<1>3. Life!Finish(c)
  BY <1>1, <1>2 DEF Life!Finish, Waiting, Serving
<1> QED
  BY <1>3 DEF Life!Next

\* An exception in a session, or at a connection that waits, is a failure.
LEMMA ThrowIsFail ==
  ASSUME TypeOK, Throws, Waiting \union Serving # {}
  PROVE  [Life!Next]_(Life!vars)
<1>1. Phase' = "failed" /\ Phase \in {"open", "last", "closed"}
  BY PhaseFailed, PhaseIsOn DEF Throws
<1>2. Waiting' = Waiting /\ Serving' = Serving
  BY DEF Throws, Waiting, Serving
<1>3. Life!Fail
  BY <1>1, <1>2 DEF Life!Fail, Waiting, Serving
<1> QED
  BY <1>3 DEF Life!Next

\* /quit, whatever the listener is doing and whoever asked before.
LEMMA QuitRefines ==
  ASSUME TypeOK, TypeOK', NEW c \in Conns, HandleQuit(c)
  PROVE  [Life!Next]_(Life!vars)
<1>1. Waiting' = Waiting /\ Serving' = Serving \ {c} /\ c \in Serving
  BY DEF HandleQuit, Goes, Waiting, Serving, InSession, TypeOK
<1>2. Running /\ Running' /\ listener' = listener /\ quit' = TRUE
  BY DEF HandleQuit, Goes, Running
<1>3. CASE Phase = "open"
  <2>1. Phase' \in {"last", "closed"}
    BY <1>2, PhaseRunningNext DEF TypeOK
  <2>2. Life!Quit(c)
    BY <1>1, <1>3, <2>1 DEF Life!Quit, Waiting, Serving
  <2> QED
    BY <2>2 DEF Life!Next
<1>4. CASE Phase # "open"
  <2>1. Phase' = Phase
    BY <1>2, <1>4, PhaseRunning, PhaseRunningNext DEF TypeOK
  <2>2. Life!Finish(c)
    BY <1>1, <2>1 DEF Life!Finish, Waiting, Serving
  <2> QED
    BY <2>2 DEF Life!Next
<1> QED
  BY <1>3, <1>4

LEMMA SessionRefines ==
  ASSUME TypeOK, TypeOK', NEW c \in Conns, SessionStep(c)
  PROVE  [Life!Next]_(Life!vars)
<1>1. CASE ReadHeader(c)
  BY <1>1, GoesOn DEF ReadHeader, InSession
<1>2. CASE ContinueEnds(c)
  BY <1>2, GoesOn, GoesAway DEF ContinueEnds, InSession
<1>3. CASE HandleQuit(c)
  BY <1>3, QuitRefines
<1>4. CASE HandleDownload(c) \/ LookupEnds(c) \/ HandleOptions(c) \/ HandleApi(c) \/ ReadBody(c) \/ MethodEnds(c)
  BY <1>4, GoesOn
     DEF HandleDownload, LookupEnds, HandleOptions, HandleApi, ReadBody, MethodEnds, InSession
<1>5. CASE HeaderFails(c) \/ HandleOther(c) \/ BodyFails(c) \/ WriteEnds(c)
  BY <1>5, GoesAway DEF HeaderFails, HandleOther, BodyFails, WriteEnds, InSession
<1>6. CASE BodyThrows(c) \/ LoggerThrows(c)
  <2>1. Throws /\ c \in Serving
    BY <1>6 DEF BodyThrows, LoggerThrows, Serving, InSession
  <2> QED
    BY <2>1, ThrowIsFail
<1> QED
  BY <1>1, <1>2, <1>3, <1>4, <1>5, <1>6 DEF SessionStep

\* A connection is taken, the last one when the server has been asked to quit.
LEMMA AcceptRefines ==
  ASSUME TypeOK, TypeOK', NEW c \in Conns, Accept(c)
  PROVE  [Life!Next]_(Life!vars)
<1>1. Waiting' = Waiting \ {c} /\ Serving' = Serving \union {c} /\ c \in Waiting
  BY DEF Accept, Goes, Waiting, Serving, InSession, TypeOK
<1>2. /\ Running /\ Running' /\ quit' = quit /\ quit \in BOOLEAN
      /\ listener = "accept" /\ listener' = "check"
  BY DEF Accept, Goes, Running, TypeOK
<1>3. \/ Phase = "open" /\ Phase' = Phase
      \/ Phase = "last" /\ Phase' = "closed"
  BY <1>2, PhaseRunning, PhaseRunningNext
<1>4. Life!Take(c)
  BY <1>1, <1>3 DEF Life!Take, Waiting, Serving
<1> QED
  BY <1>4 DEF Life!Next

\* The listener ends, and with it the queue.
LEMMA EndRefines ==
  ASSUME TypeOK, TypeOK', Running, listener' = "ended",
         pc' = [c \in Conns |-> IF pc[c] = "queued" THEN "refused" ELSE pc[c]],
         UNCHANGED <<quit, gone, up>>
  PROVE  [Life!Next]_(Life!vars)
<1>1. Waiting' = {} /\ Serving' = Serving
  BY DEF Waiting, Serving, InSession, TypeOK
<1>2. Running'
  BY DEF Running
<1>3. Phase' = "closed" /\ Phase \in {"open", "last", "closed"}
  BY <1>2, PhaseRunningNext, PhaseIsOn
<1>4. Life!Close
  BY <1>1, <1>3 DEF Life!Close, Waiting, Serving
<1> QED
  BY <1>4 DEF Life!Next

LEMMA ListenerRefines ==
  ASSUME TypeOK, TypeOK', ListenerStep
  PROVE  [Life!Next]_(Life!vars)
<1>1. CASE Check
  <2>1. CASE quit
    BY <1>1, <2>1, EndRefines DEF Check
  <2>2. CASE ~quit
    <3>1. pc' = pc /\ Running /\ Running' /\ quit' = quit /\ listener = "check" /\ listener' = "accept"
      BY <1>1, <2>2 DEF Check, Running
    <3>2. Phase' = Phase
      BY <2>2, <3>1, PhaseRunning, PhaseRunningNext
    <3>3. Waiting' = Waiting /\ Serving' = Serving
      BY <3>1 DEF Waiting, Serving
    <3> QED
      BY <3>2, <3>3, Stutters
  <2> QED
    BY <2>1, <2>2
<1>2. ASSUME NEW c \in Conns, Accept(c)
      PROVE  [Life!Next]_(Life!vars)
  BY <1>2, AcceptRefines
<1>3. ASSUME NEW c \in Conns, AcceptThrows(c)
      PROVE  [Life!Next]_(Life!vars)
  BY <1>3, ThrowIsFail DEF AcceptThrows, Waiting
<1>4. CASE AcceptFails
  BY <1>4, EndRefines DEF AcceptFails
<1> QED
  BY <1>1, <1>2, <1>3, <1>4 DEF ListenerStep

LEMMA StopRefines ==
  ASSUME TypeOK, Stop
  PROVE  [Life!Next]_(Life!vars)
<1>1. Phase = "closed" /\ Phase' = "off"
  BY PhaseRunning, PhaseStopped DEF Stop
<1>2. Waiting' = Waiting /\ Serving' = Serving /\ Serving = {}
  BY DEF Stop, Waiting, Serving
<1>3. Life!Off
  BY <1>1, <1>2 DEF Life!Off, Waiting, Serving
<1> QED
  BY <1>3 DEF Life!Next

\* Nothing that ServerLife sees.
LEMMA SameRefines ==
  ASSUME UNCHANGED <<quit, listener, pc, up>>
  PROVE  [Life!Next]_(Life!vars)
<1>1. Phase' = Phase
  BY DEF Phase, Running
<1>2. Waiting' = Waiting /\ Serving' = Serving
  BY DEF Waiting, Serving
<1> QED
  BY <1>1, <1>2, Stutters

LEMMA ConnectRefines ==
  ASSUME TypeOK, TypeOK', NEW c \in Conns, Connect(c)
  PROVE  [Life!Next]_(Life!vars)
<1>1. /\ Waiting' = Waiting \union {c} /\ Serving' = Serving
      /\ c \notin Waiting \union Serving
  BY DEF Connect, Goes, Waiting, Serving, InSession, TypeOK
<1>2. Phase \in {"open", "last", "closed"} /\ Phase' = Phase
  BY PhaseIsOn, PhaseRunning, PhaseRunningNext DEF Connect, Goes, Running, TypeOK
<1>3. Life!Arrive(c)
  BY <1>1, <1>2 DEF Life!Arrive, Waiting, Serving
<1> QED
  BY <1>3 DEF Life!Next

LEMMA StepRefines == TypeOK /\ TypeOK' /\ [Next]_vars => [Life!Next]_(Life!vars)
<1> SUFFICES ASSUME TypeOK, TypeOK', [Next]_vars PROVE [Life!Next]_(Life!vars)
  OBVIOUS
<1>1. ASSUME NEW c \in Conns, Connect(c) \/ SessionStep(c)
      PROVE  [Life!Next]_(Life!vars)
  BY <1>1, ConnectRefines, SessionRefines
<1>2. ASSUME NEW c \in Conns, Leave(c)
      PROVE  [Life!Next]_(Life!vars)
  BY <1>2, SameRefines DEF Leave
<1>3. CASE ListenerStep
  BY <1>3, ListenerRefines
<1>4. CASE Stop
  BY <1>4, StopRefines
<1>5. CASE UNCHANGED vars
  BY <1>5, SameRefines DEF vars
<1> QED
  BY <1>1, <1>2, <1>3, <1>4, <1>5 DEF Next

LEMMA InitRefines == Init => Life!Init
<1> SUFFICES ASSUME Init PROVE Life!Init
  OBVIOUS
<1>1. Phase = "open"
  BY DEF Init, Phase, Running
<1>2. Waiting = {} /\ Serving = {}
  BY DEF Init, Waiting, Serving, InSession
<1> QED
  BY <1>1, <1>2 DEF Life!Init, Waiting, Serving

\* The server implements ServerLife: after /quit at most one more connection is
\* taken, and the process ends when the last session has.
THEOREM Refinement == Spec => ImplementsServerLife
  BY InitRefines, StepRefines, TypeCorrect, PTL DEF Spec, ImplementsServerLife, Life!Spec
=============================================================================
