------------------------------- MODULE DbCall -------------------------------
(***************************************************************************)
(* What WorkspaceDB::run_in_thread and WorkspaceDB::run_in_sync_thread     *)
(* (WorkspaceDB.h) promise to the coroutine of a request.                  *)
(*                                                                         *)
(* A request hands a query function to the database layer and is suspended *)
(* until that function has returned: the function refers to the locals of  *)
(* the suspended coroutine, so it must be finished before the coroutine    *)
(* goes on.  Functions handed to the sync thread are serialized in the     *)
(* order in which they were submitted.                                     *)
(*                                                                         *)
(* DbExec, with its queues, threads and timers, implements this.           *)
(***************************************************************************)

CONSTANT Requests   \* the requests (each one a coroutine with its context)

VARIABLES
  phase,    \* where the call of each request stands
  kind,     \* the executor the request's latest call was made to
  ahead,    \* the sync calls that must be served before the request's call
  alive     \* FALSE once an exception escaped a query function

vars == <<phase, kind, ahead, alive>>

Kinds  == {"sync", "pool"}
Phases == {"idle", "submitted", "executing", "finished"}

TypeOK ==
  /\ phase \in [Requests -> Phases]
  /\ kind \in [Requests -> Kinds]
  /\ ahead \in [Requests -> SUBSET Requests]
  /\ alive \in BOOLEAN

\* The sync calls that are not finished yet.
Outstanding ==
  {r \in Requests : kind[r] = "sync" /\ phase[r] \in {"submitted", "executing"}}

Init ==
  /\ phase = [r \in Requests |-> "idle"]
  /\ kind = [r \in Requests |-> "pool"]
  /\ ahead = [r \in Requests |-> {}]
  /\ alive = TRUE

Submit(r, k) ==
  /\ alive
  /\ phase[r] = "idle"
  /\ phase' = [phase EXCEPT ![r] = "submitted"]
  /\ kind' = [kind EXCEPT ![r] = k]
  /\ ahead' = [ahead EXCEPT ![r] = IF k = "sync" THEN Outstanding ELSE {}]
  /\ UNCHANGED alive

\* A sync call begins when every sync call submitted before it is finished.
Begin(r) ==
  /\ alive
  /\ phase[r] = "submitted"
  /\ ahead[r] = {}
  /\ phase' = [phase EXCEPT ![r] = "executing"]
  /\ UNCHANGED <<kind, ahead, alive>>

Finish(r) ==
  /\ alive
  /\ phase[r] = "executing"
  /\ phase' = [phase EXCEPT ![r] = "finished"]
  /\ ahead' = [s \in Requests |-> ahead[s] \ {r}]
  /\ UNCHANGED <<kind, alive>>

\* The only way out of a call is through its end.
Return(r) ==
  /\ alive
  /\ phase[r] = "finished"
  /\ phase' = [phase EXCEPT ![r] = "idle"]
  /\ UNCHANGED <<kind, ahead, alive>>

\* An exception that leaves a query function ends the process.
Fail(r) ==
  /\ alive
  /\ phase[r] = "executing"
  /\ alive' = FALSE
  /\ UNCHANGED <<phase, kind, ahead>>

Next ==
  \E r \in Requests :
    \/ \E k \in Kinds : Submit(r, k)
    \/ Begin(r)
    \/ Finish(r)
    \/ Return(r)
    \/ Fail(r)

Spec == Init /\ [][Next]_vars
=============================================================================
