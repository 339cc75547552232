------------------------------- MODULE DbExec -------------------------------
(***************************************************************************)
(* The execution of query functions by WorkspaceDB (WorkspaceDB.h): the    *)
(* coroutine of a request sets the timer of its DispatchContext to         *)
(* infinity, posts a job to the thread pool or to the io_context of the    *)
(* one sync thread, and waits on the timer; the job makes a query handle,  *)
(* runs the function, and wakes the coroutine by cancelling the timer.     *)
(*                                                                         *)
(* The coroutine and the job run in different threads, so that each of     *)
(* expires/post, async_wait, the job's stages and the resumption of the    *)
(* coroutine is a step of its own.  cancel_one wakes a wait that is        *)
(* registered; it leaves no trace when there is none.                      *)
(***************************************************************************)
EXTENDS Naturals, Sequences, FiniteSets

CONSTANTS
  Requests,      \* requests, each with its DispatchContext
  PoolThreads,   \* the threads of thread_pool_ (mongodb_client_threads)
  SyncThread,    \* sync_thread_, the one thread that runs sync_ioc_
  None           \* no request

ASSUME ThreadsAssumption ==
  /\ SyncThread \notin PoolThreads
  /\ None \notin Requests

VARIABLES
  pc,       \* the coroutine of each request
  expiry,   \* the expiry of its timer: never set, or pos_infin
  kind,     \* the executor its latest call was posted to
  queue,    \* the jobs posted to each executor and not taken yet, in order
  worker,   \* the job each thread has taken
  stage,    \* how far the job taken by a thread has got
  alive     \* FALSE once an exception escaped a query function

vars == <<pc, expiry, kind, queue, worker, stage, alive>>

Kinds   == {"sync", "pool"}
Threads == PoolThreads \union {SyncThread}

\* "running": the coroutine's own code, between two calls
\* "posted":  the job is posted, the wait is not yet registered
\* "waiting": suspended in async_wait
\* "woken":   the completion of async_wait is queued
PCs    == {"running", "posted", "waiting", "woken"}
Stages == {"free", "query", "wake"}

TypeOK ==
  /\ pc \in [Requests -> PCs]
  /\ expiry \in [Requests -> {"unset", "infinity"}]
  /\ kind \in [Requests -> Kinds]
  /\ queue \in [Kinds -> Seq(Requests)]
  /\ worker \in [Threads -> Requests \union {None}]
  /\ stage \in [Threads -> Stages]
  /\ \A t \in Threads : worker[t] = None <=> stage[t] = "free"
  /\ alive \in BOOLEAN

(***************************************************************************)
(* Variants of definitions below, each with one mistake: the runs must see *)
(* the property they are paired with in PROJECT.json violated.             *)
(***************************************************************************)

\* The sync io_context is run by the pool's threads as well.
ServesAny(t, k) == IF k = "sync" THEN TRUE ELSE t \in PoolThreads

\* The expiry of the timer is left as it was.
PostKeepsExpiry(r, k) ==
  /\ alive
  /\ pc[r] = "running"
  /\ pc' = [pc EXCEPT ![r] = "posted"]
  /\ kind' = [kind EXCEPT ![r] = k]
  /\ queue' = [queue EXCEPT ![k] = Append(@, r)]
  /\ UNCHANGED <<expiry, worker, stage, alive>>

\* The thread does not become free.
CancelOneStaysBusy(t) ==
  /\ alive
  /\ stage[t] = "wake"
  /\ pc' = [pc EXCEPT ![worker[t]] = IF @ = "waiting" THEN "woken" ELSE @]
  /\ worker' = [worker EXCEPT ![t] = None]
  /\ UNCHANGED <<expiry, kind, queue, stage, alive>>

\* The job ends without waking the coroutine.
CancelOneForgotten(t) ==
  /\ alive
  /\ stage[t] = "wake"
  /\ worker' = [worker EXCEPT ![t] = None]
  /\ stage' = [stage EXCEPT ![t] = "free"]
  /\ UNCHANGED <<pc, expiry, kind, queue, alive>>

\* A thread exists for the pool only.
ServesPoolOnly(t, k) == k = "pool" /\ t \in PoolThreads

(***************************************************************************)
(* The system.                                                             *)
(***************************************************************************)

\* The threads that serve an executor.
Serves(t, k) == IF k = "sync" THEN t = SyncThread ELSE t \in PoolThreads

Init ==
  /\ pc = [r \in Requests |-> "running"]
  /\ expiry = [r \in Requests |-> "unset"]
  /\ kind = [r \in Requests |-> "pool"]
  /\ queue = [k \in Kinds |-> <<>>]
  /\ worker = [t \in Threads |-> None]
  /\ stage = [t \in Threads |-> "free"]
  /\ alive = TRUE

(***************************************************************************)
(* The coroutine.                                                          *)
(***************************************************************************)

\* timer.expires_at(pos_infin), which cancels nothing as no wait is
\* registered, then post(...).
Post(r, k) ==
  /\ alive
  /\ pc[r] = "running"
  /\ pc' = [pc EXCEPT ![r] = "posted"]
  /\ expiry' = [expiry EXCEPT ![r] = "infinity"]
  /\ kind' = [kind EXCEPT ![r] = k]
  /\ queue' = [queue EXCEPT ![k] = Append(@, r)]
  /\ UNCHANGED <<worker, stage, alive>>

\* timer.async_wait(yield).  A timer whose expiry was never set is due.
AsyncWait(r) ==
  /\ alive
  /\ pc[r] = "posted"
  /\ pc' = [pc EXCEPT ![r] = IF expiry[r] = "infinity" THEN "waiting" ELSE "woken"]
  /\ UNCHANGED <<expiry, kind, queue, worker, stage, alive>>

\* The coroutine goes on, with operation_aborted as the result of the wait
\* (any other result is logged and ignored).
Resume(r) ==
  /\ alive
  /\ pc[r] = "woken"
  /\ pc' = [pc EXCEPT ![r] = "running"]
  /\ UNCHANGED <<expiry, kind, queue, worker, stage, alive>>

(***************************************************************************)
(* The threads.                                                            *)
(***************************************************************************)

\* Variant of Take: a thread takes the newest job.
TakeNewest(t, k) ==
  /\ alive
  /\ Serves(t, k)
  /\ worker[t] = None
  /\ queue[k] # <<>>
  /\ worker' = [worker EXCEPT ![t] = queue[k][Len(queue[k])]]
  /\ stage' = [stage EXCEPT ![t] = "query"]
  /\ queue' = [queue EXCEPT ![k] = SubSeq(@, 1, Len(@) - 1)]
  /\ UNCHANGED <<pc, expiry, kind, alive>>

\* A free thread takes the oldest job of its executor and makes the query
\* handle.
Take(t, k) ==
  /\ alive
  /\ Serves(t, k)
  /\ worker[t] = None
  /\ queue[k] # <<>>
  /\ worker' = [worker EXCEPT ![t] = Head(queue[k])]
  /\ stage' = [stage EXCEPT ![t] = "query"]
  /\ queue' = [queue EXCEPT ![k] = Tail(@)]
  /\ UNCHANGED <<pc, expiry, kind, alive>>

\* qfunc(std::move(q)) returns.
QueryReturns(t) ==
  /\ alive
  /\ stage[t] = "query"
  /\ stage' = [stage EXCEPT ![t] = "wake"]
  /\ UNCHANGED <<pc, expiry, kind, queue, worker, alive>>

\* qfunc throws: nothing between it and the thread's function catches.
QueryThrows(t) ==
  /\ alive
  /\ stage[t] = "query"
  /\ alive' = FALSE
  /\ UNCHANGED <<pc, expiry, kind, queue, worker, stage>>

\* dc.timer.cancel_one(), the last access of the job to the request.
CancelOne(t) ==
  /\ alive
  /\ stage[t] = "wake"
  /\ pc' = [pc EXCEPT ![worker[t]] = IF @ = "waiting" THEN "woken" ELSE @]
  /\ worker' = [worker EXCEPT ![t] = None]
  /\ stage' = [stage EXCEPT ![t] = "free"]
  /\ UNCHANGED <<expiry, kind, queue, alive>>

Next ==
  \/ \E r \in Requests :
       \/ \E k \in Kinds : Post(r, k)
       \/ AsyncWait(r)
       \/ Resume(r)
  \/ \E t \in Threads :
       \/ \E k \in Kinds : Take(t, k)
       \/ QueryReturns(t)
       \/ QueryThrows(t)
       \/ CancelOne(t)

Spec == Init /\ [][Next]_vars

\* The io_contexts run every handler that is ready, a thread never idles
\* while its executor has a job, and a query function ends (by returning or
\* by throwing).  Nothing makes a request issue another call.
Fairness ==
  /\ \A r \in Requests : WF_vars(AsyncWait(r)) /\ WF_vars(Resume(r))
  /\ \A t \in Threads :
       /\ WF_vars(\E k \in Kinds : Take(t, k))
       /\ WF_vars(QueryReturns(t) \/ QueryThrows(t))
       /\ WF_vars(CancelOne(t))

FairSpec == Spec /\ Fairness

(***************************************************************************)
(* Properties.                                                             *)
(***************************************************************************)

InQueue(r, k) == \E i \in 1..Len(queue[k]) : queue[k][i] = r

\* The job of r is queued, or a thread is at work on it.
JobPending(r) ==
  \/ \E k \in Kinds : InQueue(r, k)
  \/ \E t \in Threads : worker[t] = r

\* As long as a job exists, the coroutine whose locals its function refers to
\* ([&dc], and the caller's by-reference captures) is inside the very call
\* that posted it, neither resumed nor about to be.
FrameOutlivesJob ==
  \A r \in Requests : JobPending(r) => pc[r] \in {"posted", "waiting"}

\* "requests for database operations that must be globally serialized" are:
\* two sync jobs are never between make_query and the end of cancel_one at
\* the same time, and a request has at most one job, queued or running, in
\* the two executors together.
SyncSerialized ==
  /\ \A t, u \in Threads :
       (worker[t] # None /\ worker[u] # None /\ t # u) =>
         /\ ~(kind[worker[t]] = "sync" /\ kind[worker[u]] = "sync")
         /\ worker[t] # worker[u]
  /\ \A t \in Threads, k \in Kinds : worker[t] # None => ~InQueue(worker[t], k)
  /\ \A k, l \in Kinds :
       \A i \in 1..Len(queue[k]), j \in 1..Len(queue[l]) :
         queue[k][i] = queue[l][j] => k = l /\ i = j

\* Refinement mapping to DbCall: the call of r is finished when its function
\* has returned; a queued sync call is behind those before it in the queue and
\* behind the one whose function is executing.
Executing(r) == \E t \in Threads : worker[t] = r /\ stage[t] = "query"

Queued(r) == \E k \in Kinds : InQueue(r, k)

CallPhase ==
  [r \in Requests |->
     IF pc[r] = "running" THEN "idle"
     ELSE IF Queued(r) THEN "submitted"
     ELSE IF Executing(r) THEN "executing"
     ELSE "finished"]

Before(s, r) ==
  \E i, j \in 1..Len(queue["sync"]) :
    i < j /\ queue["sync"][i] = s /\ queue["sync"][j] = r

CallAhead ==
  [r \in Requests |->
     IF InQueue(r, "sync")
     THEN {s \in Requests : Before(s, r) \/ (worker[SyncThread] = s /\ Executing(s))}
     ELSE {}]

Call == INSTANCE DbCall WITH phase <- CallPhase, ahead <- CallAhead

\* DbExec implements DbCall.
ImplementsDbCall == Call!Spec

\* Every posted job is executed to its end, whatever the fate of the other
\* requests, unless an exception ends the process: a request that is never
\* woken occupies no thread.
EveryJobIsServed ==
  \A r \in Requests : (pc[r] = "posted") ~> (~JobPending(r) \/ ~alive)

\* A coroutine that is suspended in async_wait while its job is still under
\* way is resumed.
WaiterIsWoken ==
  \A r \in Requests :
    (pc[r] = "waiting" /\ JobPending(r)) ~> (pc[r] = "running" \/ ~alive)

\* WorkspaceDB.h:192-196: the timer is used "to wake up the asynchronous
\* coroutine when the query completes": every call returns.
EveryCallReturns ==
  \A r \in Requests : (pc[r] = "posted") ~> (pc[r] = "running" \/ ~alive)
=============================================================================
