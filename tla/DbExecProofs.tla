---------------------------- MODULE DbExecProofs ----------------------------
(***************************************************************************)
(* Proofs about DbExec, for any number of requests and of pool threads.    *)
(***************************************************************************)
EXTENDS DbExec, SequenceTheorems, TLAPS

(***************************************************************************)
(* The inductive invariant.  FrameOutlivesJob alone is not inductive: that *)
(* the wake-up of a job reaches its own request and no other depends on a  *)
(* request having one job at most, and that async_wait does not complete   *)
(* at once depends on the expiry that was set before the job was posted.   *)
(***************************************************************************)

\* A request has one job at most.
OneWorker == \A t, u \in Threads : worker[t] # None /\ worker[t] = worker[u] => t = u
NotQueued == \A t \in Threads, k \in Kinds : worker[t] # None => ~InQueue(worker[t], k)
QueuedOnce ==
  \A k, l \in Kinds : \A i \in 1..Len(queue[k]), j \in 1..Len(queue[l]) :
    queue[k][i] = queue[l][j] => k = l /\ i = j

\* Jobs are queued and executed where they were posted.
KindsAgree ==
  /\ \A t \in Threads : worker[t] # None => Serves(t, kind[worker[t]])
  /\ \A k \in Kinds : \A i \in 1..Len(queue[k]) : kind[queue[k][i]] = k

ExpirySet == \A r \in Requests : pc[r] = "posted" => expiry[r] = "infinity"

IInv ==
  /\ TypeOK
  /\ OneWorker
  /\ NotQueued
  /\ QueuedOnce
  /\ KindsAgree
  /\ ExpirySet
  /\ FrameOutlivesJob

(***************************************************************************)
(* The queues.                                                             *)
(***************************************************************************)

\* Posting adds a job at the end of one queue and moves no other.
LEMMA PostQueue ==
  ASSUME TypeOK, NEW r \in Requests, NEW k \in Kinds,
         queue' = [queue EXCEPT ![k] = Append(@, r)]
  PROVE  /\ queue' \in [Kinds -> Seq(Requests)]
         /\ \A l \in Kinds : l # k => queue'[l] = queue[l]
         /\ Len(queue[k]) \in Nat
         /\ Len(queue'[k]) = Len(queue[k]) + 1
         /\ \A i \in 1..Len(queue[k]) : queue'[k][i] = queue[k][i]
         /\ queue'[k][Len(queue[k]) + 1] = r
         /\ \A s \in Requests, l \in Kinds :
              InQueue(s, l)' <=> (InQueue(s, l) \/ (s = r /\ l = k))
<1>1. queue[k] \in Seq(Requests) /\ queue'[k] = Append(queue[k], r)
  BY DEF TypeOK
<1>2. /\ Append(queue[k], r) \in Seq(Requests)
      /\ Len(Append(queue[k], r)) = Len(queue[k]) + 1
      /\ \A i \in 1..Len(queue[k]) : Append(queue[k], r)[i] = queue[k][i]
      /\ Append(queue[k], r)[Len(queue[k]) + 1] = r
      /\ Len(queue[k]) \in Nat
  BY <1>1, AppendProperties, LenProperties
<1>3. \A l \in Kinds : l # k => queue'[l] = queue[l]
  BY DEF TypeOK
<1>4. queue' \in [Kinds -> Seq(Requests)]
  BY <1>1, <1>2 DEF TypeOK
<1>5. ASSUME NEW s \in Requests, NEW l \in Kinds
      PROVE  InQueue(s, l)' <=> (InQueue(s, l) \/ (s = r /\ l = k))
  <2>1. CASE l # k
    BY <2>1, <1>3 DEF InQueue
  <2>2. CASE l = k
    <3>1. \A i \in 1..Len(queue[k]) + 1 :
            i \in 1..Len(queue[k]) \/ i = Len(queue[k]) + 1
      BY <1>2
    <3>2. \A i \in 1..Len(queue[k]) : i \in 1..Len(queue[k]) + 1
      BY <1>2
    <3>3. Len(queue[k]) + 1 \in 1..Len(queue[k]) + 1
      BY <1>2
    <3>4. QED
      BY <2>2, <1>1, <1>2, <3>1, <3>2, <3>3 DEF InQueue
  <2>3. QED
    BY <2>1, <2>2
<1>6. QED
  BY <1>1, <1>2, <1>3, <1>4, <1>5

\* Taking removes the first job of one queue and moves no other.
LEMMA TakeQueue ==
  ASSUME TypeOK, QueuedOnce, NEW k \in Kinds, queue[k] # <<>>,
         queue' = [queue EXCEPT ![k] = Tail(@)]
  PROVE  /\ queue' \in [Kinds -> Seq(Requests)]
         /\ \A l \in Kinds : l # k => queue'[l] = queue[l]
         /\ Head(queue[k]) = queue[k][1]
         /\ Head(queue[k]) \in Requests
         /\ Len(queue[k]) \in Nat /\ 1 \in 1..Len(queue[k])
         /\ Len(queue'[k]) = Len(queue[k]) - 1
         /\ \A i \in 1..Len(queue'[k]) :
              i + 1 \in 1..Len(queue[k]) /\ queue'[k][i] = queue[k][i + 1]
         /\ \A s \in Requests, l \in Kinds :
              InQueue(s, l)' <=> (InQueue(s, l) /\ ~(s = Head(queue[k]) /\ l = k))
<1>1. queue[k] \in Seq(Requests) /\ queue'[k] = Tail(queue[k])
  BY DEF TypeOK
<1>2. /\ Head(queue[k]) = queue[k][1]
      /\ Head(queue[k]) \in Requests
      /\ Tail(queue[k]) \in Seq(Requests)
      /\ Len(Tail(queue[k])) = Len(queue[k]) - 1
      /\ Len(queue[k]) \in Nat
      /\ Len(queue[k]) # 0
  BY <1>1, HeadTailProperties, LenProperties, EmptySeq
<1>3. \A i \in 1..Len(Tail(queue[k])) : Tail(queue[k])[i] = queue[k][i + 1]
  BY <1>1, HeadTailProperties
<1>4. \A i \in 1..Len(queue'[k]) : queue'[k][i] = queue[k][i + 1]
  BY <1>1, <1>3
<1>5. 1 \in 1..Len(queue[k])
  BY <1>2
<1>6. \A i \in 1..Len(queue'[k]) : i + 1 \in 1..Len(queue[k]) /\ i + 1 # 1
  <2>1. \A n \in Nat : \A i \in 1..n - 1 : i + 1 \in 1..n /\ i + 1 # 1
    OBVIOUS
  <2>2. QED
    BY <2>1, <1>1, <1>2
<1>7. \A l \in Kinds : l # k => queue'[l] = queue[l]
  BY DEF TypeOK
<1>8. queue' \in [Kinds -> Seq(Requests)]
  BY <1>1, <1>2 DEF TypeOK
<1>9. ASSUME NEW s \in Requests, NEW l \in Kinds
      PROVE  InQueue(s, l)' <=> (InQueue(s, l) /\ ~(s = Head(queue[k]) /\ l = k))
  <2>1. CASE l # k
    BY <2>1, <1>7 DEF InQueue
  <2>2. CASE l = k
    <3>1. ASSUME NEW i \in 1..Len(queue[k]), queue[k][i] = s, s # Head(queue[k])
          PROVE  \E j \in 1..Len(queue'[k]) : queue'[k][j] = s
      <4>1. i # 1
        BY <3>1, <1>2
      <4>2. i - 1 \in 1..Len(queue[k]) - 1 /\ (i - 1) + 1 = i
        BY <4>1, <1>2
      <4>3. i - 1 \in 1..Len(queue'[k])
        BY <4>2, <1>1, <1>2
      <4>4. queue'[k][i - 1] = queue[k][i]
        BY <4>2, <4>3, <1>4
      <4>5. QED
        BY <4>3, <4>4, <3>1
    <3>2. ASSUME NEW i \in 1..Len(queue'[k]), queue'[k][i] = s
          PROVE  s # Head(queue[k]) /\ \E j \in 1..Len(queue[k]) : queue[k][j] = s
      <4>1. i + 1 \in 1..Len(queue[k]) /\ i + 1 # 1
        BY <1>6
      <4>2. queue[k][i + 1] = s
        BY <3>2, <1>4
      <4>3. queue[k][i + 1] # queue[k][1]
        BY <4>1, <1>5 DEF QueuedOnce
      <4>4. QED
        BY <4>1, <4>2, <4>3, <1>2
    <3>3. QED
      BY <2>2, <3>1, <3>2 DEF InQueue
  <2>3. QED
    BY <2>1, <2>2
<1>10. QED
  BY <1>1, <1>2, <1>4, <1>5, <1>6, <1>7, <1>8, <1>9

(***************************************************************************)
(* The invariant is inductive.                                             *)
(***************************************************************************)

LEMMA InitIInv == Init => IInv
<1>1. SUFFICES ASSUME Init PROVE IInv
  OBVIOUS
<1>2. TypeOK
  BY <1>1, EmptySeq DEF Init, TypeOK, Kinds, PCs, Stages
<1>3. \A k \in Kinds : Len(queue[k]) = 0
  BY <1>1, EmptySeq DEF Init
<1>4. \A k \in Kinds : 1..Len(queue[k]) = {}
  BY <1>3
<1>5. \A t \in Threads : worker[t] = None
  BY <1>1 DEF Init
<1>6. OneWorker /\ NotQueued /\ QueuedOnce /\ KindsAgree
  BY <1>4, <1>5 DEF OneWorker, NotQueued, QueuedOnce, KindsAgree
<1>7. ExpirySet
  BY <1>1 DEF Init, ExpirySet
<1>8. FrameOutlivesJob
  BY <1>4, <1>5, ThreadsAssumption DEF FrameOutlivesJob, JobPending, InQueue
<1>9. QED
  BY <1>2, <1>6, <1>7, <1>8 DEF IInv

LEMMA PostIInv ==
  ASSUME IInv, NEW r \in Requests, NEW k \in Kinds, Post(r, k)
  PROVE  IInv'
<1> USE DEF IInv
<1>1. /\ queue' \in [Kinds -> Seq(Requests)]
      /\ \A l \in Kinds : l # k => queue'[l] = queue[l]
      /\ Len(queue[k]) \in Nat
      /\ Len(queue'[k]) = Len(queue[k]) + 1
      /\ \A i \in 1..Len(queue[k]) : queue'[k][i] = queue[k][i]
      /\ queue'[k][Len(queue[k]) + 1] = r
      /\ \A s \in Requests, l \in Kinds :
           InQueue(s, l)' <=> (InQueue(s, l) \/ (s = r /\ l = k))
  BY PostQueue DEF Post
<1>2. ~JobPending(r)
  BY DEF Post, FrameOutlivesJob
<1>3. /\ \A l \in Kinds : ~InQueue(r, l)
      /\ \A t \in Threads : worker[t] # r
  BY <1>2 DEF JobPending
<1>4. TypeOK'
  BY <1>1 DEF Post, TypeOK, PCs
<1>5. OneWorker'
  BY DEF Post, OneWorker
<1>6. NotQueued'
  BY <1>1, <1>3 DEF Post, NotQueued, TypeOK
<1>7. ASSUME NEW l \in Kinds, NEW i \in 1..Len(queue'[l])
      PROVE  \/ l = k /\ i = Len(queue[k]) + 1 /\ queue'[l][i] = r
             \/ /\ i \in 1..Len(queue[l])
                /\ queue'[l][i] = queue[l][i]
                /\ queue[l][i] # r
  <2>1. CASE l # k
    BY <2>1, <1>1, <1>3 DEF InQueue
  <2>2. CASE l = k
    <3>1. i \in 1..Len(queue[k]) \/ i = Len(queue[k]) + 1
      BY <2>2, <1>1
    <3>2. QED
      BY <2>2, <3>1, <1>1, <1>3 DEF InQueue
  <2>3. QED
    BY <2>1, <2>2
<1>8. QueuedOnce'
  <2>1. ASSUME NEW l \in Kinds, NEW m \in Kinds,
               NEW i \in 1..Len(queue'[l]), NEW j \in 1..Len(queue'[m]),
               queue'[l][i] = queue'[m][j]
        PROVE  l = m /\ i = j
    BY <2>1, <1>7 DEF QueuedOnce
  <2>2. QED
    BY <2>1 DEF QueuedOnce
<1>9. KindsAgree'
  <2>1. \A t \in Threads : worker[t] # None => kind'[worker[t]] = kind[worker[t]]
    BY <1>3 DEF Post, TypeOK
  <2>2. \A t \in Threads : worker'[t] # None => Serves(t, kind'[worker'[t]])
    BY <2>1 DEF Post, KindsAgree
  <2>3. ASSUME NEW l \in Kinds, NEW i \in 1..Len(queue'[l])
        PROVE  kind'[queue'[l][i]] = l
    BY <1>7 DEF Post, TypeOK, KindsAgree
  <2>4. QED
    BY <2>2, <2>3 DEF KindsAgree, Serves
<1>10. ExpirySet'
  BY DEF Post, ExpirySet, TypeOK
<1>11. FrameOutlivesJob'
  <2>1. ASSUME NEW s \in Requests, s # r, JobPending(s)'
        PROVE  pc'[s] \in {"posted", "waiting"}
    <3>1. JobPending(s)
      BY <2>1, <1>1 DEF Post, JobPending
    <3>2. pc'[s] = pc[s]
      BY <2>1 DEF Post, TypeOK
    <3>3. QED
      BY <3>1, <3>2 DEF FrameOutlivesJob
  <2>2. pc'[r] = "posted"
    BY DEF Post, TypeOK
  <2>3. QED
    BY <2>1, <2>2 DEF FrameOutlivesJob
<1>12. QED
  BY <1>4, <1>5, <1>6, <1>8, <1>9, <1>10, <1>11

LEMMA TakeIInv ==
  ASSUME IInv, NEW t \in Threads, NEW k \in Kinds, Take(t, k)
  PROVE  IInv'
<1> USE DEF IInv
<1> DEFINE r == Head(queue[k])
<1>1. /\ queue' \in [Kinds -> Seq(Requests)]
      /\ \A l \in Kinds : l # k => queue'[l] = queue[l]
      /\ r = queue[k][1]
      /\ r \in Requests
      /\ Len(queue[k]) \in Nat /\ 1 \in 1..Len(queue[k])
      /\ Len(queue'[k]) = Len(queue[k]) - 1
      /\ \A i \in 1..Len(queue'[k]) :
           i + 1 \in 1..Len(queue[k]) /\ queue'[k][i] = queue[k][i + 1]
      /\ \A s \in Requests, l \in Kinds :
           InQueue(s, l)' <=> (InQueue(s, l) /\ ~(s = r /\ l = k))
  BY TakeQueue DEF Take
<1>2. InQueue(r, k)
  BY <1>1 DEF InQueue
<1>3. /\ \A u \in Threads : worker[u] # r
      /\ \A l \in Kinds : InQueue(r, l) => l = k
      /\ r # None
      /\ kind[r] = k
  BY <1>1, <1>2, ThreadsAssumption
     DEF NotQueued, QueuedOnce, InQueue, KindsAgree
<1>4. worker' = [worker EXCEPT ![t] = r]
  BY DEF Take
<1>5. TypeOK'
  BY <1>1, <1>3, <1>4 DEF Take, TypeOK, Stages
<1>6. OneWorker'
  BY <1>3, <1>4 DEF OneWorker, TypeOK
<1>7. NotQueued'
  BY <1>1, <1>3, <1>4 DEF NotQueued, TypeOK
<1>8. QueuedOnce'
  <2>1. ASSUME NEW l \in Kinds, NEW m \in Kinds,
               NEW i \in 1..Len(queue'[l]), NEW j \in 1..Len(queue'[m]),
               queue'[l][i] = queue'[m][j]
        PROVE  l = m /\ i = j
    <3> DEFINE at(n, o) == IF n = k THEN o + 1 ELSE o
    <3>1. /\ at(l, i) \in 1..Len(queue[l]) /\ queue[l][at(l, i)] = queue'[l][i]
          /\ at(m, j) \in 1..Len(queue[m]) /\ queue[m][at(m, j)] = queue'[m][j]
      BY <1>1
    <3>2. l = m /\ at(l, i) = at(m, j)
      BY <3>1, <2>1 DEF QueuedOnce
    <3>3. i = j
      BY <3>2
    <3>4. QED
      BY <3>2, <3>3
  <2>2. QED
    BY <2>1 DEF QueuedOnce
<1>9. KindsAgree'
  <2>1. \A u \in Threads : worker'[u] # None => Serves(u, kind'[worker'[u]])
    BY <1>3, <1>4 DEF Take, KindsAgree, TypeOK
  <2>2. ASSUME NEW l \in Kinds, NEW i \in 1..Len(queue'[l])
        PROVE  kind'[queue'[l][i]] = l
    <3>1. kind' = kind
      BY DEF Take
    <3>2. CASE l = k
      BY <3>1, <3>2, <1>1 DEF KindsAgree
    <3>3. CASE l # k
      BY <3>1, <3>3, <1>1 DEF KindsAgree
    <3>4. QED
      BY <3>2, <3>3
  <2>3. QED
    BY <2>1, <2>2 DEF KindsAgree, Serves
<1>10. ExpirySet'
  BY DEF Take, ExpirySet
<1>11. FrameOutlivesJob'
  <2>1. ASSUME NEW s \in Requests, JobPending(s)'
        PROVE  JobPending(s)
    BY <2>1, <1>1, <1>2, <1>4 DEF JobPending, TypeOK
  <2>2. QED
    BY <2>1 DEF Take, FrameOutlivesJob
<1>12. QED
  BY <1>5, <1>6, <1>7, <1>8, <1>9, <1>10, <1>11

LEMMA CancelOneIInv ==
  ASSUME IInv, NEW t \in Threads, CancelOne(t)
  PROVE  IInv'
<1> USE DEF IInv
<1>1. PICK r \in Requests : r = worker[t] /\ r # None
  BY DEF CancelOne, TypeOK
<1>2. worker' = [worker EXCEPT ![t] = None] /\ UNCHANGED <<queue, kind, expiry>>
  BY DEF CancelOne
<1>3. \A s \in Requests, l \in Kinds : InQueue(s, l)' <=> InQueue(s, l)
  BY <1>2 DEF InQueue
<1>4. \A u \in Threads : worker'[u] # None => u # t /\ worker'[u] = worker[u]
  BY <1>2 DEF TypeOK
<1>5. TypeOK'
  BY <1>1 DEF CancelOne, TypeOK, PCs, Stages
<1>6. OneWorker'
  BY <1>4 DEF OneWorker
<1>7. NotQueued'
  BY <1>2, <1>4 DEF NotQueued, InQueue
<1>8. QueuedOnce'
  BY <1>2 DEF QueuedOnce
<1>9. KindsAgree'
  <2>1. \A u \in Threads : worker'[u] # None => Serves(u, kind'[worker'[u]])
    BY <1>2, <1>4 DEF KindsAgree
  <2>2. QED
    BY <1>2, <2>1 DEF KindsAgree, Serves
<1>10. ExpirySet'
  BY <1>1 DEF CancelOne, ExpirySet, TypeOK
<1>11. FrameOutlivesJob'
  <2>1. ~JobPending(r)'
    <3>1. \A u \in Threads : worker'[u] # r
      BY <1>1, <1>4 DEF OneWorker
    <3>2. \A l \in Kinds : ~InQueue(r, l)'
      BY <1>1, <1>3 DEF NotQueued
    <3>3. QED
      BY <3>1, <3>2 DEF JobPending
  <2>2. ASSUME NEW s \in Requests, s # r, JobPending(s)'
        PROVE  pc'[s] \in {"posted", "waiting"}
    <3>1. JobPending(s)
      BY <2>2, <1>3, <1>4, ThreadsAssumption DEF JobPending
    <3>2. pc'[s] = pc[s]
      BY <1>1, <2>2 DEF CancelOne, TypeOK
    <3>3. QED
      BY <3>1, <3>2 DEF FrameOutlivesJob
  <2>3. QED
    BY <2>1, <2>2 DEF FrameOutlivesJob
<1>12. QED
  BY <1>5, <1>6, <1>7, <1>8, <1>9, <1>10, <1>11

\* Steps that leave the queues and the threads' jobs alone.
LEMMA JobsUnchanged ==
  ASSUME IInv, UNCHANGED <<queue, worker, kind>>, TypeOK', ExpirySet',
         \A r \in Requests : pc[r] \in {"posted", "waiting"} /\ pc'[r] # pc[r] =>
                               pc'[r] = "waiting"
  PROVE  IInv'
<1> USE DEF IInv
<1>1. OneWorker' /\ NotQueued' /\ QueuedOnce' /\ KindsAgree'
  BY DEF OneWorker, NotQueued, QueuedOnce, KindsAgree, InQueue, Serves
<1>2. FrameOutlivesJob'
  <2>1. ASSUME NEW s \in Requests, JobPending(s)'
        PROVE  JobPending(s)
    BY <2>1 DEF JobPending, InQueue
  <2>2. QED
    BY <2>1 DEF FrameOutlivesJob
<1>3. QED
  BY <1>1, <1>2

LEMMA NextIInv == IInv /\ [Next]_vars => IInv'
<1>1. SUFFICES ASSUME IInv, [Next]_vars PROVE IInv'
  OBVIOUS
<1>2. ASSUME NEW r \in Requests, NEW k \in Kinds, Post(r, k) PROVE IInv'
  BY <1>1, <1>2, PostIInv
<1>3. ASSUME NEW r \in Requests, AsyncWait(r) PROVE IInv'
  <2>1. expiry[r] = "infinity" /\ pc' = [pc EXCEPT ![r] = "waiting"]
    BY <1>1, <1>3 DEF AsyncWait, IInv, ExpirySet
  <2>2. TypeOK'
    BY <1>1, <1>3, <2>1 DEF AsyncWait, IInv, TypeOK, PCs
  <2>3. ExpirySet'
    BY <1>1, <1>3, <2>1 DEF AsyncWait, IInv, TypeOK, ExpirySet
  <2>4. \A s \in Requests : pc'[s] # pc[s] => pc'[s] = "waiting"
    BY <1>1, <2>1 DEF IInv, TypeOK
  <2>5. QED
    BY <1>1, <1>3, <2>2, <2>3, <2>4, JobsUnchanged DEF AsyncWait
<1>4. ASSUME NEW r \in Requests, Resume(r) PROVE IInv'
  <2>1. TypeOK' /\ ExpirySet'
    BY <1>1, <1>4 DEF Resume, IInv, TypeOK, PCs, ExpirySet
  <2>2. \A s \in Requests : pc'[s] # pc[s] => pc[s] = "woken"
    BY <1>1, <1>4 DEF Resume, IInv, TypeOK
  <2>3. QED
    BY <1>1, <1>4, <2>1, <2>2, JobsUnchanged DEF Resume
<1>5. ASSUME NEW t \in Threads, NEW k \in Kinds, Take(t, k) PROVE IInv'
  BY <1>1, <1>5, TakeIInv
<1>6. ASSUME NEW t \in Threads, QueryReturns(t) PROVE IInv'
  <2>1. TypeOK'
    BY <1>1, <1>6 DEF QueryReturns, IInv, TypeOK, Stages
  <2>2. QED
    BY <1>1, <1>6, <2>1, JobsUnchanged DEF QueryReturns, IInv, ExpirySet
<1>7. ASSUME NEW t \in Threads, QueryThrows(t) PROVE IInv'
  <2>1. TypeOK'
    BY <1>1, <1>7 DEF QueryThrows, IInv, TypeOK
  <2>2. QED
    BY <1>1, <1>7, <2>1, JobsUnchanged DEF QueryThrows, IInv, ExpirySet
<1>8. ASSUME NEW t \in Threads, CancelOne(t) PROVE IInv'
  BY <1>1, <1>8, CancelOneIInv
<1>9. CASE UNCHANGED vars
  <2>1. TypeOK' /\ ExpirySet'
    BY <1>1, <1>9 DEF vars, IInv, TypeOK, ExpirySet
  <2>2. QED
    BY <1>1, <1>9, <2>1, JobsUnchanged DEF vars
<1>10. QED
  BY <1>1, <1>2, <1>3, <1>4, <1>5, <1>6, <1>7, <1>8, <1>9 DEF Next

THEOREM SpecIInv == Spec => []IInv
<1>1. QED
  BY InitIInv, NextIInv, PTL DEF Spec

\* Every variable of DbExec keeps to its type; a thread has a job exactly as
\* long as it is not free.
THEOREM TypeCorrect == Spec => []TypeOK
<1>1. IInv => TypeOK
  BY DEF IInv
<1>2. QED
  BY <1>1, SpecIInv, PTL

\* The locals a job refers to are there as long as the job: run_in_thread and
\* run_in_sync_thread do not return before their job is through with them.
THEOREM FramesOutliveJobs == Spec => []FrameOutlivesJob
<1>1. IInv => FrameOutlivesJob
  BY DEF IInv
<1>2. QED
  BY <1>1, SpecIInv, PTL

\* Sync jobs are executed one at a time, and no request has two jobs.
THEOREM SyncJobsSerialized == Spec => []SyncSerialized
<1>1. IInv => SyncSerialized
  <2>1. SUFFICES ASSUME IInv PROVE SyncSerialized
    OBVIOUS
  <2>2. ASSUME NEW t \in Threads, NEW u \in Threads,
               worker[t] # None, worker[u] # None, t # u
        PROVE  /\ ~(kind[worker[t]] = "sync" /\ kind[worker[u]] = "sync")
               /\ worker[t] # worker[u]
    BY <2>1, <2>2 DEF IInv, OneWorker, KindsAgree, Serves
  <2>3. QED
    BY <2>1, <2>2 DEF IInv, NotQueued, QueuedOnce, SyncSerialized
<1>2. QED
  BY <1>1, SpecIInv, PTL

(***************************************************************************)
(* DbExec implements DbCall.                                               *)
(***************************************************************************)

\* What the phase of a call is in terms of the jobs.
LEMMA PhaseFacts ==
  ASSUME IInv, NEW r \in Requests
  PROVE  /\ Queued(r) <=> CallPhase[r] = "submitted"
         /\ Executing(r) <=> CallPhase[r] = "executing"
         /\ pc[r] = "running" <=> CallPhase[r] = "idle"
         /\ ~(Queued(r) /\ Executing(r))
         /\ InQueue(r, "sync") <=> (Queued(r) /\ kind[r] = "sync")
         /\ Executing(r) => (kind[r] = "sync" <=> worker[SyncThread] = r)
<1> USE DEF IInv
<1>1. Queued(r) => pc[r] # "running"
  BY DEF FrameOutlivesJob, JobPending, Queued
<1>2. Executing(r) => pc[r] # "running"
  BY DEF FrameOutlivesJob, JobPending, Executing
<1>3. ~(Queued(r) /\ Executing(r))
  BY ThreadsAssumption DEF NotQueued, Queued, Executing
<1>4. InQueue(r, "sync") <=> (Queued(r) /\ kind[r] = "sync")
  BY DEF InQueue, Queued, KindsAgree, Kinds
<1>5. Executing(r) => (kind[r] = "sync" <=> worker[SyncThread] = r)
  <2>1. SUFFICES ASSUME NEW t \in Threads, worker[t] = r
                 PROVE  kind[r] = "sync" <=> worker[SyncThread] = r
    BY DEF Executing
  <2>2. r # None /\ kind[r] \in Kinds /\ SyncThread \in Threads
    BY ThreadsAssumption DEF TypeOK, Threads
  <2>3. Serves(t, kind[r])
    BY <2>1, <2>2 DEF KindsAgree
  <2>4. kind[r] = "sync" => t = SyncThread
    BY <2>3 DEF Serves
  <2>5. worker[SyncThread] = r => Serves(SyncThread, kind[r])
    BY <2>2 DEF KindsAgree
  <2>6. QED
    BY <2>1, <2>2, <2>4, <2>5, ThreadsAssumption DEF Serves, Kinds
<1>6. QED
  BY <1>1, <1>2, <1>3, <1>4, <1>5 DEF CallPhase

\* Initially no call is under way.
LEMMA InitRefines == Init => Call!Init
<1>1. SUFFICES ASSUME Init PROVE Call!Init
  OBVIOUS
<1>2. \A k \in Kinds : 1..Len(queue[k]) = {}
  BY <1>1, EmptySeq DEF Init
<1>3. CallPhase = [r \in Requests |-> "idle"]
  BY <1>1 DEF Init, CallPhase
<1>4. CallAhead = [r \in Requests |-> {}]
  BY <1>2 DEF CallAhead, InQueue, Kinds
<1>5. QED
  BY <1>1, <1>3, <1>4 DEF Init, Call!Init

\* A step that leaves the jobs as they are, and moves no coroutine into or out
\* of a call, is invisible.
LEMMA InvisibleStep ==
  ASSUME UNCHANGED <<queue, kind, alive>>,
         \A r \in Requests : Executing(r)' <=> Executing(r),
         \A r \in Requests : (worker[SyncThread] = r /\ Executing(r))'
                                <=> (worker[SyncThread] = r /\ Executing(r)),
         \A r \in Requests : pc'[r] = "running" <=> pc[r] = "running"
  PROVE  UNCHANGED Call!vars
<1>1. CallPhase' = CallPhase
  BY DEF CallPhase, Queued, InQueue
<1>2. CallAhead' = CallAhead
  <2>1. ASSUME NEW r \in Requests
        PROVE  InQueue(r, "sync")' <=> InQueue(r, "sync")
    BY DEF InQueue
  <2>2. ASSUME NEW r \in Requests, NEW s \in Requests
        PROVE  Before(s, r)' <=> Before(s, r)
    BY DEF Before
  <2>3. ASSUME NEW r \in Requests
        PROVE  CallAhead'[r] = CallAhead[r]
    <3>1. {s \in Requests : Before(s, r)' \/ (worker[SyncThread] = s /\ Executing(s))'}
           = {s \in Requests : Before(s, r) \/ (worker[SyncThread] = s /\ Executing(s))}
      BY <2>2
    <3>2. QED
      BY <2>1, <3>1 DEF CallAhead
  <2>4. QED
    BY <2>3 DEF CallAhead
<1>3. QED
  BY <1>1, <1>2 DEF Call!vars

LEMMA PostRefines ==
  ASSUME IInv, IInv', NEW r \in Requests, NEW k \in Kinds, Post(r, k)
  PROVE  Call!Submit(r, k)
<1> USE DEF IInv
<1>1. /\ \A l \in Kinds : l # k => queue'[l] = queue[l]
      /\ Len(queue[k]) \in Nat
      /\ Len(queue'[k]) = Len(queue[k]) + 1
      /\ \A i \in 1..Len(queue[k]) : queue'[k][i] = queue[k][i]
      /\ queue'[k][Len(queue[k]) + 1] = r
      /\ \A s \in Requests, l \in Kinds :
           InQueue(s, l)' <=> (InQueue(s, l) \/ (s = r /\ l = k))
  BY PostQueue DEF Post
<1>2. /\ pc[r] = "running" /\ pc' = [pc EXCEPT ![r] = "posted"]
      /\ kind' = [kind EXCEPT ![r] = k]
      /\ UNCHANGED <<worker, stage, alive>> /\ alive
  BY DEF Post
<1>3. ~JobPending(r)
  BY <1>2 DEF FrameOutlivesJob
<1>4. \A l \in Kinds : ~InQueue(r, l)
  BY <1>3 DEF JobPending
<1>5. \A s \in Requests : Executing(s)' <=> Executing(s)
  BY <1>2 DEF Executing
<1>6. \A s \in Requests : Queued(s)' <=> (Queued(s) \/ s = r)
  BY <1>1 DEF Queued
<1>7. CallPhase[r] = "idle"
  BY <1>2 DEF CallPhase
<1>8. CallPhase' = [CallPhase EXCEPT ![r] = "submitted"]
  BY <1>2, <1>5, <1>6 DEF CallPhase, TypeOK
<1>9. ASSUME NEW s \in Requests, s # r
      PROVE  CallAhead'[s] = CallAhead[s]
  <2>1. InQueue(s, "sync")' <=> InQueue(s, "sync")
    BY <1>1, <1>9 DEF Kinds
  <2>2. ASSUME NEW x \in Requests PROVE Before(x, s)' <=> Before(x, s)
    <3>1. CASE k # "sync"
      BY <3>1, <1>1 DEF Before, Kinds
    <3>2. CASE k = "sync"
      <4>1. ASSUME NEW i \in 1..Len(queue'[k]), NEW j \in 1..Len(queue'[k]),
                   i < j, queue'[k][j] = s
            PROVE  i \in 1..Len(queue[k]) /\ j \in 1..Len(queue[k])
        <5>1. j # Len(queue[k]) + 1
          BY <4>1, <1>1, <1>9
        <5>2. QED
          BY <4>1, <5>1, <1>1
      <4>2. \A i \in 1..Len(queue[k]) : i \in 1..Len(queue'[k])
        BY <1>1
      <4>3. QED
        BY <3>2, <4>1, <4>2, <1>1 DEF Before
    <3>3. QED
      BY <3>1, <3>2
  <2>3. QED
    BY <2>1, <2>2, <1>2, <1>5 DEF CallAhead
<1>10. k = "pool" => CallAhead'[r] = {}
  BY <1>1, <1>4 DEF CallAhead, Kinds
<1>11. k = "sync" => CallAhead'[r] = Call!Outstanding
  <2>1. SUFFICES ASSUME k = "sync" PROVE CallAhead'[r] = Call!Outstanding
    OBVIOUS
  <2>2. InQueue(r, "sync")'
    BY <2>1, <1>1
  <2>3. ASSUME NEW s \in Requests PROVE Before(s, r)' <=> InQueue(s, "sync")
    <3>1. ASSUME NEW i \in 1..Len(queue'["sync"]), NEW j \in 1..Len(queue'["sync"]),
                 i < j, queue'["sync"][i] = s, queue'["sync"][j] = r
          PROVE  InQueue(s, "sync")
      <4>1. i \in 1..Len(queue["sync"])
        BY <3>1, <2>1, <1>1
      <4>2. QED
        BY <4>1, <3>1, <2>1, <1>1 DEF InQueue
    <3>2. ASSUME NEW i \in 1..Len(queue["sync"]), queue["sync"][i] = s
          PROVE  Before(s, r)'
      <4> DEFINE j == Len(queue["sync"]) + 1
      <4>1. /\ i \in 1..Len(queue'["sync"]) /\ j \in 1..Len(queue'["sync"]) /\ i < j
            /\ queue'["sync"][i] = s /\ queue'["sync"][j] = r
        BY <3>2, <2>1, <1>1
      <4>2. QED
        BY <4>1 DEF Before
    <3>3. QED
      BY <3>1, <3>2 DEF Before, InQueue
  <2>4. ASSUME NEW s \in Requests
        PROVE  (s \in CallAhead'[r]) <=> (s \in Call!Outstanding)
    <3>1. (s \in CallAhead'[r]) <=>
            (InQueue(s, "sync") \/ (worker[SyncThread] = s /\ Executing(s)))
      BY <2>2, <2>3, <1>2, <1>5 DEF CallAhead
    <3>2. (s \in Call!Outstanding) <=>
            (kind[s] = "sync" /\ CallPhase[s] \in {"submitted", "executing"})
      BY DEF Call!Outstanding
    <3>3. QED
      BY <3>1, <3>2, PhaseFacts
  <2>5. CallAhead'[r] \subseteq Requests /\ Call!Outstanding \subseteq Requests
    BY DEF CallAhead, Call!Outstanding
  <2>6. QED
    BY <2>4, <2>5
<1>12. CallAhead' = [CallAhead EXCEPT ![r] = IF k = "sync" THEN Call!Outstanding ELSE {}]
  BY <1>9, <1>10, <1>11 DEF CallAhead, Kinds
<1>13. QED
  BY <1>2, <1>7, <1>8, <1>12 DEF Call!Submit

LEMMA TakeRefines ==
  ASSUME IInv, IInv', NEW t \in Threads, NEW k \in Kinds, Take(t, k)
  PROVE  Call!Begin(Head(queue[k]))
<1> USE DEF IInv
<1>1. PICK r \in Requests : r = Head(queue[k])
  BY TakeQueue DEF Take
<1>2. /\ \A l \in Kinds : l # k => queue'[l] = queue[l]
      /\ r = queue[k][1]
      /\ Len(queue[k]) \in Nat /\ 1 \in 1..Len(queue[k])
      /\ Len(queue'[k]) = Len(queue[k]) - 1
      /\ \A i \in 1..Len(queue'[k]) :
           i + 1 \in 1..Len(queue[k]) /\ queue'[k][i] = queue[k][i + 1]
      /\ \A s \in Requests, l \in Kinds :
           InQueue(s, l)' <=> (InQueue(s, l) /\ ~(s = r /\ l = k))
  <2>1. /\ \A l \in Kinds : l # k => queue'[l] = queue[l]
        /\ Head(queue[k]) = queue[k][1]
        /\ Len(queue[k]) \in Nat /\ 1 \in 1..Len(queue[k])
        /\ Len(queue'[k]) = Len(queue[k]) - 1
        /\ \A i \in 1..Len(queue'[k]) :
             i + 1 \in 1..Len(queue[k]) /\ queue'[k][i] = queue[k][i + 1]
        /\ \A s \in Requests, l \in Kinds :
             InQueue(s, l)' <=> (InQueue(s, l) /\ ~(s = Head(queue[k]) /\ l = k))
    BY TakeQueue DEF Take
  <2>2. QED
    BY <1>1, <2>1
<1>3. /\ alive /\ Serves(t, k) /\ worker[t] = None
      /\ worker' = [worker EXCEPT ![t] = r]
      /\ stage' = [stage EXCEPT ![t] = "query"]
      /\ UNCHANGED <<pc, kind, alive>>
  BY <1>1 DEF Take
<1>4. InQueue(r, k) /\ kind[r] = k
  BY <1>2 DEF InQueue, KindsAgree
<1>5. /\ \A l \in Kinds : InQueue(r, l) => l = k
      /\ \A u \in Threads : worker[u] # r
      /\ r # None
  BY <1>2, <1>4, ThreadsAssumption DEF NotQueued, QueuedOnce, InQueue
<1>6. \A s \in Requests : Queued(s)' <=> (Queued(s) /\ s # r)
  BY <1>2, <1>4, <1>5 DEF Queued
<1>7. \A s \in Requests : Executing(s)' <=> (Executing(s) \/ s = r)
  <2>1. \A s \in Requests, u \in Threads :
          u # t => ((worker'[u] = s /\ stage'[u] = "query") <=>
                    (worker[u] = s /\ stage[u] = "query"))
    BY <1>3 DEF TypeOK
  <2>2. worker'[t] = r /\ stage'[t] = "query"
    BY <1>3 DEF TypeOK
  <2>3. \A s \in Requests : worker[t] # s
    BY <1>3, ThreadsAssumption
  <2>4. QED
    BY <2>1, <2>2, <2>3 DEF Executing
<1>8. CallPhase[r] = "submitted"
  BY <1>4, PhaseFacts DEF Queued
<1>9. CallPhase' = [CallPhase EXCEPT ![r] = "executing"]
  <2>1. pc[r] # "running"
    BY <1>8, PhaseFacts
  <2>2. QED
    BY <2>1, <1>3, <1>6, <1>7 DEF CallPhase
<1>10. CallAhead[r] = {}
  <2>1. CASE k = "pool"
    BY <2>1, <1>5 DEF CallAhead, Kinds
  <2>2. CASE k = "sync"
    <3>1. ASSUME NEW s \in Requests PROVE ~Before(s, r)
      <4>1. ASSUME NEW i \in 1..Len(queue["sync"]), NEW j \in 1..Len(queue["sync"]),
                   i < j, queue["sync"][j] = r
            PROVE  FALSE
        <5>1. j = 1
          BY <4>1, <2>2, <1>2 DEF QueuedOnce
        <5>2. QED
          BY <4>1, <5>1, <2>2, <1>2
      <4>2. QED
        BY <4>1 DEF Before
    <3>2. worker[SyncThread] = None
      BY <2>2, <1>3 DEF Serves
    <3>3. QED
      BY <3>1, <3>2, ThreadsAssumption DEF CallAhead
  <2>3. QED
    BY <2>1, <2>2 DEF Kinds
<1>11. ASSUME NEW s \in Requests
       PROVE  CallAhead'[s] = CallAhead[s]
  <2>1. CASE k = "pool"
    <3>1. queue'["sync"] = queue["sync"]
      BY <2>1, <1>2 DEF Kinds
    <3>2. worker'[SyncThread] = worker[SyncThread]
      BY <2>1, <1>3, ThreadsAssumption DEF TypeOK, Serves, Threads
    <3>3. ASSUME NEW x \in Requests
          PROVE  (worker'[SyncThread] = x /\ Executing(x)')
                   <=> (worker[SyncThread] = x /\ Executing(x))
      BY <3>2, <1>5, <1>7 DEF Threads
    <3>4. ASSUME NEW x \in Requests PROVE Before(x, s)' <=> Before(x, s)
      BY <3>1 DEF Before
    <3>5. InQueue(s, "sync")' <=> InQueue(s, "sync")
      BY <3>1 DEF InQueue
    <3>6. {x \in Requests : Before(x, s)' \/ (worker'[SyncThread] = x /\ Executing(x)')}
           = {x \in Requests : Before(x, s) \/ (worker[SyncThread] = x /\ Executing(x))}
      BY <3>3, <3>4
    <3>7. QED
      BY <3>5, <3>6 DEF CallAhead
  <2>2. CASE k = "sync"
    <3>1. t = SyncThread /\ worker[SyncThread] = None /\ worker'[SyncThread] = r
      BY <2>2, <1>3 DEF Serves, TypeOK
    <3>2. CASE s = r
      BY <3>2, <2>2, <1>2, <1>10 DEF CallAhead
    <3>3. CASE s # r
      <4>1. InQueue(s, "sync")' <=> InQueue(s, "sync")
        BY <3>3, <2>2, <1>2
      <4>2. ASSUME NEW x \in Requests, InQueue(s, "sync")
            PROVE  (Before(x, s)' \/ x = r) <=> Before(x, s)
        <5>1. ASSUME NEW i \in 1..Len(queue'["sync"]), NEW j \in 1..Len(queue'["sync"]),
                     i < j, queue'["sync"][i] = x, queue'["sync"][j] = s
              PROVE  Before(x, s)
          <6>1. /\ i + 1 \in 1..Len(queue["sync"]) /\ queue["sync"][i + 1] = x
                /\ j + 1 \in 1..Len(queue["sync"]) /\ queue["sync"][j + 1] = s
                /\ i + 1 < j + 1
            BY <5>1, <2>2, <1>2
          <6>2. QED
            BY <6>1 DEF Before
        <5>2. ASSUME x = r PROVE Before(x, s)
          <6>1. PICK j \in 1..Len(queue["sync"]) : queue["sync"][j] = s
            BY <4>2 DEF InQueue
          <6>2. j # 1
            BY <6>1, <3>3, <2>2, <1>2
          <6>3. 1 < j
            BY <6>2
          <6>4. QED
            BY <5>2, <6>1, <6>3, <2>2, <1>2 DEF Before
        <5>3. ASSUME NEW i \in 1..Len(queue["sync"]), NEW j \in 1..Len(queue["sync"]),
                     i < j, queue["sync"][i] = x, queue["sync"][j] = s, x # r
              PROVE  Before(x, s)'
          <6>1. i # 1
            BY <5>3, <2>2, <1>2
          <6>2. /\ i - 1 \in 1..Len(queue'["sync"]) /\ j - 1 \in 1..Len(queue'["sync"])
                /\ i - 1 < j - 1 /\ (i - 1) + 1 = i /\ (j - 1) + 1 = j
            <7>1. \A n \in Nat : \A a \in 1..n, b \in 1..n :
                    (a < b /\ a # 1) =>
                      /\ a - 1 \in 1..n - 1 /\ b - 1 \in 1..n - 1
                      /\ a - 1 < b - 1 /\ (a - 1) + 1 = a /\ (b - 1) + 1 = b
              OBVIOUS
            <7>2. QED
              BY <7>1, <6>1, <5>3, <2>2, <1>2
          <6>3. queue'["sync"][i - 1] = x /\ queue'["sync"][j - 1] = s
            BY <6>2, <5>3, <2>2, <1>2
          <6>4. QED
            BY <6>2, <6>3 DEF Before
        <5>4. QED
          BY <5>1, <5>2, <5>3 DEF Before
      <4>3. \A x \in Requests : ~(worker[SyncThread] = x)
        BY <3>1, ThreadsAssumption
      <4>4. ASSUME NEW x \in Requests
            PROVE  (worker'[SyncThread] = x /\ Executing(x)') <=> x = r
        BY <3>1, <1>7
      <4>5. ASSUME InQueue(s, "sync")
            PROVE  {x \in Requests : Before(x, s)' \/ (worker'[SyncThread] = x /\ Executing(x)')}
                   = {x \in Requests : Before(x, s) \/ (worker[SyncThread] = x /\ Executing(x))}
        BY <4>2, <4>3, <4>4, <4>5
      <4>6. QED
        BY <4>1, <4>5 DEF CallAhead
    <3>4. QED
      BY <3>2, <3>3
  <2>3. QED
    BY <2>1, <2>2 DEF Kinds
<1>12. CallAhead' = CallAhead
  BY <1>11 DEF CallAhead
<1>13. QED
  BY <1>1, <1>3, <1>8, <1>9, <1>10, <1>12 DEF Call!Begin

LEMMA QueryReturnsRefines ==
  ASSUME IInv, IInv', NEW t \in Threads, QueryReturns(t)
  PROVE  Call!Finish(worker[t])
<1> USE DEF IInv
<1>1. PICK r \in Requests : r = worker[t] /\ r # None
  BY ThreadsAssumption DEF QueryReturns, TypeOK
<1>2. /\ alive /\ stage[t] = "query" /\ stage' = [stage EXCEPT ![t] = "wake"]
      /\ UNCHANGED <<pc, kind, queue, worker, alive>>
  BY DEF QueryReturns
<1>3. Executing(r)
  BY <1>1, <1>2 DEF Executing
<1>4. \A u \in Threads : worker[u] = r => u = t
  BY <1>1 DEF OneWorker
<1>5. \A s \in Requests : Executing(s)' <=> (Executing(s) /\ s # r)
  <2>1. ASSUME NEW s \in Requests, s # r
        PROVE  Executing(s)' <=> Executing(s)
    <3>1. \A u \in Threads : worker[u] = s => stage'[u] = stage[u]
      BY <2>1, <1>1, <1>2 DEF TypeOK
    <3>2. QED
      BY <3>1, <1>2 DEF Executing
  <2>2. ~Executing(r)'
    <3>1. stage'[t] # "query"
      BY <1>2 DEF TypeOK
    <3>2. QED
      BY <3>1, <1>2, <1>4 DEF Executing
  <2>3. QED
    BY <2>1, <2>2
<1>6. \A s \in Requests : Queued(s)' <=> Queued(s)
  BY <1>2 DEF Queued, InQueue
<1>7. CallPhase[r] = "executing" /\ ~Queued(r) /\ pc[r] # "running"
  BY <1>3, PhaseFacts
<1>8. CallPhase' = [CallPhase EXCEPT ![r] = "finished"]
  BY <1>2, <1>5, <1>6, <1>7 DEF CallPhase
<1>9. ASSUME NEW s \in Requests
      PROVE  CallAhead'[s] = CallAhead[s] \ {r}
  <2>1. InQueue(s, "sync")' <=> InQueue(s, "sync")
    BY <1>2 DEF InQueue
  <2>2. ASSUME NEW x \in Requests PROVE Before(x, s)' <=> Before(x, s)
    BY <1>2 DEF Before
  <2>3. ~Before(r, s)
    BY <1>7 DEF Before, Queued, InQueue, Kinds
  <2>4. {x \in Requests : Before(x, s)' \/ (worker'[SyncThread] = x /\ Executing(x)')}
         = {x \in Requests : Before(x, s) \/ (worker[SyncThread] = x /\ Executing(x))} \ {r}
    BY <2>2, <2>3, <1>2, <1>5
  <2>5. QED
    BY <2>1, <2>4 DEF CallAhead
<1>10. CallAhead' = [s \in Requests |-> CallAhead[s] \ {r}]
  BY <1>9 DEF CallAhead
<1>11. QED
  BY <1>1, <1>2, <1>7, <1>8, <1>10 DEF Call!Finish

LEMMA StepRefines == IInv /\ IInv' /\ [Next]_vars => [Call!Next]_Call!vars
<1>1. SUFFICES ASSUME IInv, IInv', [Next]_vars PROVE [Call!Next]_Call!vars
  OBVIOUS
<1>2. ASSUME NEW r \in Requests, NEW k \in Kinds, Post(r, k)
      PROVE  Call!Next
  BY <1>1, <1>2, PostRefines DEF Call!Next, Call!Kinds, Kinds
<1>3. ASSUME NEW r \in Requests, AsyncWait(r)
      PROVE  UNCHANGED Call!vars
  <2>1. \A s \in Requests : Executing(s)' <=> Executing(s)
    BY <1>3 DEF AsyncWait, Executing
  <2>2. \A s \in Requests : pc'[s] = "running" <=> pc[s] = "running"
    BY <1>1, <1>3 DEF AsyncWait, IInv, TypeOK
  <2>3. QED
    BY <1>3, <2>1, <2>2, InvisibleStep DEF AsyncWait
<1>4. ASSUME NEW r \in Requests, Resume(r)
      PROVE  Call!Return(r)
  <2>1. pc[r] = "woken" /\ alive /\ pc' = [pc EXCEPT ![r] = "running"]
    BY <1>4 DEF Resume
  <2>2. ~JobPending(r)
    BY <1>1, <2>1 DEF IInv, FrameOutlivesJob
  <2>3. ~Queued(r) /\ ~Executing(r)
    BY <2>2 DEF JobPending, Queued, Executing
  <2>4. CallPhase[r] = "finished"
    BY <2>1, <2>3 DEF CallPhase
  <2>5. \A s \in Requests : (Queued(s)' <=> Queued(s)) /\ (Executing(s)' <=> Executing(s))
    BY <1>4 DEF Resume, Queued, InQueue, Executing
  <2>6. CallPhase' = [CallPhase EXCEPT ![r] = "idle"]
    BY <1>1, <2>1, <2>5 DEF CallPhase, IInv, TypeOK
  <2>7. CallAhead' = CallAhead
    <3>1. UNCHANGED <<queue, worker, stage>>
      BY <1>4 DEF Resume
    <3>2. QED
      BY <3>1 DEF CallAhead, InQueue, Before, Executing
  <2>8. QED
    BY <1>4, <2>4, <2>6, <2>7 DEF Resume, Call!Return
<1>5. ASSUME NEW t \in Threads, NEW k \in Kinds, Take(t, k)
      PROVE  Call!Next
  <2>1. Head(queue[k]) \in Requests
    BY <1>1, <1>5, TakeQueue DEF Take, IInv
  <2>2. QED
    BY <1>1, <1>5, <2>1, TakeRefines DEF Call!Next
<1>6. ASSUME NEW t \in Threads, stage[t] = "query"
      PROVE  worker[t] \in Requests /\ Executing(worker[t])
  BY <1>1, <1>6 DEF IInv, TypeOK, Executing
<1>7. ASSUME NEW t \in Threads, QueryReturns(t)
      PROVE  Call!Next
  BY <1>1, <1>6, <1>7, QueryReturnsRefines DEF QueryReturns, Call!Next
<1>8. ASSUME NEW t \in Threads, QueryThrows(t)
      PROVE  Call!Next
  <2>1. worker[t] \in Requests /\ CallPhase[worker[t]] = "executing"
    BY <1>1, <1>6, <1>8, PhaseFacts DEF QueryThrows
  <2>2. UNCHANGED <<pc, queue, worker, stage, kind>>
    BY <1>8 DEF QueryThrows
  <2>3. CallPhase' = CallPhase /\ CallAhead' = CallAhead
    BY <2>2 DEF CallPhase, CallAhead, Queued, InQueue, Before, Executing
  <2>4. Call!Fail(worker[t])
    BY <1>8, <2>1, <2>2, <2>3 DEF QueryThrows, Call!Fail
  <2>5. QED
    BY <2>1, <2>4 DEF Call!Next
<1>9. ASSUME NEW t \in Threads, CancelOne(t)
      PROVE  UNCHANGED Call!vars
  <2>1. PICK r \in Requests : r = worker[t] /\ r # None
    BY <1>1, <1>9 DEF CancelOne, IInv, TypeOK
  <2>2. /\ worker' = [worker EXCEPT ![t] = None]
        /\ stage[t] = "wake" /\ stage' = [stage EXCEPT ![t] = "free"]
        /\ pc' = [pc EXCEPT ![r] = IF @ = "waiting" THEN "woken" ELSE @]
        /\ UNCHANGED <<queue, kind, alive>>
    BY <1>9, <2>1 DEF CancelOne
  <2>3. \A u \in Threads : u # t => worker'[u] = worker[u] /\ stage'[u] = stage[u]
    BY <1>1, <2>2 DEF IInv, TypeOK
  <2>4. stage'[t] # "query"
    BY <1>1, <2>2 DEF IInv, TypeOK
  <2>5. \A s \in Requests : Executing(s)' <=> Executing(s)
    BY <2>2, <2>3, <2>4 DEF Executing
  <2>6. ASSUME NEW s \in Requests
        PROVE  (worker[SyncThread] = s /\ Executing(s))'
                 <=> (worker[SyncThread] = s /\ Executing(s))
    <3>1. CASE t # SyncThread
      <4>1. worker'[SyncThread] = worker[SyncThread]
        BY <3>1, <2>3 DEF Threads
      <4>2. QED
        BY <4>1, <2>5
    <3>2. CASE t = SyncThread
      <4>1. worker'[SyncThread] # s
        BY <3>2, <1>1, <2>2, ThreadsAssumption DEF IInv, TypeOK
      <4>2. worker[SyncThread] = s => ~Executing(s)
        <5>1. \A u \in Threads : worker[SyncThread] = s /\ worker[u] = s => u = t
          BY <3>2, <1>1, <2>1 DEF IInv, OneWorker
        <5>2. QED
          BY <5>1, <2>2 DEF Executing
      <4>3. QED
        BY <4>1, <4>2
    <3>3. QED
      BY <3>1, <3>2
  <2>7. \A s \in Requests : pc'[s] = "running" <=> pc[s] = "running"
    BY <1>1, <2>1, <2>2 DEF IInv, TypeOK
  <2>8. QED
    BY <2>2, <2>5, <2>6, <2>7, InvisibleStep
<1>10. CASE UNCHANGED vars
  <2>1. \A s \in Requests : Executing(s)' <=> Executing(s)
    BY <1>10 DEF vars, Executing
  <2>2. QED
    BY <1>10, <2>1, InvisibleStep DEF vars
<1>11. QED
  BY <1>1, <1>2, <1>3, <1>4, <1>5, <1>7, <1>8, <1>9, <1>10 DEF Next, Call!Next

\* run_in_thread and run_in_sync_thread keep the promise of DbCall: a call
\* returns after its function has been executed, and sync calls are executed
\* one at a time in the order in which they were made.
THEOREM Refinement == Spec => ImplementsDbCall
<1>1. QED
  BY InitRefines, StepRefines, SpecIInv, PTL DEF Spec, Call!Spec, ImplementsDbCall
=============================================================================
