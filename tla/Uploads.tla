------------------------------ MODULE Uploads ------------------------------
(***************************************************************************)
(* What the service promises to a client that uploads the data of an       *)
(* object to Shock: an object with a node is awaited before it appears in  *)
(* the database, its size is recorded there from its own file, and it is   *)
(* awaited until that has been done, the object has been removed, or the   *)
(* process has ended.  There are no paths, threads, timers or iterators    *)
(* here; UploadTracking, which has them, implements this.                  *)
(***************************************************************************)
CONSTANTS
  Uuids,   \* the ids of objects
  Sizes    \* the lengths a file can have

VARIABLES
  stage,    \* the life of each id: "new", "making", "stored", "gone"
  awaited,  \* the uploads the process still has to deal with
  node,     \* Shock: the node of each object, "none", "empty" or "full"
  length,   \* Shock: the length of the file in the node
  size,     \* the size that the database has of each object
  broken    \* a coroutine has used memory that was freed

vars == <<stage, awaited, node, length, size, broken>>

Init ==
  /\ stage = [u \in Uuids |-> "new"]
  /\ awaited = {}
  /\ node = [u \in Uuids |-> "none"]
  /\ length = [u \in Uuids |-> 0]
  /\ size = [u \in Uuids |-> 0]
  /\ broken = FALSE

Becomes(u, s) == stage' = [stage EXCEPT ![u] = s]

\* Objects are made one at a time, each with an id of its own.
Begin(u) ==
  /\ stage[u] = "new" /\ \A v \in Uuids : stage[v] # "making"
  /\ Becomes(u, "making")
  /\ UNCHANGED <<awaited, node, length, size, broken>>

MakeNode(u) ==
  /\ stage[u] = "making" /\ node[u] = "none"
  /\ node' = [node EXCEPT ![u] = "empty"]
  /\ UNCHANGED <<stage, awaited, length, size, broken>>

Await(u) ==
  /\ stage[u] = "making" /\ node[u] # "none" /\ u \notin awaited
  /\ awaited' = awaited \union {u}
  /\ UNCHANGED <<stage, node, length, size, broken>>

\* Another object is removed to make place for one that is being made.
Replace(u) ==
  /\ stage[u] = "stored" /\ \E v \in Uuids : stage[v] = "making"
  /\ Becomes(u, "gone")
  /\ UNCHANGED <<awaited, node, length, size, broken>>

\* The size of an upload is 0 in the beginning.
Insert(u, s) ==
  /\ stage[u] = "making"
  /\ node[u] # "none" => u \in awaited /\ s = 0
  /\ Becomes(u, "stored")
  /\ size' = [size EXCEPT ![u] = s]
  /\ UNCHANGED <<awaited, node, length, broken>>

\* Shock may have made a node that nobody hears of; but nothing that is
\* awaited is given up.
Abandon(u) ==
  /\ stage[u] = "making" /\ u \notin awaited /\ node[u] = "none"
  /\ Becomes(u, "gone")
  /\ node' \in {node, [node EXCEPT ![u] = "empty"]}
  /\ UNCHANGED <<awaited, length, size, broken>>

\* The client puts its file into the node, once, whatever has become of the object.
Upload(u, s) ==
  /\ node[u] = "empty"
  /\ node' = [node EXCEPT ![u] = "full"]
  /\ length' = [length EXCEPT ![u] = s]
  /\ UNCHANGED <<stage, awaited, size, broken>>

Record(u) ==
  /\ stage[u] = "stored" /\ u \in awaited /\ node[u] = "full"
  /\ size' = [size EXCEPT ![u] = length[u]]
  /\ awaited' \in {awaited, awaited \ {u}}
  /\ UNCHANGED <<stage, node, length, broken>>

\* Uploads stop being awaited when there is nothing left to be recorded.
Resolve(S) ==
  /\ S \subseteq awaited
  /\ \A u \in S :
       \/ stage[u] = "gone"
       \/ stage[u] = "stored" /\ node[u] = "full" /\ size[u] = length[u]
  /\ awaited' = awaited \ S
  /\ UNCHANGED <<stage, node, length, size, broken>>

\* The process ends.  It keeps nothing: no later one awaits these uploads.
Lose ==
  /\ awaited' = {}
  /\ stage' = [u \in Uuids |-> IF stage[u] = "making" THEN "gone" ELSE stage[u]]
  /\ UNCHANGED <<node, length, size, broken>>

\* Undefined behaviour: from here on nothing is promised.
Break == broken' = TRUE

Next ==
  \/ \E u \in Uuids : Begin(u) \/ MakeNode(u) \/ Await(u) \/ Replace(u)
                      \/ Abandon(u) \/ Record(u)
  \/ \E u \in Uuids, s \in Sizes : Insert(u, s) \/ Upload(u, s)
  \/ \E S \in SUBSET awaited : Resolve(S)
  \/ Lose
  \/ Break

Spec == Init /\ [][Next]_vars
=============================================================================
