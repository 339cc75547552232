--------------------------- MODULE UploadTracking ---------------------------
(***************************************************************************)
(* Tracking of uploads (WorkspaceService.cpp, PendingUpload.h).            *)
(*                                                                         *)
(* Workspace.create with createUploadNodes makes a Shock node for the new  *)
(* object, enters the object's uuid into pending_uploads_, and inserts the *)
(* object with size 0.  The client uploads to the node without telling the *)
(* service.  A timer polls the nodes of the pending uploads, and           *)
(* Workspace.update_auto_meta polls the node of one object; whoever sees   *)
(* the upload first has its size recorded in the database and the entry    *)
(* erased.                                                                 *)
(*                                                                         *)
(* Three threads of control meet here:                                     *)
(*   - the sync thread of WorkspaceDB runs one job at a time, to its end;  *)
(*     while it creates a node or checks an upload it is blocked on a      *)
(*     mutex that a coroutine on another thread unlocks;                   *)
(*   - the shock thread runs the timer's coroutine and that of             *)
(*     update_auto_meta, one segment between two yields at a time;         *)
(*   - the main io_context runs the coroutine that makes the Shock node.   *)
(* The steps of the model are the segments between two yields on the shock *)
(* thread, and the database operations on the sync thread.                 *)
(***************************************************************************)
EXTENDS Naturals, FiniteSets

CONSTANTS
  Uuids,        \* the ids of objects; pending_uploads_ is ordered by them
  Paths,        \* where objects are created
  Sizes,        \* the lengths a file can have
  NoObject,     \* no object, no path
  MaxCrashes    \* bound on the restarts of the process

ASSUME UuidsAssumption ==
  /\ Uuids \subseteq Nat \ {0}
  /\ NoObject \notin Uuids \union Paths \union {0}
ASSUME SizesAssumption == Sizes \subseteq Nat /\ 0 \in Sizes
ASSUME CrashesAssumption == MaxCrashes \in Nat

VARIABLES
  db,        \* objects collection: the uuid of the object at each path
  size,      \* objects collection: the size field of each object
  used,      \* the uuids generated so far
  node,      \* Shock: the node of each uuid
  length,    \* Shock: the length of the file in the node
  pending,   \* pending_uploads_: a map from uuids to PendingUploads
  job,       \* the job of the sync thread
  timer,     \* the coroutine run_timer
  posted,    \* the timer's job is posted to the sync thread, not yet started
  up,        \* the process runs
  crashes,   \* how often it has been killed
  known,     \* history: the uuids entered into pending_uploads_ since it started
  dangled    \* history: a coroutine has used an entry that had been erased

vars == <<db, size, used, node, length, pending, job, timer, posted, up,
          crashes, known, dangled>>

shock  == <<node, length>>
record == <<db, size, used>>
ghosts == <<known, dangled>>

End == 0                      \* the end() of the map: no uuid is 0
Cursors == Uuids \union {End}

Entry == [updated : BOOLEAN, size : Sizes]

NewEntry == [updated |-> FALSE, size |-> 0]
EmptyMap == [k \in {} |-> NewEntry]

Ops    == {"none", "create", "autometa", "setsizes"}
Steps  == {"idle", "node", "emplace", "remove", "insert",      \* create
           "spawned", "checking", "unlocked",                  \* autometa
           "iterate"}                                          \* setsizes

\* One record for the three kinds of job: path and id of the object at hand
\* (for setsizes, id is the iterator), old the object that is overwritten,
\* updated and size the result of the coroutine of autometa.
Jobs == [op : Ops, step : Steps, path : Paths \union {NoObject}, id : Cursors \union {NoObject},
         old : Uuids \union {NoObject}, updated : BOOLEAN, size : Sizes]

Job(op, step, p, id, old) ==
  [op |-> op, step |-> step, path |-> p, id |-> id, old |-> old,
   updated |-> FALSE, size |-> 0]

Idle == Job("none", "idle", NoObject, End, NoObject)

Timers == [pc : {"sleep", "check", "posted", "waiting", "woken"},
           at : Cursors, found : BOOLEAN]

Asleep == [pc |-> "sleep", at |-> End, found |-> FALSE]

TypeOK ==
  /\ db \in [Paths -> Uuids \union {NoObject}]
  /\ size \in [Uuids -> Sizes]
  /\ used \subseteq Uuids
  /\ node \in [Uuids -> {"none", "empty", "full"}]
  /\ length \in [Uuids -> Sizes]
  /\ DOMAIN pending \subseteq Uuids
  /\ pending \in [DOMAIN pending -> Entry]
  /\ job \in Jobs
  /\ timer \in Timers
  /\ timer.pc = "check" <=> timer.at # End
  /\ posted \in BOOLEAN
  /\ up \in BOOLEAN
  /\ crashes \in 0..MaxCrashes
  /\ known \subseteq Uuids
  /\ dangled \in BOOLEAN

Keys == DOMAIN pending

Stored == {db[p] : p \in Paths} \ {NoObject}

\* The iterator at the first key in S.
IsFirst(n, S) ==
  \/ S = {} /\ n = End
  \/ n \in S /\ \A k \in S : n <= k

KeysAfter(k) == {l \in Keys : l > k}

Without(S) == [k \in Keys \ S |-> pending[k]]

\* Variant of ShockThreadFree: the timer's coroutine blocks its thread until
\* its job has ended, instead of yielding.
ShockThreadBlocks == timer.pc \notin {"posted", "waiting"}

\* The shock thread is between two segments: the timer's coroutine is not on
\* its way from posting its job to async_wait.
ShockThreadFree == timer.pc # "posted"

Init ==
  /\ db = [p \in Paths |-> NoObject]
  /\ size = [u \in Uuids |-> 0]
  /\ used = {}
  /\ node = [u \in Uuids |-> "none"]
  /\ length = [u \in Uuids |-> 0]
  /\ pending = EmptyMap
  /\ job = Idle
  /\ timer = Asleep
  /\ posted = FALSE
  /\ up = TRUE
  /\ crashes = 0
  /\ known = {}
  /\ dangled = FALSE

(***************************************************************************)
(* check_pending_upload and set_object_size.                               *)
(***************************************************************************)

\* The entry of k after an answer of get_node: a node that has a checksum has
\* its file; a node without, and any failure, leaves the entry as it was.
Checked(k, answered) ==
  IF answered THEN [updated |-> TRUE, size |-> length[k]] ELSE pending[k]

\* Shock may fail to answer, but says that a file is there only if it is.
MayAnswer(k, answered) == answered => node[k] = "full"

\* Variant of SetObjectSize: the filter of the update names no object.
SetAllSizes(u, s) ==
  size' = [v \in Uuids |-> IF v \in Stored THEN s ELSE size[v]]

\* update_one of the object with uuid u, if there is one.
SetObjectSize(u, s) ==
  size' = [size EXCEPT ![u] = IF u \in Stored THEN s ELSE @]

(***************************************************************************)
(* Workspace.create (method_create, process_create), on the sync thread.   *)
(***************************************************************************)

\* Everything up to the decision to create: the checks that fail return an
\* error and change nothing.  With overwrite the object found at the path is
\* going to be removed.
CreateStart(p, u, overwrite, createUploadNodes) ==
  /\ up
  /\ job.op = "none"
  /\ u \notin used
  /\ db[p] = NoObject \/ overwrite
  /\ used' = used \union {u}
  /\ job' = Job("create", IF createUploadNodes THEN "node" ELSE "remove", p, u,
                IF overwrite THEN db[p] ELSE NoObject)
  /\ UNCHANGED <<db, size, shock, pending, timer, posted, up, crashes, ghosts>>

\* Variant of CreateNode: an object whose node is made is not tracked.
CreateNodeUntracked ==
  /\ up
  /\ job.step = "node"
  /\ node' = [node EXCEPT ![job.id] = "empty"]
  /\ job' = [job EXCEPT !.step = "remove"]
  /\ UNCHANGED <<record, length, pending, timer, posted, up, crashes, ghosts>>

\* The coroutine on the main io_context: the service's token, create_node, the
\* ACL (whose result is ignored).  It goes on on the shock thread.
CreateNode ==
  /\ up
  /\ job.step = "node"
  /\ node' = [node EXCEPT ![job.id] = "empty"]
  /\ job' = [job EXCEPT !.step = "emplace"]
  /\ UNCHANGED <<record, length, pending, timer, posted, up, crashes, ghosts>>

\* create_node yields no id, because Shock made no node or because its answer
\* was lost: the object is not created.
CreateNodeFails(made) ==
  /\ up
  /\ job.step = "node"
  /\ node' = [node EXCEPT ![job.id] = IF made THEN "empty" ELSE @]
  /\ job' = Idle
  /\ UNCHANGED <<record, length, pending, timer, posted, up, crashes, ghosts>>

\* The handler posted to the shock thread: emplace, unlock.
Emplace ==
  /\ up
  /\ job.step = "emplace"
  /\ ShockThreadFree
  /\ pending' = [k \in Keys \union {job.id} |->
                   IF k \in Keys THEN pending[k] ELSE NewEntry]
  /\ known' = known \union {job.id}
  /\ job' = [job EXCEPT !.step = "remove"]
  /\ UNCHANGED <<record, shock, timer, posted, up, crashes, dangled>>

\* remove_workspace_object of the overwritten object.  Its entry in
\* pending_uploads_, if it has one, stays.
CreateRemove ==
  /\ up
  /\ job.step = "remove"
  /\ db' = [db EXCEPT ![job.path] = IF job.old = NoObject THEN @ ELSE NoObject]
  /\ job' = [job EXCEPT !.step = "insert"]
  /\ UNCHANGED <<size, used, shock, pending, timer, posted, up, crashes, ghosts>>

\* create_workspace_object: size 0 for an object with a node, and the length
\* of the data written to the file system for another.
CreateInsert(s) ==
  /\ up
  /\ job.step = "insert"
  /\ node[job.id] = "none" \/ s = 0
  /\ db' = [db EXCEPT ![job.path] = job.id]
  /\ size' = [size EXCEPT ![job.id] = s]
  /\ job' = Idle
  /\ UNCHANGED <<used, shock, pending, timer, posted, up, crashes, ghosts>>

\* The data cannot be written: no object is inserted, the old one is gone.
CreateInsertFails ==
  /\ up
  /\ job.step = "insert"
  /\ node[job.id] = "none"
  /\ job' = Idle
  /\ UNCHANGED <<record, shock, pending, timer, posted, up, crashes, ghosts>>

(***************************************************************************)
(* Workspace.update_auto_meta: a job on the sync thread that waits for its *)
(* coroutine on the shock thread.                                          *)
(***************************************************************************)

\* lookup_object_meta, and the coroutine is spawned.  (Without the permission
\* to read the call changes nothing.)
AutoStart(p) ==
  /\ up
  /\ job.op = "none"
  /\ job' = Job("autometa", "spawned", p, db[p], NoObject)
  /\ UNCHANGED <<record, shock, pending, timer, posted, up, crashes, ghosts>>

\* find, and the request of check_pending_upload; or not found, unlock.
AutoFind ==
  /\ up
  /\ job.step = "spawned"
  /\ ShockThreadFree
  /\ job' = [job EXCEPT !.step = IF job.id \in Keys THEN "checking" ELSE "unlocked"]
  /\ UNCHANGED <<record, shock, pending, timer, posted, up, crashes, ghosts>>

\* The answer: an entry that is updated, be it by this answer or before it, is
\* erased and its size handed to the job; unlock.
AutoChecked(answered) ==
  /\ up
  /\ job.step = "checking"
  /\ job.id \in Keys
  /\ ShockThreadFree
  /\ MayAnswer(job.id, answered)
  /\ LET entry == Checked(job.id, answered)
     IN /\ pending' = IF entry.updated THEN Without({job.id}) ELSE pending
        /\ job' = [job EXCEPT !.step = "unlocked", !.updated = entry.updated,
                              !.size = IF entry.updated THEN entry.size ELSE @]
  /\ UNCHANGED <<record, shock, timer, posted, up, crashes, ghosts>>

\* set_object_size, lookup_object_meta, the end of the job.
AutoFinish ==
  /\ up
  /\ job.step = "unlocked"
  /\ IF job.updated THEN SetObjectSize(job.id, job.size) ELSE UNCHANGED size
  /\ job' = Idle
  /\ UNCHANGED <<db, used, shock, pending, timer, posted, up, crashes, ghosts>>

(***************************************************************************)
(* run_timer, on the shock thread, and its job on the sync thread.         *)
(***************************************************************************)

\* Variant of TimerFires: the first entry is used without a look at end().
TimerFiresAnyway(first) ==
  /\ up
  /\ timer.pc = "sleep"
  /\ IsFirst(first, Keys)
  /\ timer' = [pc |-> "check", at |-> first, found |-> FALSE]
  /\ UNCHANGED <<record, shock, pending, job, posted, up, crashes, ghosts>>

\* The timer has run for five seconds: the loop over the map begins with the
\* request for its first entry.  (With an empty map the timer is set again.)
TimerFires(first) ==
  /\ up
  /\ timer.pc = "sleep"
  /\ Keys # {}
  /\ IsFirst(first, Keys)
  /\ timer' = [pc |-> "check", at |-> first, found |-> FALSE]
  /\ UNCHANGED <<record, shock, pending, job, posted, up, crashes, ghosts>>

\* Variant of LoopGoesOn: the loop ends with its first entry.
LoopStops(next, found) ==
  IF found
  THEN /\ timer' = [pc |-> "posted", at |-> End, found |-> FALSE]
       /\ posted' = TRUE
  ELSE /\ timer' = Asleep
       /\ UNCHANGED posted

\* After the entry at the iterator: the request for the next one, or the end
\* of the loop, where the job is posted if an updated entry was seen.
LoopGoesOn(next, found) ==
  IF next # End
  THEN /\ timer' = [pc |-> "check", at |-> next, found |-> found]
       /\ UNCHANGED posted
  ELSE IF found
  THEN /\ timer' = [pc |-> "posted", at |-> End, found |-> FALSE]
       /\ posted' = TRUE
  ELSE /\ timer' = Asleep
       /\ UNCHANGED posted

TimerChecked(answered, next) ==
  /\ up
  /\ timer.pc = "check"
  /\ timer.at \in Keys
  /\ MayAnswer(timer.at, answered)
  /\ IsFirst(next, KeysAfter(timer.at))
  /\ pending' = [pending EXCEPT ![timer.at] = Checked(timer.at, answered)]
  /\ LoopGoesOn(next, timer.found \/ pending'[timer.at].updated)
  /\ UNCHANGED <<record, shock, job, up, crashes, ghosts>>

\* async_wait on the timer of the DispatchContext.
TimerWaits ==
  /\ up
  /\ timer.pc = "posted"
  /\ timer' = [timer EXCEPT !.pc = "waiting"]
  /\ UNCHANGED <<record, shock, pending, job, posted, up, crashes, ghosts>>

\* Variant of SetSizesStart: the loop starts with the second entry.
SetSizesStartLate(first) ==
  /\ up
  /\ job.op = "none"
  /\ posted
  /\ \E k \in Cursors : IsFirst(k, Keys) /\ IsFirst(first, KeysAfter(k))
  /\ posted' = FALSE
  /\ job' = Job("setsizes", "iterate", NoObject, first, NoObject)
  /\ UNCHANGED <<record, shock, pending, timer, up, crashes, ghosts>>

\* The sync thread takes the timer's job.
SetSizesStart(first) ==
  /\ up
  /\ job.op = "none"
  /\ posted
  /\ IsFirst(first, Keys)
  /\ posted' = FALSE
  /\ job' = Job("setsizes", "iterate", NoObject, first, NoObject)
  /\ UNCHANGED <<record, shock, pending, timer, up, crashes, ghosts>>

SetSizesStep(next) ==
  /\ up
  /\ job.step = "iterate"
  /\ job.id # End
  /\ IsFirst(next, KeysAfter(job.id))
  /\ IF pending[job.id].updated THEN SetObjectSize(job.id, pending[job.id].size)
                                ELSE UNCHANGED size
  /\ job' = [job EXCEPT !.id = next]
  /\ UNCHANGED <<db, used, shock, pending, timer, posted, up, crashes, ghosts>>

\* The end of the job, cancel_one: without effect when the coroutine has not
\* got to async_wait.
SetSizesEnd ==
  /\ up
  /\ job.step = "iterate"
  /\ job.id = End
  /\ timer' = [timer EXCEPT !.pc = IF @ = "waiting" THEN "woken" ELSE @]
  /\ job' = Idle
  /\ UNCHANGED <<record, shock, pending, posted, up, crashes, ghosts>>

\* Variant of TimerErases: the coroutine does not wait for its job.
TimerErasesEarly ==
  /\ up
  /\ timer.pc \in {"waiting", "woken"}
  /\ pending' = Without({k \in Keys : pending[k].updated})
  /\ timer' = Asleep
  /\ UNCHANGED <<record, shock, job, posted, up, crashes, ghosts>>

\* erase_if, and the timer is set again.
TimerErases ==
  /\ up
  /\ timer.pc = "woken"
  /\ pending' = Without({k \in Keys : pending[k].updated})
  /\ timer' = Asleep
  /\ UNCHANGED <<record, shock, job, posted, up, crashes, ghosts>>

(***************************************************************************)
(* Undefined behaviour.  A coroutine that was suspended in get_node comes  *)
(* back to an entry that the other coroutine has erased in the meantime:   *)
(* it writes through a dangling reference and uses an invalid iterator.    *)
(* The process dies, or the freed memory is still as it was or holds       *)
(* something else, and the coroutine goes on from what it reads there.     *)
(***************************************************************************)

\* What is lost with the process, and what a process starts with.
Die ==
  /\ up' = FALSE
  /\ pending' = EmptyMap
  /\ job' = Idle
  /\ timer' = Asleep
  /\ posted' = FALSE
  /\ known' = {}

TimerDangles ==
  /\ up
  /\ timer.pc = "check"
  /\ timer.at \notin Keys
  /\ dangled' = TRUE
  /\ \/ Die
     \/ /\ \E next \in Keys \union {End}, found \in BOOLEAN : LoopGoesOn(next, found)
        /\ UNCHANGED <<pending, job, up, known>>
  /\ UNCHANGED <<record, shock, crashes>>

AutoDangles ==
  /\ up
  /\ job.step = "checking"
  /\ job.id \notin Keys
  /\ ShockThreadFree
  /\ dangled' = TRUE
  /\ \/ Die
     \/ /\ \E updated \in BOOLEAN, s \in Sizes :
             job' = [job EXCEPT !.step = "unlocked", !.updated = updated, !.size = s]
        /\ UNCHANGED <<pending, timer, posted, up, known>>
  /\ UNCHANGED <<record, shock, crashes>>

(***************************************************************************)
(* The environment.                                                        *)
(***************************************************************************)

\* The client puts its file into the node, once.
ClientUploads(u, s) ==
  /\ node[u] = "empty"
  /\ node' = [node EXCEPT ![u] = "full"]
  /\ length' = [length EXCEPT ![u] = s]
  /\ UNCHANGED <<record, pending, job, timer, posted, up, crashes, ghosts>>

Crash ==
  /\ up
  /\ crashes < MaxCrashes
  /\ crashes' = crashes + 1
  /\ Die
  /\ UNCHANGED <<record, shock, dangled>>

Restart ==
  /\ ~up
  /\ up' = TRUE
  /\ UNCHANGED <<record, shock, pending, job, timer, posted, crashes, ghosts>>

CreateNext ==
  \/ \E p \in Paths, u \in Uuids, overwrite, createUploadNodes \in BOOLEAN :
       CreateStart(p, u, overwrite, createUploadNodes)
  \/ CreateNode
  \/ \E made \in BOOLEAN : CreateNodeFails(made)
  \/ Emplace
  \/ CreateRemove
  \/ \E s \in Sizes : CreateInsert(s)
  \/ CreateInsertFails

AutoNext ==
  \/ \E p \in Paths : AutoStart(p)
  \/ AutoFind
  \/ \E answered \in BOOLEAN : AutoChecked(answered)
  \/ AutoFinish

TimerNext ==
  \/ \E k \in Cursors : TimerFires(k)
  \/ \E answered \in BOOLEAN, k \in Cursors : TimerChecked(answered, k)
  \/ TimerWaits
  \/ \E k \in Cursors : SetSizesStart(k)
  \/ \E k \in Cursors : SetSizesStep(k)
  \/ SetSizesEnd
  \/ TimerErases

Next ==
  \/ CreateNext
  \/ AutoNext
  \/ TimerNext
  \/ TimerDangles
  \/ AutoDangles
  \/ \E u \in Uuids, s \in Sizes : ClientUploads(u, s)
  \/ Crash
  \/ Restart

Spec == Init /\ [][Next]_vars

(***************************************************************************)
(* Fairness: the threads run what is ready, a started process stays a      *)
(* process that is started again, and every request to Shock ends (it has  *)
(* no timeout of its own: a Shock that never answers blocks the service).  *)
(* The sync thread serves its jobs in the order in which they were posted  *)
(* (DbExec), so that no flood of requests keeps it from the timer's job.   *)
(* A node that has its file is found to have it, if it is asked again and  *)
(* again.                                                                  *)
(***************************************************************************)
Fairness ==
  /\ WF_vars(CreateNode \/ \E made \in BOOLEAN : CreateNodeFails(made))
  /\ WF_vars(Emplace)
  /\ WF_vars(CreateRemove)
  /\ WF_vars(CreateInsertFails \/ \E s \in Sizes : CreateInsert(s))
  /\ WF_vars(AutoFind)
  /\ WF_vars(AutoDangles \/ \E answered \in BOOLEAN : AutoChecked(answered))
  /\ WF_vars(AutoFinish)
  /\ WF_vars(\E k \in Cursors : TimerFires(k))
  /\ WF_vars(TimerDangles \/ \E answered \in BOOLEAN, k \in Cursors :
                               TimerChecked(answered, k))
  /\ WF_vars(TimerWaits)
  /\ SF_vars(\E k \in Cursors : SetSizesStart(k))
  /\ WF_vars(\E k \in Cursors : SetSizesStep(k))
  /\ WF_vars(SetSizesEnd)
  /\ WF_vars(TimerErases)
  /\ WF_vars(Restart)
  /\ \A u \in Uuids :
       SF_vars(timer.at = u /\ \E k \in Cursors : TimerChecked(TRUE, k))

FairSpec == Spec /\ Fairness

(***************************************************************************)
(* Properties.  Those that say ~dangled hold up to the first access to an  *)
(* erased entry; after one nothing can be promised.                        *)
(***************************************************************************)

Recorded(u) == size[u] = length[u]

\* An upload that this process knows of is not forgotten: as long as its
\* object is in the database, the entry is in the map, or the size is on its
\* way in the job that erased the entry, or the size is recorded.  An entry
\* leaves the map by two coroutines, and its size must not be written before
\* the object is inserted, where update_one would find nothing.
NoSizeLost ==
  \A u \in known \intersect Stored :
    \/ dangled
    \/ u \in Keys
    \/ job.op = "autometa" /\ job.id = u /\ job.updated
    \/ node[u] = "full" /\ Recorded(u)

\* While the sync thread iterates over pending_uploads_, no thread changes the
\* map or an entry: the map has no lock, and its owner is the shock thread.
MapStableUnderIteration ==
  [][(job.step = "iterate" /\ job'.step = "iterate") => UNCHANGED pending]_vars

\* The size of an object in the database changes to the length of the file in
\* its own node and to nothing else, and a recorded size does not change: late
\* answers, checks by both coroutines, and entries of overwritten objects do
\* no harm.
SizeChangesToLength ==
  [][\A p \in Paths :
       (db[p] # NoObject /\ db'[p] = db[p] /\ size'[db[p]] # size[db[p]]) =>
         \/ dangled
         \/ node[db[p]] = "full" /\ size'[db[p]] = length[db[p]]]_vars

\* An entry in the map, or on its way in the job that has erased it.
Awaited ==
  Keys \union {u \in Uuids : job.op = "autometa" /\ job.updated /\ job.id = u}

Stage ==
  [u \in Uuids |->
     IF u \notin used THEN "new"
     ELSE IF job.op = "create" /\ job.id = u THEN "making"
     ELSE IF u \in Stored THEN "stored"
     ELSE "gone"]

Promise == INSTANCE Uploads WITH
  stage   <- Stage,
  awaited <- Awaited,
  broken  <- dangled

\* Whatever the order of the segments on the shock thread and of the jobs: an
\* object gets into the database with its upload awaited, its size goes from 0
\* to the length of its own file, and no upload stops being awaited before
\* that, unless its object is removed or the process ends.
ImplementsUploads == Promise!Spec

\* WorkspaceService.cpp:102-107, WorkspaceService.h:63-67: the shock thread
\* serializes the access to Shock and to the bookkeeping, so that no coroutine
\* uses an entry that another one has erased.
NoDanglingAccess == ~dangled

\* The timer's coroutine waits, and its job has ended: cancel_one came too
\* early (DbExec, EveryCallReturns).
TimerHung == timer.pc = "waiting" /\ ~posted /\ job.op # "setsizes"

\* An entry whose file is uploaded leaves the map (by NoSizeLost with its size
\* recorded), unless the timer's coroutine hangs.
UploadIsResolved ==
  \A u \in Uuids :
    (u \in Keys /\ node[u] = "full") ~> (u \notin Keys \/ TimerHung \/ dangled)

\* The sync thread, the shock thread and the main io_context do not wait for
\* one another in a circle: every job of the sync thread ends.
JobsEnd == job.op # "none" ~> job.op = "none"
=============================================================================
