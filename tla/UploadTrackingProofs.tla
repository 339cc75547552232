------------------------ MODULE UploadTrackingProofs ------------------------
(***************************************************************************)
(* Proofs about UploadTracking, for any sets of uuids, paths and sizes and *)
(* any number of crashes.                                                  *)
(***************************************************************************)
EXTENDS UploadTracking, TLAPS

(***************************************************************************)
(* The inductive invariant.  NoSizeLost rests on what the two threads know *)
(* of each other: an updated entry may be erased by the timer's coroutine  *)
(* because the sync thread has been through the whole map since the loop   *)
(* saw it, and no entry can have become updated in between; and the object *)
(* that is being created is not among the objects that thread went through.*)
(***************************************************************************)

\* The job's fields fit its step.
JobShape ==
  /\ job.op = "none" <=> job.step = "idle"
  /\ job.op = "create" <=> job.step \in {"node", "emplace", "remove", "insert"}
  /\ job.op = "autometa" <=> job.step \in {"spawned", "checking", "unlocked"}
  /\ job.op = "setsizes" <=> job.step = "iterate"
  /\ job.step = "checking" => job.id \in Uuids
  /\ job.updated => job.step = "unlocked" /\ job.id \in Uuids

\* The object that is being created is new, and so is its node.
Creating ==
  /\ job.op = "create" => job.path \in Paths /\ job.id \in used \ Stored
  /\ job.step \in {"node", "emplace"} => job.id \notin known

\* Objects and entries are those of uuids that were generated.
Generated ==
  /\ Stored \subseteq used
  /\ Keys \subseteq known
  /\ known \subseteq used

\* The timer's job is posted or executed only while its coroutine waits for it;
\* its iterator is valid.
TimerAndJob ==
  /\ posted => timer.pc \in {"posted", "waiting"} /\ job.op # "setsizes"
  /\ job.op = "setsizes" => /\ timer.pc \in {"posted", "waiting"}
                            /\ job.id \in Keys \union {End}

\* What is held in memory about a file is true.
SizesTrue ==
  /\ \A k \in Keys : pending[k].updated =>
       node[k] = "full" /\ pending[k].size = length[k]
  /\ job.updated => node[job.id] = "full" /\ job.size = length[job.id]

\* Nothing is left to be recorded about k.
Settled(k) ==
  /\ k \in Stored => node[k] = "full" /\ Recorded(k)
  /\ ~(job.op = "create" /\ job.id = k)

\* The sync thread has been at the entries before its iterator, and at all of
\* them when the coroutine is woken.
LoopDone ==
  /\ job.op = "setsizes" =>
       \A k \in Keys : pending[k].updated /\ (job.id = End \/ k < job.id) => Settled(k)
  /\ timer.pc = "woken" => \A k \in Keys : pending[k].updated => Settled(k)

\* The entry of an object that is being created, once made, is there when the
\* object is inserted.
EntryThere ==
  job.step \in {"remove", "insert"} /\ job.id \in known => job.id \in Keys

Tracking == SizesTrue /\ LoopDone /\ EntryThere /\ NoSizeLost

IInv ==
  /\ TypeOK
  /\ JobShape
  /\ Creating
  /\ Generated
  /\ TimerAndJob
  /\ dangled \/ Tracking

(***************************************************************************)
(* Records.                                                                *)
(***************************************************************************)

LEMMA IdleFacts ==
  /\ Idle \in Jobs
  /\ Idle.op = "none" /\ Idle.step = "idle" /\ Idle.id = End /\ Idle.updated = FALSE
  BY SizesAssumption DEF Idle, Job, Jobs, Ops, Steps, Cursors

LEMMA AsleepFacts ==
  /\ Asleep \in Timers
  /\ Asleep.pc = "sleep" /\ Asleep.at = End
  BY DEF Asleep, Timers, Cursors

LEMMA EmptyMapFacts == DOMAIN EmptyMap = {} /\ EmptyMap \in [{} -> Entry]
  BY DEF EmptyMap

LEMMA InitIInv == Init => IInv
<1>1. SUFFICES ASSUME Init PROVE IInv
  OBVIOUS
<1>2. Keys = {} /\ Stored = {}
  BY <1>1, EmptyMapFacts DEF Init, Keys, Stored
<1>3. TypeOK
  <2>1. /\ DOMAIN pending \subseteq Uuids
        /\ pending \in [DOMAIN pending -> Entry]
    BY <1>1, EmptyMapFacts DEF Init
  <2>2. job \in Jobs /\ timer \in Timers /\ (timer.pc = "check" <=> timer.at # End)
    BY <1>1, IdleFacts, AsleepFacts DEF Init
  <2>3. crashes \in 0..MaxCrashes
    BY <1>1, CrashesAssumption DEF Init
  <2>4. QED
    BY <1>1, <2>1, <2>2, <2>3, SizesAssumption DEF Init, TypeOK
<1>4. JobShape /\ Creating
  BY <1>1, IdleFacts DEF Init, JobShape, Creating
<1>5. TimerAndJob /\ SizesTrue /\ LoopDone /\ EntryThere
  BY <1>1, <1>2, IdleFacts, AsleepFacts DEF Init, TimerAndJob, SizesTrue, LoopDone, EntryThere
<1>6. Generated /\ NoSizeLost
  BY <1>1, <1>2 DEF Init, Generated, NoSizeLost
<1>7. QED
  BY <1>3, <1>4, <1>5, <1>6 DEF IInv, Tracking

(***************************************************************************)
(* Types.                                                                  *)
(***************************************************************************)

LEMMA DieTypes ==
  ASSUME Die
  PROVE  /\ up' = FALSE /\ posted' = FALSE /\ known' = {}
         /\ job' = Idle /\ job' \in Jobs
         /\ timer' = Asleep /\ timer' \in Timers /\ (timer.pc = "check" <=> timer.at # End)'
         /\ pending' \in [DOMAIN pending' -> Entry] /\ DOMAIN pending' = {}
  BY IdleFacts, AsleepFacts, EmptyMapFacts DEF Die

LEMMA LoopTypes ==
  ASSUME NEW next \in Cursors, NEW found \in BOOLEAN, posted \in BOOLEAN,
         LoopGoesOn(next, found)
  PROVE  /\ timer' \in Timers /\ posted' \in BOOLEAN
         /\ (timer.pc = "check" <=> timer.at # End)'
<1>1. CASE next # End
  BY <1>1 DEF LoopGoesOn, Timers
<1>2. CASE next = End /\ found
  <2>1. timer' = [pc |-> "posted", at |-> End, found |-> FALSE] /\ posted' = TRUE
    BY <1>2, Zenon DEF LoopGoesOn
  <2>2. QED
    BY <2>1 DEF Timers, Cursors
<1>3. CASE next = End /\ ~found
  BY <1>3, AsleepFacts DEF LoopGoesOn
<1>4. QED
  BY <1>1, <1>2, <1>3

LEMMA NextTypeOK == IInv /\ [Next]_vars => TypeOK'
<1>1. SUFFICES ASSUME TypeOK, JobShape, Creating, TimerAndJob, [Next]_vars
               PROVE  TypeOK'
  BY DEF IInv
<1> USE <1>1
<1> USE DEF TypeOK, record, shock, ghosts
<1>2. ASSUME NEW p \in Paths, NEW u \in Uuids,
             NEW overwrite \in BOOLEAN, NEW createUploadNodes \in BOOLEAN,
             CreateStart(p, u, overwrite, createUploadNodes)
      PROVE  TypeOK'
  BY <1>2, SizesAssumption DEF CreateStart, Job, Jobs, Ops, Steps, Cursors
<1>3. ASSUME CreateNode
      PROVE  TypeOK'
  BY <1>3 DEF CreateNode, Jobs, Steps
<1>4. ASSUME NEW made \in BOOLEAN,
             CreateNodeFails(made)
      PROVE  TypeOK'
  BY <1>4, IdleFacts DEF CreateNodeFails
<1>5. ASSUME Emplace
      PROVE  TypeOK'
  BY <1>5, SizesAssumption DEF Emplace, NewEntry, JobShape, Creating, Jobs, Steps, Keys, Entry
<1>6. ASSUME CreateRemove
      PROVE  TypeOK'
  BY <1>6 DEF CreateRemove, Jobs, Steps
<1>7. ASSUME NEW s \in Sizes,
             CreateInsert(s)
      PROVE  TypeOK'
  BY <1>7, IdleFacts DEF CreateInsert, JobShape, Creating
<1>8. ASSUME CreateInsertFails
      PROVE  TypeOK'
  BY <1>8, IdleFacts DEF CreateInsertFails
<1>9. ASSUME NEW p \in Paths,
             AutoStart(p)
      PROVE  TypeOK'
  BY <1>9, SizesAssumption DEF AutoStart, Job, Jobs, Ops, Steps, Cursors
<1>10. ASSUME AutoFind
      PROVE  TypeOK'
  BY <1>10 DEF AutoFind, Jobs, Steps
<1>11. ASSUME NEW answered \in BOOLEAN,
             AutoChecked(answered)
      PROVE  TypeOK'
  BY <1>11 DEF AutoChecked, Jobs, Steps, Checked, Without, Keys, Entry
<1>12. ASSUME AutoFinish
      PROVE  TypeOK'
  BY <1>12, IdleFacts DEF AutoFinish, SetObjectSize, Jobs
<1>13. ASSUME NEW k \in Cursors,
             TimerFires(k)
      PROVE  TypeOK'
  BY <1>13 DEF TimerFires, Timers, IsFirst, Keys, End
<1>14. ASSUME NEW answered \in BOOLEAN, NEW k \in Cursors,
             TimerChecked(answered, k)
      PROVE  TypeOK'
  <2>1. pending' \in [DOMAIN pending' -> Entry] /\ DOMAIN pending' = DOMAIN pending
    BY <1>14 DEF TimerChecked, Checked, Keys, Entry
  <2>2. (timer.found \/ pending'[timer.at].updated) \in BOOLEAN
    BY <1>14, <2>1 DEF TimerChecked, Keys, Entry, Timers
  <2>3. timer' \in Timers /\ posted' \in BOOLEAN /\ (timer.pc = "check" <=> timer.at # End)'
    BY <1>14, <2>2, LoopTypes DEF TimerChecked
  <2>4. QED
    BY <1>14, <2>1, <2>3 DEF TimerChecked
<1>15. ASSUME TimerWaits
      PROVE  TypeOK'
  BY <1>15 DEF TimerWaits, Timers
<1>16. ASSUME NEW k \in Cursors,
             SetSizesStart(k)
      PROVE  TypeOK'
  BY <1>16, SizesAssumption DEF SetSizesStart, Job, Jobs, Ops, Steps, Cursors
<1>17. ASSUME NEW k \in Cursors,
             SetSizesStep(k)
      PROVE  TypeOK'
  BY <1>17 DEF SetSizesStep, Jobs, Cursors, TimerAndJob, JobShape, SetObjectSize, Keys, Entry
<1>18. ASSUME SetSizesEnd
      PROVE  TypeOK'
  BY <1>18, IdleFacts DEF SetSizesEnd, Timers
<1>19. ASSUME TimerErases
      PROVE  TypeOK'
  BY <1>19, AsleepFacts DEF TimerErases, Without, Keys, Entry
<1>20. ASSUME TimerDangles
      PROVE  TypeOK'
  BY <1>20, DieTypes, LoopTypes DEF TimerDangles, Keys, Cursors
<1>21. ASSUME AutoDangles
      PROVE  TypeOK'
  BY <1>21, DieTypes DEF AutoDangles, Jobs, Steps
<1>22. ASSUME NEW u \in Uuids, NEW s \in Sizes,
             ClientUploads(u, s)
      PROVE  TypeOK'
  BY <1>22 DEF ClientUploads
<1>23. ASSUME Crash
      PROVE  TypeOK'
  BY <1>23, DieTypes, CrashesAssumption DEF Crash
<1>24. ASSUME Restart
      PROVE  TypeOK'
  BY <1>24 DEF Restart
<1>25. CASE UNCHANGED vars
  BY <1>25 DEF vars
<1>26. QED
  BY <1>2, <1>3, <1>4, <1>5, <1>6, <1>7, <1>8, <1>9, <1>10, <1>11, <1>12, <1>13, <1>14, <1>15, <1>16, <1>17, <1>18, <1>19, <1>20, <1>21, <1>22, <1>23, <1>24, <1>25
     DEF Next, CreateNext, AutoNext, TimerNext

(***************************************************************************)
(* The shape of the jobs, and who waits for whom.                          *)
(***************************************************************************)

LEMMA NextShape == IInv /\ [Next]_vars => (JobShape /\ TimerAndJob)'
<1>1. SUFFICES ASSUME TypeOK, JobShape, Creating, TimerAndJob, [Next]_vars
               PROVE  (JobShape /\ TimerAndJob)'
  BY DEF IInv
<1> USE <1>1
<1> USE DEF TypeOK, JobShape, TimerAndJob
<1>2. ASSUME NEW p \in Paths, NEW u \in Uuids,
             NEW overwrite \in BOOLEAN, NEW createUploadNodes \in BOOLEAN,
             CreateStart(p, u, overwrite, createUploadNodes)
      PROVE  (JobShape /\ TimerAndJob)'
  BY <1>2 DEF CreateStart, Job
<1>3. ASSUME CreateNode
      PROVE  (JobShape /\ TimerAndJob)'
  BY <1>3 DEF CreateNode, Jobs
<1>4. ASSUME NEW made \in BOOLEAN,
             CreateNodeFails(made)
      PROVE  (JobShape /\ TimerAndJob)'
  BY <1>4, IdleFacts DEF CreateNodeFails
<1>5. ASSUME Emplace
      PROVE  (JobShape /\ TimerAndJob)'
  BY <1>5 DEF Emplace, Jobs, Keys
<1>6. ASSUME CreateRemove
      PROVE  (JobShape /\ TimerAndJob)'
  BY <1>6 DEF CreateRemove, Jobs
<1>7. ASSUME NEW s \in Sizes,
             CreateInsert(s)
      PROVE  (JobShape /\ TimerAndJob)'
  BY <1>7, IdleFacts DEF CreateInsert
<1>8. ASSUME CreateInsertFails
      PROVE  (JobShape /\ TimerAndJob)'
  BY <1>8, IdleFacts DEF CreateInsertFails
<1>9. ASSUME NEW p \in Paths,
             AutoStart(p)
      PROVE  (JobShape /\ TimerAndJob)'
  BY <1>9 DEF AutoStart, Job
<1>10. ASSUME AutoFind
      PROVE  (JobShape /\ TimerAndJob)'
  BY <1>10 DEF AutoFind, Jobs, Keys
<1>11. ASSUME NEW answered \in BOOLEAN,
             AutoChecked(answered)
      PROVE  (JobShape /\ TimerAndJob)'
  BY <1>11 DEF AutoChecked, Jobs, Keys, Without
<1>12. ASSUME AutoFinish
      PROVE  (JobShape /\ TimerAndJob)'
  BY <1>12, IdleFacts DEF AutoFinish
<1>13. ASSUME NEW k \in Cursors,
             TimerFires(k)
      PROVE  (JobShape /\ TimerAndJob)'
  BY <1>13 DEF TimerFires, Keys
<1>14. ASSUME NEW answered \in BOOLEAN, NEW k \in Cursors,
             TimerChecked(answered, k)
      PROVE  (JobShape /\ TimerAndJob)'
  BY <1>14, AsleepFacts DEF TimerChecked, LoopGoesOn, Keys
<1>15. ASSUME TimerWaits
      PROVE  (JobShape /\ TimerAndJob)'
  BY <1>15 DEF TimerWaits, Timers, Keys
<1>16. ASSUME NEW k \in Cursors,
             SetSizesStart(k)
      PROVE  (JobShape /\ TimerAndJob)'
  BY <1>16 DEF SetSizesStart, Job, IsFirst, Keys
<1>17. ASSUME NEW k \in Cursors,
             SetSizesStep(k)
      PROVE  (JobShape /\ TimerAndJob)'
  BY <1>17 DEF SetSizesStep, Jobs, IsFirst, KeysAfter, Keys
<1>18. ASSUME SetSizesEnd
      PROVE  (JobShape /\ TimerAndJob)'
  BY <1>18, IdleFacts DEF SetSizesEnd, Timers
<1>19. ASSUME TimerErases
      PROVE  (JobShape /\ TimerAndJob)'
  BY <1>19, AsleepFacts DEF TimerErases
<1>20. ASSUME TimerDangles
      PROVE  (JobShape /\ TimerAndJob)'
  <2>1. CASE Die
    BY <2>1, DieTypes, IdleFacts, AsleepFacts
  <2>2. ASSUME NEW next \in Keys \union {End}, NEW found \in BOOLEAN,
               LoopGoesOn(next, found), UNCHANGED <<pending, job>>
        PROVE  (JobShape /\ TimerAndJob)'
    BY <1>20, <2>2, AsleepFacts DEF TimerDangles, LoopGoesOn, Keys
  <2>3. QED
    BY <1>20, <2>1, <2>2 DEF TimerDangles
<1>21. ASSUME AutoDangles
      PROVE  (JobShape /\ TimerAndJob)'
  <2>1. CASE Die
    BY <2>1, DieTypes, IdleFacts, AsleepFacts
  <2>2. ASSUME NEW updated \in BOOLEAN, NEW s \in Sizes,
               job' = [job EXCEPT !.step = "unlocked", !.updated = updated, !.size = s],
               UNCHANGED <<pending, timer, posted>>
        PROVE  (JobShape /\ TimerAndJob)'
    BY <1>21, <2>2 DEF AutoDangles, Jobs, Keys
  <2>3. QED
    BY <1>21, <2>1, <2>2 DEF AutoDangles
<1>22. ASSUME NEW u \in Uuids, NEW s \in Sizes,
             ClientUploads(u, s)
      PROVE  (JobShape /\ TimerAndJob)'
  BY <1>22 DEF ClientUploads, Keys
<1>23. ASSUME Crash
      PROVE  (JobShape /\ TimerAndJob)'
  BY <1>23, DieTypes, IdleFacts, AsleepFacts DEF Crash
<1>24. ASSUME Restart
      PROVE  (JobShape /\ TimerAndJob)'
  BY <1>24 DEF Restart, Keys
<1>25. CASE UNCHANGED vars
  BY <1>25 DEF vars, Keys
<1>26. QED
  BY <1>2, <1>3, <1>4, <1>5, <1>6, <1>7, <1>8, <1>9, <1>10, <1>11, <1>12, <1>13, <1>14, <1>15, <1>16, <1>17, <1>18, <1>19, <1>20, <1>21, <1>22, <1>23, <1>24, <1>25
     DEF Next, CreateNext, AutoNext, TimerNext

(***************************************************************************)
(* Which uuids are in use.                                                 *)
(***************************************************************************)

\* An object is stored only by being put at a path.
LEMMA StoredAfter ==
  ASSUME db \in [Paths -> Uuids \union {NoObject}],
         NEW p \in Paths, NEW x \in Uuids \union {NoObject},
         db' = [db EXCEPT ![p] = x]
  PROVE  /\ Stored' \subseteq Stored \union {x}
         /\ NoObject \notin Stored'
         /\ \A u \in Stored' : u # x => u \in Stored
  BY DEF Stored

LEMMA NextGenerated == IInv /\ [Next]_vars => (Creating /\ Generated)'
<1>1. SUFFICES ASSUME TypeOK, JobShape, Creating, Generated, [Next]_vars
               PROVE  (Creating /\ Generated)'
  BY DEF IInv
<1> USE <1>1
<1> USE DEF Creating, Generated, record, ghosts
<1>2. ASSUME NEW p \in Paths, NEW u \in Uuids,
             NEW overwrite \in BOOLEAN, NEW createUploadNodes \in BOOLEAN,
             CreateStart(p, u, overwrite, createUploadNodes)
      PROVE  (Creating /\ Generated)'
  BY <1>2 DEF CreateStart, JobShape, Keys, Stored, Job
<1>3. ASSUME CreateNode
      PROVE  (Creating /\ Generated)'
  BY <1>3 DEF CreateNode, TypeOK, Jobs, JobShape, Keys, Stored
<1>4. ASSUME NEW made \in BOOLEAN,
             CreateNodeFails(made)
      PROVE  (Creating /\ Generated)'
  BY <1>4, IdleFacts DEF CreateNodeFails, Keys, Stored
<1>5. ASSUME Emplace
      PROVE  (Creating /\ Generated)'
  <2>1. job' = [job EXCEPT !.step = "remove"] /\ Stored' = Stored /\ used' = used
    BY <1>5 DEF Emplace, Stored
  <2>2. Keys' = Keys \union {job.id} /\ known' = known \union {job.id}
    BY <1>5 DEF Emplace, Keys
  <2>3. job.op = "create"
    BY <1>5 DEF Emplace, JobShape
  <2>4. QED
    BY <2>1, <2>2, <2>3 DEF TypeOK, Jobs
<1>6. ASSUME CreateRemove
      PROVE  (Creating /\ Generated)'
  <2>1. job' = [job EXCEPT !.step = "insert"] /\ UNCHANGED <<used, known, pending>>
    BY <1>6 DEF CreateRemove
  <2>2. job.op = "create" /\ job.path \in Paths
    BY <1>6 DEF CreateRemove, JobShape
  <2>3. Stored' \subseteq Stored
    <3>1. PICK x \in {NoObject, db[job.path]} : db' = [db EXCEPT ![job.path] = x]
      BY <1>6 DEF CreateRemove
    <3>2. x \in Uuids \union {NoObject} /\ (x \in Stored \/ x = NoObject)
      BY <2>2, <3>1 DEF TypeOK, Stored
    <3>3. QED
      BY <2>2, <3>1, <3>2, StoredAfter DEF TypeOK
  <2>4. QED
    BY <2>1, <2>2, <2>3 DEF TypeOK, Jobs, Keys
<1>7. ASSUME NEW s \in Sizes,
             CreateInsert(s)
      PROVE  (Creating /\ Generated)'
  <2>1. job' = Idle /\ UNCHANGED <<used, known, pending>>
    BY <1>7 DEF CreateInsert
  <2>2. job.op = "create" /\ job.path \in Paths /\ job.id \in used
    BY <1>7 DEF CreateInsert, JobShape
  <2>3. Stored' \subseteq Stored \union {job.id}
    BY <1>7, <2>2, StoredAfter DEF CreateInsert, TypeOK
  <2>4. QED
    BY <2>1, <2>2, <2>3, IdleFacts DEF Keys
<1>8. ASSUME CreateInsertFails
      PROVE  (Creating /\ Generated)'
  BY <1>8, IdleFacts DEF CreateInsertFails, Keys, Stored
<1>9. ASSUME NEW p \in Paths,
             AutoStart(p)
      PROVE  (Creating /\ Generated)'
  BY <1>9 DEF AutoStart, Job, Keys, Stored
<1>10. ASSUME AutoFind
      PROVE  (Creating /\ Generated)'
  BY <1>10 DEF AutoFind, JobShape, Keys, Stored, TypeOK, Jobs
<1>11. ASSUME NEW answered \in BOOLEAN,
             AutoChecked(answered)
      PROVE  (Creating /\ Generated)'
  BY <1>11 DEF AutoChecked, JobShape, Keys, Stored, TypeOK, Jobs, Without
<1>12. ASSUME AutoFinish
      PROVE  (Creating /\ Generated)'
  BY <1>12, IdleFacts DEF AutoFinish, Keys, Stored
<1>13. ASSUME NEW k \in Cursors,
             TimerFires(k)
      PROVE  (Creating /\ Generated)'
  BY <1>13 DEF TimerFires, JobShape, Keys, Stored
<1>14. ASSUME NEW answered \in BOOLEAN, NEW k \in Cursors,
             TimerChecked(answered, k)
      PROVE  (Creating /\ Generated)'
  BY <1>14 DEF TimerChecked, JobShape, Keys, Stored
<1>15. ASSUME TimerWaits
      PROVE  (Creating /\ Generated)'
  BY <1>15 DEF TimerWaits, JobShape, Keys, Stored
<1>16. ASSUME NEW k \in Cursors,
             SetSizesStart(k)
      PROVE  (Creating /\ Generated)'
  BY <1>16 DEF SetSizesStart, Job, Keys, Stored
<1>17. ASSUME NEW k \in Cursors,
             SetSizesStep(k)
      PROVE  (Creating /\ Generated)'
  BY <1>17 DEF SetSizesStep, JobShape, Keys, Stored, TypeOK, Jobs
<1>18. ASSUME SetSizesEnd
      PROVE  (Creating /\ Generated)'
  BY <1>18, IdleFacts DEF SetSizesEnd, Keys, Stored
<1>19. ASSUME TimerErases
      PROVE  (Creating /\ Generated)'
  BY <1>19 DEF TimerErases, JobShape, Keys, Stored, Without
<1>20. ASSUME TimerDangles
      PROVE  (Creating /\ Generated)'
  <2>1. CASE Die
    BY <1>20, <2>1, DieTypes, IdleFacts DEF TimerDangles, Keys, Stored
  <2>2. CASE UNCHANGED <<pending, job, known>>
    BY <1>20, <2>2 DEF TimerDangles, Keys, Stored
  <2>3. QED
    BY <1>20, <2>1, <2>2 DEF TimerDangles
<1>21. ASSUME AutoDangles
      PROVE  (Creating /\ Generated)'
  <2>1. CASE Die
    BY <1>21, <2>1, DieTypes, IdleFacts DEF AutoDangles, Keys, Stored
  <2>2. CASE UNCHANGED <<pending, known>> /\ job'.op = job.op /\ job'.step = "unlocked"
    BY <1>21, <2>2 DEF AutoDangles, JobShape, Keys, Stored
  <2>3. QED
    BY <1>21, <2>1, <2>2 DEF AutoDangles, TypeOK, Jobs
<1>22. ASSUME NEW u \in Uuids, NEW s \in Sizes,
             ClientUploads(u, s)
      PROVE  (Creating /\ Generated)'
  BY <1>22 DEF ClientUploads, JobShape, Keys, Stored
<1>23. ASSUME Crash
      PROVE  (Creating /\ Generated)'
  BY <1>23, DieTypes, IdleFacts DEF Crash, Keys, Stored
<1>24. ASSUME Restart
      PROVE  (Creating /\ Generated)'
  BY <1>24 DEF Restart, JobShape, Keys, Stored
<1>25. CASE UNCHANGED vars
  BY <1>25 DEF vars, Keys, Stored
<1>26. QED
  BY <1>2, <1>3, <1>4, <1>5, <1>6, <1>7, <1>8, <1>9, <1>10, <1>11, <1>12, <1>13, <1>14, <1>15, <1>16, <1>17, <1>18, <1>19, <1>20, <1>21, <1>22, <1>23, <1>24, <1>25
     DEF Next, CreateNext, AutoNext, TimerNext

(***************************************************************************)
(* No size is lost.                                                        *)
(***************************************************************************)

LEMMA NextTracking ==
  ASSUME IInv, [Next]_vars, (TypeOK /\ JobShape /\ TimerAndJob /\ Creating /\ Generated)',
         ~dangled, ~dangled'
  PROVE  Tracking'
<1>1. /\ TypeOK /\ JobShape /\ TimerAndJob /\ Creating /\ Generated
      /\ SizesTrue /\ LoopDone /\ EntryThere /\ NoSizeLost
  BY DEF IInv, Tracking
<1> USE <1>1, UuidsAssumption
<1> USE DEF Tracking, SizesTrue, LoopDone, EntryThere, NoSizeLost, Settled, Recorded,
            Stored, Keys, record, shock, ghosts
<1>2. ASSUME NEW p \in Paths, NEW u \in Uuids,
             NEW overwrite \in BOOLEAN, NEW createUploadNodes \in BOOLEAN,
             CreateStart(p, u, overwrite, createUploadNodes)
      PROVE  Tracking'
  BY <1>2 DEF CreateStart, Job, JobShape, Generated
<1>3. ASSUME CreateNode
      PROVE  Tracking'
  BY <1>3 DEF CreateNode, TypeOK, Jobs, JobShape, Creating, Generated
<1>4. ASSUME NEW made \in BOOLEAN,
             CreateNodeFails(made)
      PROVE  Tracking'
  BY <1>4, IdleFacts DEF CreateNodeFails, TypeOK, JobShape, Creating, Generated
<1>5. ASSUME Emplace
      PROVE  Tracking'
  BY <1>5 DEF Emplace, TypeOK, Jobs, NewEntry, JobShape, Creating, TimerAndJob
<1>6. ASSUME CreateRemove
      PROVE  Tracking'
  BY <1>6 DEF CreateRemove, TypeOK, Jobs, JobShape
<1>7. ASSUME NEW s \in Sizes,
             CreateInsert(s)
      PROVE  Tracking'
  BY <1>7, IdleFacts DEF CreateInsert, TypeOK, JobShape, Creating, Generated
<1>8. ASSUME CreateInsertFails
      PROVE  Tracking'
  BY <1>8, IdleFacts DEF CreateInsertFails, JobShape
<1>9. ASSUME NEW p \in Paths,
             AutoStart(p)
      PROVE  Tracking'
  BY <1>9 DEF AutoStart, Job
<1>10. ASSUME AutoFind
      PROVE  Tracking'
  BY <1>10 DEF AutoFind, TypeOK, Jobs, JobShape
<1>11. ASSUME NEW answered \in BOOLEAN,
             AutoChecked(answered)
      PROVE  Tracking'
  BY <1>11 DEF AutoChecked, TypeOK, Jobs, JobShape, Without, Checked, MayAnswer
<1>12. ASSUME AutoFinish
      PROVE  Tracking'
  <2>1. CASE ~job.updated
    BY <1>12, <2>1, IdleFacts DEF AutoFinish, JobShape
  <2>2. CASE job.updated
    <3>1. /\ job.id \in Uuids /\ node[job.id] = "full" /\ job.size = length[job.id]
          /\ job' = Idle /\ UNCHANGED <<db, used, shock, pending, timer, known>>
          /\ size' = [size EXCEPT ![job.id] = IF job.id \in Stored THEN job.size ELSE @]
      BY <1>12, <2>2 DEF AutoFinish, JobShape, SetObjectSize
    <3>2. \A u \in Uuids : node[u] = "full" /\ Recorded(u) => Recorded(u)'
      BY <3>1 DEF TypeOK
    <3>3. job.id \in Stored => size'[job.id] = length'[job.id]
      BY <3>1 DEF TypeOK
    <3>4. SizesTrue' /\ EntryThere'
      BY <3>1, IdleFacts
    <3>5. NoSizeLost'
      BY <3>1, <3>2, <3>3 DEF TypeOK
    <3>6. LoopDone'
      BY <1>12, <3>1, <3>2, IdleFacts DEF TypeOK, AutoFinish, JobShape
    <3>7. QED
      BY <3>4, <3>5, <3>6
  <2>3. QED
    BY <2>1, <2>2
<1>13. ASSUME NEW k \in Cursors,
             TimerFires(k)
      PROVE  Tracking'
  BY <1>13 DEF TimerFires
<1>14. ASSUME NEW answered \in BOOLEAN, NEW k \in Cursors,
             TimerChecked(answered, k)
      PROVE  Tracking'
  BY <1>14, AsleepFacts DEF TimerChecked, TypeOK, Checked, MayAnswer, LoopGoesOn, TimerAndJob
<1>15. ASSUME TimerWaits
      PROVE  Tracking'
  BY <1>15 DEF TimerWaits, TypeOK, Timers, TimerAndJob
<1>16. ASSUME NEW k \in Cursors,
             SetSizesStart(k)
      PROVE  Tracking'
  BY <1>16 DEF SetSizesStart, TypeOK, Job, IsFirst, TimerAndJob, End
<1>17. ASSUME NEW k \in Cursors,
             SetSizesStep(k)
      PROVE  Tracking'
  <2>1. job.id \in Keys /\ job.id \in Uuids /\ job.op = "setsizes"
    BY <1>17 DEF SetSizesStep, JobShape, TimerAndJob, TypeOK
  <2>2. /\ job' = [job EXCEPT !.id = k]
        /\ UNCHANGED <<db, used, shock, pending, timer, known>>
    BY <1>17 DEF SetSizesStep
  <2>3. /\ job'.op = job.op /\ job'.id = k /\ job'.step = job.step
        /\ job'.updated = job.updated /\ job'.size = job.size
    BY <2>2 DEF TypeOK, Jobs
  <2>4. \A u \in Uuids : u # job.id => size'[u] = size[u]
    BY <1>17 DEF SetSizesStep, SetObjectSize, TypeOK
  <2>5. pending[job.id].updated /\ job.id \in Stored =>
          node[job.id] = "full" /\ size'[job.id] = length[job.id]
    BY <1>17, <2>1 DEF SetSizesStep, SetObjectSize, TypeOK
  <2>6. ~pending[job.id].updated \/ job.id \notin Stored => size' = size
    BY <1>17, <2>1 DEF SetSizesStep, SetObjectSize, TypeOK
  <2>7. SizesTrue' /\ EntryThere'
    BY <1>17, <2>2, <2>3 DEF SetSizesStep, JobShape
  <2>8. NoSizeLost'
    BY <2>1, <2>2, <2>3, <2>4 DEF TypeOK
  <2>9. ASSUME NEW l \in Keys, pending[l].updated, k = End \/ l < k
        PROVE  Settled(l)'
    <3>1. CASE l = job.id
      BY <2>1, <2>2, <2>3, <2>5, <2>9, <3>1
    <3>2. CASE l # job.id
      <4>1. l < job.id
        <5>1. l \in Nat /\ job.id \in Nat /\ (k # End => k \in Nat)
          BY <2>1, UuidsAssumption DEF TypeOK, Cursors
        <5>2. ~(l > job.id)
          <6>1. IsFirst(k, KeysAfter(job.id))
            BY <1>17 DEF SetSizesStep
          <6>2. CASE KeysAfter(job.id) = {}
            BY <2>9, <6>2 DEF KeysAfter
          <6>3. CASE k \in KeysAfter(job.id) /\ \A n \in KeysAfter(job.id) : k <= n
            <7>1. k \in Keys /\ k > job.id
              BY <6>3 DEF KeysAfter
            <7>2. k \in Nat \ {0}
              BY <7>1, UuidsAssumption DEF TypeOK
            <7>3. l < k
              BY <2>9, <7>2 DEF End
            <7>4. l \notin KeysAfter(job.id)
              BY <5>1, <6>3, <7>2, <7>3
            <7>5. QED
              BY <2>9, <7>4 DEF KeysAfter
          <6>4. QED
            BY <6>1, <6>2, <6>3 DEF IsFirst
        <5>3. QED
          BY <3>2, <5>1, <5>2
      <4>2. Settled(l)
        BY <2>1, <2>9, <4>1
      <4>3. QED
        BY <2>1, <2>2, <2>3, <2>4, <3>2, <4>2 DEF TypeOK
    <3>3. QED
      BY <3>1, <3>2
  <2>10. LoopDone'
    BY <2>1, <2>2, <2>3, <2>9 DEF TimerAndJob
  <2>11. QED
    BY <2>7, <2>8, <2>10
<1>18. ASSUME SetSizesEnd
      PROVE  Tracking'
  BY <1>18, IdleFacts DEF SetSizesEnd, TypeOK, Timers, JobShape, TimerAndJob
<1>19. ASSUME TimerErases
      PROVE  Tracking'
  BY <1>19, AsleepFacts DEF TimerErases, TypeOK, Without, JobShape, TimerAndJob
<1>20. ASSUME TimerDangles
      PROVE  Tracking'
  BY <1>20 DEF TimerDangles
<1>21. ASSUME AutoDangles
      PROVE  Tracking'
  BY <1>21 DEF AutoDangles
<1>22. ASSUME NEW u \in Uuids, NEW s \in Sizes,
             ClientUploads(u, s)
      PROVE  Tracking'
  BY <1>22 DEF ClientUploads, TypeOK
<1>23. ASSUME Crash
      PROVE  Tracking'
  BY <1>23, DieTypes, IdleFacts, AsleepFacts DEF Crash
<1>24. ASSUME Restart
      PROVE  Tracking'
  BY <1>24 DEF Restart
<1>25. CASE UNCHANGED vars
  BY <1>25 DEF vars
<1>26. QED
  BY <1>2, <1>3, <1>4, <1>5, <1>6, <1>7, <1>8, <1>9, <1>10, <1>11, <1>12, <1>13, <1>14, <1>15, <1>16, <1>17, <1>18, <1>19, <1>20, <1>21, <1>22, <1>23, <1>24, <1>25
     DEF Next, CreateNext, AutoNext, TimerNext

(***************************************************************************)
(* The theorems.                                                           *)
(***************************************************************************)

\* Once an erased entry was used, that stays known.
LEMMA DangledForGood ==
  ASSUME [Next]_vars, dangled
  PROVE  dangled'
BY DEF Next, CreateNext, AutoNext, TimerNext, vars, ghosts, CreateStart, CreateNode,
       CreateNodeFails, Emplace, CreateRemove, CreateInsert, CreateInsertFails,
       AutoStart, AutoFind, AutoChecked, AutoFinish, TimerFires, TimerChecked,
       TimerWaits, SetSizesStart, SetSizesStep, SetSizesEnd, TimerErases,
       TimerDangles, AutoDangles, ClientUploads, Crash, Restart

LEMMA NextIInv == IInv /\ [Next]_vars => IInv'
<1>1. SUFFICES ASSUME IInv, [Next]_vars
               PROVE  IInv'
  OBVIOUS
<1>2. TypeOK' /\ (JobShape /\ TimerAndJob)' /\ (Creating /\ Generated)'
  BY <1>1, NextTypeOK, NextShape, NextGenerated
<1>3. CASE dangled'
  BY <1>2, <1>3 DEF IInv
<1>4. CASE ~dangled'
  <2>1. ~dangled
    BY <1>1, <1>4, DangledForGood
  <2>2. QED
    BY <1>1, <1>2, <1>4, <2>1, NextTracking DEF IInv
<1>5. QED
  BY <1>3, <1>4

\* The inductive invariant holds in every reachable state.
THEOREM SpecIInv == Spec => []IInv
  BY InitIInv, NextIInv, PTL DEF Spec

\* Every variable keeps its type: in particular the iterators of the two loops
\* are keys or end(), and no entry has an id that is none.
THEOREM TypeCorrect == Spec => []TypeOK
<1>1. IInv => TypeOK
  BY DEF IInv
<1>2. QED
  BY <1>1, SpecIInv, PTL

\* No upload that the process knows of is forgotten, whatever the order in
\* which run_timer, update_auto_meta, create and the restarts take their steps.
THEOREM NoUploadForgotten == Spec => []NoSizeLost
<1>1. IInv => NoSizeLost
  BY DEF IInv, Tracking, NoSizeLost
<1>2. QED
  BY <1>1, SpecIInv, PTL

\* While the sync thread iterates over pending_uploads_, the map stays as it is.
LEMMA StepIsStable ==
  ASSUME IInv, [Next]_vars, job.step = "iterate", job'.step = "iterate"
  PROVE  UNCHANGED pending
<1>1. /\ job.op = "setsizes" /\ timer.pc \in {"posted", "waiting"}
      /\ job.op # "none" /\ IInv
  BY DEF IInv, JobShape, TimerAndJob
<1>2. CASE UNCHANGED vars
  BY <1>2 DEF vars
<1>3. CASE CreateNext \/ AutoNext
  BY <1>1, <1>3 DEF CreateNext, AutoNext, CreateStart, CreateNode, CreateNodeFails, Emplace,
       CreateRemove, CreateInsert, CreateInsertFails, AutoStart, AutoFind, AutoChecked,
       AutoFinish
<1>4. CASE TimerNext
  BY <1>1, <1>4 DEF TimerNext, TimerFires, TimerChecked, TimerWaits, SetSizesStart,
       SetSizesStep, SetSizesEnd, TimerErases
<1>5. CASE TimerDangles \/ AutoDangles \/ Crash
  <2>1. ~Die
    BY IdleFacts DEF Die
  <2>2. QED
    BY <1>1, <1>5, <2>1 DEF TimerDangles, AutoDangles, Crash
<1>6. CASE Restart \/ \E u \in Uuids, s \in Sizes : ClientUploads(u, s)
  BY <1>6 DEF Restart, ClientUploads
<1>7. QED
  BY <1>2, <1>3, <1>4, <1>5, <1>6 DEF Next

THEOREM MapStable == Spec => MapStableUnderIteration
<1>1. IInv /\ [Next]_vars =>
        [(job.step = "iterate" /\ job'.step = "iterate") => UNCHANGED pending]_vars
  BY StepIsStable
<1>2. QED
  BY <1>1, SpecIInv, PTL DEF Spec, MapStableUnderIteration

\* The step that writes a size has it from the entry of that object, or writes
\* that of an object which is not in the database yet.
LEMMA StepSizes ==
  ASSUME IInv, [Next]_vars, ~dangled, NEW p \in Paths,
         db[p] # NoObject, db'[p] = db[p], size'[db[p]] # size[db[p]]
  PROVE  node[db[p]] = "full" /\ size'[db[p]] = length[db[p]]
<1>1. TypeOK /\ JobShape /\ Creating /\ TimerAndJob /\ SizesTrue
  BY DEF IInv, Tracking
<1>2. db[p] \in Stored /\ db[p] \in Uuids
  BY <1>1 DEF Stored, TypeOK
<1>3. CASE \E s \in Sizes : CreateInsert(s)
  <2>1. PICK s \in Sizes : CreateInsert(s)
    BY <1>3
  <2>2. job.id # db[p]
    BY <1>1, <1>2, <2>1 DEF CreateInsert, JobShape, Creating
  <2>3. QED
    BY <1>1, <1>2, <2>1, <2>2 DEF CreateInsert, TypeOK
<1>4. CASE AutoFinish
  BY <1>1, <1>2, <1>4 DEF AutoFinish, SetObjectSize, SizesTrue, TypeOK
<1>5. CASE \E k \in Cursors : SetSizesStep(k)
  <2>1. PICK k \in Cursors : SetSizesStep(k)
    BY <1>5
  <2>2. job.id \in Keys
    BY <1>1, <2>1 DEF SetSizesStep, TimerAndJob, JobShape
  <2>3. QED
    BY <1>1, <1>2, <2>1, <2>2 DEF SetSizesStep, SetObjectSize, SizesTrue, TypeOK
<1>6. CASE size' = size
  BY <1>6
<1>7. QED
  BY <1>3, <1>4, <1>5, <1>6
     DEF Next, CreateNext, AutoNext, TimerNext, vars, record, CreateStart, CreateNode,
       CreateNodeFails, Emplace, CreateRemove, CreateInsertFails, AutoStart, AutoFind,
       AutoChecked, TimerFires, TimerChecked, TimerWaits, SetSizesStart, SetSizesEnd,
       TimerErases, TimerDangles, AutoDangles, ClientUploads, Crash, Restart

\* A size in the database changes to the length of the file of that very object.
THEOREM SizesAreLengths == Spec => SizeChangesToLength
<1>1. IInv /\ [Next]_vars =>
        [\A p \in Paths :
           (db[p] # NoObject /\ db'[p] = db[p] /\ size'[db[p]] # size[db[p]]) =>
             \/ dangled
             \/ node[db[p]] = "full" /\ size'[db[p]] = length[db[p]]]_vars
  BY StepSizes
<1>2. QED
  BY <1>1, SpecIInv, PTL DEF Spec, SizeChangesToLength

(***************************************************************************)
(* UploadTracking implements Uploads.  What the abstract steps ask of nodes*)
(* and places is inductive together with IInv.                             *)
(***************************************************************************)

\* A node is made for the object that is being created, and only nodes are
\* tracked.
Nodes ==
  /\ job.step = "node" => node[job.id] = "none"
  /\ job.step = "emplace" => node[job.id] # "none"
  /\ job.step \in {"remove", "insert"} /\ node[job.id] # "none" => job.id \in known
  /\ \A u \in Uuids \ used : node[u] = "none"
  /\ \A u \in known : node[u] # "none"
  /\ job.op = "autometa" => job.id \in used \union {NoObject}

\* An object is at one path; what a create overwrites is what is at its path.
Places ==
  /\ \A p, q \in Paths : db[p] = db[q] /\ db[p] # NoObject => p = q
  /\ job.step \in {"node", "emplace", "remove"} => db[job.path] = job.old
  /\ job.step = "insert" => db[job.path] = NoObject

LEMMA InitMaking == Init => Nodes /\ Places
  BY IdleFacts DEF Init, Nodes, Places

\* The coroutine of update_auto_meta stays with its object.
LEMMA AutoMoves ==
  ASSUME job \in Jobs, AutoFind \/ \E answered \in BOOLEAN : AutoChecked(answered)
  PROVE  /\ job'.op = job.op /\ job'.id = job.id /\ job'.step \in {"checking", "unlocked"}
         /\ UNCHANGED <<db, size, used, node, length, known>>
<1>1. CASE AutoFind
  BY <1>1 DEF AutoFind, Jobs, record, shock, ghosts
<1>2. CASE \E answered \in BOOLEAN : AutoChecked(answered)
  <2>1. PICK answered \in BOOLEAN : AutoChecked(answered)
    BY <1>2
  <2>2. PICK upd, s :
          job' = [job EXCEPT !.step = "unlocked", !.updated = upd, !.size = s]
    BY <2>1, Zenon DEF AutoChecked
  <2>3. job'.op = job.op /\ job'.id = job.id /\ job'.step = "unlocked"
    BY <2>2 DEF Jobs
  <2>4. UNCHANGED <<db, size, used, node, length, known>>
    BY <2>1 DEF AutoChecked, record, shock, ghosts
  <2>5. QED
    BY <2>3, <2>4
<1>3. QED
  BY <1>1, <1>2

LEMMA NextNodes ==
  ASSUME IInv, Nodes, [Next]_vars
  PROVE  Nodes'
<1>1. TypeOK /\ JobShape /\ Creating /\ Generated
  BY DEF IInv
<1> USE <1>1, UuidsAssumption
<1> USE DEF Nodes, record, shock, ghosts
<1>2. ASSUME NEW p \in Paths, NEW u \in Uuids,
             NEW overwrite \in BOOLEAN, NEW createUploadNodes \in BOOLEAN,
             CreateStart(p, u, overwrite, createUploadNodes)
      PROVE  Nodes'
  BY <1>2 DEF CreateStart, Job
<1>3. ASSUME CreateNode
      PROVE  Nodes'
  BY <1>3 DEF CreateNode, TypeOK, Jobs, JobShape, Creating
<1>4. ASSUME NEW made \in BOOLEAN, CreateNodeFails(made)
      PROVE  Nodes'
  BY <1>4, IdleFacts DEF CreateNodeFails, TypeOK, JobShape, Creating
<1>5. ASSUME Emplace
      PROVE  Nodes'
  BY <1>5 DEF Emplace, TypeOK, Jobs, JobShape, Creating
<1>6. ASSUME CreateRemove
      PROVE  Nodes'
  BY <1>6 DEF CreateRemove, TypeOK, Jobs, JobShape
<1>7. ASSUME (\E s \in Sizes : CreateInsert(s)) \/ CreateInsertFails \/ AutoFinish
      PROVE  Nodes'
  BY <1>7, IdleFacts DEF CreateInsert, CreateInsertFails, AutoFinish
<1>8. ASSUME NEW p \in Paths, AutoStart(p)
      PROVE  Nodes'
  BY <1>8 DEF AutoStart, Job, Generated, Stored, TypeOK
<1>9. ASSUME AutoFind \/ \E answered \in BOOLEAN : AutoChecked(answered)
      PROVE  Nodes'
  <2>1. /\ job'.op = job.op /\ job'.id = job.id /\ job'.step \in {"checking", "unlocked"}
        /\ UNCHANGED <<node, used, known>>
    BY <1>9, AutoMoves DEF TypeOK
  <2>2. QED
    BY <2>1
<1>10. ASSUME TimerNext
      PROVE  Nodes'
  <2>1. CASE \E k \in Cursors : SetSizesStart(k) \/ SetSizesStep(k)
    BY <2>1 DEF SetSizesStart, SetSizesStep, Job, TypeOK, Jobs, JobShape
  <2>2. CASE SetSizesEnd
    BY <2>2, IdleFacts DEF SetSizesEnd
  <2>3. CASE UNCHANGED <<job, node, used, known>>
    BY <2>3
  <2>4. QED
    BY <1>10, <2>1, <2>2, <2>3 DEF TimerNext, TimerFires, TimerChecked, TimerWaits, TimerErases
<1>11. ASSUME TimerDangles \/ AutoDangles \/ Crash
      PROVE  Nodes'
  <2>1. CASE Die /\ UNCHANGED <<node, used>>
    BY <2>1, DieTypes, IdleFacts
  <2>2. CASE UNCHANGED <<job, node, used, known>>
    BY <2>2
  <2>3. CASE AutoDangles /\ ~Die
    <3>1. /\ job'.step = "unlocked" /\ job'.id = job.id /\ job'.op = job.op
          /\ UNCHANGED <<node, used, known>>
      BY <2>3 DEF AutoDangles, TypeOK, Jobs
    <3>2. QED
      BY <3>1
  <2>4. QED
    BY <1>11, <2>1, <2>2, <2>3 DEF TimerDangles, AutoDangles, Crash
<1>12. ASSUME NEW u \in Uuids, NEW s \in Sizes, ClientUploads(u, s)
      PROVE  Nodes'
  BY <1>12 DEF ClientUploads, TypeOK
<1>13. CASE Restart \/ UNCHANGED vars
  BY <1>13 DEF Restart, vars
<1>14. QED
  BY <1>2, <1>3, <1>4, <1>5, <1>6, <1>7, <1>8, <1>9, <1>10, <1>11, <1>12, <1>13
     DEF Next, CreateNext, AutoNext

LEMMA NextPlaces ==
  ASSUME IInv, Places, [Next]_vars
  PROVE  Places'
<1>1. TypeOK /\ JobShape /\ Creating
  BY DEF IInv
<1> USE <1>1, UuidsAssumption
<1> USE DEF Places, record, shock, ghosts
<1>2. ASSUME NEW p \in Paths, NEW u \in Uuids,
             NEW overwrite \in BOOLEAN, NEW createUploadNodes \in BOOLEAN,
             CreateStart(p, u, overwrite, createUploadNodes)
      PROVE  Places'
  BY <1>2 DEF CreateStart, Job
<1>3. ASSUME CreateNode \/ Emplace
      PROVE  Places'
  BY <1>3 DEF CreateNode, Emplace, TypeOK, Jobs
<1>4. ASSUME CreateRemove
      PROVE  Places'
  BY <1>4 DEF CreateRemove, TypeOK, Jobs, JobShape, Creating
<1>5. ASSUME NEW s \in Sizes, CreateInsert(s)
      PROVE  Places'
  BY <1>5, IdleFacts DEF CreateInsert, TypeOK, JobShape, Creating, Stored
<1>6. ASSUME \/ \E made \in BOOLEAN : CreateNodeFails(made)
             \/ CreateInsertFails \/ AutoFinish
      PROVE  Places'
  BY <1>6, IdleFacts DEF CreateNodeFails, CreateInsertFails, AutoFinish
<1>7. ASSUME \/ \E p \in Paths : AutoStart(p)
             \/ AutoFind \/ \E answered \in BOOLEAN : AutoChecked(answered)
      PROVE  Places'
  <2>1. job'.step \in {"spawned", "checking", "unlocked"} /\ UNCHANGED db
    BY <1>7, AutoMoves DEF AutoStart, Job, TypeOK
  <2>2. QED
    BY <2>1
<1>8. ASSUME TimerNext
      PROVE  Places'
  <2>1. CASE \E k \in Cursors : SetSizesStart(k) \/ SetSizesStep(k)
    BY <2>1 DEF SetSizesStart, SetSizesStep, Job, TypeOK, Jobs
  <2>2. CASE SetSizesEnd
    BY <2>2, IdleFacts DEF SetSizesEnd
  <2>3. CASE UNCHANGED <<job, db>>
    BY <2>3
  <2>4. QED
    BY <1>8, <2>1, <2>2, <2>3 DEF TimerNext, TimerFires, TimerChecked, TimerWaits, TimerErases
<1>9. ASSUME TimerDangles \/ AutoDangles \/ Crash
      PROVE  Places'
  <2>1. CASE Die /\ UNCHANGED db
    BY <2>1, DieTypes, IdleFacts
  <2>2. CASE UNCHANGED <<job, db>>
    BY <2>2
  <2>3. CASE AutoDangles /\ ~Die
    <3>1. job'.step = "unlocked" /\ UNCHANGED db
      BY <2>3 DEF AutoDangles, TypeOK, Jobs
    <3>2. QED
      BY <3>1
  <2>4. QED
    BY <1>9, <2>1, <2>2, <2>3 DEF TimerDangles, AutoDangles, Crash
<1>10. CASE (\E u \in Uuids, s \in Sizes : ClientUploads(u, s)) \/ Restart \/ UNCHANGED vars
  BY <1>10 DEF ClientUploads, Restart, vars
<1>11. QED
  BY <1>2, <1>3, <1>4, <1>5, <1>6, <1>7, <1>8, <1>9, <1>10 DEF Next, CreateNext, AutoNext

\* A node is tracked before its object is in the database, and a create
\* overwrites one object at most.
LEMMA SpecMaking == Spec => [](Nodes /\ Places)
<1>1. IInv /\ Nodes /\ Places /\ [Next]_vars => (Nodes /\ Places)'
  BY NextNodes, NextPlaces
<1>2. QED
  BY InitMaking, SpecIInv, <1>1, PTL DEF Spec

\* What Stage and Awaited see of the job.
Making(u) == job.op = "create" /\ job.id = u
Sent(u)   == job.op = "autometa" /\ job.updated /\ job.id = u

LEMMA StageStays ==
  ASSUME used' = used, Stored' = Stored, \A u \in Uuids : Making(u)' <=> Making(u)
  PROVE  Stage' = Stage
  BY DEF Stage, Making

LEMMA StageChanges ==
  ASSUME NEW u \in Uuids, NEW s, Stage'[u] = s, \A v \in Uuids \ {u} : Stage'[v] = Stage[v]
  PROVE  Promise!Becomes(u, s)
<1>1. /\ Stage' = [v \in Uuids |-> Stage'[v]]
      /\ Stage = [v \in Uuids |-> Stage[v]]
  BY DEF Stage
<1>2. DOMAIN Stage = Uuids
  BY DEF Stage
<1> HIDE DEF Stage
<1>3. Stage' = [Stage EXCEPT ![u] = s]
  BY <1>1, <1>2
<1>4. QED
  BY <1>3 DEF Promise!Becomes

LEMMA AwaitedStays ==
  ASSUME Keys' = Keys, \A u \in Uuids : Sent(u)' <=> Sent(u)
  PROVE  Awaited' = Awaited
  BY DEF Awaited, Sent

LEMMA Stutter ==
  ASSUME used' = used, Stored' = Stored, \A u \in Uuids : Making(u)' <=> Making(u),
         Awaited' = Awaited, UNCHANGED <<node, length, size, dangled>>
  PROVE  UNCHANGED Promise!vars
<1>1. Stage' = Stage
  BY StageStays
<1> HIDE DEF Stage, Awaited
<1>2. QED
  BY <1>1 DEF Promise!vars

LEMMA BeginRefines ==
  ASSUME IInv, NEW p \in Paths, NEW u \in Uuids,
         NEW overwrite \in BOOLEAN, NEW createUploadNodes \in BOOLEAN,
         CreateStart(p, u, overwrite, createUploadNodes)
  PROVE  Promise!Begin(u)
<1>1. /\ job.op = "none" /\ u \notin used /\ used' = used \union {u}
      /\ job'.op = "create" /\ job'.id = u
      /\ UNCHANGED <<db, size, node, length, pending, dangled>>
  BY DEF CreateStart, Job, shock, ghosts
<1>2. Stage[u] = "new" /\ \A v \in Uuids : Stage[v] # "making"
  BY <1>1 DEF Stage
<1>3. Stage'[u] = "making" /\ \A v \in Uuids \ {u} : Stage'[v] = Stage[v]
  BY <1>1 DEF Stage, Stored
<1>4. Awaited' = Awaited
  BY <1>1, AwaitedStays DEF Keys, Sent
<1>5. Promise!Becomes(u, "making")
  BY <1>3, StageChanges
<1> HIDE DEF Stage, Awaited
<1>6. QED
  BY <1>1, <1>2, <1>4, <1>5 DEF Promise!Begin

LEMMA MakeNodeRefines ==
  ASSUME IInv, Nodes, CreateNode
  PROVE  job.id \in Uuids /\ Promise!MakeNode(job.id)
<1>1. /\ job.op = "create" /\ job.id \in used /\ job.id \in Uuids /\ node[job.id] = "none"
      /\ job' = [job EXCEPT !.step = "emplace"] /\ job \in Jobs
      /\ node' = [node EXCEPT ![job.id] = "empty"]
      /\ UNCHANGED <<db, size, used, length, pending, dangled>>
  BY DEF CreateNode, IInv, TypeOK, JobShape, Creating, Nodes, record, ghosts
<1>2. job'.op = job.op /\ job'.id = job.id
  BY <1>1 DEF Jobs
<1>3. Stage[job.id] = "making"
  BY <1>1 DEF Stage
<1>4. Stage' = Stage
  BY <1>1, <1>2, StageStays DEF Making, Stored
<1>5. Awaited' = Awaited
  BY <1>1, <1>2, AwaitedStays DEF Keys, Sent
<1> HIDE DEF Stage, Awaited
<1>6. QED
  BY <1>1, <1>3, <1>4, <1>5 DEF Promise!MakeNode

LEMMA AwaitRefines ==
  ASSUME IInv, Nodes, Emplace
  PROVE  job.id \in Uuids /\ Promise!Await(job.id)
<1>1. /\ job.op = "create" /\ job.id \in used /\ job.id \in Uuids /\ node[job.id] # "none"
      /\ job.id \notin Keys
      /\ job' = [job EXCEPT !.step = "remove"] /\ job \in Jobs
      /\ Keys' = Keys \union {job.id}
      /\ UNCHANGED <<db, size, used, node, length, dangled>>
  BY DEF Emplace, IInv, TypeOK, JobShape, Creating, Generated, Nodes, record, shock, Keys
<1>2. job'.op = job.op /\ job'.id = job.id
  BY <1>1 DEF Jobs
<1>3. Stage[job.id] = "making"
  BY <1>1 DEF Stage
<1>4. Stage' = Stage
  BY <1>1, <1>2, StageStays DEF Making, Stored
<1>5. Awaited = Keys /\ Awaited' = Keys'
  BY <1>1, <1>2 DEF Awaited
<1> HIDE DEF Stage, Awaited
<1>6. QED
  BY <1>1, <1>3, <1>4, <1>5 DEF Promise!Await

\* Both ways in which a create ends without an object.
LEMMA AbandonRefines ==
  ASSUME IInv, Nodes, (\E made \in BOOLEAN : CreateNodeFails(made)) \/ CreateInsertFails
  PROVE  job.id \in Uuids /\ Promise!Abandon(job.id)
<1>1. /\ job.op = "create" /\ job.id \in used \ Stored /\ job.id \in Uuids
      /\ node[job.id] = "none" /\ job.id \notin Keys
      /\ job' = Idle
      /\ UNCHANGED <<db, size, used, length, pending, dangled>>
  BY DEF CreateNodeFails, CreateInsertFails, IInv, TypeOK, JobShape, Creating, Generated,
         Nodes, record, shock, ghosts
<1>2. node' \in {node, [node EXCEPT ![job.id] = "empty"]}
  BY DEF CreateNodeFails, CreateInsertFails, shock, IInv, TypeOK
<1>3. Stage[job.id] = "making" /\ Stage'[job.id] = "gone"
  BY <1>1, IdleFacts DEF Stage, Stored
<1>4. \A v \in Uuids \ {job.id} : Stage'[v] = Stage[v]
  BY <1>1, IdleFacts DEF Stage, Stored
<1>5. Promise!Becomes(job.id, "gone")
  BY <1>1, <1>3, <1>4, StageChanges
<1>6. Awaited = Keys /\ Awaited' = Keys'
  BY <1>1, IdleFacts DEF Awaited
<1>7. Awaited' = Awaited /\ job.id \notin Awaited
  BY <1>1, <1>6 DEF Keys
<1> HIDE DEF Stage, Awaited
<1>8. QED
  BY <1>1, <1>2, <1>3, <1>5, <1>7 DEF Promise!Abandon

LEMMA ReplaceRefines ==
  ASSUME IInv, Places, CreateRemove
  PROVE  (\E u \in Uuids : Promise!Replace(u)) \/ UNCHANGED Promise!vars
<1>1. /\ job.op = "create" /\ job.id \in used \ Stored /\ job.id \in Uuids
      /\ job.path \in Paths /\ db[job.path] = job.old
      /\ db \in [Paths -> Uuids \union {NoObject}] /\ Stored \subseteq used
      /\ job' = [job EXCEPT !.step = "insert"] /\ job \in Jobs
      /\ db' = [db EXCEPT ![job.path] = IF job.old = NoObject THEN @ ELSE NoObject]
      /\ UNCHANGED <<size, used, node, length, pending, dangled>>
  BY DEF CreateRemove, IInv, TypeOK, JobShape, Creating, Generated, Places, shock, ghosts
<1>2. job'.op = job.op /\ job'.id = job.id
  BY <1>1 DEF Jobs
<1>3. Awaited' = Awaited
  BY <1>1, <1>2, AwaitedStays DEF Keys, Sent
<1>4. CASE job.old = NoObject
  <2>1. db' = db
    BY <1>1, <1>4
  <2>2. QED
    BY <1>1, <1>2, <1>3, <2>1, Stutter DEF Making, Stored
<1>5. CASE job.old # NoObject
  <2>1. job.old \in Stored /\ job.old \in Uuids /\ job.old # job.id
    BY <1>1, <1>5 DEF Stored
  <2>2. Stored' = Stored \ {job.old}
    <3>1. \A q \in Paths : db'[q] = IF q = job.path THEN NoObject ELSE db[q]
      BY <1>1, <1>5
    <3>2. \A q \in Paths : q # job.path => db[q] # job.old
      BY <1>1, <1>5 DEF Places
    <3>3. QED
      BY <1>1, <3>1, <3>2 DEF Stored
  <2>3. /\ Stage[job.old] = "stored" /\ Stage'[job.old] = "gone"
        /\ \A v \in Uuids \ {job.old} : Stage'[v] = Stage[v]
    BY <1>1, <1>2, <2>1, <2>2 DEF Stage
  <2>4. Stage[job.id] = "making"
    BY <1>1 DEF Stage
  <2>5. Promise!Becomes(job.old, "gone")
    BY <2>1, <2>3, StageChanges
  <2> HIDE DEF Stage, Awaited
  <2>6. Promise!Replace(job.old)
    BY <1>1, <1>3, <2>3, <2>4, <2>5 DEF Promise!Replace
  <2>7. QED
    BY <2>1, <2>6
<1>6. QED
  BY <1>4, <1>5

LEMMA InsertRefines ==
  ASSUME IInv, Nodes, Places, ~dangled, NEW s \in Sizes, CreateInsert(s)
  PROVE  job.id \in Uuids /\ Promise!Insert(job.id, s)
<1>1. /\ job.op = "create" /\ job.step = "insert"
      /\ job.id \in used \ Stored /\ job.id \in Uuids
      /\ job.path \in Paths /\ db[job.path] = NoObject
      /\ db \in [Paths -> Uuids \union {NoObject}]
      /\ node[job.id] = "none" \/ s = 0
      /\ job' = Idle
      /\ db' = [db EXCEPT ![job.path] = job.id]
      /\ size' = [size EXCEPT ![job.id] = s]
      /\ UNCHANGED <<used, node, length, pending, dangled>>
  BY DEF CreateInsert, IInv, TypeOK, JobShape, Creating, Places, shock, ghosts
<1>2. node[job.id] # "none" => job.id \in Keys
  BY <1>1 DEF IInv, Tracking, EntryThere, Nodes
<1>3. Stored' = Stored \union {job.id}
  <2>1. \A q \in Paths : db'[q] = IF q = job.path THEN job.id ELSE db[q]
    BY <1>1
  <2>2. job.id # NoObject
    BY <1>1, UuidsAssumption
  <2>3. QED
    BY <1>1, <2>1, <2>2 DEF Stored
<1>4. /\ Stage[job.id] = "making" /\ Stage'[job.id] = "stored"
      /\ \A v \in Uuids \ {job.id} : Stage'[v] = Stage[v]
  BY <1>1, <1>3, IdleFacts DEF Stage
<1>5. Promise!Becomes(job.id, "stored")
  BY <1>1, <1>4, StageChanges
<1>6. Awaited = Keys /\ Awaited' = Keys'
  BY <1>1, IdleFacts DEF Awaited
<1>7. Awaited' = Awaited /\ (node[job.id] # "none" => job.id \in Awaited)
  BY <1>1, <1>2, <1>6 DEF Keys
<1> HIDE DEF Stage, Awaited
<1>8. QED
  BY <1>1, <1>4, <1>5, <1>7 DEF Promise!Insert

\* The size is handed from the entry to the job, and stays awaited.
LEMMA AutoRefines ==
  ASSUME IInv,
         \/ \E p \in Paths : AutoStart(p)
         \/ AutoFind \/ \E answered \in BOOLEAN : AutoChecked(answered)
  PROVE  dangled' = dangled => UNCHANGED Promise!vars
<1> SUFFICES ASSUME dangled' = dangled PROVE UNCHANGED Promise!vars
  OBVIOUS
<1>1. job \in Jobs /\ JobShape
  BY DEF IInv, TypeOK
<1>2. CASE \E p \in Paths : AutoStart(p)
  <2>1. /\ job.op = "none" /\ job'.op = "autometa" /\ ~job'.updated
        /\ UNCHANGED <<db, size, used, node, length, pending>>
    BY <1>2 DEF AutoStart, Job, record, shock
  <2>2. Awaited' = Awaited
    BY <2>1, AwaitedStays DEF Keys, Sent
  <2>3. QED
    BY <2>1, <2>2, Stutter DEF Making, Stored
<1>3. CASE AutoFind \/ \E answered \in BOOLEAN : AutoChecked(answered)
  <2>1. /\ job'.op = job.op /\ job'.id = job.id /\ job.op = "autometa"
        /\ UNCHANGED <<db, size, used, node, length>>
    BY <1>1, <1>3, AutoMoves DEF AutoFind, AutoChecked, JobShape
  <2>2. CASE AutoFind
    <3>1. job'.updated = job.updated /\ UNCHANGED pending
      BY <1>1, <2>2 DEF AutoFind, Jobs
    <3>2. QED
      BY <2>1, <3>1, AwaitedStays, Stutter DEF Keys, Sent, Making, Stored
  <2>3. CASE \E answered \in BOOLEAN : AutoChecked(answered)
    <3>1. PICK answered \in BOOLEAN : AutoChecked(answered)
      BY <2>3
    <3> DEFINE entry == Checked(job.id, answered)
    <3>2. /\ job.id \in Keys /\ job.id \in Uuids /\ ~job.updated
          /\ pending' = (IF entry.updated THEN Without({job.id}) ELSE pending)
      BY <1>1, <3>1 DEF AutoChecked, JobShape
    <3>3. PICK z : job' = [job EXCEPT !.step = "unlocked", !.updated = entry.updated, !.size = z]
      BY <3>1, Zenon DEF AutoChecked
    <3> HIDE DEF entry
    <3>4. job'.updated = entry.updated
      BY <1>1, <3>3 DEF Jobs
    <3>5. Awaited' = Awaited
      <4>1. CASE entry.updated = TRUE
        <5>1. Keys' = Keys \ {job.id}
          BY <3>2, <4>1 DEF Keys, Without
        <5>2. QED
          BY <2>1, <3>2, <3>4, <4>1, <5>1 DEF Awaited
      <4>2. CASE ~entry.updated
        BY <2>1, <3>2, <3>4, <4>2, AwaitedStays DEF Keys, Sent
      <4>3. QED
        <5>1. entry.updated \in BOOLEAN
          BY <1>1, <3>2 DEF entry, Checked, IInv, TypeOK, Entry, Keys
        <5>2. QED
          BY <4>1, <4>2, <5>1
    <3>6. QED
      BY <2>1, <3>5, Stutter DEF Making, Stored
  <2>4. QED
    BY <1>3, <2>2, <2>3
<1>4. QED
  BY <1>2, <1>3

\* The end of update_auto_meta records the size it was handed; without an
\* object there is nothing left to be done.
LEMMA FinishRefines ==
  ASSUME IInv, Nodes, ~dangled, AutoFinish
  PROVE  \/ \E u \in Uuids : Promise!Record(u)
         \/ \E S \in SUBSET Awaited : Promise!Resolve(S)
         \/ UNCHANGED Promise!vars
<1>1. /\ job.op = "autometa" /\ job' = Idle
      /\ job.updated => job.id \in Uuids /\ node[job.id] = "full" /\ job.size = length[job.id]
      /\ size \in [Uuids -> Sizes]
      /\ UNCHANGED <<db, used, node, length, pending, dangled>>
  BY DEF AutoFinish, IInv, TypeOK, JobShape, Tracking, SizesTrue, shock, ghosts
<1>2. Stage' = Stage
  BY <1>1, IdleFacts, StageStays DEF Making, Stored
<1>3. Awaited' = Keys
  BY <1>1, IdleFacts DEF Awaited, Keys
<1>4. CASE ~job.updated
  <2>1. size' = size /\ Awaited = Keys
    BY <1>1, <1>4 DEF AutoFinish, Awaited
  <2> HIDE DEF Stage, Awaited
  <2>2. QED
    BY <1>1, <1>2, <1>3, <2>1 DEF Promise!vars
<1>5. CASE job.updated
  <2>1. /\ job.id \in Awaited
        /\ Awaited = Keys \union {job.id}
    BY <1>1, <1>5 DEF Awaited
  <2>2. size' = [size EXCEPT ![job.id] = IF job.id \in Stored THEN length[job.id] ELSE @]
    BY <1>1, <1>5 DEF AutoFinish, SetObjectSize
  <2>3. job.id \in used
    BY <1>1, <1>5, UuidsAssumption DEF Nodes
  <2>4. CASE job.id \in Stored
    <3>1. Stage[job.id] = "stored"
      BY <1>1, <1>5, <2>3, <2>4 DEF Stage
    <3>2. Awaited' \in {Awaited, Awaited \ {job.id}}
      BY <1>3, <2>1
    <3> HIDE DEF Stage, Awaited
    <3>3. size' = [size EXCEPT ![job.id] = length[job.id]]
      BY <2>2, <2>4
    <3>4. Promise!Record(job.id)
      BY <1>1, <1>2, <1>5, <2>1, <3>1, <3>2, <3>3 DEF Promise!Record
    <3>5. QED
      BY <1>1, <1>5, <3>4
  <2>5. CASE job.id \notin Stored
    <3>1. Stage[job.id] = "gone"
      BY <1>1, <1>5, <2>3, <2>5 DEF Stage
    <3>2. size' = size
      BY <1>1, <1>5, <2>2, <2>5
    <3> DEFINE S == Awaited \ Keys
    <3>3. S \in SUBSET Awaited /\ S \subseteq {job.id} /\ Awaited' = Awaited \ S
      BY <1>3, <2>1
    <3> HIDE DEF S, Stage, Awaited
    <3>4. Promise!Resolve(S)
      BY <1>1, <1>2, <3>1, <3>2, <3>3 DEF Promise!Resolve
    <3>5. QED
      BY <3>3, <3>4
  <2>6. QED
    BY <2>4, <2>5
<1>6. QED
  BY <1>4, <1>5

\* The sync thread at one entry of the map.
LEMMA SetSizesRefines ==
  ASSUME IInv, ~dangled, NEW k \in Cursors, SetSizesStep(k)
  PROVE  (\E u \in Uuids : Promise!Record(u)) \/ UNCHANGED Promise!vars
<1>1. /\ job.op = "setsizes" /\ job.id \in Keys /\ job.id \in Uuids /\ job \in Jobs
      /\ job.id \in used
      /\ size \in [Uuids -> Sizes]
      /\ job' = [job EXCEPT !.id = k]
      /\ UNCHANGED <<db, used, node, length, pending, dangled>>
  BY DEF SetSizesStep, IInv, TypeOK, JobShape, TimerAndJob, Generated, Keys, shock, ghosts
<1>2. job'.op = job.op
  BY <1>1 DEF Jobs
<1>3. Stage' = Stage
  BY <1>1, <1>2, StageStays DEF Making, Stored
<1>4. Awaited' = Awaited /\ job.id \in Awaited
  <2>1. Awaited' = Awaited
    BY <1>1, <1>2, AwaitedStays DEF Keys, Sent
  <2>2. job.id \in Awaited
    BY <1>1 DEF Awaited
  <2>3. QED
    BY <2>1, <2>2
<1>5. CASE pending[job.id].updated /\ job.id \in Stored
  <2>1. node[job.id] = "full" /\ pending[job.id].size = length[job.id]
    BY <1>1, <1>5 DEF IInv, Tracking, SizesTrue
  <2>2. size' = [size EXCEPT ![job.id] = length[job.id]]
    BY <1>5, <2>1 DEF SetSizesStep, SetObjectSize
  <2>3. Stage[job.id] = "stored"
    BY <1>1, <1>5 DEF Stage
  <2> HIDE DEF Stage, Awaited
  <2>4. Promise!Record(job.id)
    BY <1>1, <1>3, <1>4, <2>1, <2>2, <2>3 DEF Promise!Record
  <2>5. QED
    BY <1>1, <2>4
<1>6. CASE ~(pending[job.id].updated /\ job.id \in Stored)
  <2>1. size' = size
    BY <1>1, <1>6 DEF SetSizesStep, SetObjectSize
  <2> HIDE DEF Stage, Awaited
  <2>2. QED
    BY <1>1, <1>3, <1>4, <2>1 DEF Promise!vars
<1>7. QED
  BY <1>5, <1>6

\* The timer's coroutine erases what its job has dealt with.
LEMMA EraseRefines ==
  ASSUME IInv, ~dangled, TimerErases
  PROVE  \E S \in SUBSET Awaited : Promise!Resolve(S)
<1>1. /\ timer.pc = "woken"
      /\ Keys' = Keys \ {k \in Keys : pending[k].updated}
      /\ Keys \subseteq used /\ Keys \subseteq Uuids
      /\ UNCHANGED <<db, size, used, node, length, job, dangled>>
  BY DEF TimerErases, IInv, TypeOK, Generated, Keys, Without, record, shock, ghosts
<1> DEFINE S == Awaited \ Awaited'
<1>2. \A u \in S : u \in Keys /\ pending[u].updated
  BY <1>1 DEF Awaited
<1>3. Awaited' = Awaited \ S /\ S \in SUBSET Awaited
  BY <1>1 DEF Awaited
<1>4. ASSUME NEW u \in S
      PROVE  \/ Stage[u] = "gone"
             \/ Stage[u] = "stored" /\ node[u] = "full" /\ size[u] = length[u]
  <2>1. u \in Keys /\ u \in used /\ u \in Uuids /\ Settled(u)
    BY <1>1, <1>2, <1>4 DEF IInv, Tracking, LoopDone
  <2>2. QED
    BY <2>1 DEF Settled, Recorded, Stage
<1>5. Stage' = Stage
  BY <1>1, StageStays DEF Making, Stored
<1> HIDE DEF S, Stage, Awaited
<1>6. Promise!Resolve(S)
  BY <1>1, <1>3, <1>4, <1>5 DEF Promise!Resolve
<1>7. QED
  BY <1>3, <1>6

\* The other steps of the timer and its job are not seen.
LEMMA TimerRefines ==
  ASSUME IInv,
         \/ \E k \in Cursors : TimerFires(k)
         \/ \E answered \in BOOLEAN, k \in Cursors : TimerChecked(answered, k)
         \/ TimerWaits
         \/ \E k \in Cursors : SetSizesStart(k)
         \/ SetSizesEnd
  PROVE  UNCHANGED Promise!vars
<1>1. UNCHANGED <<db, size, used, node, length, dangled>>
  BY DEF TimerFires, TimerChecked, TimerWaits, SetSizesStart, SetSizesEnd, record, shock, ghosts
<1>2. Keys' = Keys
  BY DEF TimerFires, TimerChecked, TimerWaits, SetSizesStart, SetSizesEnd, Keys
<1>3. \/ job' = job
      \/ job.op \in {"none", "setsizes"} /\ job'.op \in {"none", "setsizes"}
  BY IdleFacts DEF IInv, JobShape, TimerFires, TimerChecked, TimerWaits, SetSizesStart,
       SetSizesEnd, Job
<1>4. Awaited' = Awaited
  BY <1>2, <1>3, AwaitedStays DEF Sent
<1>5. QED
  BY <1>1, <1>3, <1>4, Stutter DEF Making, Stored

LEMMA UploadRefines ==
  ASSUME NEW u \in Uuids, NEW s \in Sizes, ClientUploads(u, s)
  PROVE  Promise!Upload(u, s)
<1>1. UNCHANGED <<db, size, used, pending, job, dangled>>
  BY DEF ClientUploads, record, ghosts
<1>2. Stage' = Stage
  BY <1>1, StageStays DEF Making, Stored
<1>3. Awaited' = Awaited
  BY <1>1, AwaitedStays DEF Keys, Sent
<1> HIDE DEF Stage, Awaited
<1>4. QED
  BY <1>1, <1>2, <1>3 DEF ClientUploads, Promise!Upload

LEMMA CrashRefines ==
  ASSUME IInv, Crash
  PROVE  Promise!Lose
<1>1. /\ job' = Idle /\ Keys' = {}
      /\ UNCHANGED <<db, size, used, node, length, dangled>>
  BY DieTypes DEF Crash, Keys, record, shock
<1>2. Awaited' = {}
  BY <1>1, IdleFacts DEF Awaited
<1>3. job.op = "create" => job.id \notin Stored
  BY DEF IInv, Creating
<1>4. Stage' = [u \in Uuids |-> IF Stage[u] = "making" THEN "gone" ELSE Stage[u]]
  BY <1>1, <1>3, IdleFacts DEF Stage, Stored
<1> HIDE DEF Stage, Awaited
<1>5. QED
  BY <1>1, <1>2, <1>4 DEF Promise!Lose

LEMMA StepRefines ==
  ASSUME IInv, Nodes, Places, [Next]_vars
  PROVE  [Promise!Next]_(Promise!vars)
<1> HIDE DEF Stage, Awaited
<1>1. CASE dangled'
  BY <1>1, Zenon DEF Promise!Next, Promise!Break
<1>2. CASE ~dangled'
  <2> USE DEF Promise!Next
  <2>1. ~dangled
    BY <1>2, DangledForGood
  <2>2. CASE CreateNext
    BY <2>1, <2>2, BeginRefines, MakeNodeRefines, AwaitRefines, AbandonRefines,
       ReplaceRefines, InsertRefines DEF CreateNext
  <2>3. CASE AutoNext
    <3>1. CASE AutoFinish
      BY <2>1, <3>1, FinishRefines
    <3>2. CASE ~AutoFinish
      <4>1. \/ \E p \in Paths : AutoStart(p)
            \/ AutoFind \/ \E answered \in BOOLEAN : AutoChecked(answered)
        BY <2>3, <3>2 DEF AutoNext
      <4>2. dangled' = dangled
        BY <4>1 DEF AutoStart, AutoFind, AutoChecked, ghosts
      <4>3. QED
        BY <4>1, <4>2, AutoRefines
    <3>3. QED
      BY <3>1, <3>2
  <2>4. CASE TimerNext
    BY <2>1, <2>4, SetSizesRefines, EraseRefines, TimerRefines DEF TimerNext
  <2>5. CASE TimerDangles \/ AutoDangles
    BY <1>2, <2>5 DEF TimerDangles, AutoDangles
  <2>6. CASE \E u \in Uuids, s \in Sizes : ClientUploads(u, s)
    BY <2>6, UploadRefines
  <2>7. CASE Crash
    BY <2>7, CrashRefines
  <2>8. CASE Restart \/ UNCHANGED vars
    <3>1. UNCHANGED <<db, size, used, pending, job, node, length, dangled>>
      BY <2>8 DEF Restart, vars, record, shock, ghosts
    <3>2. Awaited' = Awaited
      BY <3>1, AwaitedStays DEF Keys, Sent
    <3>3. QED
      BY <3>1, <3>2, Stutter DEF Making, Stored
  <2>9. QED
    BY <2>2, <2>3, <2>4, <2>5, <2>6, <2>7, <2>8 DEF Next
<1>3. QED
  BY <1>1, <1>2

LEMMA InitRefines == Init => Promise!Init
<1>1. SUFFICES ASSUME Init PROVE Promise!Init
  OBVIOUS
<1>2. Stage = [u \in Uuids |-> "new"]
  BY <1>1 DEF Init, Stage
<1>3. Awaited = {}
  BY <1>1, IdleFacts, EmptyMapFacts DEF Init, Awaited, Keys
<1> HIDE DEF Stage, Awaited
<1>4. QED
  BY <1>1, <1>2, <1>3 DEF Init, Promise!Init

\* UploadTracking implements Uploads, for any number of uploads and restarts: an
\* object gets into the database with its upload awaited, its size is recorded
\* from its own file, and until then it is awaited.
THEOREM Refinement == Spec => ImplementsUploads
<1>1. IInv /\ Nodes /\ Places /\ [Next]_vars => [Promise!Next]_(Promise!vars)
  BY StepRefines
<1>2. QED
  BY InitRefines, SpecIInv, SpecMaking, <1>1, PTL DEF Spec, ImplementsUploads, Promise!Spec

=============================================================================
