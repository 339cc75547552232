------------------------- MODULE WorkspaceTreeProofs -------------------------
(***************************************************************************)
(* Proofs about WorkspaceTree, for any number of objects, places and       *)
(* deletions.                                                              *)
(***************************************************************************)
EXTENDS WorkspaceTree, SequenceTheorems, TLAPS

(***************************************************************************)
(* The inductive invariant.                                                *)
(***************************************************************************)

\* What the steps of a job rely on.
JobShape ==
  /\ job = [remove |-> job.remove, todo |-> job.todo, now |-> job.now, list |-> job.list]
  /\ \A i, j \in job.remove : i = j
  /\ \A x, y \in job.now : x = y
  /\ job.now # {} => job.remove = {}
  /\ job.now \intersect job.todo = {}

InJob(x) == x \in job.todo \/ x \in job.now

\* The folder that is on disk, but not in the database, has its directory.
NowHasDirectory ==
  \A x \in job.now : x.kind = "folder" => OnDisk(x.place) \in dirs

\* What create_folder makes is a folder.
MkdirMakesFolders ==
  /\ \A i \in DOMAIN docs : docs[i].origin = "mkdir" => IsFolder(i)
  /\ \A x : InJob(x) /\ x.origin = "mkdir" => x.kind = "folder"

\* A deletion knows the id of a folder, if the document still exists.
LookedUpFolders ==
  /\ DOMAIN docs \subseteq Ids
  /\ \A t \in del : t.uuid \in DOMAIN docs => IsFolder(t.uuid)

\* A job has each place once, and nothing is there but what it overwrites.
PlacesAreFree ==
  /\ \A x : InJob(x) /\ x.origin # "copy" =>
       At(x.place) \subseteq job.remove \/ x.place \in copied
  /\ \A x, y : (/\ InJob(x) /\ x.origin # "copy"
                /\ InJob(y) /\ y.origin # "copy"
                /\ x.place = y.place) => x = y

IInv ==
  /\ JobShape
  /\ NowHasDirectory
  /\ FolderHasDirectory
  /\ MkdirMakesFolders
  /\ LookedUpFolders
  /\ PlacesAreFree
  /\ OnlyCopiesDuplicate

(***************************************************************************)
(* What the checks of a creation decide to make.                           *)
(***************************************************************************)

LEMMA AboveIsElsewhere ==
  ASSUME NEW p \in Places
  PROVE  p \notin Above(p)
<1>1. p \in Seq(Names)
  BY PlacesAssumption
<1>2. SUFFICES ASSUME NEW n \in 1..(Len(p) - 1), SubSeq(p, 1, n) = p
               PROVE  FALSE
  BY DEF Above
<1>3. Len(SubSeq(p, 1, n)) = n
  BY <1>1, <1>2
<1>4. QED
  BY <1>1, <1>2, <1>3

LEMMA MissingItems ==
  ASSUME NEW p \in Places, NEW kind,
         NEW x \in Missing(p) \union {Created(p, kind)}
  PROVE  /\ x.origin = "create"
         /\ At(x.place) = {} \/ x.place = p
         /\ \A y \in Missing(p) \union {Created(p, kind)} :
              x.place = y.place => x = y
<1>1. \A q, k : Created(q, k).origin = "create" /\ Created(q, k).place = q
  BY DEF Created
<1>2. \A y \in Missing(p) : /\ y = Created(y.place, "folder")
                            /\ y.place \in Above(p)
                            /\ At(y.place) = {}
  BY <1>1 DEF Missing
<1>3. \A y \in Missing(p) : y.place # p
  BY <1>2, AboveIsElsewhere
<1>4. QED
  BY <1>1, <1>2, <1>3

(***************************************************************************)
(* The invariant is inductive.                                             *)
(***************************************************************************)

LEMMA InitIInv == Init => IInv
<1> SUFFICES ASSUME Init PROVE IInv
  OBVIOUS
<1>1. job = [remove |-> {}, todo |-> {}, now |-> {}, list |-> {}]
  BY DEF Init, Idle
<1>2. DOMAIN docs = {}
  BY DEF Init
<1>3. JobShape
  BY <1>1 DEF JobShape
<1>4. QED
  BY <1>1, <1>2, <1>3
     DEF Init, IInv, NowHasDirectory, FolderHasDirectory, MkdirMakesFolders,
         LookedUpFolders, PlacesAreFree, OnlyCopiesDuplicate, InJob

\* The end of the process takes the job and the deletions with it.
LEMMA KilledIInv ==
  ASSUME IInv, Killed, UNCHANGED <<docs, dirs, copied>>
  PROVE  IInv'
<1>1. /\ job' = [remove |-> {}, todo |-> {}, now |-> {}, list |-> {}]
      /\ del' = {}
  BY DEF Killed, Idle
<1>2. JobShape'
  BY <1>1 DEF JobShape
<1>3. QED
  BY <1>1, <1>2
     DEF IInv, NowHasDirectory, FolderHasDirectory, MkdirMakesFolders, IsFolder,
         LookedUpFolders, PlacesAreFree, OnlyCopiesDuplicate, InJob

LEMMA CreateStartIInv ==
  ASSUME IInv, NEW p \in Places, NEW kind, NEW overwrite, CreateStart(p, kind, overwrite)
  PROVE  IInv'
<1>1. /\ job = [remove |-> {}, todo |-> {}, now |-> {}, list |-> {}]
      /\ UNCHANGED <<docs, dirs, files, del, copied>>
  BY DEF CreateStart, Idle
<1>2. PICK R, T :
        /\ job' = [remove |-> R, todo |-> T, now |-> {}, list |-> {}]
        /\ \/ \E i \in At(p) : R = {i} /\ T = {Created(p, kind)}
           \/ At(p) = {} /\ R = {} /\ T = Missing(p) \union {Created(p, kind)}
  BY DEF CreateStart, Idle
<1>3. JobShape'
  BY <1>2 DEF JobShape
<1>4. \A x \in T : /\ x.origin = "create"
                   /\ At(x.place) = {} \/ x.place = p
                   /\ \A y \in T : x.place = y.place => x = y
  BY <1>2, MissingItems
<1>5. \A x : InJob(x)' => x \in T
  BY <1>2 DEF InJob
<1>6. At(p) \subseteq R \/ p \in copied
  BY <1>2 DEF IInv, OnlyCopiesDuplicate, At
<1>7. PlacesAreFree'
  <2>1. \A x : InJob(x)' => At(x.place)' \subseteq R \/ x.place \in copied
    BY <1>1, <1>4, <1>5, <1>6 DEF At
  <2>2. \A x, y : InJob(x)' /\ InJob(y)' /\ x.place = y.place => x = y
    BY <1>4, <1>5
  <2>3. QED
    BY <1>1, <1>2, <2>1, <2>2 DEF PlacesAreFree
<1>8. NowHasDirectory' /\ MkdirMakesFolders'
  BY <1>1, <1>2, <1>4, <1>5
     DEF IInv, NowHasDirectory, MkdirMakesFolders, IsFolder
<1>9. QED
  BY <1>1, <1>3, <1>7, <1>8
     DEF IInv, FolderHasDirectory, IsFolder, LookedUpFolders, OnlyCopiesDuplicate

LEMMA RemoveOldIInv ==
  ASSUME IInv, NEW i \in job.remove, RemoveOld(i)
  PROVE  IInv'
<1>1. /\ job' = [remove |-> {}, todo |-> job.todo, now |-> job.now, list |-> job.list]
      /\ docs' = [j \in DOMAIN docs \ {i} |-> docs[j]]
      /\ UNCHANGED <<dirs, files, del, copied>>
  BY DEF RemoveOld, Without, IInv, JobShape
<1>2. job.remove = {i} /\ job.now = {}
  BY DEF IInv, JobShape
<1>3. JobShape'
  BY <1>1, <1>2 DEF JobShape
<1>4. \A x : InJob(x)' <=> InJob(x)
  BY <1>1 DEF InJob
<1>5. \A q : At(q)' = At(q) \ {i}
  BY <1>1 DEF At
<1>6. PlacesAreFree'
  <2>1. job'.remove = {}
    BY <1>1
  <2>2. \A x : InJob(x)' /\ x.origin # "copy" =>
          At(x.place)' \subseteq job'.remove \/ x.place \in copied'
    BY <1>1, <1>2, <1>4, <1>5, <2>1 DEF IInv, PlacesAreFree
  <2>3. QED
    BY <1>4, <2>2 DEF IInv, PlacesAreFree
<1>7. QED
  BY <1>1, <1>2, <1>3, <1>4, <1>6
     DEF IInv, NowHasDirectory, FolderHasDirectory, MkdirMakesFolders, IsFolder,
         LookedUpFolders, OnlyCopiesDuplicate

LEMMA CopyStartIInv ==
  ASSUME IInv, NEW from, NEW to, NEW recursive, CopyStart(from, to, recursive)
  PROVE  IInv'
<1>1. /\ job = [remove |-> {}, todo |-> {}, now |-> {}, list |-> {}]
      /\ UNCHANGED <<docs, dirs, files, del, copied>>
  BY DEF CopyStart, Idle
<1>2. PICK T, L :
        /\ job' = [remove |-> {}, todo |-> T, now |-> {}, list |-> L]
        /\ \/ T = {}
           \/ /\ Seen(to) = {}
              /\ T = {[place |-> to, kind |-> "folder", origin |-> "mkdir",
                        of |-> "", source |-> Root]}
  BY DEF CopyStart, Idle
<1>3. JobShape'
  BY <1>2 DEF JobShape
<1>4. \A x : InJob(x)' => /\ x.place = to /\ x.kind = "folder"
                         /\ At(to) = {}
                         /\ \A y : InJob(y)' => x = y
  <2>1. Seen(to) = {} => At(to) = {}
    BY DEF Seen
  <2>2. \A x : InJob(x)' <=> x \in T
    BY <1>2 DEF InJob
  <2>3. CASE T = {}
    BY <2>2, <2>3
  <2>4. CASE T # {}
    <3>1. PICK y : T = {y} /\ y.place = to /\ y.kind = "folder" /\ Seen(to) = {}
      BY <1>2, <2>4
    <3>2. QED
      BY <2>1, <2>2, <3>1
  <2>5. QED
    BY <2>3, <2>4
<1>5. PlacesAreFree'
  BY <1>1, <1>4 DEF PlacesAreFree, At
<1>6. NowHasDirectory' /\ MkdirMakesFolders'
  BY <1>1, <1>2, <1>4 DEF IInv, NowHasDirectory, MkdirMakesFolders, IsFolder
<1>7. QED
  BY <1>1, <1>3, <1>5, <1>6
     DEF IInv, FolderHasDirectory, IsFolder, LookedUpFolders, OnlyCopiesDuplicate

LEMMA CopyListIInv ==
  ASSUME IInv, NEW l \in job.list, CopyList(l)
  PROVE  IInv'
<1>1. PICK T :
        /\ job' = [remove |-> job.remove, todo |-> T, now |-> {}, list |-> {}]
        /\ \A x \in T : x.origin = "copy"
        /\ UNCHANGED <<docs, dirs, files, del, copied>>
  <2>1. job = [remove |-> job.remove, todo |-> job.todo, now |-> job.now, list |-> job.list]
        /\ job.now = {}
    BY DEF CopyList, IInv, JobShape
  <2>2. PICK T :
          /\ job' = [job EXCEPT !.list = {}, !.todo = T]
          /\ T = {[place |-> Replaced(l.from, l.to, docs[i].place), kind |-> docs[i].kind,
                   origin |-> "copy", of |-> i, source |-> docs[i].place] : i \in Listed(l.from)}
    BY DEF CopyList
  <2>3. job' = [remove |-> job.remove, todo |-> T, now |-> {}, list |-> {}]
    BY <2>1, <2>2
  <2>4. \A x \in T : x.origin = "copy"
    BY <2>2
  <2>5. QED
    BY <2>3, <2>4 DEF CopyList
<1>2. JobShape'
  BY <1>1 DEF IInv, JobShape
<1>3. \A x : InJob(x)' => x.origin = "copy"
  BY <1>1 DEF InJob
<1>4. QED
  BY <1>1, <1>2, <1>3
     DEF IInv, NowHasDirectory, FolderHasDirectory, MkdirMakesFolders, IsFolder,
         LookedUpFolders, PlacesAreFree, OnlyCopiesDuplicate

\* A step on the disk: x is made, or skipped.
LEMMA DiskIInv ==
  ASSUME IInv, NEW x, NEW made \in BOOLEAN, IsNext(x), Taken(x, made),
         dirs \subseteq dirs',
         made /\ x.kind = "folder" => OnDisk(x.place) \in dirs',
         UNCHANGED <<docs, del, copied>>
  PROVE  IInv'
<1>1. /\ job.remove = {} /\ job.now = {}
      /\ x \in job.todo
  BY DEF IsNext
<1>2. job' = [remove |-> {}, todo |-> job.todo \ {x},
              now |-> IF made THEN {x} ELSE {}, list |-> job.list]
  BY <1>1 DEF Taken, IInv, JobShape
<1>3. JobShape'
  BY <1>2 DEF JobShape
<1>4. \A y : InJob(y)' => InJob(y)
  BY <1>1, <1>2 DEF InJob
<1>5. PlacesAreFree'
  BY <1>1, <1>2, <1>4 DEF IInv, PlacesAreFree, At
<1>6. NowHasDirectory'
  BY <1>2 DEF NowHasDirectory
<1>7. QED
  BY <1>3, <1>4, <1>5, <1>6
     DEF IInv, FolderHasDirectory, MkdirMakesFolders, IsFolder, LookedUpFolders,
         OnlyCopiesDuplicate

LEMMA InsertDocIInv ==
  ASSUME IInv, NEW x \in job.now, NEW i \in Ids, InsertDoc(x, i)
  PROVE  IInv'
<1>1. /\ i \notin DOMAIN docs
      /\ \A t \in del : t.uuid # i
      /\ DOMAIN docs' = DOMAIN docs \union {i}
      /\ docs'[i] = [place |-> x.place, kind |-> x.kind, origin |-> x.origin]
      /\ \A j \in DOMAIN docs : docs'[j] = docs[j]
      /\ copied' = IF x.origin = "copy" THEN copied \union {x.place} ELSE copied
      /\ UNCHANGED <<dirs, files, del>>
  BY DEF InsertDoc
<1>2. job.remove = {} /\ job.now = {x} /\ x \notin job.todo
  BY DEF IInv, JobShape
<1>3. job' = [remove |-> {}, todo |-> job.todo, now |-> {}, list |-> job.list]
  BY <1>2 DEF InsertDoc, IInv, JobShape
<1>4. JobShape'
  BY <1>3 DEF JobShape
<1>5. \A y : InJob(y)' => InJob(y) /\ y # x
  BY <1>2, <1>3 DEF InJob
<1>6. InJob(x)
  BY DEF InJob
<1>7. \A q : At(q)' = At(q) \union (IF q = x.place THEN {i} ELSE {})
  BY <1>1 DEF At
<1>8. x.origin # "copy" => At(x.place) = {} \/ x.place \in copied
  BY <1>2, <1>6 DEF IInv, PlacesAreFree
<1>9. PlacesAreFree'
  <2>1. ASSUME NEW y, InJob(y)', y.origin # "copy"
        PROVE  At(y.place)' \subseteq job'.remove \/ y.place \in copied'
    <3>1. At(y.place) = {} \/ y.place \in copied
      BY <1>2, <1>5, <2>1 DEF IInv, PlacesAreFree
    <3>2. CASE y.place = x.place
      <4>1. x.origin = "copy"
        BY <1>5, <1>6, <2>1, <3>2 DEF IInv, PlacesAreFree
      <4>2. QED
        BY <1>1, <3>2, <4>1
    <3>3. CASE y.place # x.place
      BY <1>1, <1>7, <3>1, <3>3
    <3>4. QED
      BY <3>2, <3>3
  <2>2. QED
    BY <1>5, <2>1 DEF IInv, PlacesAreFree
<1>10. OnlyCopiesDuplicate'
  <2>1. SUFFICES ASSUME NEW j \in DOMAIN docs', NEW k \in DOMAIN docs',
                        j # k, docs'[j].place = docs'[k].place
                 PROVE  docs'[j].place \in copied'
    BY DEF OnlyCopiesDuplicate
  <2>2. CASE j \in DOMAIN docs /\ k \in DOMAIN docs
    BY <1>1, <2>1, <2>2 DEF IInv, OnlyCopiesDuplicate
  <2>3. CASE j = i \/ k = i
    <3>1. docs'[j].place = x.place /\ At(x.place) # {}
      BY <1>1, <2>1, <2>3 DEF At
    <3>2. QED
      BY <1>1, <1>8, <3>1
  <2>4. QED
    BY <1>1, <2>2, <2>3
<1>11. FolderHasDirectory'
  BY <1>1 DEF IInv, FolderHasDirectory, NowHasDirectory, IsFolder
<1>12. MkdirMakesFolders'
  BY <1>1, <1>5, <1>6 DEF IInv, MkdirMakesFolders, IsFolder
<1>13. LookedUpFolders'
  BY <1>1 DEF IInv, LookedUpFolders, IsFolder
<1>14. NowHasDirectory'
  BY <1>3 DEF NowHasDirectory
<1>15. QED
  BY <1>4, <1>9, <1>10, <1>11, <1>12, <1>13, <1>14 DEF IInv

LEMMA DeleteStartIInv ==
  ASSUME IInv, NEW i \in Ids, DeleteStart(i)
  PROVE  IInv'
<1>1. /\ IsFolder(i)
      /\ del' = del \union {[uuid |-> Uuid(i), place |-> docs[i].place]}
      /\ UNCHANGED <<docs, dirs, files, job, copied>>
  BY DEF DeleteStart
<1>2. LookedUpFolders'
  <2>1. Uuid(i) = i \/ Uuid(i) \notin Ids
    BY IdsAssumption DEF Uuid
  <2>2. QED
    BY <1>1, <2>1 DEF IInv, LookedUpFolders, IsFolder
<1>3. QED
  BY <1>1, <1>2
     DEF IInv, JobShape, InJob, NowHasDirectory, FolderHasDirectory,
         MkdirMakesFolders, IsFolder, PlacesAreFree, At, OnlyCopiesDuplicate

LEMMA DeleteApplyIInv ==
  ASSUME IInv, NEW t \in del, NEW last, DeleteApply(t, last)
  PROVE  IInv'
<1>1. /\ DOMAIN docs' \subseteq DOMAIN docs
      /\ \A j \in DOMAIN docs' : docs'[j] = docs[j]
      /\ del' \subseteq del
      /\ UNCHANGED <<dirs, files, job, copied>>
  BY DEF DeleteApply, Without
<1>2. \A q : At(q)' \subseteq At(q)
  BY <1>1 DEF At
<1>3. \A x : InJob(x)' <=> InJob(x)
  BY <1>1 DEF InJob
<1>4. PlacesAreFree'
  BY <1>1, <1>2, <1>3 DEF IInv, PlacesAreFree
<1>5. QED
  BY <1>1, <1>3, <1>4
     DEF IInv, JobShape, NowHasDirectory, FolderHasDirectory, MkdirMakesFolders,
         IsFolder, LookedUpFolders, OnlyCopiesDuplicate

LEMMA InsertStepIInv ==
  ASSUME IInv, InsertNext
  PROVE  IInv'
<1>1. ASSUME NEW x \in job.todo, NEW ok \in BOOLEAN, MakeDirectory(x, ok)
      PROVE  IInv'
  <2>1. PICK made \in BOOLEAN :
          /\ dirs' = IF made THEN dirs \union {OnDisk(x.place)} ELSE dirs
          /\ Taken(x, made)
    BY <1>1 DEF MakeDirectory
  <2>2. QED
    BY <1>1, <2>1, DiskIInv DEF MakeDirectory
<1>2. ASSUME NEW x \in job.todo, NEW ok \in BOOLEAN, WriteFile(x, ok)
      PROVE  IInv'
  <2>1. PICK made \in BOOLEAN : Taken(x, made)
    BY <1>2 DEF WriteFile
  <2>2. QED
    BY <1>2, <2>1, DiskIInv DEF WriteFile
<1>3. ASSUME NEW x \in job.todo, NEW ok \in BOOLEAN, CopyFile(x, ok)
      PROVE  IInv'
  <2>1. \/ Killed
        \/ Taken(x, TRUE) /\ UNCHANGED del
    BY <1>3 DEF CopyFile
  <2>2. QED
    BY <1>3, <2>1, DiskIInv, KilledIInv DEF CopyFile
<1>4. ASSUME NEW x \in job.todo, UseNode(x)
      PROVE  IInv'
  BY <1>4, DiskIInv DEF UseNode
<1>5. ASSUME NEW x \in job.now, NEW i \in Ids, InsertDoc(x, i)
      PROVE  IInv'
  BY <1>5, InsertDocIInv
<1>6. QED
  BY <1>1, <1>2, <1>3, <1>4, <1>5 DEF InsertNext

LEMMA NextIInv == IInv /\ [Next]_vars => IInv'
<1> SUFFICES ASSUME IInv, [Next]_vars PROVE IInv'
  OBVIOUS
<1>1. CASE CreateNext
  BY <1>1, CreateStartIInv, RemoveOldIInv DEF CreateNext
<1>2. CASE CopyNext
  BY <1>2, CopyStartIInv, CopyListIInv DEF CopyNext
<1>3. CASE InsertNext
  BY <1>3, InsertStepIInv
<1>4. CASE DeleteNext
  BY <1>4, DeleteStartIInv, DeleteApplyIInv DEF DeleteNext
<1>5. CASE Crash
  BY <1>5, KilledIInv DEF Crash
<1>6. CASE UNCHANGED vars
  BY <1>6
     DEF vars, IInv, JobShape, InJob, NowHasDirectory, FolderHasDirectory,
         MkdirMakesFolders, IsFolder, LookedUpFolders, PlacesAreFree, At,
         OnlyCopiesDuplicate
<1>7. QED
  BY <1>1, <1>2, <1>3, <1>4, <1>5, <1>6 DEF Next

\* The invariant holds in every state of every behaviour.
THEOREM SpecIInv == Spec => []IInv
  BY InitIInv, NextIInv, PTL DEF Spec

(***************************************************************************)
(* The theorems.                                                           *)
(***************************************************************************)

\* A folder in the database has its directory on disk, after any number of
\* failures of the disk, interrupted jobs and deletions: the directory is made
\* first, and its error code is looked at.
THEOREM FoldersHaveDirectories == Spec => []FolderHasDirectory
<1>1. IInv => FolderHasDirectory
  BY DEF IInv
<1>2. QED
  BY <1>1, SpecIInv, PTL

\* No two documents have the same place, unless a copy has inserted one there:
\* the check of process_create and the insertion belong to one job of the sync
\* thread, and what runs beside it only deletes.
THEOREM CreationsDoNotDuplicate == Spec => []OnlyCopiesDuplicate
<1>1. IInv => OnlyCopiesDuplicate
  BY DEF IInv
<1>2. QED
  BY <1>1, SpecIInv, PTL

\* A document leaves the database because it is overwritten, or because it is a
\* folder at the place of one that a deletion has looked up: the id in the
\* filter of delete_one is that of a folder, or empty, which is so of folders
\* only.
THEOREM OnlyFoldersAreDeleted == Spec => DeletesFoldersOnly
<1> DEFINE Right ==
      \A i \in DOMAIN docs \ DOMAIN docs' :
        \/ i \in job.remove
        \/ /\ IsFolder(i)
           /\ \E t \in del : t.place = docs[i].place
<1>1. ASSUME IInv, Next
      PROVE  Right
  <2>1. CASE CreateNext
    BY <1>1, <2>1 DEF CreateNext, CreateStart, RemoveOld, Without
  <2>2. CASE CopyNext
    BY <1>1, <2>2 DEF CopyNext, CopyStart, CopyList
  <2>3. CASE InsertNext
    <3>1. DOMAIN docs \subseteq DOMAIN docs'
      BY <2>3 DEF InsertNext, MakeDirectory, WriteFile, CopyFile, UseNode, InsertDoc
    <3>2. QED
      BY <3>1
  <2>4. CASE DeleteNext
    <3>1. ASSUME NEW t \in del, NEW last \in BOOLEAN, DeleteApply(t, last)
          PROVE  Right
      <4>1. CASE UNCHANGED docs
        BY <4>1
      <4>2. ASSUME NEW i \in Matches(t), docs' = Without(i)
            PROVE  Right
        <5>1. /\ DOMAIN docs \ DOMAIN docs' \subseteq {i}
              /\ i \in DOMAIN docs /\ docs[i].place = t.place /\ Uuid(i) = t.uuid
          BY <4>2 DEF Without, Matches, At
        <5>2. IsFolder(i)
          BY <1>1, <5>1 DEF IInv, LookedUpFolders, MkdirMakesFolders, Uuid
        <5>3. QED
          BY <5>1, <5>2
      <4>3. QED
        BY <3>1, <4>1, <4>2 DEF DeleteApply
    <3>2. QED
      BY <2>4, <3>1 DEF DeleteNext, DeleteStart
  <2>5. CASE Crash
    BY <2>5 DEF Crash
  <2>6. QED
    BY <1>1, <2>1, <2>2, <2>3, <2>4, <2>5 DEF Next
<1>2. IInv /\ [Next]_vars => [Right]_vars
  BY <1>1
<1>3. QED
  BY <1>2, SpecIInv, PTL DEF Spec, DeletesFoldersOnly

(***************************************************************************)
(* Types.  The empty component is the first one of a place or none, and    *)
(* never the only one: replace_path_prefix puts it before what is left of  *)
(* a path that had none after its first, and appends the name.             *)
(***************************************************************************)

WellPlaced(p) ==
  /\ p \in Seq(Names \union {Gap})
  /\ p # Root
  /\ \A n \in 2..Len(p) : p[n] \in Names
  /\ p[1] = Gap => Len(p) > 1

Typed ==
  /\ TypeOK
  /\ job.list \subseteq [from : Places \union {Root}, to : Places \union {Root}]
  /\ \A i \in DOMAIN docs : WellPlaced(docs[i].place)
  /\ \A x : InJob(x) => WellPlaced(x.place)

\* A sequence is one over any set that has its components.
LEMMA Retyped ==
  ASSUME NEW S, NEW T, NEW p \in Seq(S), \A n \in 1..Len(p) : p[n] \in T
  PROVE  p \in Seq(T)
  OBVIOUS

LEMMA WithoutGap ==
  ASSUME NEW p, WellPlaced(p), p[1] # Gap
  PROVE  p \in Seq(Names)
<1>1. p \in Seq(Names \union {Gap}) /\ Len(p) \in Nat /\ p = [n \in 1..Len(p) |-> p[n]]
  BY DEF WellPlaced
<1>2. \A n \in 1..Len(p) : p[n] \in Names
  <2>1. SUFFICES ASSUME NEW n \in 1..Len(p) PROVE p[n] \in Names
    OBVIOUS
  <2>2. CASE n = 1
    BY <1>1, <2>2
  <2>3. CASE n # 1
    BY <1>1, <2>3 DEF WellPlaced
  <2>4. QED
    BY <2>2, <2>3
<1>3. QED
  BY <1>1, <1>2

LEMMA NamesAreWellPlaced ==
  ASSUME NEW p \in Seq(Names), p # Root
  PROVE  WellPlaced(p)
<1>1. \A n \in 1..Len(p) : p[n] \in Names
  OBVIOUS
<1>2. Len(p) \in Nat \ {0}
  BY EmptySeq DEF Root
<1>3. QED
  BY <1>1, <1>2, NamesAssumption DEF WellPlaced

LEMMA OnDiskNames ==
  ASSUME NEW p, WellPlaced(p)
  PROVE  OnDisk(p) \in Seq(Names)
<1>1. CASE p[1] # Gap
  BY <1>1, WithoutGap DEF OnDisk
<1>2. CASE p[1] = Gap
  <2>1. OnDisk(p) = Tail(p) /\ Len(p) > 1
    BY <1>2 DEF OnDisk, WellPlaced
  <2>2. p \in Seq(Names \union {Gap}) /\ p # << >>
    BY DEF WellPlaced, Root
  <2>3. /\ Tail(p) \in Seq(Names \union {Gap})
        /\ Len(Tail(p)) = Len(p) - 1
        /\ \A n \in 1..Len(Tail(p)) : Tail(p)[n] = p[n + 1]
    BY <2>2
  <2>4. \A n \in 1..Len(Tail(p)) : Tail(p)[n] \in Names
    BY <2>2, <2>3 DEF WellPlaced
  <2>5. Tail(p) \in Seq(Names)
    BY <2>3, <2>4, Retyped
  <2>6. QED
    BY <2>1, <2>5
<1>3. QED
  BY <1>1, <1>2

LEMMA LastIsName ==
  ASSUME NEW p, WellPlaced(p)
  PROVE  Len(p) \in Nat \ {0} /\ Last(p) \in Names
<1>1. p \in Seq(Names \union {Gap}) /\ p # << >>
  BY DEF WellPlaced, Root
<1>2. Len(p) \in Nat \ {0}
  BY <1>1, EmptySeq
<1>3. p[Len(p)] \in Names
  <2>1. CASE Len(p) = 1
    BY <1>1, <2>1 DEF WellPlaced
  <2>2. CASE Len(p) # 1
    BY <1>2, <2>2 DEF WellPlaced
  <2>3. QED
    BY <2>1, <2>2
<1>4. QED
  BY <1>2, <1>3 DEF Last

\* replace_path_prefix keeps places in shape: of the components it keeps, none
\* is empty.
LEMMA ReplacedIsWellPlaced ==
  ASSUME NEW from \in Places \union {Root}, NEW to \in Places \union {Root},
         NEW p, WellPlaced(p), from = Root \/ IsStrictPrefix(from, p)
  PROVE  WellPlaced(Replaced(from, to, p))
<1> DEFINE path == Front(p)
           rest == IF from # Root THEN SubSeq(path, Len(from) + 1, Len(path))
                   ELSE IF path = Root THEN Root ELSE Tail(path)
           new  == IF to = Root /\ rest # Root THEN <<Gap>> \o rest ELSE to \o rest
<1>1. /\ p \in Seq(Names \union {Gap})
      /\ Len(p) \in Nat \ {0}
      /\ Last(p) \in Names
  BY LastIsName DEF WellPlaced
<1>2. /\ path \in Seq(Names \union {Gap})
      /\ Len(path) = Len(p) - 1
      /\ \A n \in 1..Len(path) : path[n] = p[n]
  <2> DEFINE m == Len(p) - 1
  <2>1. m \in Nat /\ m = Len(p) - 1 /\ m <= Len(p)
    BY <1>1
  <2>2. path = SubSeq(p, 1, m)
    BY DEF Front
  <2> HIDE DEF m
  <2>3. /\ SubSeq(p, 1, m) \in Seq(Names \union {Gap})
        /\ Len(SubSeq(p, 1, m)) = m
        /\ \A n \in 1..m : SubSeq(p, 1, m)[n] = p[n]
    <3>1. \A n \in 1..m : p[n] \in Names \union {Gap}
      BY <1>1, <2>1
    <3>2. QED
      BY <2>1, <3>1, SubSeqProperties
  <2>4. QED
    BY <2>1, <2>2, <2>3
<1>3. from \in Seq(Names) /\ to \in Seq(Names)
  BY PlacesAssumption, EmptySeq DEF Root
<1>4. rest \in Seq(Names)
  <2>1. CASE from # Root
    <3>1. Len(from) \in Nat \ {0} /\ from[1] \in Names
      BY <1>3, <2>1, EmptySeq DEF Root
    <3>2. Len(from) <= Len(p) /\ SubSeq(from, 1, Len(from)) = SubSeq(p, 1, Len(from))
      BY <2>1 DEF IsStrictPrefix, IsPrefix
    <3>3. SubSeq(from, 1, Len(from))[1] = from[1] /\ SubSeq(p, 1, Len(from))[1] = p[1]
      BY <1>1, <1>3, <3>1, <3>2
    <3>4. p \in Seq(Names)
      BY <3>1, <3>2, <3>3, WithoutGap, NamesAssumption
    <3>5. path \in Seq(Names)
      BY <1>1, <3>4 DEF Front
    <3>6. SubSeq(path, Len(from) + 1, Len(path)) \in Seq(Names)
      BY <3>1, <3>5
    <3>7. QED
      BY <2>1, <3>6
  <2>2. CASE from = Root /\ path = Root
    BY <2>2 DEF Root
  <2>3. CASE from = Root /\ path # Root
    <3>1. rest = Tail(path) /\ path # << >>
      BY <2>3 DEF Root
    <3>2. /\ Tail(path) \in Seq(Names \union {Gap})
          /\ Len(Tail(path)) = Len(path) - 1
          /\ \A n \in 1..Len(Tail(path)) : Tail(path)[n] = path[n + 1]
      BY <1>2, <3>1
    <3>3. \A n \in 1..Len(Tail(path)) : Tail(path)[n] \in Names
      BY <1>1, <1>2, <3>2 DEF WellPlaced
    <3>4. Tail(path) \in Seq(Names)
      BY <3>2, <3>3, Retyped
    <3>5. QED
      BY <3>1, <3>4
  <2>4. QED
    BY <2>1, <2>2, <2>3
<1>5. Replaced(from, to, p) = Append(new, Last(p))
  BY DEF Replaced
<1> HIDE DEF path, rest
<1>6. CASE to = Root /\ rest # Root
  <2>1. new = <<Gap>> \o rest
    BY <1>6
  <2> HIDE DEF new
  <2>2. /\ new \in Seq(Names \union {Gap})
        /\ Len(new) = 1 + Len(rest)
        /\ new[1] = Gap
        /\ \A n \in 2..Len(new) : new[n] \in Names
    <3>1. /\ <<Gap>> \in Seq(Names \union {Gap}) /\ Len(<<Gap>>) = 1 /\ <<Gap>>[1] = Gap
          /\ rest \in Seq(Names \union {Gap}) /\ Len(rest) \in Nat
          /\ \A n \in 1..Len(rest) : rest[n] \in Names
      BY <1>4
    <3>2. /\ <<Gap>> \o rest \in Seq(Names \union {Gap})
          /\ Len(<<Gap>> \o rest) = 1 + Len(rest)
          /\ \A n \in 1..(1 + Len(rest)) :
               (<<Gap>> \o rest)[n] = IF n <= 1 THEN <<Gap>>[n] ELSE rest[n - 1]
      BY <3>1, ConcatProperties
    <3>3. new[1] = Gap
      BY <2>1, <3>1, <3>2
    <3>4. ASSUME NEW n \in 2..Len(new)
          PROVE  new[n] \in Names
      <4>1. n \in 1..(1 + Len(rest)) /\ ~(n <= 1) /\ n - 1 \in 1..Len(rest)
        BY <2>1, <3>1, <3>2
      <4>2. new[n] = rest[n - 1]
        BY <2>1, <3>2, <4>1
      <4>3. QED
        BY <3>1, <4>1, <4>2
    <3>5. QED
      BY <2>1, <3>2, <3>3, <3>4
  <2>3. Len(rest) \in Nat \ {0}
    BY <1>4, <1>6, EmptySeq DEF Root
  <2>4. /\ Append(new, Last(p)) \in Seq(Names \union {Gap})
        /\ Len(Append(new, Last(p))) = Len(new) + 1
        /\ \A n \in 2..Len(Append(new, Last(p))) : Append(new, Last(p))[n] \in Names
    BY <1>1, <2>2, <2>3
  <2>5. Append(new, Last(p)) # Root
    BY <2>2, <2>3, <2>4, EmptySeq DEF Root
  <2>6. QED
    BY <1>5, <2>2, <2>3, <2>4, <2>5 DEF WellPlaced
<1>7. CASE ~(to = Root /\ rest # Root)
  <2>1. new \in Seq(Names)
    BY <1>3, <1>4, <1>7
  <2> HIDE DEF new
  <2>2. /\ Append(new, Last(p)) \in Seq(Names)
        /\ Len(Append(new, Last(p))) = Len(new) + 1
    BY <1>1, <2>1
  <2>3. Append(new, Last(p)) # Root
    BY <2>1, <2>2, EmptySeq DEF Root
  <2>4. QED
    BY <1>5, <2>2, <2>3, NamesAreWellPlaced
<1>8. QED
  BY <1>6, <1>7

\* A place that requests name, and those above it.
LEMMA PlacesAreWellPlaced ==
  ASSUME NEW p \in Places, NEW q \in Above(p) \union {p}
  PROVE  q \in Seq(Names) /\ WellPlaced(q)
<1>1. p \in Seq(Names) /\ p # Root
  BY PlacesAssumption DEF Root
<1>2. CASE q = p
  BY <1>1, <1>2, NamesAreWellPlaced
<1>3. CASE q \in Above(p)
  <2>1. PICK n \in 1..(Len(p) - 1) : q = SubSeq(p, 1, n)
    BY <1>3 DEF Above
  <2>2. q \in Seq(Names) /\ Len(q) = n
    BY <1>1, <2>1
  <2>3. q # Root
    BY <2>1, <2>2, EmptySeq DEF Root
  <2>4. QED
    BY <2>2, <2>3, NamesAreWellPlaced
<1>4. QED
  BY <1>2, <1>3

LEMMA NamesAndGap ==
  ASSUME NEW p \in Seq(Names)
  PROVE  p \in Seq(Names \union {Gap})
  OBVIOUS

LEMMA CreatedTypes ==
  ASSUME NEW p \in Places, NEW kind \in Kinds \union {"modelfolder"},
         NEW x \in Missing(p) \union {Created(p, kind)}
  PROVE  x \in Items /\ WellPlaced(x.place)
<1>1. PICK q \in Above(p) \union {p}, k \in Kinds \union {"modelfolder"} : x = Created(q, k)
  BY DEF Missing, Kinds
<1>2. q \in Seq(Names \union {Gap}) /\ WellPlaced(q)
  BY PlacesAreWellPlaced, NamesAndGap
<1>3. QED
  BY <1>1, <1>2 DEF Created, Items, Kinds, Origins

LEMMA InitTyped == Init => Typed
<1> SUFFICES ASSUME Init PROVE Typed
  OBVIOUS
<1>1. job = [remove |-> {}, todo |-> {}, now |-> {}, list |-> {}]
  BY DEF Init, Idle
<1>2. DOMAIN docs = {}
  BY DEF Init
<1>3. dirs = {Root} /\ Root \in Seq(Names)
  BY EmptySeq DEF Init, Root
<1>4. QED
  BY <1>1, <1>2, <1>3 DEF Init, Typed, TypeOK, InJob

LEMMA NextTyped == IInv /\ Typed /\ [Next]_vars => Typed'
<1> SUFFICES ASSUME IInv, Typed, [Next]_vars PROVE Typed'
  OBVIOUS
<1>0. job = [remove |-> job.remove, todo |-> job.todo, now |-> job.now, list |-> job.list]
  BY DEF IInv, JobShape
<1>1. ASSUME NEW p \in Places, NEW kind \in Kinds \union {"modelfolder"},
             NEW overwrite \in BOOLEAN, CreateStart(p, kind, overwrite)
      PROVE  Typed'
  <2>1. PICK R, T :
          /\ job' = [remove |-> R, todo |-> T, now |-> {}, list |-> {}]
          /\ \/ \E i \in At(p) : R = {i} /\ T = {Created(p, kind)}
             \/ R = {} /\ T = Missing(p) \union {Created(p, kind)}
    BY <1>1 DEF CreateStart, Idle
  <2>2. \A x \in T : x \in Items /\ WellPlaced(x.place)
    BY <2>1, CreatedTypes
  <2>3. R \subseteq DOMAIN docs
    BY <2>1 DEF At
  <2>4. QED
    BY <1>1, <2>1, <2>2, <2>3 DEF CreateStart, Typed, TypeOK, InJob
<1>2. ASSUME NEW i \in job.remove, RemoveOld(i)
      PROVE  Typed'
  <2>1. /\ job' = [remove |-> {}, todo |-> job.todo, now |-> job.now, list |-> job.list]
        /\ docs' = [j \in DOMAIN docs \ {i} |-> docs[j]]
    BY <1>0, <1>2 DEF RemoveOld, Without
  <2>2. QED
    BY <1>2, <2>1 DEF RemoveOld, Typed, TypeOK, InJob
<1>3. ASSUME NEW from \in Places \union {Root}, NEW to \in Places \union {Root},
             NEW recursive \in BOOLEAN, CopyStart(from, to, recursive)
      PROVE  Typed'
  <2>1. PICK T, L :
          /\ job' = [remove |-> {}, todo |-> T, now |-> {}, list |-> L]
          /\ L \subseteq {[from |-> from, to |-> to]}
          /\ \/ T = {}
             \/ /\ Seen(to) = {}
                /\ T = {[place |-> to, kind |-> "folder", origin |-> "mkdir",
                          of |-> "", source |-> Root]}
    BY <1>3 DEF CopyStart, Idle
  <2>2. Seen(to) = {} => to \in Places
    BY DEF Seen
  <2>3. Root \in Seq(Names \union {Gap})
    BY EmptySeq DEF Root
  <2>4. \A x \in T : x \in Items /\ WellPlaced(x.place)
    <3>1. CASE T = {}
      BY <3>1
    <3>2. CASE T # {}
      <4>1. to \in Seq(Names \union {Gap}) /\ WellPlaced(to)
        BY <2>1, <2>2, <3>2, PlacesAreWellPlaced, NamesAndGap
      <4>2. [place |-> to, kind |-> "folder", origin |-> "mkdir",
             of |-> "", source |-> Root] \in Items
        BY <2>3, <4>1 DEF Items, Kinds, Origins
      <4>3. T = {[place |-> to, kind |-> "folder", origin |-> "mkdir",
                  of |-> "", source |-> Root]}
        BY <2>1, <3>2
      <4>4. ASSUME NEW x \in T
            PROVE  x \in Items /\ WellPlaced(x.place)
        <5>1. x = [place |-> to, kind |-> "folder", origin |-> "mkdir",
                   of |-> "", source |-> Root]
          BY <4>3
        <5>2. x \in Items
          BY <4>2, <5>1, Zenon
        <5>3. x.place = to
          BY <5>1
        <5>4. QED
          BY <4>1, <5>2, <5>3
      <4>5. QED
        BY <4>4
    <3>3. QED
      BY <3>1, <3>2
  <2>5. L \subseteq [from : Places \union {Root}, to : Places \union {Root}]
    <3>1. [from |-> from, to |-> to] \in [from : Places \union {Root}, to : Places \union {Root}]
      OBVIOUS
    <3>2. L \subseteq {[from |-> from, to |-> to]}
      BY <2>1
    <3>3. QED
      BY <3>1, <3>2, Zenon
  <2>6. UNCHANGED <<docs, dirs, files, del, copied>>
    BY <1>3 DEF CopyStart
  <2>7. /\ job'.remove = {} /\ job'.todo = T /\ job'.now = {} /\ job'.list = L
    BY <2>1
  <2>8. QED
    BY <2>4, <2>5, <2>6, <2>7 DEF Typed, TypeOK, InJob
<1>4. ASSUME NEW l \in job.list, CopyList(l)
      PROVE  Typed'
  <2>1. PICK T :
          /\ job' = [job EXCEPT !.list = {}, !.todo = T]
          /\ T = {[place |-> Replaced(l.from, l.to, docs[i].place), kind |-> docs[i].kind,
                   origin |-> "copy", of |-> i, source |-> docs[i].place] : i \in Listed(l.from)}
    BY <1>4 DEF CopyList
  <2>2. job' = [remove |-> job.remove, todo |-> T, now |-> job.now, list |-> {}]
    BY <1>0, <2>1
  <2>3. /\ l.from \in Places \union {Root}
        /\ l.to \in Places \union {Root}
    BY DEF Typed
  <2>4. ASSUME NEW i \in Listed(l.from)
        PROVE  /\ i \in Ids
               /\ docs[i].kind \in Kinds
               /\ docs[i].place \in Seq(Names \union {Gap})
               /\ WellPlaced(Replaced(l.from, l.to, docs[i].place))
               /\ Replaced(l.from, l.to, docs[i].place) \in Seq(Names \union {Gap})
    <3>1. i \in DOMAIN docs /\ (l.from = Root \/ IsStrictPrefix(l.from, docs[i].place))
      BY DEF Listed
    <3>2. WellPlaced(docs[i].place)
      BY <3>1 DEF Typed
    <3>3. WellPlaced(Replaced(l.from, l.to, docs[i].place))
      BY <2>3, <3>1, <3>2, ReplacedIsWellPlaced
    <3>4. QED
      BY <3>1, <3>2, <3>3 DEF Typed, TypeOK, Docs, WellPlaced
  <2>5. ASSUME NEW x \in T
        PROVE  x \in Items /\ WellPlaced(x.place)
    <3>1. PICK i \in Listed(l.from) :
            x = [place |-> Replaced(l.from, l.to, docs[i].place), kind |-> docs[i].kind,
                 origin |-> "copy", of |-> i, source |-> docs[i].place]
      BY <2>1
    <3>2. x \in Items
      BY <2>4, <3>1 DEF Items, Origins
    <3>3. x.place = Replaced(l.from, l.to, docs[i].place)
      BY <3>1
    <3>4. QED
      BY <2>4, <3>2, <3>3
  <2>6. UNCHANGED <<docs, dirs, files, del, copied>>
    BY <1>4 DEF CopyList
  <2>7. /\ job'.remove = job.remove /\ job'.todo = T
        /\ job'.now = job.now /\ job'.list = {}
    BY <2>2
  <2>8. QED
    BY <2>5, <2>6, <2>7 DEF Typed, TypeOK, InJob
<1>5. ASSUME NEW x \in job.todo, NEW made \in BOOLEAN, Taken(x, made)
      PROVE  /\ job'.remove = job.remove /\ job'.todo \subseteq job.todo
             /\ job'.now \subseteq job.todo /\ job'.list = job.list
             /\ \A y : InJob(y)' => InJob(y)
  <2>1. job' = [remove |-> job.remove, todo |-> job.todo \ {x},
                now |-> IF made THEN {x} ELSE {}, list |-> job.list]
    BY <1>0, <1>5 DEF Taken
  <2>2. QED
    BY <2>1 DEF InJob
<1>6. \A x \in job.todo : OnDisk(x.place) \in Seq(Names)
  BY OnDiskNames DEF Typed, InJob
<1>7. ASSUME NEW x \in job.todo, NEW ok \in BOOLEAN, MakeDirectory(x, ok)
      PROVE  Typed'
  <2>1. PICK made \in BOOLEAN :
          /\ made => OnDisk(x.place) \notin files
          /\ dirs' = IF made THEN dirs \union {OnDisk(x.place)} ELSE dirs
          /\ Taken(x, made)
    BY <1>7 DEF MakeDirectory
  <2>2. QED
    BY <1>5, <1>6, <1>7, <2>1 DEF MakeDirectory, Typed, TypeOK
<1>8. ASSUME NEW x \in job.todo, NEW ok \in BOOLEAN, WriteFile(x, ok)
      PROVE  Typed'
  <2>1. PICK made \in BOOLEAN : Taken(x, made)
    BY <1>8 DEF WriteFile
  <2>2. /\ files' \subseteq files \union {OnDisk(x.place)}
        /\ dirs \intersect files' = {}
    BY <1>8 DEF WriteFile, Typed, TypeOK
  <2>3. QED
    BY <1>5, <1>6, <1>8, <2>1, <2>2 DEF WriteFile, Typed, TypeOK
<1>9. ASSUME Killed, UNCHANGED <<docs, dirs, files, copied>>
      PROVE  Typed'
  <2>1. job' = [remove |-> {}, todo |-> {}, now |-> {}, list |-> {}] /\ del' = {}
    BY <1>9 DEF Killed, Idle
  <2>2. QED
    BY <1>9, <2>1 DEF Typed, TypeOK, InJob
<1>10. ASSUME NEW x \in job.todo, NEW ok \in BOOLEAN, CopyFile(x, ok)
       PROVE  Typed'
  <2>1. CASE Killed /\ UNCHANGED files
    BY <1>9, <1>10, <2>1 DEF CopyFile
  <2>2. CASE Taken(x, TRUE) /\ UNCHANGED del
    <3>1. /\ files' \subseteq files \union {OnDisk(x.place)}
          /\ dirs \intersect files' = {}
      BY <1>10, <2>2 DEF CopyFile, Typed, TypeOK, Killed
    <3>2. QED
      BY <1>5, <1>6, <1>10, <2>2, <3>1 DEF CopyFile, Typed, TypeOK
  <2>3. QED
    BY <1>10, <2>1, <2>2 DEF CopyFile
<1>11. ASSUME NEW x \in job.todo, UseNode(x)
       PROVE  Typed'
  BY <1>5, <1>11 DEF UseNode, Typed, TypeOK
<1>12. ASSUME NEW x \in job.now, NEW i \in Ids, InsertDoc(x, i)
       PROVE  Typed'
  <2>1. /\ DOMAIN docs' = DOMAIN docs \union {i}
        /\ docs'[i] = [place |-> x.place, kind |-> x.kind, origin |-> x.origin]
        /\ \A j \in DOMAIN docs : j # i => docs'[j] = docs[j]
        /\ copied' \subseteq copied \union {x.place}
        /\ UNCHANGED <<dirs, files, del>>
    BY <1>12 DEF InsertDoc
  <2>2. job' = [remove |-> job.remove, todo |-> job.todo, now |-> {}, list |-> job.list]
    BY <1>0, <1>12 DEF InsertDoc
  <2>3. x \in Items /\ WellPlaced(x.place)
    BY DEF Typed, TypeOK, InJob
  <2>4. docs'[i] \in Docs /\ WellPlaced(docs'[i].place)
    <3>1. /\ x.place \in Seq(Names \union {Gap})
          /\ x.kind \in Kinds /\ x.origin \in Origins
      BY <2>3 DEF Items
    <3>2. [place |-> x.place, kind |-> x.kind, origin |-> x.origin] \in Docs
      BY <3>1 DEF Docs
    <3>3. docs'[i].place = x.place
      BY <2>1
    <3>4. QED
      BY <2>1, <2>3, <3>2, <3>3
  <2>5. x.place \in Seq(Names \union {Gap})
    BY <2>3 DEF WellPlaced
  <2>6. QED
    BY <2>1, <2>2, <2>4, <2>5 DEF Typed, TypeOK, InJob
<1>13. ASSUME NEW i \in Ids, DeleteStart(i)
       PROVE  Typed'
  <2>1. docs[i].place \in Seq(Names)
    BY <1>13, WithoutGap DEF DeleteStart, Typed
  <2>2. [uuid |-> Uuid(i), place |-> docs[i].place] \in Targets
    BY <2>1 DEF Targets, Uuid
  <2>3. QED
    BY <1>13, <2>2 DEF DeleteStart, Typed, TypeOK, InJob
<1>14. ASSUME NEW t \in del, NEW last \in BOOLEAN, DeleteApply(t, last)
       PROVE  Typed'
  <2>1. /\ DOMAIN docs' \subseteq DOMAIN docs
        /\ \A j \in DOMAIN docs' : docs'[j] = docs[j]
        /\ del' \subseteq del
    BY <1>14 DEF DeleteApply, Without
  <2>2. QED
    BY <1>14, <2>1 DEF DeleteApply, Typed, TypeOK, InJob
<1>15. CASE UNCHANGED vars
  BY <1>15 DEF vars, Typed, TypeOK, InJob
<1>16. QED
  <2>1. CASE CreateNext
    BY <1>1, <1>2, <2>1 DEF CreateNext
  <2>2. CASE CopyNext
    BY <1>3, <1>4, <2>2 DEF CopyNext
  <2>3. CASE InsertNext
    BY <1>7, <1>8, <1>10, <1>11, <1>12, <2>3 DEF InsertNext
  <2>4. CASE DeleteNext
    BY <1>13, <1>14, <2>4 DEF DeleteNext
  <2>5. CASE Crash
    BY <1>9, <2>5 DEF Crash
  <2>6. QED
    BY <1>15, <2>1, <2>2, <2>3, <2>4, <2>5 DEF Next

\* Every variable keeps its type: a directory never becomes a file or a file a
\* directory, and only what comes from a path with a leading slash has an empty
\* component, which is the first.
THEOREM TypeCorrect == Spec => []TypeOK
<1>1. Typed => TypeOK
  BY DEF Typed
<1>2. QED
  BY <1>1, InitTyped, NextTyped, SpecIInv, PTL DEF Spec
=============================================================================
