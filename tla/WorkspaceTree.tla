--------------------------- MODULE WorkspaceTree ---------------------------
(***************************************************************************)
(* The objects of a workspace: process_create (WorkspaceService.cpp),      *)
(* perform_copy and remove_workspace_folder_only (WorkspaceDB.cpp).        *)
(*                                                                         *)
(* The tree exists twice.  The objects collection holds a document for     *)
(* each object, with its place in a path and a name; nothing but the       *)
(* checks of a request relates a document to that of its folder.  The file *)
(* system holds a directory for each folder and a file for each object     *)
(* that is not in Shock.                                                   *)
(*                                                                         *)
(* Creations and copies are jobs of the sync thread: checks, then changes  *)
(* to the file system and to the database one after the other.  Deletions  *)
(* run on the thread pool, beside them.  An exception in a job, like any   *)
(* other end of the process, leaves what has been done.                    *)
(***************************************************************************)
EXTENDS Naturals, FiniteSets, SequencesExt

CONSTANTS
  Names,      \* what WSPathParser makes the components of a path
  Gap,        \* the empty component, which it never makes
  Ids,        \* the documents that have ever been inserted
  Places,     \* the places that requests name
  MaxDepth,   \* bound on the components of a path that a copy makes
  MaxDocs,    \* bound on the documents
  MaxSeen     \* bound on the documents that deletions have looked up

ASSUME NamesAssumption == Gap \notin Names
ASSUME PlacesAssumption == \A p \in Places : p \in Seq(Names) /\ p # <<>>
ASSUME IdsAssumption == {"", "workspace"} \intersect Ids = {}
ASSUME TreeBoundsAssumption == MaxDepth \in Nat /\ MaxDocs \in Nat /\ MaxSeen \in Nat

VARIABLES
  docs,     \* the objects collection: a map from Ids to documents
  dirs,     \* the directories of the workspace on disk
  files,    \* its files
  job,      \* what the job of the sync thread has left to do
  del,      \* what deletions have looked up and are about to delete
  copied    \* history: the places where a copy has inserted a document

vars == <<docs, dirs, files, job, del, copied>>

(***************************************************************************)
(* A place is a full path, the sequence of its components; that of the     *)
(* workspace itself is <<>>.                                               *)
(***************************************************************************)
Root == <<>>

\* The file system ignores the empty component of "/a", which comes first.
OnDisk(p) == IF p # Root /\ p[1] = Gap THEN Tail(p) ELSE p

\* "folder" stands for both types of folders.
Kinds   == {"folder", "file", "shock"}
Origins == {"create", "mkdir", "copy"}
Docs    == [place : Seq(Names \union {Gap}), kind : Kinds, origin : Origins]

\* What a job inserts.  A copy has the document it is made of, and its place.
Items == [place : Seq(Names \union {Gap}), kind : Kinds, origin : Origins,
          of : Ids \union {""}, source : Seq(Names \union {Gap})]

\* remove, now and list have one element at most.
Jobs == [remove : SUBSET Ids,    \* the object that is overwritten
         todo   : SUBSET Items,  \* what is left to be made
         now    : SUBSET Items,  \* what is on disk, but not in the database
         list   : SUBSET [from : Seq(Names), to : Seq(Names)]]  \* the copy's

\* The id and the place of a document, the filter of delete_one.
Targets == [uuid : Ids \union {""}, place : Seq(Names)]

Idle == [remove |-> {}, todo |-> {}, now |-> {}, list |-> {}]

TypeOK ==
  /\ DOMAIN docs \subseteq Ids
  /\ \A i \in DOMAIN docs : docs[i] \in Docs
  /\ dirs \subseteq Seq(Names)
  /\ files \subseteq Seq(Names)
  /\ dirs \intersect files = {}
  /\ job.remove \subseteq Ids
  /\ job.todo \subseteq Items
  /\ job.now \subseteq Items
  /\ del \subseteq Targets
  /\ copied \subseteq Seq(Names \union {Gap})

Init ==
  /\ docs = [i \in {} |-> Root]
  /\ dirs = {Root}
  /\ files = {}
  /\ job = Idle
  /\ del = {}
  /\ copied = {}

(***************************************************************************)
(* lookup_object_meta.                                                     *)
(***************************************************************************)

At(p) == {i \in DOMAIN docs : docs[i].place = p}

IsFolder(i) == docs[i].kind = "folder"

\* create_folder leaves the uuid of its document empty.
Uuid(i) == IF docs[i].origin = "mkdir" THEN "" ELSE i

\* The answers for p: the workspace, or any of the documents with this place.
Seen(p) ==
  IF p = Root THEN {[uuid |-> "workspace", folder |-> TRUE]}
              ELSE {[uuid |-> Uuid(i), folder |-> IsFolder(i)] : i \in At(p)}

(***************************************************************************)
(* process_create: its checks.                                             *)
(***************************************************************************)

Above(p) == {SubSeq(p, 1, n) : n \in 1..(Len(p) - 1)}

Created(p, kind) ==
  [place |-> p, kind |-> IF kind = "modelfolder" THEN "folder" ELSE kind,
   origin |-> "create", of |-> "", source |-> p]

\* The intermediates: the folders above p that do not exist.
Missing(p) == {Created(q, "folder") : q \in {q \in Above(p) : At(q) = {}}}

\* Variant of CreateStart: what is overwritten is not removed.
CreateStartKeepsOld(p, kind, overwrite) ==
  /\ job = Idle
  /\ \/ \E i \in At(p) :
          /\ ~IsFolder(i) /\ kind # "folder" /\ overwrite
          /\ job' = [Idle EXCEPT !.todo = {Created(p, kind)}]
     \/ /\ At(p) = {}
        /\ \A q \in Above(p) : At(q) # {} => \E i \in At(q) : IsFolder(i)
        /\ job' = [Idle EXCEPT !.todo = Missing(p) \union {Created(p, kind)}]
  /\ UNCHANGED <<docs, dirs, files, del, copied>>

\* An object can be overwritten, but not with a "folder" (any other type of
\* folder passes); a new one needs folders above it, those there are.
CreateStart(p, kind, overwrite) ==
  /\ job = Idle
  /\ \/ \E i \in At(p) :
          /\ ~IsFolder(i) /\ kind # "folder" /\ overwrite
          /\ job' = [Idle EXCEPT !.remove = {i}, !.todo = {Created(p, kind)}]
     \/ /\ At(p) = {}
        /\ \A q \in Above(p) : At(q) # {} => \E i \in At(q) : IsFolder(i)
        /\ job' = [Idle EXCEPT !.todo = Missing(p) \union {Created(p, kind)}]
  /\ UNCHANGED <<docs, dirs, files, del, copied>>

Without(i) == [j \in DOMAIN docs \ {i} |-> docs[j]]

\* remove_workspace_object.  Its file stays on disk.
RemoveOld(i) ==
  /\ i \in job.remove
  /\ docs' = Without(i)
  /\ job' = [job EXCEPT !.remove = {}]
  /\ UNCHANGED <<dirs, files, del, copied>>

(***************************************************************************)
(* perform_copy, up to the list of what is to be copied.                   *)
(***************************************************************************)

\* list_objects, by a regular expression on the path without the name.  That
\* of the workspace matches the empty path and those with a leading slash.
Listed(from) ==
  {i \in DOMAIN docs :
     IF from = Root THEN Len(docs[i].place) = 1 \/ docs[i].place[1] = Gap
                    ELSE IsStrictPrefix(from, docs[i].place)}

\* replace_path_prefix.  What follows from in the path begins with a slash,
\* which is left over when to is the workspace.
Replaced(from, to, p) ==
  LET path == Front(p)
      rest == IF from # Root THEN SubSeq(path, Len(from) + 1, Len(path))
              ELSE IF path = Root THEN Root ELSE Tail(path)
      new  == IF to = Root /\ rest # Root THEN <<Gap>> \o rest ELSE to \o rest
  IN Append(new, Last(p))

\* Source and destination are folders and have different ids; a destination
\* that does not exist has something above it, and is made with create_folder.
CopyStart(from, to, recursive) ==
  /\ job = Idle
  /\ \E f \in Seen(from) :
       /\ f.folder
       /\ \/ /\ \E t \in Seen(to) : t.folder /\ t.uuid # f.uuid
             /\ recursive
             /\ job' = [Idle EXCEPT !.list = {[from |-> from, to |-> to]}]
          \/ /\ Seen(to) = {}
             /\ Seen(Front(to)) # {}
             /\ job' = [Idle EXCEPT
                  !.todo = {[place |-> to, kind |-> "folder", origin |-> "mkdir",
                             of |-> "", source |-> Root]},
                  !.list = IF recursive THEN {[from |-> from, to |-> to]} ELSE {}]
  /\ UNCHANGED <<docs, dirs, files, del, copied>>

\* After create_folder, whose document is listed if it is below the source.
CopyList(l) ==
  /\ l \in job.list
  /\ job.todo = {} /\ job.now = {}
  /\ job' = [job EXCEPT !.list = {}, !.todo =
       {[place |-> Replaced(l.from, l.to, docs[i].place), kind |-> docs[i].kind,
         origin |-> "copy", of |-> i, source |-> docs[i].place] : i \in Listed(l.from)}]
  /\ UNCHANGED <<docs, dirs, files, del, copied>>

(***************************************************************************)
(* create_workspace_object and copy_workspace_object: first the file       *)
(* system, then the database.  Folders come before what is in them; both   *)
(* functions report their failure, and no caller looks at it.              *)
(***************************************************************************)

IsNext(x) ==
  /\ job.remove = {} /\ job.now = {}
  /\ x \in job.todo
  /\ \A y \in job.todo : Len(x.source) <= Len(y.source)

\* x is made, or skipped.
Taken(x, made) ==
  job' = [job EXCEPT !.todo = @ \ {x}, !.now = IF made THEN {x} ELSE {}]

HasLeadingPath(x) == Front(OnDisk(x.place)) \in dirs

\* The end of the process.
Killed == job' = Idle /\ del' = {}

\* Variant of MakeDirectory: the error code is not looked at.
MakeDirectoryAnyway(x, ok) ==
  /\ IsNext(x)
  /\ x.kind = "folder"
  /\ dirs' = IF ok /\ HasLeadingPath(x) /\ OnDisk(x.place) \notin files
             THEN dirs \union {OnDisk(x.place)} ELSE dirs
  /\ Taken(x, TRUE)
  /\ UNCHANGED <<docs, files, del, copied>>

\* create_directory succeeds if the directory exists.
MakeDirectory(x, ok) ==
  /\ IsNext(x)
  /\ x.kind = "folder"
  /\ LET made == ok /\ HasLeadingPath(x) /\ OnDisk(x.place) \notin files
     IN /\ dirs' = IF made THEN dirs \union {OnDisk(x.place)} ELSE dirs
        /\ Taken(x, made)
  /\ UNCHANGED <<docs, files, del, copied>>

\* Variant of WriteFile: a directory at the place is no obstacle.
WriteFileOverDirectory(x, ok) ==
  /\ IsNext(x)
  /\ x.kind = "file" /\ x.origin = "create"
  /\ LET written == ok /\ HasLeadingPath(x)
     IN /\ files' = IF written THEN files \union {OnDisk(x.place)} ELSE files
        /\ Taken(x, written \/ ~HasLeadingPath(x))
  /\ UNCHANGED <<docs, dirs, del, copied>>

\* Without its leading path an object is inserted all the same, without data.
WriteFile(x, ok) ==
  /\ IsNext(x)
  /\ x.kind = "file" /\ x.origin = "create"
  /\ LET written == ok /\ HasLeadingPath(x) /\ OnDisk(x.place) \notin dirs
     IN /\ files' = IF written THEN files \union {OnDisk(x.place)} ELSE files
        /\ Taken(x, written \/ ~HasLeadingPath(x))
  /\ UNCHANGED <<docs, dirs, del, copied>>

\* fs::copy and fs::file_size throw what the handler does not catch when there
\* is no source, and when there is a file or a directory at the target.
CopyFile(x, ok) ==
  /\ IsNext(x)
  /\ x.kind = "file" /\ x.origin = "copy"
  /\ LET copies == ok /\ OnDisk(x.source) \in files /\ OnDisk(x.place) \notin files \union dirs
     IN IF HasLeadingPath(x) /\ ~copies
        THEN Killed /\ UNCHANGED files
        ELSE /\ files' = IF HasLeadingPath(x) THEN files \union {OnDisk(x.place)} ELSE files
             /\ Taken(x, TRUE)
             /\ UNCHANGED del
  /\ UNCHANGED <<docs, dirs, copied>>

\* The data is in Shock; a copy refers to the node of its source.
UseNode(x) ==
  /\ IsNext(x)
  /\ x.kind = "shock"
  /\ Taken(x, TRUE)
  /\ UNCHANGED <<docs, dirs, files, del, copied>>

\* insert_one, of a document with a new id: one that nothing refers to.
InsertDoc(x, i) ==
  /\ x \in job.now
  /\ i \in Ids \ DOMAIN docs
  /\ \A t \in del : t.uuid # i
  /\ docs' = [j \in DOMAIN docs \union {i} |->
                IF j = i THEN [place |-> x.place, kind |-> x.kind, origin |-> x.origin]
                         ELSE docs[j]]
  /\ copied' = IF x.origin = "copy" THEN copied \union {x.place} ELSE copied
  /\ job' = [job EXCEPT !.now = {}]
  /\ UNCHANGED <<dirs, files, del>>

(***************************************************************************)
(* method_delete of a folder with deleteDirectories and without force, the *)
(* only one that deletes anything, and the end of the process.             *)
(***************************************************************************)

DeleteStart(i) ==
  /\ i \in DOMAIN docs
  /\ IsFolder(i)
  /\ docs[i].place[1] # Gap
  /\ del' = del \union {[uuid |-> Uuid(i), place |-> docs[i].place]}
  /\ UNCHANGED <<docs, dirs, files, job, copied>>

\* Variant of Matches: the filter has the place only.
MatchesPlace(t) == At(t.place)

\* The documents that the filter of delete_one matches.
Matches(t) == {i \in At(t.place) : Uuid(i) = t.uuid}

\* last: no other deletion is under way that has looked up the same.
DeleteApply(t, last) ==
  /\ \/ Matches(t) = {} /\ UNCHANGED docs
     \/ \E i \in Matches(t) : docs' = Without(i)
  /\ del' = IF last THEN del \ {t} ELSE del
  /\ UNCHANGED <<dirs, files, job, copied>>

Crash ==
  /\ Killed
  /\ UNCHANGED <<docs, dirs, files, copied>>

-----------------------------------------------------------------------------
\* Bounds: the documents that a request may insert, and how deep.
CreateFits(p) == Cardinality(DOMAIN docs) + Len(p) <= MaxDocs
CopyFits(from, to) ==
  LET made == IF Seen(to) # {} THEN 0 ELSE IF IsStrictPrefix(from, to) THEN 2 ELSE 1
  IN /\ Cardinality(DOMAIN docs) + Cardinality(Listed(from)) + made <= MaxDocs
     /\ \A p \in {docs[i].place : i \in Listed(from)} \union {to} :
          IsStrictPrefix(from, p) => Len(Replaced(from, to, p)) <= MaxDepth

CreateNext ==
  \/ \E p \in Places, kind \in Kinds \union {"modelfolder"}, overwrite \in BOOLEAN :
       CreateFits(p) /\ CreateStart(p, kind, overwrite)
  \/ \E i \in job.remove : RemoveOld(i)

CopyNext ==
  \/ \E from, to \in Places \union {Root}, recursive \in BOOLEAN :
       CopyFits(from, to) /\ CopyStart(from, to, recursive)
  \/ \E l \in job.list : CopyList(l)

InsertNext ==
  \/ \E x \in job.todo :
       \/ \E ok \in BOOLEAN : MakeDirectory(x, ok) \/ WriteFile(x, ok) \/ CopyFile(x, ok)
       \/ UseNode(x)
  \/ \E x \in job.now, i \in Ids : InsertDoc(x, i)

DeleteNext ==
  \/ \E i \in Ids : Cardinality(del) < MaxSeen /\ DeleteStart(i)
  \/ \E t \in del, last \in BOOLEAN : DeleteApply(t, last)

Next == CreateNext \/ CopyNext \/ InsertNext \/ DeleteNext \/ Crash

Spec == Init /\ [][Next]_vars

(***************************************************************************)
(* Properties.                                                             *)
(***************************************************************************)

\* Every folder in the database has its directory on disk, whatever failed,
\* was interrupted, or was deleted beside it.
FolderHasDirectory ==
  \A i \in DOMAIN docs : IsFolder(i) => OnDisk(docs[i].place) \in dirs

\* A place has one document, unless a copy has put one there: no two creations,
\* and no creation beside a deletion or after a crash, make a second one.
OnlyCopiesDuplicate ==
  \A i, j \in DOMAIN docs :
    (i # j /\ docs[i].place = docs[j].place) => docs[i].place \in copied

\* A deletion deletes a folder, and at the place where it has found one, also
\* if that has been deleted and the place been used again in the meantime.
DeletesFoldersOnly ==
  [][\A i \in DOMAIN docs \ DOMAIN docs' :
       \/ i \in job.remove
       \/ /\ IsFolder(i)
          /\ \E t \in del : t.place = docs[i].place]_vars

\* WorkspaceDB.cpp:966-969, "Verify there are no objects in this folder": a
\* folder that is deleted without force is empty.
DeletedFolderIsEmpty ==
  [][\A i \in DOMAIN docs \ DOMAIN docs' :
       ~\E j \in DOMAIN docs : IsStrictPrefix(docs[i].place, docs[j].place)]_vars
=============================================================================
