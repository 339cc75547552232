------------------------------ MODULE Metadata ------------------------------
(***************************************************************************)
(* update_metadata: method_update_metadata (WorkspaceService.cpp) and      *)
(* update_object (WorkspaceDB.cpp).                                        *)
(*                                                                         *)
(* A job of the sync thread looks an object up by its workspace and path,  *)
(* computes its new metadata and type from what it has found, and writes   *)
(* them to a document with the uuid it has found.  Other jobs of the sync  *)
(* thread make and overwrite objects, and deletions in the thread pool     *)
(* remove folders in between.                                              *)
(*                                                                         *)
(* Documents made by create_folder have an empty uuid, and so has what the *)
(* look-up of an object that does not exist answers.                       *)
(*                                                                         *)
(* Nothing is carried from one object of a request to the next, so that    *)
(* each object is a job here.  The permission check is that of the module  *)
(* Permissions; creation dates are left out.                               *)
(***************************************************************************)
EXTENDS Naturals, FiniteSets

CONSTANTS
  Requests,   \* update_metadata requests under way at the same time
  Ids,        \* the documents that have ever been inserted
  Spaces,     \* the workspaces, and their uuids
  Places,     \* the paths and names in a workspace
  Root,       \* the path of a workspace itself
  Keys,       \* the keys of user metadata
  Vals,       \* their values
  MaxDocs     \* bound on the documents

ASSUME RootAssumption == Root \notin Places
ASSUME IdsAssumption == "" \notin Ids /\ "" \notin Spaces
ASSUME DocsAssumption == MaxDocs \in Nat

VARIABLES
  docs,     \* the objects collection
  spaces,   \* the metadata in the workspaces collection
  job       \* per request: what it has looked up, a set of at most one

vars == <<docs, spaces, job>>

Folders == {"folder", "modelfolder"}
Types   == Folders \union {"txt"}

Mds  == UNION {[K -> Vals] : K \in SUBSET Keys}
NoMd == [k \in {} |-> k]

Docs == [ws : Spaces, place : Places, type : Types, uuid : Ids \union {""}, md : Mds]

AtMostOne(S) == {{}} \union {{x} : x \in S}

\* ObjectToModify: its type and its metadata are optional.
Mods == [ws : Spaces, place : Places \union {Root}, type : AtMostOne(Types),
         md : AtMostOne(Mds), append : BOOLEAN]

Metas == [uuid : Ids \union Spaces \union {""}, type : Types \union {""}, md : Mds]
Jobs  == [mod : Mods, meta : Metas]

TypeOK ==
  /\ DOMAIN docs \subseteq Ids
  /\ \A i \in DOMAIN docs : docs[i] \in Docs
  /\ spaces \in [Spaces -> Mds]
  /\ job \in [Requests -> SUBSET Jobs]

Init ==
  /\ docs = [i \in {} |-> i]
  /\ spaces = [w \in Spaces |-> NoMd]
  /\ job = [r \in Requests |-> {}]

(***************************************************************************)
(* lookup_object_meta.  What it finds for a workspace has no metadata:     *)
(* populate_workspace_from_db_obj does not load them.                      *)
(***************************************************************************)

At(w, p) == {i \in DOMAIN docs : docs[i].ws = w /\ docs[i].place = p}

Found(w, p) ==
  IF p = Root THEN {[uuid |-> w, type |-> "folder", md |-> NoMd]}
  ELSE IF At(w, p) = {} THEN {[uuid |-> "", type |-> "", md |-> NoMd]}
  ELSE {[uuid |-> docs[i].uuid, type |-> docs[i].type, md |-> docs[i].md] : i \in At(w, p)}

(***************************************************************************)
(* update_object.                                                          *)
(***************************************************************************)

\* Variant of TypeFits: any type can be set.
TypeFitsAny(mod, type) == mod.type # {} => type \in Types

TypeFits(mod, type) == \A t \in mod.type : t \in Folders <=> type \in Folders

\* The update has something to set.
Sets(mod, type) == mod.md # {} \/ (mod.type # {} /\ mod.type # {type})

\* std::map::insert does not overwrite: what is there wins.
Inserted(old, new) ==
  [k \in DOMAIN old \union DOMAIN new |-> IF k \in DOMAIN old THEN old[k] ELSE new[k]]

\* The metadata and the type that mod makes of those given.
NewMd(mod, md) ==
  IF mod.md = {} THEN md
  ELSE LET new == CHOOSE f \in mod.md : TRUE
       IN IF mod.append THEN Inserted(md, new) ELSE new

\* Variant of NewType: a request without a type sets the empty one.
NewTypeOrEmpty(mod, type) == IF mod.type = {} THEN "" ELSE CHOOSE t \in mod.type : TRUE

NewType(mod, type) == IF mod.type = {} THEN type ELSE CHOOSE t \in mod.type : TRUE

\* $set writes the fields that the request has and that are to change, computed
\* from what was looked up.
Updated(doc, mod, meta) ==
  [doc EXCEPT !.md   = IF mod.md = {} THEN @ ELSE NewMd(mod, meta.md),
              !.type = IF mod.type = {meta.type} THEN @ ELSE NewType(mod, @)]

SyncThreadFree == \A r \in Requests : job[r] = {}

\* A type cannot be set on a workspace (WorkspaceService.cpp).
LookUp(r, mod) ==
  /\ SyncThreadFree /\ job[r] = {}
  /\ mod.place = Root => mod.type = {}
  /\ \E meta \in Found(mod.ws, mod.place) :
       /\ TypeFits(mod, meta.type)
       /\ Sets(mod, meta.type)
       /\ job' = [job EXCEPT ![r] = {[mod |-> mod, meta |-> meta]}]
  /\ UNCHANGED <<docs, spaces>>

\* update_one, the filter of which has only the uuid.
UpdateWorkspace(r) ==
  \E j \in job[r] :
    /\ j.mod.place = Root
    /\ spaces' = [spaces EXCEPT ![j.meta.uuid] = NewMd(j.mod, j.meta.md)]
    /\ job' = [job EXCEPT ![r] = {}]
    /\ UNCHANGED docs

Matches(uuid) == {i \in DOMAIN docs : docs[i].uuid = uuid}

UpdateObject(r) ==
  \E j \in job[r] :
    /\ j.mod.place # Root
    /\ \/ \E i \in Matches(j.meta.uuid) :
            docs' = [docs EXCEPT ![i] = Updated(@, j.mod, j.meta)]
       \/ Matches(j.meta.uuid) = {} /\ UNCHANGED docs
    /\ job' = [job EXCEPT ![r] = {}]
    /\ UNCHANGED spaces

(***************************************************************************)
(* The other requests: jobs of the sync thread, but for the deletion.      *)
(***************************************************************************)
With(i, doc) == [j \in DOMAIN docs \union {i} |-> IF j = i THEN doc ELSE docs[j]]
Without(i)   == [j \in DOMAIN docs \ {i} |-> docs[j]]

Insert(i, doc) ==
  /\ SyncThreadFree
  /\ i \notin DOMAIN docs /\ Cardinality(DOMAIN docs) < MaxDocs
  /\ docs' = With(i, doc)
  /\ UNCHANGED <<spaces, job>>

\* process_create.
Create(i, w, p, type, md) ==
  /\ At(w, p) = {}
  /\ Insert(i, [ws |-> w, place |-> p, type |-> type, uuid |-> i, md |-> md])

\* Variant of Copy: the copy keeps the uuid of its source.
CopyKeepsUuid(i, of, w, p) ==
  /\ of \in DOMAIN docs
  /\ Insert(i, [ws |-> w, place |-> p, type |-> docs[of].type, uuid |-> docs[of].uuid, md |-> NoMd])

\* copy_workspace_object, which does not ask whether the place is free.  The
\* copy has the type of its source, but not its metadata: the loop is over
\* those of the empty meta that is to be returned.
Copy(i, of, w, p) ==
  /\ of \in DOMAIN docs
  /\ Insert(i, [ws |-> w, place |-> p, type |-> docs[of].type, uuid |-> i, md |-> NoMd])

\* create_folder, which makes the destination of a recursive copy.
CreateFolder(i, w, p) ==
  /\ At(w, p) = {}
  /\ Insert(i, [ws |-> w, place |-> p, type |-> "folder", uuid |-> "", md |-> NoMd])

\* process_create with overwrite, up to the removal of the old object.
RemoveObject(i) ==
  /\ SyncThreadFree
  /\ i \in DOMAIN docs /\ docs[i].type \notin Folders
  /\ docs' = Without(i)
  /\ UNCHANGED <<spaces, job>>

\* remove_workspace_folder_only, in the thread pool.
DeleteFolder(i) ==
  /\ i \in DOMAIN docs /\ docs[i].type \in Folders
  /\ docs' = Without(i)
  /\ UNCHANGED <<spaces, job>>

Next ==
  \/ \E r \in Requests :
       \/ \E mod \in Mods : LookUp(r, mod)
       \/ UpdateWorkspace(r)
       \/ UpdateObject(r)
  \/ \E i \in Ids :
       \/ \E w \in Spaces, p \in Places :
            \/ \E t \in Types, md \in Mds : Create(i, w, p, t, md)
            \/ \E of \in Ids : Copy(i, of, w, p)
            \/ CreateFolder(i, w, p)
       \/ RemoveObject(i)
       \/ DeleteFolder(i)

Spec == Init /\ [][Next]_vars

(***************************************************************************)
(* Properties.                                                             *)
(***************************************************************************)

\* The documents that a step changes.
Changed == {i \in DOMAIN docs \intersect DOMAIN docs' : docs'[i] # docs[i]}

\* An object that has a uuid of its own changes only by an update that names it
\* and not by one that has looked up another before, and it changes as that
\* update says of what the object has then: append keeps the metadata of that
\* moment.
UpdatesAreAtomic ==
  [][\A i \in Changed : docs[i].uuid # "" =>
       \E r \in Requests : \E j \in job[r] :
         /\ job'[r] = {}
         /\ j.mod.ws = docs[i].ws /\ j.mod.place = docs[i].place
         /\ docs'[i] = [docs[i] EXCEPT !.md = NewMd(j.mod, @), !.type = NewType(j.mod, @)]]_vars

\* An object that has a uuid of its own never becomes a folder, and a folder
\* never an object ("cannot change non-folder type to folder or vice versa").
KindIsKept ==
  [][\A i \in Changed : docs[i].uuid # "" =>
       (docs'[i].type \in Folders <=> docs[i].type \in Folders)]_vars

\* The same for every document, as the message in update_object says.
FoldersStayFolders ==
  [][\A i \in Changed : docs'[i].type \in Folders <=> docs[i].type \in Folders]_vars
=============================================================================
