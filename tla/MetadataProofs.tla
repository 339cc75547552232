--------------------------- MODULE MetadataProofs ---------------------------
(***************************************************************************)
(* Proofs of the properties of Metadata, for any number of requests,       *)
(* documents and workspaces.                                               *)
(*                                                                         *)
(* The inductive invariant says why a filter by uuid is enough: a uuid     *)
(* belongs to one document (OwnIds), at most one request has looked        *)
(* something up (Serial), and what it has looked up is still what the      *)
(* document has (JobIsFresh), as long as the document has a uuid.          *)
(***************************************************************************)
EXTENDS Metadata, TLAPS

\* At most one update is between its look-up and its write.
Serial ==
  \A r, s \in Requests : \A j \in job[r], k \in job[s] : r = s /\ j = k

\* A uuid that is not empty is that of the document alone.
OwnIds == \A i \in DOMAIN docs : docs[i].uuid \in {"", i}

\* What an update has looked up is what the document with that uuid has.
JobIsFresh ==
  \A r \in Requests : \A j \in job[r] :
    /\ TypeFits(j.mod, j.meta.type)
    /\ j.mod.place # Root =>
         \A i \in DOMAIN docs :
           docs[i].uuid # "" /\ docs[i].uuid = j.meta.uuid =>
             /\ docs[i].ws = j.mod.ws /\ docs[i].place = j.mod.place
             /\ docs[i].type = j.meta.type /\ docs[i].md = j.meta.md

IInv == TypeOK /\ Serial /\ OwnIds /\ JobIsFresh

-----------------------------------------------------------------------------
\* An element of a set of at most one: what CHOOSE takes.
LEMMA ChosenIsIt ==
  ASSUME NEW S, NEW T \in AtMostOne(S), T # {}
  PROVE  /\ (CHOOSE x \in T : TRUE) \in S
         /\ T = {CHOOSE x \in T : TRUE}
  BY DEF AtMostOne

\* Metadata inserted into metadata are metadata.
LEMMA InsertedType ==
  ASSUME NEW old \in Mds, NEW new \in Mds
  PROVE  Inserted(old, new) \in Mds
<1>1. PICK K \in SUBSET Keys : old \in [K -> Vals]
  BY DEF Mds
<1>2. PICK L \in SUBSET Keys : new \in [L -> Vals]
  BY DEF Mds
<1>3. Inserted(old, new) \in [K \union L -> Vals]
  BY <1>1, <1>2 DEF Inserted
<1>4. K \union L \in SUBSET Keys
  OBVIOUS
<1> QED
  BY <1>3, <1>4 DEF Mds

LEMMA NoMdType == NoMd \in Mds
<1>1. NoMd \in [{} -> Vals]
  BY DEF NoMd
<1> QED
  BY <1>1 DEF Mds

LEMMA NewMdType ==
  ASSUME NEW mod \in Mods, NEW md \in Mds
  PROVE  NewMd(mod, md) \in Mds
<1>1. CASE mod.md = {}
  BY <1>1 DEF NewMd
<1>2. CASE mod.md # {}
  <2>1. mod.md \in AtMostOne(Mds)
    BY DEF Mods
  <2>2. (CHOOSE f \in mod.md : TRUE) \in Mds
    BY <1>2, <2>1, ChosenIsIt
  <2> QED
    BY <1>2, <2>2, InsertedType DEF NewMd
<1> QED
  BY <1>1, <1>2

LEMMA NewTypeType ==
  ASSUME NEW mod \in Mods, NEW type \in Types
  PROVE  NewType(mod, type) \in Types
<1>1. mod.type \in AtMostOne(Types)
  BY DEF Mods
<1> QED
  BY <1>1, ChosenIsIt DEF NewType

LEMMA UpdatedType ==
  ASSUME NEW doc \in Docs, NEW mod \in Mods, NEW meta \in Metas
  PROVE  /\ Updated(doc, mod, meta) \in Docs
         /\ Updated(doc, mod, meta).uuid = doc.uuid
         /\ Updated(doc, mod, meta).ws = doc.ws
         /\ Updated(doc, mod, meta).place = doc.place
<1>1. NewMd(mod, meta.md) \in Mds
  BY NewMdType DEF Metas
<1>2. NewType(mod, doc.type) \in Types
  BY NewTypeType DEF Docs
<1> QED
  BY <1>1, <1>2 DEF Updated, Docs

\* What the look-up answers has the type of a look-up.
LEMMA FoundType ==
  ASSUME TypeOK, NEW w \in Spaces, NEW p \in Places \union {Root}, NEW meta \in Found(w, p)
  PROVE  meta \in Metas
<1>1. CASE p = Root
  <2>1. meta = [uuid |-> w, type |-> "folder", md |-> NoMd]
    BY <1>1 DEF Found
  <2>2. "folder" \in Types
    BY DEF Types, Folders
  <2> QED
    BY <2>1, <2>2, NoMdType DEF Metas
<1>2. CASE p # Root /\ At(w, p) = {}
  <2>1. meta = [uuid |-> "", type |-> "", md |-> NoMd]
    BY <1>2 DEF Found
  <2> QED
    BY <2>1, NoMdType DEF Metas
<1>3. CASE p # Root /\ At(w, p) # {}
  <2>1. PICK i \in At(w, p) : meta = [uuid |-> docs[i].uuid, type |-> docs[i].type, md |-> docs[i].md]
    BY <1>3 DEF Found
  <2>2. docs[i] \in Docs
    BY DEF At, TypeOK
  <2> QED
    BY <2>1, <2>2 DEF Metas, Docs
<1> QED
  BY <1>1, <1>2, <1>3

-----------------------------------------------------------------------------
LEMMA InitIInv == Init => IInv
<1> SUFFICES ASSUME Init PROVE IInv
  OBVIOUS
<1>1. TypeOK
  BY NoMdType DEF Init, TypeOK
<1>2. Serial /\ OwnIds /\ JobIsFresh
  BY DEF Init, Serial, OwnIds, JobIsFresh
<1> QED
  BY <1>1, <1>2 DEF IInv

LEMMA LookUpKeepsIInv ==
  ASSUME IInv, NEW r \in Requests, NEW mod \in Mods, LookUp(r, mod)
  PROVE  IInv'
<1>1. PICK meta \in Found(mod.ws, mod.place) :
        /\ TypeFits(mod, meta.type)
        /\ job' = [job EXCEPT ![r] = {[mod |-> mod, meta |-> meta]}]
  BY DEF LookUp
<1>2. docs' = docs /\ spaces' = spaces /\ SyncThreadFree
  BY DEF LookUp
<1>3. mod.ws \in Spaces /\ mod.place \in Places \union {Root}
  BY DEF Mods
<1>4. meta \in Metas
  BY <1>3, FoundType DEF IInv
<1>5. TypeOK'
  <2>1. [mod |-> mod, meta |-> meta] \in Jobs
    BY <1>4 DEF Jobs
  <2> QED
    BY <1>1, <1>2, <2>1 DEF IInv, TypeOK
<1>6. \A s \in Requests : job'[s] = IF s = r THEN {[mod |-> mod, meta |-> meta]} ELSE {}
  BY <1>1, <1>2 DEF IInv, TypeOK, SyncThreadFree
<1>7. Serial'
  BY <1>6 DEF Serial
<1>8. OwnIds'
  BY <1>2 DEF IInv, OwnIds
<1>9. ASSUME mod.place # Root, NEW i \in DOMAIN docs,
             docs[i].uuid # "", docs[i].uuid = meta.uuid
      PROVE  /\ docs[i].ws = mod.ws /\ docs[i].place = mod.place
             /\ docs[i].type = meta.type /\ docs[i].md = meta.md
  <2>1. PICK k \in At(mod.ws, mod.place) :
          meta = [uuid |-> docs[k].uuid, type |-> docs[k].type, md |-> docs[k].md]
    <3>1. CASE At(mod.ws, mod.place) = {}
      <4>1. meta = [uuid |-> "", type |-> "", md |-> NoMd]
        BY <1>9, <3>1 DEF Found
      <4> QED
        BY <1>9, <4>1
    <3>2. CASE At(mod.ws, mod.place) # {}
      BY <1>9, <3>2 DEF Found
    <3> QED
      BY <3>1, <3>2
  <2>2. k \in DOMAIN docs /\ docs[k].ws = mod.ws /\ docs[k].place = mod.place
    BY DEF At
  <2>3. i = k
    BY <1>9, <2>1, <2>2 DEF IInv, OwnIds
  <2> QED
    BY <2>1, <2>2, <2>3
<1>10. JobIsFresh'
  <2> SUFFICES ASSUME NEW s \in Requests, NEW j \in job'[s]
               PROVE  /\ TypeFits(j.mod, j.meta.type)
                      /\ j.mod.place # Root =>
                           \A i \in DOMAIN docs :
                             docs[i].uuid # "" /\ docs[i].uuid = j.meta.uuid =>
                               /\ docs[i].ws = j.mod.ws /\ docs[i].place = j.mod.place
                               /\ docs[i].type = j.meta.type /\ docs[i].md = j.meta.md
    BY <1>2 DEF JobIsFresh, TypeFits
  <2>1. j = [mod |-> mod, meta |-> meta]
    BY <1>6
  <2>2. j.mod = mod /\ j.meta = meta
    BY <2>1
  <2> QED
    BY <1>1, <1>9, <2>2
<1> QED
  BY <1>5, <1>7, <1>8, <1>10 DEF IInv

LEMMA UpdateWorkspaceKeepsIInv ==
  ASSUME IInv, NEW r \in Requests, UpdateWorkspace(r)
  PROVE  IInv'
<1>1. PICK j \in job[r] :
        /\ spaces' = [spaces EXCEPT ![j.meta.uuid] = NewMd(j.mod, j.meta.md)]
        /\ job' = [job EXCEPT ![r] = {}]
        /\ docs' = docs
  BY DEF UpdateWorkspace
<1>2. j.mod \in Mods /\ j.meta.md \in Mds
  <2>1. j \in Jobs
    BY DEF IInv, TypeOK
  <2>2. j.mod \in Mods /\ j.meta \in Metas
    BY <2>1 DEF Jobs
  <2> QED
    BY <2>2 DEF Metas
<1>3. TypeOK'
  BY <1>1, <1>2, NewMdType DEF IInv, TypeOK
<1>4. \A s \in Requests : job'[s] \subseteq job[s]
  BY <1>1 DEF IInv, TypeOK
<1>5. Serial' /\ OwnIds'
  BY <1>1, <1>4 DEF IInv, Serial, OwnIds
<1>6. JobIsFresh'
  <2> SUFFICES ASSUME NEW s \in Requests, NEW jj \in job'[s]
               PROVE  /\ TypeFits(jj.mod, jj.meta.type)
                      /\ jj.mod.place # Root =>
                           \A i \in DOMAIN docs' :
                             docs'[i].uuid # "" /\ docs'[i].uuid = jj.meta.uuid =>
                               /\ docs'[i].ws = jj.mod.ws /\ docs'[i].place = jj.mod.place
                               /\ docs'[i].type = jj.meta.type /\ docs'[i].md = jj.meta.md
    BY DEF JobIsFresh, TypeFits
  <2>1. jj \in job[s]
    BY <1>4
  <2> QED
    BY <1>1, <2>1 DEF IInv, JobIsFresh
<1> QED
  BY <1>3, <1>5, <1>6 DEF IInv

LEMMA UpdateObjectKeepsIInv ==
  ASSUME IInv, NEW r \in Requests, UpdateObject(r)
  PROVE  IInv'
<1>1. PICK j \in job[r] :
        /\ \/ \E i \in Matches(j.meta.uuid) :
                docs' = [docs EXCEPT ![i] = Updated(@, j.mod, j.meta)]
           \/ docs' = docs
        /\ job' = [job EXCEPT ![r] = {}]
        /\ spaces' = spaces
  BY DEF UpdateObject
<1>2. j.mod \in Mods /\ j.meta \in Metas
  BY DEF IInv, TypeOK, Jobs
<1>3. \A s \in Requests : job'[s] = {}
  BY <1>1 DEF IInv, TypeOK, Serial
<1>4. Serial' /\ JobIsFresh'
  BY <1>3 DEF Serial, JobIsFresh
<1>5. job' \in [Requests -> SUBSET Jobs] /\ spaces' \in [Spaces -> Mds]
  BY <1>1 DEF IInv, TypeOK
<1>6. CASE docs' = docs
  BY <1>4, <1>5, <1>6 DEF IInv, TypeOK, OwnIds
<1>7. ASSUME NEW i \in Matches(j.meta.uuid),
             docs' = [docs EXCEPT ![i] = Updated(@, j.mod, j.meta)]
      PROVE  IInv'
  <2>1. i \in DOMAIN docs /\ docs[i] \in Docs
    BY DEF Matches, IInv, TypeOK
  <2>2. /\ Updated(docs[i], j.mod, j.meta) \in Docs
        /\ Updated(docs[i], j.mod, j.meta).uuid = docs[i].uuid
    BY <1>2, <2>1, UpdatedType
  <2>3. DOMAIN docs' = DOMAIN docs
    BY <1>7
  <2>4. \A k \in DOMAIN docs : docs'[k] = IF k = i THEN Updated(docs[i], j.mod, j.meta) ELSE docs[k]
    BY <1>7
  <2>5. TypeOK'
    BY <1>5, <2>2, <2>3, <2>4 DEF IInv, TypeOK
  <2>6. OwnIds'
    BY <2>2, <2>3, <2>4 DEF IInv, OwnIds
  <2> QED
    BY <1>4, <2>5, <2>6 DEF IInv
<1> QED
  BY <1>1, <1>6, <1>7

\* An insertion while nothing is under way.
LEMMA InsertKeepsIInv ==
  ASSUME IInv, NEW i \in Ids, NEW doc \in Docs, Insert(i, doc), doc.uuid \in {"", i}
  PROVE  IInv'
<1>1. /\ docs' = With(i, doc) /\ spaces' = spaces /\ job' = job
      /\ \A r \in Requests : job[r] = {}
  BY DEF Insert, SyncThreadFree
<1>2. /\ DOMAIN docs' = DOMAIN docs \union {i}
      /\ \A k \in DOMAIN docs' : docs'[k] = IF k = i THEN doc ELSE docs[k]
  BY <1>1 DEF With
<1>3. TypeOK'
  BY <1>1, <1>2 DEF IInv, TypeOK
<1>4. OwnIds'
  BY <1>2 DEF IInv, OwnIds
<1>5. Serial' /\ JobIsFresh'
  BY <1>1 DEF Serial, JobIsFresh
<1> QED
  BY <1>3, <1>4, <1>5 DEF IInv

\* A document that goes away.
LEMMA WithoutKeepsIInv ==
  ASSUME IInv, NEW i, docs' = Without(i), UNCHANGED <<spaces, job>>
  PROVE  IInv'
<1>1. /\ DOMAIN docs' = DOMAIN docs \ {i}
      /\ \A k \in DOMAIN docs' : docs'[k] = docs[k]
  BY DEF Without
<1>2. TypeOK'
  BY <1>1 DEF IInv, TypeOK
<1>3. OwnIds'
  BY <1>1 DEF IInv, OwnIds
<1>4. Serial'
  BY DEF IInv, Serial
<1>5. JobIsFresh'
  <2> SUFFICES ASSUME NEW s \in Requests, NEW j \in job'[s]
               PROVE  /\ TypeFits(j.mod, j.meta.type)
                      /\ j.mod.place # Root =>
                           \A k \in DOMAIN docs' :
                             docs'[k].uuid # "" /\ docs'[k].uuid = j.meta.uuid =>
                               /\ docs'[k].ws = j.mod.ws /\ docs'[k].place = j.mod.place
                               /\ docs'[k].type = j.meta.type /\ docs'[k].md = j.meta.md
    BY DEF JobIsFresh, TypeFits
  <2>1. j \in job[s]
    OBVIOUS
  <2>2. /\ TypeFits(j.mod, j.meta.type)
        /\ j.mod.place # Root =>
             \A k \in DOMAIN docs :
               docs[k].uuid # "" /\ docs[k].uuid = j.meta.uuid =>
                 /\ docs[k].ws = j.mod.ws /\ docs[k].place = j.mod.place
                 /\ docs[k].type = j.meta.type /\ docs[k].md = j.meta.md
    BY <2>1 DEF IInv, JobIsFresh
  <2>3. \A k \in DOMAIN docs' : k \in DOMAIN docs /\ docs'[k] = docs[k]
    BY <1>1
  <2> QED
    BY <2>2, <2>3
<1> QED
  BY <1>2, <1>3, <1>4, <1>5 DEF IInv

LEMMA NextKeepsIInv ==
  ASSUME IInv, Next
  PROVE  IInv'
<1>1. ASSUME NEW r \in Requests, NEW mod \in Mods, LookUp(r, mod)
      PROVE  IInv'
  BY <1>1, LookUpKeepsIInv
<1>2. ASSUME NEW r \in Requests, UpdateWorkspace(r)
      PROVE  IInv'
  BY <1>2, UpdateWorkspaceKeepsIInv
<1>3. ASSUME NEW r \in Requests, UpdateObject(r)
      PROVE  IInv'
  BY <1>3, UpdateObjectKeepsIInv
<1>4. ASSUME NEW i \in Ids, NEW w \in Spaces, NEW p \in Places, NEW t \in Types, NEW md \in Mds,
             Create(i, w, p, t, md)
      PROVE  IInv'
  <2>1. [ws |-> w, place |-> p, type |-> t, uuid |-> i, md |-> md] \in Docs
    BY DEF Docs
  <2> QED
    BY <1>4, <2>1, InsertKeepsIInv DEF Create
<1>5. ASSUME NEW i \in Ids, NEW w \in Spaces, NEW p \in Places, NEW of \in Ids, Copy(i, of, w, p)
      PROVE  IInv'
  <2>1. docs[of].type \in Types
    BY <1>5 DEF Copy, IInv, TypeOK, Docs
  <2>2. [ws |-> w, place |-> p, type |-> docs[of].type, uuid |-> i, md |-> NoMd] \in Docs
    BY <2>1, NoMdType DEF Docs
  <2> QED
    BY <1>5, <2>2, InsertKeepsIInv DEF Copy
<1>6. ASSUME NEW i \in Ids, NEW w \in Spaces, NEW p \in Places, CreateFolder(i, w, p)
      PROVE  IInv'
  <2>1. [ws |-> w, place |-> p, type |-> "folder", uuid |-> "", md |-> NoMd] \in Docs
    BY NoMdType DEF Docs, Types, Folders
  <2> QED
    BY <1>6, <2>1, InsertKeepsIInv DEF CreateFolder
<1>7. ASSUME NEW i \in Ids, RemoveObject(i) \/ DeleteFolder(i)
      PROVE  IInv'
  BY <1>7, WithoutKeepsIInv DEF RemoveObject, DeleteFolder
<1> QED
  BY <1>1, <1>2, <1>3, <1>4, <1>5, <1>6, <1>7 DEF Next

LEMMA StepKeepsIInv == IInv /\ [Next]_vars => IInv'
<1> SUFFICES ASSUME IInv, [Next]_vars PROVE IInv'
  OBVIOUS
<1>1. CASE Next
  BY <1>1, NextKeepsIInv
<1>2. CASE UNCHANGED vars
  <2> USE <1>2 DEF vars, IInv
  <2>1. TypeOK'
    BY DEF TypeOK
  <2>2. Serial' /\ OwnIds'
    BY DEF Serial, OwnIds
  <2>3. JobIsFresh'
    BY DEF JobIsFresh
  <2> QED
    BY <2>1, <2>2, <2>3
<1> QED
  BY <1>1, <1>2

\* The invariant on which the properties below rest.
THEOREM Invariance == Spec => []IInv
  BY InitIInv, StepKeepsIInv, PTL DEF Spec

\* The variables of update_object and of the requests beside it keep their
\* types: no document gets an empty type.
THEOREM TypeCorrect == Spec => []TypeOK
<1>1. IInv => TypeOK
  BY DEF IInv
<1> QED
  BY <1>1, Invariance, PTL

-----------------------------------------------------------------------------
\* A document changes only when update_object writes to it.
LEMMA ChangeIsUpdate ==
  ASSUME IInv, [Next]_vars, NEW i \in Changed
  PROVE  \E r \in Requests : \E j \in job[r] :
           /\ j.mod.place # Root
           /\ docs[i].uuid = j.meta.uuid
           /\ docs'[i] = Updated(docs[i], j.mod, j.meta)
           /\ job'[r] = {}
<1>1. i \in DOMAIN docs /\ i \in DOMAIN docs' /\ docs'[i] # docs[i]
  BY DEF Changed
<1>2. ASSUME docs' = docs
      PROVE  FALSE
  BY <1>1, <1>2
<1>3. ASSUME NEW k, NEW doc, docs' = With(k, doc), k \notin DOMAIN docs
      PROVE  FALSE
  BY <1>1, <1>3 DEF With
<1>4. ASSUME NEW k, docs' = Without(k)
      PROVE  FALSE
  BY <1>1, <1>4 DEF Without
<1>5. PICK r \in Requests : UpdateObject(r)
  <2>1. CASE UNCHANGED vars
    BY <2>1, <1>2 DEF vars
  <2>2. CASE Next
    BY <2>2, <1>2, <1>3, <1>4
       DEF Next, LookUp, UpdateWorkspace, Insert, Create, Copy, CreateFolder, RemoveObject, DeleteFolder
  <2> QED
    BY <2>1, <2>2
<1>6. PICK j \in job[r] :
        /\ j.mod.place # Root
        /\ \/ \E k \in Matches(j.meta.uuid) :
                docs' = [docs EXCEPT ![k] = Updated(@, j.mod, j.meta)]
           \/ docs' = docs
        /\ job' = [job EXCEPT ![r] = {}]
  BY <1>5 DEF UpdateObject
<1>7. PICK k \in Matches(j.meta.uuid) : docs' = [docs EXCEPT ![k] = Updated(@, j.mod, j.meta)]
  BY <1>2, <1>6
<1>8. i = k
  BY <1>1, <1>7
<1>9. docs'[i] = Updated(docs[i], j.mod, j.meta)
  BY <1>1, <1>7, <1>8
<1>10. docs[i].uuid = j.meta.uuid
  BY <1>8 DEF Matches
<1>11. job'[r] = {}
  BY <1>6 DEF IInv, TypeOK
<1> QED
  BY <1>6, <1>9, <1>10, <1>11

\* An object with a uuid changes only by an update that names it, and by what
\* the update says of the object as it is at that moment, although both were
\* looked up before.
THEOREM AtomicUpdates == Spec => UpdatesAreAtomic
<1>1. ASSUME IInv, [Next]_vars, NEW i \in Changed, docs[i].uuid # ""
      PROVE  \E r \in Requests : \E j \in job[r] :
               /\ job'[r] = {}
               /\ j.mod.ws = docs[i].ws /\ j.mod.place = docs[i].place
               /\ docs'[i] = [docs[i] EXCEPT !.md = NewMd(j.mod, @), !.type = NewType(j.mod, @)]
  <2>r. PICK r \in Requests : \E j \in job[r] :
          /\ j.mod.place # Root /\ docs[i].uuid = j.meta.uuid /\ job'[r] = {}
          /\ docs'[i] = Updated(docs[i], j.mod, j.meta)
    BY <1>1, ChangeIsUpdate
  <2>1. PICK j \in job[r] :
          /\ j.mod.place # Root /\ docs[i].uuid = j.meta.uuid /\ job'[r] = {}
          /\ docs'[i] = Updated(docs[i], j.mod, j.meta)
    BY <2>r
  <2>2. i \in DOMAIN docs /\ docs[i] \in Docs
    BY <1>1 DEF Changed, IInv, TypeOK
  <2>3. /\ docs[i].type = j.meta.type /\ docs[i].md = j.meta.md
        /\ j.mod.ws = docs[i].ws /\ j.mod.place = docs[i].place
    BY <1>1, <2>1, <2>2 DEF IInv, JobIsFresh
  <2>4. (IF j.mod.md = {} THEN docs[i].md ELSE NewMd(j.mod, j.meta.md)) = NewMd(j.mod, docs[i].md)
    BY <2>3 DEF NewMd
  <2>5. (IF j.mod.type = {j.meta.type} THEN docs[i].type ELSE NewType(j.mod, docs[i].type))
        = NewType(j.mod, docs[i].type)
    BY <2>3 DEF NewType
  <2>6. docs'[i] = [docs[i] EXCEPT !.md = NewMd(j.mod, @), !.type = NewType(j.mod, @)]
    BY <2>1, <2>2, <2>4, <2>5 DEF Updated
  <2> QED
    BY <2>1, <2>3, <2>6
<1>2. IInv /\ [Next]_vars =>
     [\A i \in Changed : docs[i].uuid # "" =>
       \E r \in Requests : \E j \in job[r] :
         /\ job'[r] = {}
         /\ j.mod.ws = docs[i].ws /\ j.mod.place = docs[i].place
         /\ docs'[i] = [docs[i] EXCEPT !.md = NewMd(j.mod, @), !.type = NewType(j.mod, @)]]_vars
  BY <1>1
<1> QED
  BY <1>2, Invariance, PTL DEF UpdatesAreAtomic, Spec

\* An object with a uuid never becomes a folder, and a folder with a uuid
\* never an object.
THEOREM KindsAreKept == Spec => KindIsKept
<1>1. ASSUME IInv, [Next]_vars, NEW i \in Changed, docs[i].uuid # ""
      PROVE  docs'[i].type \in Folders <=> docs[i].type \in Folders
  <2>r. PICK r \in Requests : \E j \in job[r] :
          /\ j.mod.place # Root /\ docs[i].uuid = j.meta.uuid
          /\ docs'[i] = Updated(docs[i], j.mod, j.meta)
    BY <1>1, ChangeIsUpdate
  <2>1. PICK j \in job[r] :
          /\ j.mod.place # Root /\ docs[i].uuid = j.meta.uuid
          /\ docs'[i] = Updated(docs[i], j.mod, j.meta)
    BY <2>r
  <2>2. i \in DOMAIN docs /\ docs[i] \in Docs
    BY <1>1 DEF Changed, IInv, TypeOK
  <2>3. docs[i].type = j.meta.type /\ TypeFits(j.mod, j.meta.type)
    BY <1>1, <2>1, <2>2 DEF IInv, JobIsFresh
  <2>4. docs'[i].type = docs[i].type \/ docs'[i].type = NewType(j.mod, docs[i].type)
    BY <2>1, <2>2 DEF Updated, Docs
  <2>5. NewType(j.mod, docs[i].type) \in Folders <=> docs[i].type \in Folders
    <3>1. CASE j.mod.type = {}
      BY <3>1 DEF NewType
    <3>2. CASE j.mod.type # {}
      <4>1. (CHOOSE t \in j.mod.type : TRUE) \in j.mod.type
        BY <3>2
      <4> QED
        BY <2>3, <3>2, <4>1 DEF NewType, TypeFits
    <3> QED
      BY <3>1, <3>2
  <2> QED
    BY <2>4, <2>5
<1>2. IInv /\ [Next]_vars =>
     [\A i \in Changed : docs[i].uuid # "" =>
       (docs'[i].type \in Folders <=> docs[i].type \in Folders)]_vars
  BY <1>1
<1> QED
  BY <1>2, Invariance, PTL DEF KindIsKept, Spec
=============================================================================
