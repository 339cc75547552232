-------------------------- MODULE DownloadsProofs --------------------------
(***************************************************************************)
(* Proofs of the properties of Downloads, for any number of calls,         *)
(* downloads, users and objects.                                           *)
(*                                                                         *)
(* Each property has a part of the inductive invariant, which follows what *)
(* the property is about through the steps of a call: from the database to *)
(* what the job has seen, to the keys, and to the downloads.               *)
(***************************************************************************)
EXTENDS Downloads, TLAPS

\* The permission: a caller that may read has been able to during its call.
Allowance ==
  /\ \A c \in Calls : Active(c) /\ call[c].who \in readers => c \in could
  /\ \A c \in Calls : \A s \in call[c].seen : s.may => c \in could
  /\ KeysWereAllowed

\* The token of the service: a call that has not failed has found or fetched it.
Filled ==
  /\ \A c \in Calls : call[c].pc \notin {"idle", "fetch"} /\ ~call[c].failed => token
  /\ TokensAreFilled

\* The access lists: a node of a key is still to be done, or has been.
Opening ==
  /\ \A k \in keys :
       /\ call[k.call].pc \notin {"idle", "fetch"}
       /\ k.token = "user" => call[k.call].who \in Users
       /\ k.token = "user" /\ k.kind = "node" /\ ~call[k.call].failed =>
            k.ver \in call[k.call].urls \/ <<k.ver, call[k.call].who>> \in acl
  /\ \A c \in Calls : call[c].urls # {} => call[c].pc \in {"job", "acl"} /\ call[c].who \in Users

\* The files: what is on disk is never older than a document that was read.
Newer(p, d) == d.kind = "file" => file[p] >= d.ver

Files ==
  /\ \A p \in Paths : file[p] <= last
  /\ \A m \in making : file[m.path] = m.ver
  /\ \A p \in Paths : \A d \in doc[p] : Newer(p, d)
  /\ \A c \in Calls : \A s \in call[c].seen : \A d \in s.doc : Newer(s.path, d)
  /\ \A k \in keys : Newer(k.path, k)
  /\ \A g \in Gets : \A k \in get[g].key : k \in keys
  /\ FileIsNotOlder

\* The sizes: that of the content, or not recorded yet.
Sized(d) == d.size \in {0, d.ver}

Lengths ==
  /\ \A p \in Paths : \A d \in doc[p] : Sized(d)
  /\ \A c \in Calls : \A s \in call[c].seen : \A d \in s.doc : Sized(d)
  /\ \A k \in keys : Sized(k)
  /\ \A g \in Gets : \A k \in get[g].key : Sized(k)
  /\ \A g \in Gets : get[g].pc = "streaming" => \A k \in get[g].key :
       get[g].length = IF k.kind = "file" THEN get[g].opened ELSE k.size
  /\ \A g \in Gets : get[g].got # {} => get[g].pc = "done"
  /\ LengthIsRight

IInv == TypeOK /\ Allowance /\ Filled /\ Opening /\ Files /\ Lengths

-----------------------------------------------------------------------------
LEMMA InitIInv == Init => IInv
<1> SUFFICES ASSUME Init PROVE IInv
  OBVIOUS
<1>1. TypeOK
  <2>1. [pc |-> "idle", who |-> NoUser, todo |-> {}, seen |-> {}, urls |-> {}, failed |-> FALSE]
          \in CallRecords
    BY DEF CallRecords, AtMostOne, Callers
  <2>2. [pc |-> "idle", key |-> {}, length |-> 0, opened |-> 0, got |-> {}] \in GetRecords
    BY VersionAssumption DEF GetRecords, AtMostOne
  <2>3. {} \in AtMostOne(Docs) /\ {} \in AtMostOne([path : Paths, ver : Versions])
    BY DEF AtMostOne
  <2>4. call \in [Calls -> CallRecords] /\ get \in [Gets -> GetRecords]
    BY <2>1, <2>2 DEF Init
  <2>5. doc \in [Paths -> AtMostOne(Docs)] /\ making \in AtMostOne([path : Paths, ver : Versions])
    BY <2>3 DEF Init
  <2>6. file \in [Paths -> 0..MaxVersion] /\ last \in 0..MaxVersion
    BY VersionAssumption DEF Init
  <2> QED
    BY <2>4, <2>5, <2>6 DEF Init, TypeOK
<1>2. Allowance /\ Filled /\ Opening
  BY DEF Init, Allowance, Active, KeysWereAllowed, Filled, TokensAreFilled, Opening
<1>3. Files
  BY DEF Init, Files, FileIsNotOlder
<1>4. Lengths
  BY DEF Init, Lengths, LengthIsRight
<1> QED
  BY <1>1, <1>2, <1>3, <1>4 DEF IInv

-----------------------------------------------------------------------------
(***************************************************************************)
(* Types.                                                                  *)
(***************************************************************************)
LEMMA ObjectTypes ==
  ASSUME TypeOK,
         \/ \E R \in {Callers} \union SUBSET Users : SetReaders(R)
         \/ \E p \in Paths : RemoveDoc(p) \/ WriteFile(p) \/ CreateNode(p) \/ SetSize(p)
         \/ InsertDoc
         \/ \E v \in Versions : Upload(v)
  PROVE  TypeOK'
<1> USE VersionAssumption
<1>1. ASSUME NEW R \in {Callers} \union SUBSET Users, SetReaders(R)
      PROVE  TypeOK'
  BY <1>1 DEF SetReaders, TypeOK, Callers, objects
<1>2. ASSUME NEW p \in Paths, RemoveDoc(p)
      PROVE  TypeOK'
  BY <1>2 DEF RemoveDoc, TypeOK, AtMostOne
<1>3. ASSUME NEW p \in Paths, WriteFile(p)
      PROVE  TypeOK'
  <2>1. last' \in Versions
    BY <1>3 DEF WriteFile, TypeOK, Versions
  <2>2. last' \in 0..MaxVersion
    BY <2>1 DEF Versions
  <2>3. making' \in AtMostOne([path : Paths, ver : Versions])
    BY <1>3, <2>1 DEF WriteFile, AtMostOne
  <2> QED
    BY <1>3, <2>2, <2>3 DEF WriteFile, TypeOK
<1>4. ASSUME NEW p \in Paths, CreateNode(p)
      PROVE  TypeOK'
  <2>1. last' \in Versions
    BY <1>4 DEF CreateNode, TypeOK, Versions
  <2>2. last' \in 0..MaxVersion
    BY <2>1 DEF Versions
  <2>3. [kind |-> "node", ver |-> last', size |-> 0] \in Docs
    BY <2>1 DEF Docs
  <2>4. {[kind |-> "node", ver |-> last', size |-> 0]} \in AtMostOne(Docs)
    BY <2>3 DEF AtMostOne
  <2>5. doc' \in [Paths -> AtMostOne(Docs)]
    BY <1>4, <2>4 DEF CreateNode, TypeOK
  <2> QED
    BY <1>4, <2>2, <2>5 DEF CreateNode, TypeOK
<1>5. ASSUME NEW p \in Paths, SetSize(p)
      PROVE  TypeOK'
  <2>1. PICK d \in doc[p] : doc' = [doc EXCEPT ![p] = {[d EXCEPT !.size = d.ver]}]
    BY <1>5 DEF SetSize
  <2>2. d \in Docs
    BY DEF TypeOK, AtMostOne
  <2>3. d.ver \in 0..MaxVersion
    BY <2>2 DEF Docs, Versions
  <2>4. [d EXCEPT !.size = d.ver] \in Docs
    BY <2>2, <2>3 DEF Docs
  <2>5. {[d EXCEPT !.size = d.ver]} \in AtMostOne(Docs)
    BY <2>4 DEF AtMostOne
  <2>6. doc' \in [Paths -> AtMostOne(Docs)]
    BY <2>1, <2>5 DEF TypeOK
  <2> QED
    BY <1>5, <2>6 DEF SetSize, TypeOK
<1>6. CASE InsertDoc
  <2>1. PICK m \in making :
          doc' \in {doc, [doc EXCEPT ![m.path] = {[kind |-> "file", ver |-> m.ver, size |-> m.ver]}]}
    BY <1>6 DEF InsertDoc
  <2>2. m \in [path : Paths, ver : Versions]
    BY DEF TypeOK, AtMostOne
  <2>3. m.ver \in 0..MaxVersion /\ m.ver \in Versions
    BY <2>2 DEF Versions
  <2>4. {[kind |-> "file", ver |-> m.ver, size |-> m.ver]} \in AtMostOne(Docs)
    BY <2>3 DEF AtMostOne, Docs
  <2>5. doc' \in [Paths -> AtMostOne(Docs)]
    BY <2>1, <2>4 DEF TypeOK
  <2>6. making' \in AtMostOne([path : Paths, ver : Versions])
    BY <1>6 DEF InsertDoc, AtMostOne
  <2> QED
    BY <1>6, <2>5, <2>6 DEF InsertDoc, TypeOK
<1>7. ASSUME NEW v \in Versions, Upload(v)
      PROVE  TypeOK'
  BY <1>7 DEF Upload, TypeOK
<1> QED
  BY <1>1, <1>2, <1>3, <1>4, <1>5, <1>6, <1>7

\* What a step of a call makes of its record.
LEMMA StartType ==
  ASSUME TypeOK, NEW c \in Calls, NEW who \in Callers, NEW ps \in SUBSET Paths, Start(c, who, ps)
  PROVE  TypeOK'
<1>1. call'[c] \in CallRecords
  BY DEF Start, TypeOK, CallRecords
<1>2. call' \in [Calls -> CallRecords]
  BY <1>1 DEF Start, TypeOK
<1> QED
  BY <1>2 DEF Start, objects, TypeOK

LEMMA CallTypes ==
  ASSUME TypeOK, Opening, NEW c \in Calls, CallStep(c)
  PROVE  TypeOK'
<1> DEFINE Others == UNCHANGED <<objects, keys, get, up, could>>
<1>1. ASSUME call' \in [Calls -> CallRecords], Others, token' \in BOOLEAN, acl' \subseteq Versions \X Users
      PROVE  TypeOK'
  BY <1>1 DEF objects, TypeOK
<1>2. call[c] \in CallRecords
  BY DEF TypeOK
<1>3. CASE FetchEnds(c) \/ FetchFails(c) \/ JobEnds(c) \/ Reply(c)
  <2>1. call'[c] \in CallRecords
    BY <1>2, <1>3 DEF FetchEnds, FetchFails, JobEnds, Reply, TypeOK, CallRecords
  <2>2. call' \in [Calls -> CallRecords]
    BY <1>3, <2>1 DEF FetchEnds, FetchFails, JobEnds, Reply, TypeOK
  <2> QED
    BY <1>1, <1>3, <2>2 DEF FetchEnds, FetchFails, JobEnds, Reply, TypeOK
<1>4. ASSUME NEW p \in Paths, ParsePath(c, p)
      PROVE  TypeOK'
  <2> DEFINE s == [path |-> p, may |-> call[c].who \in readers, doc |-> {}, step |-> "look"]
  <2>1. s \in Seen
    BY DEF Seen, AtMostOne
  <2>2. {s} \in AtMostOne(Seen)
    BY <2>1 DEF AtMostOne
  <2>3. call'[c] \in CallRecords
    BY <1>2, <1>4, <2>2 DEF ParsePath, TypeOK, CallRecords
  <2>4. call' \in [Calls -> CallRecords]
    BY <1>4, <2>3 DEF ParsePath, TypeOK
  <2> QED
    BY <1>1, <1>4, <2>4 DEF ParsePath, TypeOK
<1>5. CASE LookUp(c)
  <2>1. PICK s \in call[c].seen :
          call' = [call EXCEPT ![c].seen = {[s EXCEPT !.doc = doc[s.path], !.step = "insert"]}]
    BY <1>5 DEF LookUp
  <2>2. s \in Seen
    BY <1>2 DEF CallRecords, AtMostOne
  <2>3. doc[s.path] \in AtMostOne(Docs)
    BY <2>2 DEF Seen, TypeOK
  <2>4. [s EXCEPT !.doc = doc[s.path], !.step = "insert"] \in Seen
    BY <2>2, <2>3 DEF Seen
  <2>5. {[s EXCEPT !.doc = doc[s.path], !.step = "insert"]} \in AtMostOne(Seen)
    BY <2>4 DEF AtMostOne
  <2>6. call'[c] \in CallRecords
    BY <1>2, <2>1, <2>5 DEF TypeOK, CallRecords
  <2>7. call' \in [Calls -> CallRecords]
    BY <2>1, <2>6 DEF TypeOK
  <2> QED
    BY <1>1, <1>5, <2>7 DEF LookUp, TypeOK
<1>6. CASE InsertKey(c)
  <2>1. PICK s \in call[c].seen :
          \/ \E d \in s.doc :
               /\ keys' = keys \union {[call |-> c, path |-> s.path, kind |-> d.kind,
                                        ver |-> d.ver, size |-> d.size, token |-> KeyToken(c)]}
               /\ call' = [call EXCEPT ![c].seen = {}, ![c].todo = @ \ {s.path},
                                       ![c].urls = @ \union Urls(c, d)]
          \/ /\ call' = [call EXCEPT ![c].seen = {}, ![c].todo = @ \ {s.path}]
             /\ keys' = keys
    BY <1>6 DEF InsertKey
  <2>2. s \in Seen
    BY <1>2 DEF CallRecords, AtMostOne
  <2>3. {} \in AtMostOne(Seen)
    BY DEF AtMostOne
  <2>4. ASSUME call' = [call EXCEPT ![c].seen = {}, ![c].todo = @ \ {s.path}]
        PROVE  call' \in [Calls -> CallRecords]
    <3>1. call'[c] \in CallRecords
      BY <1>2, <2>3, <2>4 DEF TypeOK, CallRecords
    <3> QED
      BY <2>4, <3>1 DEF TypeOK
  <2>5. ASSUME NEW d \in s.doc
        PROVE  /\ [call |-> c, path |-> s.path, kind |-> d.kind, ver |-> d.ver, size |-> d.size,
                   token |-> KeyToken(c)] \in KeyRecords
               /\ Urls(c, d) \subseteq Versions
    <3>1. d \in Docs
      BY <2>2 DEF Seen, AtMostOne
    <3>2. KeyToken(c) \in Tokens
      BY DEF KeyToken, Tokens
    <3> QED
      BY <2>2, <3>1, <3>2 DEF Docs, Seen, KeyRecords, Urls
  <2>6. ASSUME NEW d \in s.doc,
               call' = [call EXCEPT ![c].seen = {}, ![c].todo = @ \ {s.path},
                                    ![c].urls = @ \union Urls(c, d)]
        PROVE  call' \in [Calls -> CallRecords]
    <3>1. call'[c] \in CallRecords
      BY <1>2, <2>3, <2>5, <2>6 DEF TypeOK, CallRecords
    <3> QED
      BY <2>6, <3>1 DEF TypeOK
  <2>7. call' \in [Calls -> CallRecords]
    BY <2>1, <2>4, <2>6
  <2>8. keys' \subseteq KeyRecords
    BY <2>1, <2>5 DEF TypeOK
  <2> QED
    BY <1>6, <2>7, <2>8 DEF InsertKey, objects, TypeOK
<1>7. CASE AclAdds(c)
  <2>1. PICK v \in call[c].urls :
          /\ acl' = acl \union {<<v, call[c].who>>}
          /\ call' = [call EXCEPT ![c].urls = @ \ {v}]
    BY <1>7 DEF AclAdds
  <2>2. call'[c] \in CallRecords
    BY <1>2, <2>1 DEF TypeOK, CallRecords
  <2>3. call' \in [Calls -> CallRecords]
    BY <2>1, <2>2 DEF TypeOK
  <2>4. <<v, call[c].who>> \in Versions \X Users
    BY <1>2 DEF CallRecords, Opening
  <2> QED
    BY <1>1, <1>7, <2>1, <2>3, <2>4 DEF AclAdds, TypeOK
<1>8. CASE AclFails(c)
  <2>0. PICK v \in call[c].urls : call' = [call EXCEPT ![c].urls = @ \ {v}, ![c].failed = TRUE]
    BY <1>8 DEF AclFails
  <2>1. call'[c] \in CallRecords
    BY <1>2, <2>0 DEF TypeOK, CallRecords
  <2>2. call' \in [Calls -> CallRecords]
    BY <2>0, <2>1 DEF TypeOK
  <2> QED
    BY <1>1, <1>8, <2>2 DEF AclFails, TypeOK
<1>9. CASE NameThrows(c)
  BY <1>9 DEF NameThrows, objects, TypeOK
<1> QED
  BY <1>3, <1>4, <1>5, <1>6, <1>7, <1>8, <1>9 DEF CallStep

LEMMA GetTypes ==
  ASSUME TypeOK, Files, NEW g \in Gets, (\E k \in keys : Find(g, k)) \/ NotFound(g) \/ GetStep(g)
  PROVE  TypeOK'
<1>1. ASSUME get' \in [Gets -> GetRecords], UNCHANGED <<objects, acl, token, call, keys, up, could>>
      PROVE  TypeOK'
  BY <1>1 DEF objects, TypeOK
<1>2. get[g] \in GetRecords
  BY DEF TypeOK
<1>3. ASSUME NEW k \in keys, Find(g, k)
      PROVE  TypeOK'
  <2>1. {k} \in AtMostOne(KeyRecords)
    BY DEF TypeOK, AtMostOne
  <2>2. get'[g] \in GetRecords
    BY <1>2, <1>3, <2>1 DEF Find, TypeOK, GetRecords
  <2>3. get' \in [Gets -> GetRecords]
    BY <1>3, <2>2 DEF Find, TypeOK
  <2> QED
    BY <1>1, <1>3, <2>3 DEF Find
<1>4. CASE NotFound(g)
  <2>1. get'[g] \in GetRecords
    BY <1>2, <1>4 DEF NotFound, TypeOK, GetRecords
  <2>2. get' \in [Gets -> GetRecords]
    BY <1>4, <2>1 DEF NotFound, TypeOK
  <2> QED
    BY <1>1, <1>4, <2>2 DEF NotFound
<1>5. CASE NodeHeader(g)
  <2>1. PICK k \in get[g].key : get' = [get EXCEPT ![g].pc = "streaming", ![g].length = k.size]
    BY <1>5 DEF NodeHeader
  <2>2. k.size \in 0..MaxVersion
    BY <1>2 DEF GetRecords, AtMostOne, KeyRecords
  <2>3. get'[g] \in GetRecords
    BY <1>2, <2>1, <2>2 DEF TypeOK, GetRecords
  <2>4. get' \in [Gets -> GetRecords]
    BY <2>1, <2>3 DEF TypeOK
  <2> QED
    BY <1>1, <1>5, <2>4 DEF NodeHeader
<1>6. CASE NodeStream(g)
  <2>1. PICK k \in get[g].key :
          get' = [get EXCEPT ![g].pc = "done",
                    ![g].got = IF Allowed(k) /\ k.ver \in uploaded THEN {k.ver} ELSE {}]
    BY <1>6 DEF NodeStream
  <2>2. k.ver \in Versions
    BY <1>2 DEF GetRecords, AtMostOne, KeyRecords
  <2>3. (IF Allowed(k) /\ k.ver \in uploaded THEN {k.ver} ELSE {}) \in AtMostOne(Versions)
    BY <2>2 DEF AtMostOne
  <2>4. get'[g] \in GetRecords
    BY <1>2, <2>1, <2>3 DEF TypeOK, GetRecords
  <2>5. get' \in [Gets -> GetRecords]
    BY <2>1, <2>4 DEF TypeOK
  <2> QED
    BY <1>1, <1>6, <2>5 DEF NodeStream
<1>7. CASE OpenFile(g)
  <2>1. PICK k \in get[g].key :
          get' = [get EXCEPT ![g].pc = "streaming", ![g].length = FileLength(k),
                             ![g].opened = file[k.path]]
    BY <1>7 DEF OpenFile
  <2>2. file[k.path] \in 0..MaxVersion /\ FileLength(k) \in 0..MaxVersion
    BY <1>2 DEF GetRecords, AtMostOne, KeyRecords, TypeOK, FileLength
  <2>3. get'[g] \in GetRecords
    BY <1>2, <2>1, <2>2 DEF TypeOK, GetRecords
  <2>4. get' \in [Gets -> GetRecords]
    BY <2>1, <2>3 DEF TypeOK
  <2> QED
    BY <1>1, <1>7, <2>4 DEF OpenFile
<1>8. CASE FileStream(g)
  <2>1. PICK k \in get[g].key :
          /\ k.kind = "file"
          /\ get' = [get EXCEPT ![g].pc = "done",
                       ![g].got = IF file[k.path] = get[g].opened THEN {file[k.path]} ELSE {}]
    BY <1>8 DEF FileStream
  <2>2. k \in KeyRecords
    BY <1>2 DEF GetRecords, AtMostOne
  <2>3. k.path \in Paths /\ k.ver \in Versions /\ file[k.path] \in 0..MaxVersion
    BY <2>2 DEF KeyRecords, TypeOK
  <2>4. file[k.path] >= k.ver
    BY <2>1 DEF Files, Newer
  <2>5. file[k.path] \in Versions
    BY <2>3, <2>4, VersionAssumption DEF Versions
  <2>6. (IF file[k.path] = get[g].opened THEN {file[k.path]} ELSE {}) \in AtMostOne(Versions)
    BY <2>5 DEF AtMostOne
  <2>7. get'[g] \in GetRecords
    BY <1>2, <2>1, <2>6 DEF TypeOK, GetRecords
  <2>8. get' \in [Gets -> GetRecords]
    BY <2>1, <2>7 DEF TypeOK
  <2> QED
    BY <1>1, <1>8, <2>8 DEF FileStream
<1> QED
  BY <1>3, <1>4, <1>5, <1>6, <1>7, <1>8 DEF GetStep

-----------------------------------------------------------------------------
(***************************************************************************)
(* The steps, as the parts of the invariant see them.                      *)
(***************************************************************************)

\* The steps of the other requests leave calls, keys and downloads alone.
ObjectStep ==
  \/ \E R \in {Callers} \union SUBSET Users : SetReaders(R)
  \/ \E p \in Paths : RemoveDoc(p) \/ WriteFile(p) \/ CreateNode(p) \/ SetSize(p)
  \/ InsertDoc
  \/ \E v \in Versions : Upload(v)

LEMMA ObjectFrame ==
  ASSUME ObjectStep
  PROVE  UNCHANGED <<acl, token, call, keys, get, up>>
  BY DEF ObjectStep, SetReaders, RemoveDoc, WriteFile, CreateNode, SetSize, InsertDoc, Upload

\* The steps of a download change nothing else.
DownloadStep(g) == (\E k \in keys : Find(g, k)) \/ NotFound(g) \/ GetStep(g)

LEMMA DownloadFrame ==
  ASSUME NEW g \in Gets, DownloadStep(g)
  PROVE  UNCHANGED <<objects, acl, token, call, keys, up, could>>
  BY DEF DownloadStep, Find, NotFound, GetStep, NodeHeader, NodeStream, OpenFile, FileStream

\* The steps of a call leave the objects and the downloads alone.
LEMMA CallFrame ==
  ASSUME NEW c \in Calls, CallStep(c) \/ \E who \in Callers, ps \in SUBSET Paths : Start(c, who, ps)
  PROVE  UNCHANGED <<objects, get>>
  BY DEF CallStep, FetchEnds, FetchFails, ParsePath, LookUp, InsertKey, JobEnds, NameThrows,
         AclAdds, AclFails, Reply, Start

\* A step is one of these.
LEMMA Steps ==
  ASSUME [Next]_vars
  PROVE  \/ ObjectStep
         \/ \E c \in Calls, who \in Callers, ps \in SUBSET Paths : Start(c, who, ps)
         \/ \E c \in Calls : CallStep(c)
         \/ \E g \in Gets : DownloadStep(g)
         \/ UNCHANGED vars
  BY DEF Next, ObjectStep, DownloadStep

LEMMA StepTypes ==
  ASSUME IInv, [Next]_vars
  PROVE  TypeOK'
<1>1. CASE ObjectStep
  BY <1>1, ObjectTypes DEF IInv, ObjectStep
<1>2. ASSUME NEW c \in Calls, NEW who \in Callers, NEW ps \in SUBSET Paths, Start(c, who, ps)
      PROVE  TypeOK'
  BY <1>2, StartType DEF IInv
<1>3. ASSUME NEW c \in Calls, CallStep(c)
      PROVE  TypeOK'
  BY <1>3, CallTypes DEF IInv
<1>4. ASSUME NEW g \in Gets, DownloadStep(g)
      PROVE  TypeOK'
  BY <1>4, GetTypes DEF IInv, DownloadStep
<1>5. CASE UNCHANGED vars
  BY <1>5 DEF vars, objects, TypeOK, IInv
<1> QED
  BY <1>1, <1>2, <1>3, <1>4, <1>5, Steps

\* A step of a call other than those that start it, look something up, make a
\* key or do an access list.
LEMMA PlainCallStep ==
  ASSUME TypeOK, NEW c \in Calls,
         FetchEnds(c) \/ FetchFails(c) \/ JobEnds(c) \/ NameThrows(c) \/ Reply(c)
  PROVE  /\ UNCHANGED <<objects, acl, keys, get, could>>
         /\ token' \in {token, TRUE}
         /\ \A d \in Calls : d # c => call'[d] = call[d]
         /\ call'[c].who = call[c].who /\ call'[c].seen = call[c].seen
         /\ call'[c].urls = call[c].urls /\ (call[c].failed => call'[c].failed)
         /\ call[c].pc \in {"fetch", "job", "acl"}
         /\ call'[c].pc \in {"job", "acl", "replied"}
         /\ call[c].pc = "fetch" => token' \/ call'[c].failed
         /\ call[c].urls = {} \/ call'[c].pc \in {"job", "acl"} \/ call[c].pc = "fetch"
<1>1. call \in [Calls -> CallRecords] /\ call[c] \in CallRecords
  BY DEF TypeOK
<1>2. CASE FetchEnds(c)
  BY <1>1, <1>2 DEF FetchEnds, objects, CallRecords
<1>3. CASE FetchFails(c)
  BY <1>1, <1>3 DEF FetchFails, objects, CallRecords
<1>4. CASE JobEnds(c)
  BY <1>1, <1>4 DEF JobEnds, objects, CallRecords
<1>5. CASE NameThrows(c)
  BY <1>1, <1>5 DEF NameThrows, objects, CallRecords
<1>6. CASE Reply(c)
  BY <1>1, <1>6 DEF Reply, objects, CallRecords
<1> QED
  BY <1>2, <1>3, <1>4, <1>5, <1>6

\* A step on the access list of one node.
LEMMA AclStep ==
  ASSUME TypeOK, NEW c \in Calls, AclAdds(c) \/ AclFails(c)
  PROVE  /\ UNCHANGED <<objects, keys, get, could, token, up>>
         /\ \A d \in Calls : d # c => call'[d] = call[d]
         /\ call'[c].who = call[c].who /\ call'[c].seen = call[c].seen
         /\ call[c].pc = "acl" /\ call'[c].pc = "acl"
         /\ call[c].failed => call'[c].failed
         /\ \E v \in call[c].urls :
              /\ call'[c].urls = call[c].urls \ {v}
              /\ call'[c].failed \/ acl' = acl \union {<<v, call[c].who>>}
         /\ acl \subseteq acl'
<1>1. call \in [Calls -> CallRecords] /\ call[c] \in CallRecords
  BY DEF TypeOK
<1>2. CASE AclAdds(c)
  <2>1. PICK v \in call[c].urls :
          /\ acl' = acl \union {<<v, call[c].who>>}
          /\ call' = [call EXCEPT ![c].urls = @ \ {v}]
    BY <1>2 DEF AclAdds
  <2>2. /\ \A d \in Calls : d # c => call'[d] = call[d]
        /\ call'[c].who = call[c].who /\ call'[c].seen = call[c].seen
        /\ call'[c].pc = call[c].pc /\ call'[c].failed = call[c].failed
        /\ call'[c].urls = call[c].urls \ {v}
    BY <1>1, <2>1 DEF CallRecords
  <2> QED
    BY <1>2, <2>1, <2>2 DEF AclAdds, objects
<1>3. CASE AclFails(c)
  <2>1. PICK v \in call[c].urls : call' = [call EXCEPT ![c].urls = @ \ {v}, ![c].failed = TRUE]
    BY <1>3 DEF AclFails
  <2>2. /\ \A d \in Calls : d # c => call'[d] = call[d]
        /\ call'[c].who = call[c].who /\ call'[c].seen = call[c].seen
        /\ call'[c].pc = call[c].pc /\ call'[c].failed
        /\ call'[c].urls = call[c].urls \ {v}
    BY <1>1, <2>1 DEF CallRecords
  <2> QED
    BY <1>3, <2>1, <2>2 DEF AclFails, objects
<1> QED
  BY <1>2, <1>3

\* The start of a call.
LEMMA StartStep ==
  ASSUME TypeOK, NEW c \in Calls, NEW who \in Callers, NEW ps \in SUBSET Paths, Start(c, who, ps)
  PROVE  /\ UNCHANGED <<objects, acl, token, keys, get>>
         /\ \A d \in Calls : d # c => call'[d] = call[d]
         /\ call'[c].who = who /\ call'[c].seen = call[c].seen
         /\ call'[c].urls = call[c].urls /\ call'[c].failed = call[c].failed
         /\ call[c].pc = "idle" /\ call'[c].pc \in {"fetch", "job"}
         /\ call'[c].pc = "job" => token
  BY DEF Start, objects, TypeOK, CallRecords

\* A look at the permission, or at the document.
LEMMA LookStep ==
  ASSUME TypeOK, NEW c \in Calls, (\E p \in Paths : ParsePath(c, p)) \/ LookUp(c)
  PROVE  /\ UNCHANGED <<objects, acl, token, keys, get>>
         /\ \A d \in Calls : d # c => call'[d] = call[d]
         /\ call'[c].who = call[c].who /\ call'[c].pc = call[c].pc
         /\ call'[c].urls = call[c].urls /\ call'[c].failed = call[c].failed
         /\ \A s \in call'[c].seen : s.doc = {} \/ (s.path \in Paths /\ s.doc = doc[s.path])
<1>1. call \in [Calls -> CallRecords] /\ call[c] \in CallRecords
  BY DEF TypeOK
<1>2. ASSUME NEW p \in Paths, ParsePath(c, p)
      PROVE  /\ call' = [call EXCEPT ![c].seen = call'[c].seen]
             /\ \A s \in call'[c].seen : s.doc = {}
  <2>1. PICK t : t = [path |-> p, may |-> call[c].who \in readers, doc |-> {}, step |-> "look"]
    OBVIOUS
  <2>2. call' = [call EXCEPT ![c].seen = {t}] /\ t.doc = {}
    BY <1>2, <2>1 DEF ParsePath
  <2>3. call'[c].seen = {t}
    BY <1>1, <2>2 DEF CallRecords
  <2> QED
    BY <2>2, <2>3
<1>3. ASSUME LookUp(c)
      PROVE  /\ call' = [call EXCEPT ![c].seen = call'[c].seen]
             /\ \A s \in call'[c].seen : s.path \in Paths /\ s.doc = doc[s.path]
  <2>1. PICK s \in call[c].seen :
          call' = [call EXCEPT ![c].seen = {[s EXCEPT !.doc = doc[s.path], !.step = "insert"]}]
    BY <1>3 DEF LookUp
  <2>2. s \in Seen
    BY <1>1 DEF CallRecords, AtMostOne
  <2>3. PICK t : t = [s EXCEPT !.doc = doc[s.path], !.step = "insert"]
    OBVIOUS
  <2>4. t.path = s.path /\ t.doc = doc[s.path] /\ s.path \in Paths
    BY <2>2, <2>3 DEF Seen
  <2>5. call' = [call EXCEPT ![c].seen = {t}]
    BY <2>1, <2>3
  <2>6. call'[c].seen = {t}
    BY <1>1, <2>5 DEF CallRecords
  <2> QED
    BY <2>4, <2>5, <2>6
<1>4. UNCHANGED <<objects, acl, token, keys, get>>
  BY DEF ParsePath, LookUp
<1>5. call' = [call EXCEPT ![c].seen = call'[c].seen]
  BY <1>2, <1>3
<1>6. /\ \A d \in Calls : d # c => call'[d] = call[d]
      /\ call'[c].who = call[c].who /\ call'[c].pc = call[c].pc
      /\ call'[c].urls = call[c].urls /\ call'[c].failed = call[c].failed
  BY <1>1, <1>5 DEF CallRecords
<1> QED
  BY <1>2, <1>3, <1>4, <1>6

\* The insertion of a key.
Inserted(c) ==
  /\ UNCHANGED <<objects, acl, token, get>>
  /\ \A d \in Calls : d # c => call'[d] = call[d]
  /\ call'[c].who = call[c].who /\ call[c].pc = "job" /\ call'[c].pc = "job"
  /\ call'[c].failed = call[c].failed /\ call'[c].seen = {}
  /\ call[c].urls \subseteq call'[c].urls
  /\ call'[c].urls # {} => call[c].urls # {} \/ call[c].who # NoUser
  /\ \A k \in keys' :
       \/ k \in keys
       \/ /\ k.call = c /\ k.token = KeyToken(c)
          /\ \E s \in call[c].seen : \E d \in s.doc :
               /\ k.path = s.path /\ k.kind = d.kind /\ k.ver = d.ver /\ k.size = d.size
               /\ Urls(c, d) \subseteq call'[c].urls

LEMMA InsertStep ==
  ASSUME TypeOK, NEW c \in Calls, InsertKey(c)
  PROVE  Inserted(c)
<1>1. call \in [Calls -> CallRecords] /\ call[c] \in CallRecords
  BY DEF TypeOK
<1>2. PICK s \in call[c].seen :
        \/ \E d \in s.doc :
             /\ keys' = keys \union {[call |-> c, path |-> s.path, kind |-> d.kind,
                                      ver |-> d.ver, size |-> d.size, token |-> KeyToken(c)]}
             /\ call' = [call EXCEPT ![c].seen = {}, ![c].todo = @ \ {s.path},
                                     ![c].urls = @ \union Urls(c, d)]
        \/ /\ call' = [call EXCEPT ![c].seen = {}, ![c].todo = @ \ {s.path}]
           /\ keys' = keys
  BY DEF InsertKey
<1>3. call[c].pc = "job" /\ UNCHANGED <<objects, acl, token, get>>
  BY DEF InsertKey
<1>4. ASSUME NEW d \in s.doc,
             keys' = keys \union {[call |-> c, path |-> s.path, kind |-> d.kind,
                                      ver |-> d.ver, size |-> d.size, token |-> KeyToken(c)]},
             call' = [call EXCEPT ![c].seen = {}, ![c].todo = @ \ {s.path},
                                     ![c].urls = @ \union Urls(c, d)]
      PROVE  Inserted(c)
  <2>1. /\ \A e \in Calls : e # c => call'[e] = call[e]
        /\ call'[c].who = call[c].who /\ call'[c].pc = call[c].pc
        /\ call'[c].failed = call[c].failed /\ call'[c].seen = {}
        /\ call'[c].urls = call[c].urls \union Urls(c, d)
    BY <1>1, <1>4 DEF CallRecords
  <2>2. Urls(c, d) # {} => call[c].who # NoUser
    BY DEF Urls
  <2>3. \A k \in keys' : k \in keys \/ (/\ k.call = c /\ k.token = KeyToken(c)
                                        /\ k.path = s.path /\ k.kind = d.kind
                                        /\ k.ver = d.ver /\ k.size = d.size)
    BY <1>4
  <2> QED
    BY <1>3, <2>1, <2>2, <2>3 DEF Inserted
<1>5. ASSUME call' = [call EXCEPT ![c].seen = {}, ![c].todo = @ \ {s.path}], keys' = keys
      PROVE  Inserted(c)
  BY <1>1, <1>3, <1>5 DEF CallRecords, Inserted
<1> QED
  BY <1>2, <1>4, <1>5

-----------------------------------------------------------------------------
(***************************************************************************)
(* The permission.                                                         *)
(***************************************************************************)
LEMMA StepAllowance ==
  ASSUME IInv, [Next]_vars
  PROVE  Allowance'
<1> USE DEF Allowance, KeysWereAllowed, Active
<1>1. TypeOK /\ Allowance
  BY DEF IInv
<1>2. CASE ObjectStep
  <2>1. ASSUME NEW R \in {Callers} \union SUBSET Users, SetReaders(R)
        PROVE  Allowance'
    BY <1>1, <2>1 DEF SetReaders
  <2>2. CASE UNCHANGED <<readers, call, keys, could>>
    BY <1>1, <2>2
  <2> QED
    BY <1>2, <2>1, <2>2 DEF ObjectStep, RemoveDoc, WriteFile, CreateNode, SetSize, InsertDoc, Upload
<1>3. ASSUME NEW c \in Calls, NEW who \in Callers, NEW ps \in SUBSET Paths, Start(c, who, ps)
      PROVE  Allowance'
  <2>1. /\ \A d \in Calls : d # c => call'[d] = call[d]
        /\ call'[c].who = who /\ call'[c].seen = call[c].seen
        /\ could' = IF who \in readers THEN could \union {c} ELSE could
        /\ keys' = keys /\ readers' = readers
    BY <1>1, <1>3 DEF Start, objects, TypeOK, CallRecords
  <2> QED
    BY <1>1, <2>1
<1>4. ASSUME NEW c \in Calls, CallStep(c)
      PROVE  Allowance'
  <2>1. CASE FetchEnds(c) \/ FetchFails(c) \/ JobEnds(c) \/ NameThrows(c) \/ Reply(c)
    BY <1>1, <2>1, PlainCallStep DEF objects
  <2>2. ASSUME NEW p \in Paths, ParsePath(c, p)
        PROVE  Allowance'
    <3>0. PICK t : t = [path |-> p, may |-> call[c].who \in readers, doc |-> {}, step |-> "look"]
      OBVIOUS
    <3>1. /\ \A d \in Calls : d # c => call'[d] = call[d]
          /\ call'[c].who = call[c].who /\ call'[c].pc = call[c].pc /\ call[c].pc = "job"
          /\ call'[c].seen = {t}
          /\ could' = could /\ keys' = keys /\ readers' = readers
      BY <1>1, <2>2, <3>0 DEF ParsePath, objects, TypeOK, CallRecords
    <3>2. call[c].who \in readers => c \in could
      BY <1>1, <3>1
    <3>6. t.may => call[c].who \in readers
      BY <3>0
    <3>3. \A s \in call'[c].seen : s.may => c \in could
      BY <3>1, <3>2, <3>6
    <3>4. \A d \in Calls : Active(d)' /\ call'[d].who \in readers' => d \in could'
      BY <1>1, <3>1
    <3>5. \A d \in Calls : \A s \in call'[d].seen : s.may => d \in could'
      BY <1>1, <3>1, <3>3
    <3> QED
      BY <1>1, <3>1, <3>4, <3>5
  <2>3. CASE LookUp(c)
    <3>1. PICK s \in call[c].seen :
            call' = [call EXCEPT ![c].seen = {[s EXCEPT !.doc = doc[s.path], !.step = "insert"]}]
      BY <2>3 DEF LookUp
    <3>2. s \in Seen
      BY <1>1 DEF TypeOK, CallRecords, AtMostOne
    <3>3. PICK t : t = [s EXCEPT !.doc = doc[s.path], !.step = "insert"]
      OBVIOUS
    <3>4. t.may = s.may
      BY <3>2, <3>3 DEF Seen
    <3>5. /\ \A d \in Calls : d # c => call'[d] = call[d]
          /\ call'[c].who = call[c].who /\ call'[c].pc = call[c].pc
          /\ call'[c].seen = {t}
          /\ could' = could /\ keys' = keys /\ readers' = readers
      BY <1>1, <2>3, <3>1, <3>3 DEF LookUp, objects, TypeOK, CallRecords
    <3> QED
      BY <1>1, <3>4, <3>5
  <2>4. CASE InsertKey(c)
    <3>1. /\ \A d \in Calls : d # c => call'[d] = call[d]
          /\ call'[c].who = call[c].who /\ call'[c].pc = call[c].pc
          /\ call'[c].seen = {}
          /\ could' = could /\ readers' = readers
      BY <1>1, <2>4 DEF InsertKey, objects, TypeOK, CallRecords
    <3>2. \A k \in keys' : k \in keys \/ (k.call = c /\ \E s \in call[c].seen : s.may)
      BY <2>4 DEF InsertKey, MayKey
    <3> QED
      BY <1>1, <3>1, <3>2
  <2>5. CASE AclAdds(c) \/ AclFails(c)
    BY <1>1, <2>5, AclStep DEF objects
  <2> QED
    BY <1>4, <2>1, <2>2, <2>3, <2>4, <2>5 DEF CallStep
<1>5. ASSUME NEW g \in Gets, DownloadStep(g)
      PROVE  Allowance'
  BY <1>1, <1>5, DownloadFrame DEF objects
<1>6. CASE UNCHANGED vars
  BY <1>1, <1>6 DEF vars, objects
<1> QED
  BY <1>2, <1>3, <1>4, <1>5, <1>6, Steps

-----------------------------------------------------------------------------
(***************************************************************************)
(* The token of the service.                                               *)
(***************************************************************************)
LEMMA StepFilled ==
  ASSUME IInv, [Next]_vars
  PROVE  Filled'
<1> USE DEF Filled, TokensAreFilled
<1>1. TypeOK /\ Filled
  BY DEF IInv
<1>2. \A k \in keys : k.call \in Calls
  BY <1>1 DEF TypeOK, KeyRecords
<1>3. CASE ObjectStep
  BY <1>1, <1>3, ObjectFrame
<1>4. ASSUME NEW c \in Calls, NEW who \in Callers, NEW ps \in SUBSET Paths, Start(c, who, ps)
      PROVE  Filled'
  BY <1>1, <1>2, <1>4, StartStep
<1>5. ASSUME NEW c \in Calls, CallStep(c)
      PROVE  Filled'
  <2>1. CASE FetchEnds(c) \/ FetchFails(c) \/ JobEnds(c) \/ NameThrows(c) \/ Reply(c)
    <3>1. /\ keys' = keys /\ (token => token')
          /\ \A d \in Calls : d # c => call'[d] = call[d]
          /\ call[c].failed => call'[c].failed
      BY <1>1, <2>1, PlainCallStep DEF TypeOK
    <3>2. call[c].pc \notin {"idle", "fetch"} \/ token' \/ call'[c].failed
      BY <1>1, <2>1, PlainCallStep
    <3>3. \A d \in Calls : call'[d].pc \notin {"idle", "fetch"} /\ ~call'[d].failed => token'
      BY <1>1, <3>1, <3>2
    <3>4. \A k \in keys' : k.token = "empty" => call'[k.call].failed
      BY <1>1, <1>2, <3>1
    <3> QED
      BY <3>3, <3>4
  <2>2. CASE (\E p \in Paths : ParsePath(c, p)) \/ LookUp(c)
    BY <1>1, <1>2, <2>2, LookStep
  <2>3. CASE InsertKey(c)
    <3>1. Inserted(c)
      BY <1>1, <2>3, InsertStep
    <3>2. KeyToken(c) = "empty" => call[c].failed
      BY <1>1, <3>1 DEF Inserted, KeyToken
    <3>3. \A d \in Calls : call'[d].pc \notin {"idle", "fetch"} /\ ~call'[d].failed => token'
      BY <1>1, <3>1 DEF Inserted
    <3>4. \A k \in keys' : k.token = "empty" => call'[k.call].failed
      BY <1>1, <1>2, <3>1, <3>2 DEF Inserted
    <3> QED
      BY <3>3, <3>4
  <2>4. CASE AclAdds(c) \/ AclFails(c)
    BY <1>1, <1>2, <2>4, AclStep
  <2> QED
    BY <1>5, <2>1, <2>2, <2>3, <2>4 DEF CallStep
<1>6. ASSUME NEW g \in Gets, DownloadStep(g)
      PROVE  Filled'
  BY <1>1, <1>6, DownloadFrame
<1>7. CASE UNCHANGED vars
  BY <1>1, <1>7 DEF vars
<1> QED
  BY <1>3, <1>4, <1>5, <1>6, <1>7, Steps

-----------------------------------------------------------------------------
(***************************************************************************)
(* The access lists.                                                       *)
(***************************************************************************)

\* What Opening says of one key.
Opened(k) ==
  /\ call[k.call].pc \notin {"idle", "fetch"}
  /\ k.token = "user" => call[k.call].who \in Users
  /\ k.token = "user" /\ k.kind = "node" /\ ~call[k.call].failed =>
       k.ver \in call[k.call].urls \/ <<k.ver, call[k.call].who>> \in acl

\* and of one call.
Noted(c) == call[c].urls # {} => call[c].pc \in {"job", "acl"} /\ call[c].who \in Users

LEMMA OpeningParts == Opening <=> (\A k \in keys : Opened(k)) /\ (\A c \in Calls : Noted(c))
  BY DEF Opening, Opened, Noted

LEMMA OpeningPartsNext ==
  ASSUME \A k \in keys' : Opened(k)', \A c \in Calls : Noted(c)'
  PROVE  Opening'
  BY DEF Opening, Opened, Noted

LEMMA StepOpening ==
  ASSUME IInv, [Next]_vars
  PROVE  Opening'
<1>1. TypeOK /\ (\A k \in keys : Opened(k)) /\ (\A c \in Calls : Noted(c))
  BY OpeningParts DEF IInv
<1>2. \A k \in keys : k.call \in Calls
  BY <1>1 DEF TypeOK, KeyRecords
<1>3. ASSUME UNCHANGED <<acl, call, keys>>
      PROVE  Opening'
  BY <1>1, <1>3, OpeningPartsNext DEF Opened, Noted
<1>4. CASE ObjectStep
  BY <1>3, <1>4, ObjectFrame
<1>5. ASSUME NEW c \in Calls, NEW who \in Callers, NEW ps \in SUBSET Paths, Start(c, who, ps)
      PROVE  Opening'
  <2>1. /\ acl' = acl /\ keys' = keys /\ \A d \in Calls : d # c => call'[d] = call[d]
        /\ call[c].pc = "idle" /\ call'[c].urls = call[c].urls
    BY <1>1, <1>5, StartStep
  <2>2. \A k \in keys : k.call # c
    BY <1>1, <2>1 DEF Opened
  <2>3. \A k \in keys' : Opened(k)'
    BY <1>1, <1>2, <2>1, <2>2 DEF Opened
  <2>4. \A d \in Calls : Noted(d)'
    BY <1>1, <2>1 DEF Noted
  <2> QED
    BY <2>3, <2>4, OpeningPartsNext
<1>6. ASSUME NEW c \in Calls, CallStep(c)
      PROVE  Opening'
  <2>1. CASE FetchEnds(c) \/ FetchFails(c) \/ JobEnds(c) \/ NameThrows(c) \/ Reply(c)
    <3>1. /\ acl' = acl /\ keys' = keys /\ \A d \in Calls : d # c => call'[d] = call[d]
          /\ call'[c].who = call[c].who /\ call'[c].urls = call[c].urls
          /\ (call[c].failed => call'[c].failed) /\ call'[c].pc \in {"job", "acl", "replied"}
          /\ call[c].urls = {} \/ call'[c].pc \in {"job", "acl"} \/ call[c].pc = "fetch"
      BY <1>1, <2>1, PlainCallStep
    <3>2. \A k \in keys' : Opened(k)'
      BY <1>1, <1>2, <3>1 DEF Opened
    <3>3. \A d \in Calls : Noted(d)'
      BY <1>1, <3>1 DEF Noted
    <3> QED
      BY <3>2, <3>3, OpeningPartsNext
  <2>2. CASE (\E p \in Paths : ParsePath(c, p)) \/ LookUp(c)
    <3>1. /\ acl' = acl /\ keys' = keys /\ \A d \in Calls : d # c => call'[d] = call[d]
          /\ call'[c].who = call[c].who /\ call'[c].pc = call[c].pc
          /\ call'[c].urls = call[c].urls /\ call'[c].failed = call[c].failed
      BY <1>1, <2>2, LookStep
    <3>2. \A k \in keys' : Opened(k)'
      BY <1>1, <1>2, <3>1 DEF Opened
    <3>3. \A d \in Calls : Noted(d)'
      BY <1>1, <3>1 DEF Noted
    <3> QED
      BY <3>2, <3>3, OpeningPartsNext
  <2>3. CASE InsertKey(c)
    <3>1. Inserted(c) /\ acl' = acl
      BY <1>1, <2>3, InsertStep DEF Inserted
    <3>2. call[c].who \in Users \union {NoUser}
      BY <1>1 DEF TypeOK, CallRecords, Callers
    <3>3. \A k \in keys : Opened(k)'
      BY <1>1, <1>2, <3>1 DEF Opened, Inserted
    <3>4. ASSUME NEW k \in keys', k \notin keys
          PROVE  Opened(k)'
      <4>1. PICK s \in call[c].seen : \E d \in s.doc :
              /\ k.path = s.path /\ k.kind = d.kind /\ k.ver = d.ver /\ k.size = d.size
              /\ Urls(c, d) \subseteq call'[c].urls
        BY <3>1, <3>4 DEF Inserted
      <4>2. PICK d \in s.doc : k.kind = d.kind /\ k.ver = d.ver /\ Urls(c, d) \subseteq call'[c].urls
        BY <4>1
      <4>3. k.call = c /\ k.token = KeyToken(c)
        BY <3>1, <3>4 DEF Inserted
      <4>4. k.token = "user" => call[c].who # NoUser
        BY <4>3 DEF KeyToken
      <4>5. k.token = "user" /\ k.kind = "node" => k.ver \in call'[c].urls
        BY <4>2, <4>4 DEF Urls
      <4>6. call'[c].pc = "job" /\ call'[c].who = call[c].who
        BY <3>1 DEF Inserted
      <4> QED
        BY <3>2, <4>3, <4>4, <4>5, <4>6 DEF Opened
    <3>5. \A d \in Calls : Noted(d)'
      BY <1>1, <3>1, <3>2 DEF Noted, Inserted
    <3> QED
      BY <3>3, <3>4, <3>5, OpeningPartsNext
  <2>4. CASE AclAdds(c) \/ AclFails(c)
    <3>1. PICK v \in call[c].urls :
            /\ call'[c].urls = call[c].urls \ {v}
            /\ call'[c].failed \/ acl' = acl \union {<<v, call[c].who>>}
      BY <1>1, <2>4, AclStep
    <3>2. /\ acl \subseteq acl' /\ keys' = keys /\ \A d \in Calls : d # c => call'[d] = call[d]
          /\ call'[c].who = call[c].who /\ call'[c].pc = call[c].pc /\ call[c].pc = "acl"
          /\ call[c].failed => call'[c].failed
      BY <1>1, <2>4, AclStep
    <3>3. ASSUME NEW k \in keys
          PROVE  Opened(k)'
      <4>1. CASE k.call # c
        BY <1>1, <1>2, <3>2, <4>1 DEF Opened
      <4>2. CASE k.call = c
        BY <1>1, <3>1, <3>2, <4>2 DEF Opened
      <4> QED
        BY <4>1, <4>2
    <3>4. \A d \in Calls : Noted(d)'
      BY <1>1, <3>1, <3>2 DEF Noted
    <3> QED
      BY <3>2, <3>3, <3>4, OpeningPartsNext
  <2> QED
    BY <1>6, <2>1, <2>2, <2>3, <2>4 DEF CallStep
<1>7. ASSUME NEW g \in Gets, DownloadStep(g)
      PROVE  Opening'
  BY <1>3, <1>7, DownloadFrame
<1>8. CASE UNCHANGED vars
  BY <1>3, <1>8 DEF vars
<1> QED
  BY <1>4, <1>5, <1>6, <1>7, <1>8, Steps

-----------------------------------------------------------------------------
(***************************************************************************)
(* The downloads.                                                          *)
(***************************************************************************)

\* What a step of a download does to its record.
Downloaded(g) ==
  /\ \A h \in Gets : h # g => get'[h] = get[h]
  /\ \/ /\ get[g].pc = "idle" /\ get'[g].pc \in {"found", "done"} /\ get'[g].got = get[g].got
        /\ \A k \in get'[g].key : k \in keys \/ k \in get[g].key
     \/ /\ get[g].pc = "found" /\ get'[g].pc = "streaming"
        /\ get'[g].got = get[g].got /\ get'[g].key = get[g].key
        /\ \A k \in get[g].key :
             get'[g].length = IF k.kind = "file" THEN get'[g].opened ELSE k.size
     \/ /\ get[g].pc = "streaming" /\ get'[g].pc = "done"
        /\ get'[g].key = get[g].key /\ get'[g].length = get[g].length
        /\ \A k \in get[g].key :
             /\ k.kind = "node" => \A v \in get'[g].got : v = k.ver
             /\ k.kind = "file" => \A v \in get'[g].got : v = file[k.path] /\ v = get[g].opened

LEMMA DownloadRecord ==
  ASSUME TypeOK, NEW g \in Gets, DownloadStep(g)
  PROVE  Downloaded(g)
<1>1. get \in [Gets -> GetRecords] /\ get[g] \in GetRecords
  BY DEF TypeOK
<1>2. \A j, k \in get[g].key : j = k
  BY <1>1 DEF GetRecords, AtMostOne
<1>3. ASSUME NEW k \in keys, Find(g, k)
      PROVE  Downloaded(g)
  BY <1>1, <1>3 DEF Find, GetRecords, Downloaded
<1>4. CASE NotFound(g)
  BY <1>1, <1>4 DEF NotFound, GetRecords, Downloaded
<1>5. CASE NodeHeader(g)
  <2>1. PICK k \in get[g].key :
          k.kind = "node" /\ get' = [get EXCEPT ![g].pc = "streaming", ![g].length = k.size]
    BY <1>5 DEF NodeHeader
  <2>2. /\ \A h \in Gets : h # g => get'[h] = get[h]
        /\ get'[g].pc = "streaming" /\ get'[g].length = k.size
        /\ get'[g].got = get[g].got /\ get'[g].key = get[g].key
    BY <1>1, <2>1 DEF GetRecords
  <2> QED
    BY <1>2, <1>5, <2>1, <2>2 DEF NodeHeader, Downloaded
<1>6. CASE NodeStream(g)
  <2>1. PICK k \in get[g].key :
          /\ k.kind = "node"
          /\ get' = [get EXCEPT ![g].pc = "done",
                       ![g].got = IF Allowed(k) /\ k.ver \in uploaded THEN {k.ver} ELSE {}]
    BY <1>6 DEF NodeStream
  <2>2. /\ \A h \in Gets : h # g => get'[h] = get[h]
        /\ get'[g].pc = "done" /\ get'[g].length = get[g].length /\ get'[g].key = get[g].key
        /\ get'[g].got = IF Allowed(k) /\ k.ver \in uploaded THEN {k.ver} ELSE {}
    BY <1>1, <2>1 DEF GetRecords
  <2>3. \A v \in get'[g].got : v = k.ver
    BY <2>2
  <2> QED
    BY <1>2, <1>6, <2>1, <2>2, <2>3 DEF NodeStream, Downloaded
<1>7. CASE OpenFile(g)
  <2>1. PICK k \in get[g].key :
          /\ k.kind = "file"
          /\ get' = [get EXCEPT ![g].pc = "streaming", ![g].length = FileLength(k),
                                ![g].opened = file[k.path]]
    BY <1>7 DEF OpenFile
  <2>2. /\ \A h \in Gets : h # g => get'[h] = get[h]
        /\ get'[g].pc = "streaming" /\ get'[g].length = file[k.path]
        /\ get'[g].opened = file[k.path]
        /\ get'[g].got = get[g].got /\ get'[g].key = get[g].key
    BY <1>1, <2>1 DEF GetRecords, FileLength
  <2> QED
    BY <1>2, <1>7, <2>1, <2>2 DEF OpenFile, Downloaded
<1>8. CASE FileStream(g)
  <2>1. PICK k \in get[g].key :
          /\ k.kind = "file"
          /\ get' = [get EXCEPT ![g].pc = "done",
                       ![g].got = IF file[k.path] = get[g].opened THEN {file[k.path]} ELSE {}]
    BY <1>8 DEF FileStream
  <2>2. /\ \A h \in Gets : h # g => get'[h] = get[h]
        /\ get'[g].pc = "done" /\ get'[g].length = get[g].length /\ get'[g].key = get[g].key
        /\ get'[g].got = IF file[k.path] = get[g].opened THEN {file[k.path]} ELSE {}
    BY <1>1, <2>1 DEF GetRecords
  <2>3. \A v \in get'[g].got : v = file[k.path] /\ v = get[g].opened
    BY <2>2
  <2> QED
    BY <1>2, <1>8, <2>1, <2>2, <2>3 DEF FileStream, Downloaded
<1> QED
  BY <1>3, <1>4, <1>5, <1>6, <1>7, <1>8 DEF DownloadStep, GetStep

-----------------------------------------------------------------------------
(***************************************************************************)
(* The files.                                                              *)
(***************************************************************************)

\* A file is only replaced by a newer one; a new document is not newer than
\* the file.
Grown ==
  /\ \A p \in Paths : file[p] <= file'[p] /\ file'[p] <= last'
  /\ \A m \in making' : file'[m.path] = m.ver
  /\ \A p \in Paths : \A d \in doc'[p] : Newer(p, d)'

LEMMA FilesGrow ==
  ASSUME TypeOK, Files, ObjectStep
  PROVE  Grown
<1> USE DEF Files
<1>1. /\ file \in [Paths -> 0..MaxVersion] /\ last \in 0..MaxVersion
      /\ doc \in [Paths -> AtMostOne(Docs)] /\ MaxVersion \in Nat
  BY VersionAssumption DEF TypeOK
<1>2. ASSUME UNCHANGED <<doc, file, last, making>>
      PROVE  Grown
  BY <1>1, <1>2 DEF Newer, Grown
<1>3. ASSUME NEW R \in {Callers} \union SUBSET Users, SetReaders(R)
      PROVE  Grown
  BY <1>2, <1>3 DEF SetReaders
<1>4. ASSUME NEW p \in Paths, RemoveDoc(p)
      PROVE  Grown
  BY <1>1, <1>4 DEF RemoveDoc, Newer, Grown
<1>5. ASSUME NEW p \in Paths, WriteFile(p)
      PROVE  Grown
  <2>1. /\ file' = [file EXCEPT ![p] = last + 1] /\ last' = last + 1 /\ doc' = doc
        /\ making' = {[path |-> p, ver |-> last + 1]}
    BY <1>5 DEF WriteFile
  <2>2. \A q \in Paths : file[q] <= file'[q] /\ file'[q] <= last'
    BY <1>1, <2>1
  <2>3. \A m \in making' : file'[m.path] = m.ver
    BY <1>1, <2>1
  <2>4. \A q \in Paths : \A d \in doc[q] : d.ver \in Nat /\ (d.kind = "file" => file[q] >= d.ver)
    BY <1>1 DEF AtMostOne, Docs, Versions, Newer
  <2>5. \A q \in Paths : \A d \in doc'[q] : Newer(q, d)'
    BY <1>1, <2>1, <2>2, <2>4 DEF Newer
  <2> QED
    BY <2>2, <2>3, <2>5 DEF Grown
<1>6. ASSUME NEW p \in Paths, CreateNode(p)
      PROVE  Grown
  <2>1. /\ file' = file /\ last' = last + 1 /\ making' = making
        /\ doc' = [doc EXCEPT ![p] = {[kind |-> "node", ver |-> last + 1, size |-> 0]}]
    BY <1>6 DEF CreateNode
  <2>2. \A q \in Paths : \A d \in doc'[q] : Newer(q, d)'
    BY <1>1, <2>1 DEF Newer
  <2> QED
    BY <1>1, <2>1, <2>2 DEF Grown
<1>7. ASSUME NEW p \in Paths, SetSize(p)
      PROVE  Grown
  <2>1. PICK d \in doc[p] : d.kind = "node" /\ doc' = [doc EXCEPT ![p] = {[d EXCEPT !.size = d.ver]}]
    BY <1>7 DEF SetSize
  <2>2. d \in Docs
    BY <1>1 DEF AtMostOne
  <2>3. PICK e : e = [d EXCEPT !.size = d.ver]
    OBVIOUS
  <2>4. e.kind = "node"
    BY <2>1, <2>2, <2>3 DEF Docs
  <2>5. file' = file /\ last' = last /\ making' = making /\ doc' = [doc EXCEPT ![p] = {e}]
    BY <1>7, <2>1, <2>3 DEF SetSize
  <2> QED
    BY <1>1, <2>4, <2>5 DEF Grown, Newer
<1>8. CASE InsertDoc
  <2>1. PICK m \in making :
          doc' \in {doc, [doc EXCEPT ![m.path] = {[kind |-> "file", ver |-> m.ver, size |-> m.ver]}]}
    BY <1>8 DEF InsertDoc
  <2>2. m.path \in Paths /\ m.ver \in Versions
    BY DEF TypeOK, AtMostOne
  <2>3. PICK e : e = [kind |-> "file", ver |-> m.ver, size |-> m.ver]
    OBVIOUS
  <2>4. /\ file' = file /\ last' = last /\ making' = {}
        /\ doc' = doc \/ doc' = [doc EXCEPT ![m.path] = {e}]
    BY <1>8, <2>1, <2>3 DEF InsertDoc
  <2>5. file[m.path] >= e.ver /\ e.kind = "file"
    BY <1>1, <2>2, <2>3 DEF Versions
  <2>6. \A q \in Paths : \A d \in doc'[q] : Newer(q, d)'
    BY <1>1, <2>2, <2>4, <2>5 DEF Newer
  <2> QED
    BY <1>1, <2>4, <2>6 DEF Grown
<1>9. ASSUME NEW v \in Versions, Upload(v)
      PROVE  Grown
  BY <1>2, <1>9 DEF Upload
<1> QED
  BY <1>3, <1>4, <1>5, <1>6, <1>7, <1>8, <1>9 DEF ObjectStep

\* The steps that leave the files alone keep the rest.
LEMMA FilesKept ==
  ASSUME TypeOK, Files, UNCHANGED objects,
         \A c \in Calls : \A s \in call'[c].seen : \A d \in s.doc : Newer(s.path, d),
         \A k \in keys' : Newer(k.path, k),
         \A g \in Gets : \A k \in get'[g].key : k \in keys',
         FileIsNotOlder'
  PROVE  Files'
  BY DEF Files, Newer, objects

LEMMA StepFiles ==
  ASSUME IInv, [Next]_vars
  PROVE  Files'
<1>1. TypeOK /\ Files /\ Lengths
  BY DEF IInv
<1>2. \A c \in Calls : \A s \in call[c].seen :
        s.path \in Paths /\ \A d \in s.doc : d \in Docs /\ Newer(s.path, d)
  <2>1. \A c \in Calls : \A s \in call[c].seen : s \in Seen
    BY <1>1 DEF TypeOK, CallRecords, AtMostOne
  <2>2. \A s \in Seen : s.path \in Paths /\ \A d \in s.doc : d \in Docs
    BY DEF Seen, AtMostOne
  <2> QED
    BY <1>1, <2>1, <2>2 DEF Files
<1>3. \A k \in keys : k.path \in Paths /\ k.ver \in Versions /\ Newer(k.path, k)
  BY <1>1 DEF TypeOK, KeyRecords, Files
<1>4. /\ \A g \in Gets : \A k \in get[g].key : k \in keys
      /\ FileIsNotOlder
  BY <1>1 DEF Files
<1>5. CASE ObjectStep
  <2>1. Grown
    BY <1>1, <1>5, FilesGrow
  <2>2. call' = call /\ keys' = keys /\ get' = get
    BY <1>5, ObjectFrame
  <2>3. TypeOK'
    BY <1>1, <1>5, ObjectTypes DEF ObjectStep
  <2>4. \A p \in Paths : file[p] \in Nat /\ file'[p] \in Nat /\ file[p] <= file'[p]
    BY <1>1, <2>1, <2>3 DEF TypeOK, Grown
  <2>5. \A p \in Paths : \A d : d.ver \in Nat /\ Newer(p, d) => Newer(p, d)'
    BY <2>4 DEF Newer
  <2>6. \A c \in Calls : \A s \in call'[c].seen : \A d \in s.doc : Newer(s.path, d)'
    BY <1>2, <2>2, <2>5 DEF Docs, Versions
  <2>7. \A k \in keys' : Newer(k.path, k)'
    BY <1>3, <2>2, <2>5 DEF Versions
  <2>8. FileIsNotOlder'
    BY <1>4, <2>2 DEF FileIsNotOlder
  <2> QED
    BY <1>4, <2>1, <2>2, <2>6, <2>7, <2>8 DEF Files, Grown
<1>6. ASSUME UNCHANGED <<objects, get>>, keys \subseteq keys',
             \A c \in Calls : \A s \in call'[c].seen : \A d \in s.doc : Newer(s.path, d),
             \A k \in keys' : Newer(k.path, k)
      PROVE  Files'
  <2>1. FileIsNotOlder' /\ \A g \in Gets : \A k \in get'[g].key : k \in keys'
    BY <1>4, <1>6 DEF FileIsNotOlder
  <2> QED
    BY <1>1, <1>6, <2>1, FilesKept
<1>7. ASSUME NEW c \in Calls, NEW who \in Callers, NEW ps \in SUBSET Paths, Start(c, who, ps)
      PROVE  Files'
  <2>1. \A d \in Calls : call'[d].seen = call[d].seen
    BY <1>1, <1>7, StartStep
  <2>2. keys' = keys /\ UNCHANGED <<objects, get>>
    BY <1>1, <1>7, StartStep
  <2> QED
    BY <1>2, <1>3, <1>6, <2>1, <2>2
<1>8. ASSUME NEW c \in Calls, CallStep(c)
      PROVE  Files'
  <2>0. UNCHANGED <<objects, get>>
    BY <1>8, CallFrame
  <2>1. CASE FetchEnds(c) \/ FetchFails(c) \/ JobEnds(c) \/ NameThrows(c) \/ Reply(c)
    <3>1. keys' = keys /\ \A d \in Calls : call'[d].seen = call[d].seen
      BY <1>1, <2>1, PlainCallStep
    <3> QED
      BY <1>2, <1>3, <1>6, <2>0, <3>1
  <2>2. CASE (\E p \in Paths : ParsePath(c, p)) \/ LookUp(c)
    <3>1. keys' = keys /\ \A d \in Calls : d # c => call'[d] = call[d]
      BY <1>1, <2>2, LookStep
    <3>2. \A s \in call'[c].seen : s.doc = {} \/ (s.path \in Paths /\ s.doc = doc[s.path])
      BY <1>1, <2>2, LookStep
    <3>3. \A s \in call'[c].seen : \A d \in s.doc : Newer(s.path, d)
      BY <1>1, <3>2 DEF Files
    <3>4. \A d \in Calls : \A s \in call'[d].seen : \A e \in s.doc : Newer(s.path, e)
      BY <1>2, <3>1, <3>3
    <3> QED
      BY <1>3, <1>6, <2>0, <3>1, <3>4
  <2>3. CASE InsertKey(c)
    <3>1. Inserted(c) /\ keys \subseteq keys'
      BY <1>1, <2>3, InsertStep DEF InsertKey
    <3>2. \A d \in Calls : \A s \in call'[d].seen : \A e \in s.doc : Newer(s.path, e)
      BY <1>2, <3>1 DEF Inserted
    <3>3. \A k \in keys' : Newer(k.path, k)
      BY <1>2, <1>3, <3>1 DEF Inserted, Newer
    <3> QED
      BY <1>6, <2>0, <3>1, <3>2, <3>3
  <2>4. CASE AclAdds(c) \/ AclFails(c)
    <3>1. keys' = keys /\ \A d \in Calls : call'[d].seen = call[d].seen
      BY <1>1, <2>4, AclStep
    <3> QED
      BY <1>2, <1>3, <1>6, <2>0, <3>1
  <2> QED
    BY <1>8, <2>1, <2>2, <2>3, <2>4 DEF CallStep
<1>9. ASSUME NEW g \in Gets, DownloadStep(g)
      PROVE  Files'
  <2>1. Downloaded(g)
    BY <1>1, <1>9, DownloadRecord
  <2>2. UNCHANGED <<objects, call, keys>>
    BY <1>9, DownloadFrame
  <2>3. \A h \in Gets : \A k \in get'[h].key : k \in keys'
    BY <1>4, <2>1, <2>2 DEF Downloaded
  <2>4. get[g].pc \in {"idle", "found"} => get[g].got = {}
    BY <1>1 DEF Lengths
  <2>5. \A k \in get'[g].key : k.kind = "file" => \A v \in get'[g].got : v >= k.ver
    BY <1>3, <1>4, <2>1, <2>4 DEF Downloaded, Newer
  <2>6. FileIsNotOlder'
    BY <1>4, <2>1, <2>5 DEF FileIsNotOlder, Downloaded
  <2> QED
    BY <1>1, <1>2, <1>3, <2>2, <2>3, <2>6, FilesKept
<1>10. CASE UNCHANGED vars
  BY <1>2, <1>3, <1>6, <1>10 DEF vars
<1> QED
  BY <1>5, <1>7, <1>8, <1>9, <1>10, Steps

-----------------------------------------------------------------------------
(***************************************************************************)
(* The sizes.                                                              *)
(***************************************************************************)
LEMMA SizesKept ==
  ASSUME TypeOK, Lengths, ObjectStep
  PROVE  \A p \in Paths : \A d \in doc'[p] : Sized(d)
<1>1. doc \in [Paths -> AtMostOne(Docs)] /\ \A p \in Paths : \A d \in doc[p] : Sized(d)
  BY DEF TypeOK, Lengths
<1>2. CASE UNCHANGED doc
  BY <1>1, <1>2
<1>3. ASSUME NEW p \in Paths, RemoveDoc(p) \/ CreateNode(p)
      PROVE  \A q \in Paths : \A d \in doc'[q] : Sized(d)
  BY <1>1, <1>3 DEF RemoveDoc, CreateNode, Sized
<1>4. ASSUME NEW p \in Paths, SetSize(p)
      PROVE  \A q \in Paths : \A d \in doc'[q] : Sized(d)
  <2>1. PICK d \in doc[p] : doc' = [doc EXCEPT ![p] = {[d EXCEPT !.size = d.ver]}]
    BY <1>4 DEF SetSize
  <2>2. d \in Docs
    BY <1>1 DEF AtMostOne
  <2>3. PICK e : e = [d EXCEPT !.size = d.ver]
    OBVIOUS
  <2>4. Sized(e)
    BY <2>2, <2>3 DEF Docs, Sized
  <2> QED
    BY <1>1, <2>1, <2>3, <2>4
<1>5. CASE InsertDoc
  <2>1. PICK m \in making :
          doc' \in {doc, [doc EXCEPT ![m.path] = {[kind |-> "file", ver |-> m.ver, size |-> m.ver]}]}
    BY <1>5 DEF InsertDoc
  <2>2. PICK e : e = [kind |-> "file", ver |-> m.ver, size |-> m.ver]
    OBVIOUS
  <2>3. Sized(e)
    BY <2>2 DEF Sized
  <2>4. doc' = doc \/ doc' = [doc EXCEPT ![m.path] = {e}]
    BY <2>1, <2>2
  <2> QED
    BY <1>1, <2>3, <2>4
<1> QED
  BY <1>2, <1>3, <1>4, <1>5 DEF ObjectStep, SetReaders, WriteFile, Upload

\* The part about downloads.
Streams(g) ==
  /\ \A k \in get[g].key : Sized(k)
  /\ get[g].pc = "streaming" => \A k \in get[g].key :
       get[g].length = IF k.kind = "file" THEN get[g].opened ELSE k.size
  /\ get[g].got # {} => get[g].pc = "done"
  /\ \A k \in get[g].key :
       get[g].got # {} /\ ~(k.kind = "node" /\ k.size = 0) => get[g].got = {get[g].length}

LEMMA LengthsParts ==
  /\ Lengths <=> /\ \A p \in Paths : \A d \in doc[p] : Sized(d)
                 /\ \A c \in Calls : \A s \in call[c].seen : \A d \in s.doc : Sized(d)
                 /\ \A k \in keys : Sized(k)
                 /\ \A g \in Gets : Streams(g)
  /\ Lengths' <=> /\ \A p \in Paths : \A d \in doc'[p] : Sized(d)
                  /\ \A c \in Calls : \A s \in call'[c].seen : \A d \in s.doc : Sized(d)
                  /\ \A k \in keys' : Sized(k)
                  /\ \A g \in Gets : Streams(g)'
  BY DEF Lengths, LengthIsRight, Streams

LEMMA StepLengths ==
  ASSUME IInv, [Next]_vars
  PROVE  Lengths'
<1>1. TypeOK /\ Lengths /\ Files
  BY DEF IInv
<1>2. /\ \A p \in Paths : \A d \in doc[p] : Sized(d)
      /\ \A c \in Calls : \A s \in call[c].seen : \A d \in s.doc : Sized(d)
      /\ \A k \in keys : Sized(k)
      /\ \A g \in Gets : Streams(g)
  BY <1>1, LengthsParts
<1>3. ASSUME UNCHANGED get,
             \A p \in Paths : \A d \in doc'[p] : Sized(d),
             \A c \in Calls : \A s \in call'[c].seen : \A d \in s.doc : Sized(d),
             \A k \in keys' : Sized(k)
      PROVE  Lengths'
  <2>1. \A g \in Gets : Streams(g)'
    BY <1>2, <1>3 DEF Streams
  <2> QED
    BY <1>3, <2>1, LengthsParts
<1>4. CASE ObjectStep
  BY <1>1, <1>2, <1>3, <1>4, ObjectFrame, SizesKept
<1>5. ASSUME NEW c \in Calls, NEW who \in Callers, NEW ps \in SUBSET Paths, Start(c, who, ps)
      PROVE  Lengths'
  <2>1. \A d \in Calls : call'[d].seen = call[d].seen
    BY <1>1, <1>5, StartStep
  <2>2. keys' = keys /\ doc' = doc /\ get' = get
    BY <1>1, <1>5, StartStep DEF objects
  <2> QED
    BY <1>2, <1>3, <2>1, <2>2
<1>6. ASSUME NEW c \in Calls, CallStep(c)
      PROVE  Lengths'
  <2>0. doc' = doc /\ get' = get
    BY <1>6, CallFrame DEF objects
  <2>1. CASE FetchEnds(c) \/ FetchFails(c) \/ JobEnds(c) \/ NameThrows(c) \/ Reply(c)
    <3>1. keys' = keys /\ \A d \in Calls : call'[d].seen = call[d].seen
      BY <1>1, <2>1, PlainCallStep
    <3> QED
      BY <1>2, <1>3, <2>0, <3>1
  <2>2. CASE (\E p \in Paths : ParsePath(c, p)) \/ LookUp(c)
    <3>1. keys' = keys /\ \A d \in Calls : d # c => call'[d] = call[d]
      BY <1>1, <2>2, LookStep
    <3>2. \A s \in call'[c].seen : s.doc = {} \/ (s.path \in Paths /\ s.doc = doc[s.path])
      BY <1>1, <2>2, LookStep
    <3>3. \A s \in call'[c].seen : \A d \in s.doc : Sized(d)
      BY <1>2, <3>2
    <3>4. \A d \in Calls : \A s \in call'[d].seen : \A e \in s.doc : Sized(e)
      BY <1>2, <3>1, <3>3
    <3> QED
      BY <1>2, <1>3, <2>0, <3>1, <3>4
  <2>3. CASE InsertKey(c)
    <3>1. Inserted(c)
      BY <1>1, <2>3, InsertStep
    <3>2. \A d \in Calls : \A s \in call'[d].seen : \A e \in s.doc : Sized(e)
      BY <1>2, <3>1 DEF Inserted
    <3>3. \A k \in keys' : Sized(k)
      BY <1>2, <3>1 DEF Inserted, Sized
    <3> QED
      BY <1>2, <1>3, <2>0, <3>2, <3>3
  <2>4. CASE AclAdds(c) \/ AclFails(c)
    <3>1. keys' = keys /\ \A d \in Calls : call'[d].seen = call[d].seen
      BY <1>1, <2>4, AclStep
    <3> QED
      BY <1>2, <1>3, <2>0, <3>1
  <2> QED
    BY <1>6, <2>1, <2>2, <2>3, <2>4 DEF CallStep
<1>7. ASSUME NEW g \in Gets, DownloadStep(g)
      PROVE  Lengths'
  <2>1. Downloaded(g)
    BY <1>1, <1>7, DownloadRecord
  <2>2. doc' = doc /\ call' = call /\ keys' = keys
    BY <1>7, DownloadFrame DEF objects
  <2>3. /\ get[g].got \in AtMostOne(Versions) /\ get'[g].got \in AtMostOne(Versions)
        /\ \A k \in get[g].key : k.kind \in {"file", "node"}
    <3>1. TypeOK'
      BY <1>1, <1>7, GetTypes DEF DownloadStep
    <3>2. get[g] \in GetRecords /\ get'[g] \in GetRecords
      BY <1>1, <3>1 DEF TypeOK
    <3>3. \A k \in get[g].key : k \in KeyRecords
      BY <3>2 DEF GetRecords, AtMostOne
    <3> QED
      BY <3>2, <3>3 DEF GetRecords, KeyRecords
  <2>4. \A h \in Gets : h # g => Streams(h)'
    BY <1>2, <2>1 DEF Downloaded, Streams
  <2>5. ASSUME get[g].pc = "idle"
        PROVE  Streams(g)'
    <3>1. get[g].got = {} /\ get'[g].got = {}
      BY <1>2, <2>1, <2>5 DEF Downloaded, Streams
    <3>2. get'[g].pc # "streaming" /\ \A k \in get'[g].key : k \in keys \/ k \in get[g].key
      BY <2>1, <2>5 DEF Downloaded
    <3> QED
      BY <1>2, <3>1, <3>2 DEF Streams
  <2>6. ASSUME get[g].pc = "found"
        PROVE  Streams(g)'
    BY <1>2, <2>1, <2>6 DEF Downloaded, Streams
  <2>7. ASSUME get[g].pc = "streaming"
        PROVE  Streams(g)'
    <3>1. /\ get'[g].pc = "done" /\ get'[g].key = get[g].key /\ get'[g].length = get[g].length
          /\ \A k \in get[g].key :
               /\ k.kind = "node" => \A v \in get'[g].got : v = k.ver
               /\ k.kind = "file" => \A v \in get'[g].got : v = get[g].opened
      BY <2>1, <2>7 DEF Downloaded
    <3>2. \A k \in get[g].key : ~(k.kind = "node" /\ k.size = 0) =>
            \A v \in get'[g].got : v = get[g].length
      BY <1>2, <2>3, <2>7, <3>1 DEF Streams, Sized
    <3>3. \A k \in get'[g].key :
            get'[g].got # {} /\ ~(k.kind = "node" /\ k.size = 0) => get'[g].got = {get'[g].length}
      BY <2>3, <3>1, <3>2 DEF AtMostOne
    <3> QED
      BY <1>2, <3>1, <3>3 DEF Streams
  <2>8. Streams(g)'
    BY <2>1, <2>5, <2>6, <2>7 DEF Downloaded
  <2> QED
    BY <1>2, <2>2, <2>4, <2>8, LengthsParts
<1>8. CASE UNCHANGED vars
  BY <1>2, <1>3, <1>8 DEF vars, objects
<1> QED
  BY <1>4, <1>5, <1>6, <1>7, <1>8, Steps

-----------------------------------------------------------------------------
(***************************************************************************)
(* Theorems.                                                               *)
(***************************************************************************)

\* The invariant holds in every state of the downloads.
THEOREM Invariance == Spec => []IInv
<1>1. IInv /\ [Next]_vars => IInv'
  BY StepTypes, StepAllowance, StepFilled, StepOpening, StepFiles, StepLengths DEF IInv
<1> QED
  BY <1>1, InitIInv, PTL DEF Spec

\* Calls, keys, objects and downloads have their types in every state
\* (WorkspaceService::method_get_download_url, HTTPServer.cpp).
THEOREM TypeCorrect == Spec => []TypeOK
<1>1. IInv => TypeOK
  BY DEF IInv
<1> QED
  BY <1>1, Invariance, PTL

\* Every key of get_download_url is for an object that its caller could read
\* during the call.
THEOREM KeysAreAllowed == Spec => []KeysWereAllowed
<1>1. IInv => KeysWereAllowed
  BY DEF IInv, Allowance
<1> QED
  BY <1>1, Invariance, PTL

\* A call of get_download_url that has not failed has a token for its keys.
THEOREM KeysHaveTokens == Spec => []TokensAreFilled
<1>1. IInv => TokensAreFilled
  BY DEF IInv, Filled
<1> QED
  BY <1>1, Invariance, PTL

\* The access lists of Shock are set before get_download_url answers.
THEOREM RepliedKeysOpen == Spec => []RepliedKeysOpenNodes
<1>1. IInv => RepliedKeysOpenNodes
  <2> SUFFICES ASSUME IInv, NEW k \in keys, call[k.call].pc = "replied",
                      ~call[k.call].failed, k.kind = "node"
               PROVE  Allowed(k)
    BY DEF RepliedKeysOpenNodes
  <2>1. k.call \in Calls /\ k.token \in {"user", "service", "empty"}
    BY DEF IInv, TypeOK, KeyRecords, Tokens
  <2>2. k.token # "empty"
    BY DEF IInv, Filled, TokensAreFilled
  <2>3. call[k.call].urls = {}
    BY <2>1 DEF IInv, Opening
  <2>4. k.token = "user" => <<k.ver, call[k.call].who>> \in acl
    BY <2>3 DEF IInv, Opening
  <2> QED
    BY <2>1, <2>2, <2>4 DEF Allowed
<1> QED
  BY <1>1, Invariance, PTL

\* The download of a file is at least as new as its key (HTTPServer.cpp).
THEOREM FilesAreNotOlder == Spec => []FileIsNotOlder
<1>1. IInv => FileIsNotOlder
  BY DEF IInv, Files
<1> QED
  BY <1>1, Invariance, PTL

\* The Content-Length of a download is that of its content, but for the nodes
\* without a recorded size.
THEOREM LengthsAreRight == Spec => []LengthIsRight
<1>1. IInv => LengthIsRight
  BY DEF IInv, Lengths
<1> QED
  BY <1>1, Invariance, PTL
=============================================================================
