----------------------------- MODULE Downloads -----------------------------
(***************************************************************************)
(* Downloads: method_get_download_url (WorkspaceService.cpp), which makes  *)
(* a key for each object that its caller may read, and the /dl resource    *)
(* (HTTPServer.cpp), which serves the object to whoever has the key.       *)
(*                                                                         *)
(* Three things are read at different times by different threads: the      *)
(* token of the service, which calls fetch when there is none              *)
(* (WorkspaceState.h), the objects with their files and nodes, which       *)
(* others overwrite and upload, and the permissions, which others change.  *)
(*                                                                         *)
(* The objects of a call are handled in any order.  All of them are in one *)
(* workspace.  A version stands for the content of an object and, for an   *)
(* object in Shock, for its node; the length of a content is the number of *)
(* its version.                                                            *)
(***************************************************************************)
EXTENDS Naturals

CONSTANTS
  Calls,      \* calls of get_download_url, in all
  Gets,       \* requests of /dl, in all
  Users,
  NoUser,     \* a caller without a valid token
  Paths,      \* the paths of objects
  MaxVersion  \* bound on the contents that are ever made

ASSUME NoUserAssumption == NoUser \notin Users
ASSUME VersionAssumption == MaxVersion \in Nat

VARIABLES
  readers,   \* who may read the workspace
  doc,       \* per path: its document in the objects collection, at most one
  file,      \* per path: the version in its file on disk, 0 when there is none
  last,      \* the last version made
  making,    \* the file that has been written and is not yet in a document
  uploaded,  \* the nodes of Shock that have their file
  acl,       \* the access lists of the nodes
  token,     \* ws_auth_ is valid
  call,      \* the calls
  keys,      \* the downloads collection
  get,       \* the requests of /dl
  up,        \* the process runs
  could      \* history: the calls whose caller could read at some moment of it

objects == <<readers, doc, file, last, making, uploaded>>
vars == <<objects, acl, token, call, keys, get, up, could>>

Versions == 1..MaxVersion
Callers  == Users \union {NoUser}

AtMostOne(S) == {{}} \union {{x} : x \in S}

Docs  == [kind : {"file", "node"}, ver : Versions, size : 0..MaxVersion]
Seen  == [path : Paths, may : BOOLEAN, doc : AtMostOne(Docs), step : {"look", "insert"}]
Tokens == {"user", "service", "empty"}
KeyRecords ==
  [call : Calls, path : Paths, kind : {"file", "node"}, ver : Versions,
   size : 0..MaxVersion, token : Tokens]

CallRecords ==
  [pc : {"idle", "fetch", "job", "acl", "replied"}, who : Callers,
   todo : SUBSET Paths, seen : AtMostOne(Seen),
   urls : SUBSET Versions,   \* shock_urls
   failed : BOOLEAN]         \* history: Shock or the token server did not do its part

GetRecords ==
  [pc : {"idle", "found", "streaming", "done"}, key : AtMostOne(KeyRecords),
   length : 0..MaxVersion,   \* the Content-Length sent
   opened : 0..MaxVersion,   \* the content of the file when it was opened
   got : AtMostOne(Versions)]   \* the content sent, when it is the whole of one

TypeOK ==
  /\ readers \subseteq Callers
  /\ doc \in [Paths -> AtMostOne(Docs)]
  /\ file \in [Paths -> 0..MaxVersion]
  /\ last \in 0..MaxVersion
  /\ making \in AtMostOne([path : Paths, ver : Versions])
  /\ uploaded \subseteq Versions
  /\ acl \subseteq Versions \X Users
  /\ token \in BOOLEAN /\ up \in BOOLEAN
  /\ call \in [Calls -> CallRecords]
  /\ keys \subseteq KeyRecords
  /\ get \in [Gets -> GetRecords]
  /\ could \subseteq Calls

Init ==
  /\ readers = {}
  /\ doc = [p \in Paths |-> {}]
  /\ file = [p \in Paths |-> 0]
  /\ last = 0 /\ making = {} /\ uploaded = {} /\ acl = {}
  /\ token = FALSE /\ up = TRUE
  /\ call = [c \in Calls |-> [pc |-> "idle", who |-> NoUser, todo |-> {}, seen |-> {},
                              urls |-> {}, failed |-> FALSE]]
  /\ keys = {}
  /\ get = [g \in Gets |-> [pc |-> "idle", key |-> {}, length |-> 0, opened |-> 0, got |-> {}]]
  /\ could = {}

Active(c) == call[c].pc \notin {"idle", "replied"}

(***************************************************************************)
(* The other requests.                                                     *)
(***************************************************************************)

\* set_permissions: a permission for everybody, or for some users.
SetReaders(R) ==
  /\ up
  /\ readers' = R
  /\ could' = could \union {c \in Calls : Active(c) /\ call[c].who \in R}
  /\ UNCHANGED <<doc, file, last, making, uploaded, acl, token, call, keys, get, up>>

\* A deletion, or process_create with overwrite: the document goes, the file
\* stays on disk.
RemoveDoc(p) ==
  /\ up /\ making = {} /\ doc[p] # {}
  /\ doc' = [doc EXCEPT ![p] = {}]
  /\ UNCHANGED <<readers, file, last, making, uploaded, acl, token, call, keys, get, up, could>>

\* Variant of WriteFile: an error of the stream is not noticed.
WriteFileUnnoticed(p) ==
  /\ up /\ making = {} /\ doc[p] = {} /\ last < MaxVersion
  /\ last' = last + 1
  /\ making' = {[path |-> p, ver |-> last']}
  /\ UNCHANGED <<readers, doc, file, uploaded, acl, token, call, keys, get, up, could>>

\* create_workspace_object writes the data to the file, which it truncates,
WriteFile(p) ==
  /\ up /\ making = {} /\ doc[p] = {} /\ last < MaxVersion
  /\ last' = last + 1
  /\ file' = [file EXCEPT ![p] = last']
  /\ making' = {[path |-> p, ver |-> last']}
  /\ UNCHANGED <<readers, doc, uploaded, acl, token, call, keys, get, up, could>>

\* and inserts the document, with the size of the file, or, when the write has
\* failed, returns.
InsertDoc ==
  /\ up /\ making # {}
  /\ making' = {}
  /\ \E m \in making :
       doc' \in {doc, [doc EXCEPT ![m.path] = {[kind |-> "file", ver |-> m.ver, size |-> m.ver]}]}
  /\ UNCHANGED <<readers, file, last, uploaded, acl, token, call, keys, get, up, could>>

\* process_create with a new node.
CreateNode(p) ==
  /\ up /\ making = {} /\ doc[p] = {} /\ last < MaxVersion
  /\ last' = last + 1
  /\ doc' = [doc EXCEPT ![p] = {[kind |-> "node", ver |-> last', size |-> 0]}]
  /\ UNCHANGED <<readers, file, making, uploaded, acl, token, call, keys, get, up, could>>

\* The client uploads to the node,
Upload(v) ==
  /\ v \notin uploaded
  /\ \E p \in Paths : \E d \in doc[p] : d.kind = "node" /\ d.ver = v
  /\ uploaded' = uploaded \union {v}
  /\ UNCHANGED <<readers, doc, file, last, making, acl, token, call, keys, get, up, could>>

\* and the upload tracking records the size.
SetSize(p) ==
  /\ up
  /\ \E d \in doc[p] :
       /\ d.kind = "node" /\ d.ver \in uploaded /\ d.size = 0
       /\ doc' = [doc EXCEPT ![p] = {[d EXCEPT !.size = d.ver]}]
  /\ UNCHANGED <<readers, file, last, making, uploaded, acl, token, call, keys, get, up, could>>

(***************************************************************************)
(* method_get_download_url.                                                *)
(***************************************************************************)

\* ws_auth: a call that finds no valid token fetches one.
Start(c, who, paths) ==
  /\ up /\ call[c].pc = "idle"
  /\ call' = [call EXCEPT ![c].pc = IF token THEN "job" ELSE "fetch",
                          ![c].who = who, ![c].todo = paths]
  /\ could' = IF who \in readers THEN could \union {c} ELSE could
  /\ UNCHANGED <<objects, acl, token, keys, get, up>>

FetchEnds(c) ==
  /\ up /\ call[c].pc = "fetch"
  /\ token' = TRUE
  /\ call' = [call EXCEPT ![c].pc = "job"]
  /\ UNCHANGED <<objects, acl, keys, get, up, could>>

\* Variant of FetchFails: the token is reset.
FetchFailsResets(c) ==
  /\ up /\ call[c].pc = "fetch"
  /\ call' = [call EXCEPT ![c].pc = "job", ![c].failed = TRUE]
  /\ token' = FALSE
  /\ UNCHANGED <<objects, acl, keys, get, up, could>>

\* An error is logged, and the call goes on with the token as it is.
FetchFails(c) ==
  /\ up /\ call[c].pc = "fetch"
  /\ call' = [call EXCEPT ![c].pc = "job", ![c].failed = TRUE]
  /\ UNCHANGED <<objects, acl, token, keys, get, up, could>>

\* The job, in the thread pool.  parse_path reads the permissions,
ParsePath(c, p) ==
  /\ up /\ call[c].pc = "job" /\ call[c].seen = {} /\ p \in call[c].todo
  /\ call' = [call EXCEPT ![c].seen = {[path |-> p, may |-> call[c].who \in readers,
                                        doc |-> {}, step |-> "look"]}]
  /\ UNCHANGED <<objects, acl, token, keys, get, up, could>>

\* lookup_object_meta the document,
LookUp(c) ==
  /\ up /\ call[c].pc = "job"
  /\ \E s \in call[c].seen :
       /\ s.step = "look"
       /\ call' = [call EXCEPT ![c].seen = {[s EXCEPT !.doc = doc[s.path], !.step = "insert"]}]
  /\ UNCHANGED <<objects, acl, token, keys, get, up, could>>

\* Variant of MayKey: every object gets a key.
MayKeyUnchecked(s) == TRUE

\* insert_download_for_object makes a key for what has been read.
MayKey(s) == s.may

KeyToken(c) == IF call[c].who # NoUser THEN "user" ELSE IF token THEN "service" ELSE "empty"

\* Variant of Urls: the node is not noted.
UrlsNone(c, d) == {}

\* Variant of Urls: the node is noted for a caller without a token, too.
UrlsAlways(c, d) == IF d.kind = "node" THEN {d.ver} ELSE {}

Urls(c, d) == IF d.kind = "node" /\ call[c].who # NoUser THEN {d.ver} ELSE {}

InsertKey(c) ==
  /\ up /\ call[c].pc = "job"
  /\ \E s \in call[c].seen :
       /\ s.step = "insert"
       /\ \/ \E d \in s.doc :
               /\ MayKey(s)
               /\ keys' = keys \union {[call |-> c, path |-> s.path, kind |-> d.kind,
                                        ver |-> d.ver, size |-> d.size,
                                        token |-> KeyToken(c)]}
               /\ call' = [call EXCEPT ![c].seen = {}, ![c].todo = @ \ {s.path},
                                       ![c].urls = @ \union Urls(c, d)]
          \/ /\ \A d \in s.doc : ~MayKey(s)
             /\ call' = [call EXCEPT ![c].seen = {}, ![c].todo = @ \ {s.path}]
             /\ UNCHANGED keys
  /\ UNCHANGED <<objects, acl, token, get, up, could>>

\* The name for the access lists: that of the caller, or that of the service.
HasName(c) == call[c].who # NoUser \/ token

JobEnds(c) ==
  /\ up /\ call[c].pc = "job" /\ call[c].todo = {} /\ HasName(c)
  /\ call' = [call EXCEPT ![c].pc = "acl"]
  /\ UNCHANGED <<objects, acl, token, keys, get, up, could>>

\* ws_auth.user() of a token that was never filled throws; nothing catches.
NameThrows(c) ==
  /\ up /\ call[c].pc = "job" /\ call[c].todo = {} /\ ~HasName(c)
  /\ up' = FALSE
  /\ UNCHANGED <<objects, acl, token, call, keys, get, could>>

\* acl_add_user, with the token of the service.
AclAdds(c) ==
  /\ up /\ call[c].pc = "acl"
  /\ \E v \in call[c].urls :
       /\ acl' = acl \union {<<v, call[c].who>>}
       /\ call' = [call EXCEPT ![c].urls = @ \ {v}]
  /\ UNCHANGED <<objects, token, keys, get, up, could>>

\* What Shock answers is not looked at.
AclFails(c) ==
  /\ up /\ call[c].pc = "acl"
  /\ \E v \in call[c].urls :
       call' = [call EXCEPT ![c].urls = @ \ {v}, ![c].failed = TRUE]
  /\ UNCHANGED <<objects, acl, token, keys, get, up, could>>

Reply(c) ==
  /\ up /\ call[c].pc = "acl" /\ call[c].urls = {}
  /\ call' = [call EXCEPT ![c].pc = "replied"]
  /\ UNCHANGED <<objects, acl, token, keys, get, up, could>>

(***************************************************************************)
(* GET /dl/<key>/<name>, from whoever has got the key from its call.       *)
(***************************************************************************)
Find(g, k) ==
  /\ up /\ get[g].pc = "idle" /\ call[k.call].pc = "replied"
  /\ get' = [get EXCEPT ![g].pc = "found", ![g].key = {k}]
  /\ UNCHANGED <<objects, acl, token, call, keys, up, could>>

\* An unknown key, or another name: 404.
NotFound(g) ==
  /\ up /\ get[g].pc = "idle"
  /\ get' = [get EXCEPT ![g].pc = "done"]
  /\ UNCHANGED <<objects, acl, token, call, keys, up, could>>

\* The header for a node has the size of the key, and is sent before Shock is
\* asked.
NodeHeader(g) ==
  /\ up /\ get[g].pc = "found"
  /\ \E k \in get[g].key :
       /\ k.kind = "node"
       /\ get' = [get EXCEPT ![g].pc = "streaming", ![g].length = k.size]
  /\ UNCHANGED <<objects, acl, token, call, keys, up, could>>

\* Shock: the owner of a node, or a user in its access list, gets its file.
Allowed(k) == k.token = "service" \/ (k.token = "user" /\ <<k.ver, call[k.call].who>> \in acl)

NodeStream(g) ==
  /\ up /\ get[g].pc = "streaming"
  /\ \E k \in get[g].key :
       /\ k.kind = "node"
       /\ get' = [get EXCEPT ![g].pc = "done",
                    ![g].got = IF Allowed(k) /\ k.ver \in uploaded THEN {k.ver} ELSE {}]
  /\ UNCHANGED <<objects, acl, token, call, keys, up, could>>

\* Variant of FileLength: the size that was recorded with the key.
FileLengthOfKey(k) == k.size

\* prepare_payload replaces the size of the key by that of the open file.
FileLength(k) == file[k.path]

OpenFile(g) ==
  /\ up /\ get[g].pc = "found"
  /\ \E k \in get[g].key :
       /\ k.kind = "file"
       /\ get' = [get EXCEPT ![g].pc = "streaming", ![g].length = FileLength(k),
                             ![g].opened = file[k.path]]
  /\ UNCHANGED <<objects, acl, token, call, keys, up, could>>

\* The file is read while it is written out; an overwrite truncates it.
FileStream(g) ==
  /\ up /\ get[g].pc = "streaming"
  /\ \E k \in get[g].key :
       /\ k.kind = "file"
       /\ get' = [get EXCEPT ![g].pc = "done",
                    ![g].got = IF file[k.path] = get[g].opened THEN {file[k.path]} ELSE {}]
  /\ UNCHANGED <<objects, acl, token, call, keys, up, could>>

CallStep(c) ==
  \/ FetchEnds(c) \/ FetchFails(c)
  \/ \E p \in Paths : ParsePath(c, p)
  \/ LookUp(c) \/ InsertKey(c) \/ JobEnds(c) \/ NameThrows(c)
  \/ AclAdds(c) \/ AclFails(c) \/ Reply(c)

GetStep(g) == NodeHeader(g) \/ NodeStream(g) \/ OpenFile(g) \/ FileStream(g)

Next ==
  \/ \E R \in {Callers} \union SUBSET Users : SetReaders(R)
  \/ \E p \in Paths : RemoveDoc(p) \/ WriteFile(p) \/ CreateNode(p) \/ SetSize(p)
  \/ InsertDoc
  \/ \E v \in Versions : Upload(v)
  \/ \E c \in Calls : \/ \E who \in Callers, ps \in SUBSET Paths : Start(c, who, ps)
                      \/ CallStep(c)
  \/ \E g \in Gets : (\E k \in keys : Find(g, k)) \/ NotFound(g) \/ GetStep(g)

Spec == Init /\ [][Next]_vars

(***************************************************************************)
(* Properties.                                                             *)
(***************************************************************************)

\* A key exists only for an object that the caller could read at some moment
\* of its call, whatever set_permissions does beside it.
KeysWereAllowed == \A k \in keys : k.call \in could

\* When a call has answered, its caller can get every node that it has a key
\* for ("ensure Shock has an acl for it"), if Shock has done its part.
RepliedKeysOpenNodes ==
  \A k \in keys :
    call[k.call].pc = "replied" /\ ~call[k.call].failed /\ k.kind = "node" => Allowed(k)

\* A download of a file never serves a content older than the one the key was
\* made for, although the file may have been overwritten since.
FileIsNotOlder ==
  \A g \in Gets : \A k \in get[g].key :
    k.kind = "file" => \A v \in get[g].got : v >= k.ver

\* The Content-Length is that of the content that follows, but for a node the
\* size of which was not recorded when the key was made.
LengthIsRight ==
  \A g \in Gets : \A k \in get[g].key :
    get[g].got # {} /\ ~(k.kind = "node" /\ k.size = 0) => get[g].got = {get[g].length}

\* A call that has not failed never takes a token of the service that is
\* empty: what it has found valid stays so, whatever other calls do.
TokensAreFilled ==
  \A k \in keys : k.token = "empty" => call[k.call].failed
=============================================================================
