# A verification project for the P4 workspace service

The program is an HTTP/JSON-RPC service that keeps users' workspaces: a tree of
folders and objects per workspace, with its documents in MongoDB, its files on a
local file system, and large files in an external store, Shock. It is written
with Boost.Asio: requests are stackful coroutines, and database work is handed
to other threads. This directory holds TLA+ modules of its core, the TLC
configurations that check them, and proofs checked by TLAPS. Paths such as
`WorkspaceDB.h:208` are relative to `src/`.

1. [Inventory](#1-inventory)
2. [Modules](#2-modules)
3. [Runs](#3-runs)
4. [Proofs](#4-proofs)
5. [What the runs found](#5-what-the-runs-found)
6. [What is not modelled](#6-what-is-not-modelled)
7. [Plan](#7-plan)

To check: `tlc -workers 2 -config <cfg> <module>` for a run of section 3,
`tlapm <Module>Proofs.tla` for a module of section 4.

## 1. Inventory

### Threads

| thread | runs |
|---|---|
| main `io_context` (`p4x-workspace.cpp`), as many threads as the command line says | the listener, HTTP sessions, and the coroutine of each request |
| `thread_pool_` of `WorkspaceDB` | query functions handed over with `run_in_thread` |
| `sync_thread_` of `WorkspaceDB` | query functions of `run_in_sync_thread`, one at a time |
| shock thread of `WorkspaceService` | the timer that polls uploads, the coroutine of `update_auto_meta`, all access to `pending_uploads_` that the authors meant to serialize |

A coroutine is suspended while its query function runs; the function refers by
reference to the coroutine's locals. The wake-up is the cancellation of a timer.

### Components

| component | state | operations | interacts with | hard because | correct when |
|---|---|---|---|---|---|
| Query execution (`WorkspaceDB.h:140-240`, `DispatchContext.h`) | queues of two executors, timer of each request | `run_in_thread`, `run_in_sync_thread` | every request | coroutine and job race on the timer; an exception ends the process | a job never outlives the frame it refers to; sync jobs are serialized in order; every call returns |
| Upload tracking (`WorkspaceService.cpp`, `PendingUpload.h`) | `pending_uploads_`, sizes in the database | `create` with nodes, `run_timer`, `update_auto_meta` | Shock, sync thread, shock thread | two coroutines and one job work on one map without a lock; clients upload behind the service's back; restarts | no upload is forgotten, no wrong size is recorded, uploads are eventually noticed |
| Permissions (`WorkspaceDB.cpp`) | `global_permission` and `permissions` of a workspace | `set_permissions`, the check of every request, `list_workspaces` | all requests that change something | check and change are steps apart, in two executors; two implementations of "may read" | who changes is authorized at that time; both implementations agree |
| Objects (`process_create`, `perform_copy`, `method_delete`) | documents, directories, files | create, copy, delete | sync thread, pool | tree kept twice, no transaction, partial failures | folders have directories, a place has one object, deletion deletes what was looked up |
| Reads (`ls`, `get`, `list_permissions`) | none | - | permissions | reads after the check | answers reflect the permissions |
| Downloads (`get_download_url`, `/dl`) | `downloads` collection | make a key, redeem it | HTTP server, Shock | permission, object, key, access list and file are read and written at different times by different threads | a key is for what its caller could read, opens what it is for, and is served in full |
| Metadata (`update_metadata`, `update_object`) | metadata of objects and workspaces | replace, append | sync thread | filter by uuid, which `create_folder` leaves empty | an update touches one object |
| Path parser (`PathParser.h`) | a character machine | parse a path | all requests | slashes at any place, a parser used again | a canonical path with the names of the text |
| Service token (`WorkspaceState.h`, `UserAgent.*`) | one cached token | `ws_auth` | Shock | cached across a suspension, expiry | no call uses an empty token because of another |
| Shock client (`Shock.*`) | none | create node, get node, ACL | external store | answers lost, no timeout | - |
| HTTP server (`HTTPServer.*`) | sessions, quit flag | accept, dispatch, `/quit` | all | clients leave at any moment, exceptions, a flag looked at between two connections only | no request is cut off, none waits for ever, the server ends |
| Dispatch, JSON-RPC | a constant table | look up a method | - | - | - |
| Tokens and certificates | loaded keys | verify | - | cryptography | - |
| Configuration, start, logging, TLS, conversions | constants | - | - | - | - |

`PROJECT.json` lists the hazards of this code line by line, each with the
properties that would see it go wrong.

## 2. Modules

| module | models | checked by | proofs |
|---|---|---|---|
| `DbCall` | the promise of the two `run_in_..._thread` functions | `DbExec` refines it | |
| `DbExec` | queues, threads and timers that keep it | `MCDbExec` | `DbExecProofs` |
| `Uploads` | the promise to a client that uploads an object | `UploadTracking` refines it | |
| `UploadTracking` | uploads from node to recorded size | `MCUploadTracking` | `UploadTrackingProofs` |
| `Permissions` | permissions of a workspace, requests that depend on them | `MCPermissions` | `PermissionsProofs` |
| `WorkspaceTree` | create, copy, delete on documents and disk | `MCWorkspaceTree` | `WorkspaceTreeProofs` |
| `PathParser` | the character machine that makes a path | `MCPathParser` | `PathParserProofs` |
| `UrlCoding` | `url_encode` and `url_decode` | `MCPathParser` | `PathParserProofs` |
| `Metadata` | look-up and update of metadata and type | `MCMetadata` | `MetadataProofs` |
| `Downloads` | download keys, access lists, the service's token, `/dl` | `MCDownloads` | `DownloadsProofs` |
| `ServerLife` | the promise of the HTTP server's shutdown | `HttpServer` refines it | |
| `HttpServer` | the listener, the sessions and `/quit` that keep it | `MCHttpServer` | `HttpServerProofs` |

The modules compose by assumption and guarantee. `DbExec` shows that jobs of the
sync thread run one at a time and to their end in the order of posting; the
other modules have one `job` (or the guard `SyncThreadFree`) for that thread and
let everything on the pool run beside it. `UploadTracking` repeats the part of
`DbExec` it needs in full, the timer's own post and wait, since the race there is
between the coroutine and the job. `Downloads` takes the other requests by what
they do to what it reads: a change of permissions, of a document, of a file, of a
node. `HttpServer` leaves open what a request asks for; its `MethodEnds` is the
return of a call, which `DbExec` is about. Paths are canonical in `WorkspaceTree`
and opaque in `Metadata` and `Downloads`, which is what `PathParser` shows.

Definitions named "Variant of ..." are the same operators with one mistake.
They are not used in a specification; `PROJECT.json` pairs each with the
property that a run then finds violated.

### DbCall, DbExec

A request has a coroutine (`pc`), a timer (`expiry`) and the executor of its
latest call (`kind`); an executor has a queue; a thread has the job it has taken
(`worker`) and how far that has got (`stage`).

| action | code |
|---|---|
| `Post` | `expires_at(pos_infin)` and `post` |
| `AsyncWait`, `Resume` | `timer.async_wait(yield)` and its completion |
| `Take` | a thread takes the oldest job and makes a query handle |
| `QueryReturns`, `QueryThrows` | `qfunc(std::move(q))` |
| `CancelOne` | `dc.timer.cancel_one()` |

`cancel_one` wakes a wait that is registered and leaves no trace otherwise, as
Asio documents. `Post` and `AsyncWait` are separate steps, as the job may run in
between on its own thread. The timer is not thread-safe; of what a concurrent
`cancel_one` and `async_wait` can do the model has both orders. `QueryThrows`
ends everything: nothing catches in the threads' functions.

`DbCall` says the same in terms of a call: submitted, executing, finished, back;
a sync call begins when those submitted before it are finished (`ahead`). The
refinement mapping is `CallPhase` and `CallAhead`: a call is *submitted* while
queued, *executing* in stage "query", *finished* from then on until the
coroutine runs; what is ahead of a queued sync call is what is before it in the
queue and what the sync thread executes.

### Uploads, UploadTracking

| state | code |
|---|---|
| `db`, `size` | the objects collection: the object at each path, its size |
| `used` | generated uuids |
| `node`, `length` | Shock (external): none, without a file, with a file of a length |
| `pending` | `pending_uploads_`, ordered by uuid |
| `job` | the job of the sync thread: create, update_auto_meta, or the timer's |
| `timer`, `posted` | the coroutine `run_timer`, and its job |
| `known`, `dangled` | history: entries made by this process; an erased entry has been used |

A step is a segment between two yields of the shock thread, or a database
operation of the sync thread. While the job of `create` or `update_auto_meta`
waits on its mutex it is in step "node", "emplace", "spawned" or "checking".
`ShockThreadFree` is the guard of every other segment on the shock thread while
the timer's coroutine has not reached its yield.

Abstractions. Calls that are rejected change nothing and are left out. A
`create` has one object. Every failure of `get_node` is "no answer"; the result
of the ACL call is ignored, as in the code. A client uploads once to a node.
Deletion of objects that are no folders is commented out in the code, so there
is none. `PendingUpload::age()` is not used by anything, so entries never
expire. Use of an erased entry is undefined behaviour: the process dies, or the
coroutine goes on with anything it may read from there; `dangled` remembers it,
and properties that cannot hold afterwards say so.

`Uploads` is what a client may rely on, without paths, threads, timers, jobs or
iterators: an object has its node and is awaited before it is in the database,
where its size is 0; the size that is recorded later is the length of its own
file; it is awaited until that has been done (`Record`, `Resolve`), or it has
been replaced, or the process has ended (`Lose`; `README:27` wants it otherwise).
The refinement mapping reads the life of an object off the database
and the job (`Stage`: new, making, stored, gone), and takes as awaited
the entries of the map together with the one that `update_auto_meta` has erased
when its update is still to be made (`Awaited`). The job that writes the sizes
is in the abstract specification one `Record` for each object; an
entry leaves the map later, as part of `Resolve`. After the first use of an erased
entry nothing is promised (`Break`).

### Permissions

`global` and `grants` are the two fields of one workspace's document. A request
on the sync thread ("set", "write") or on the pool ("delete") is first authorized
by what it reads, later makes its changes. `Effective` is
`effective_permission`, `Listed` the query of `list_workspaces`.

Abstractions. One workspace. The contents that a "write" or "delete" changes are
reduced to the fact that the request is under way. Repeated identical entries of
a `set_permissions` count as one. User ids are those without `%`, for which
`url_encode` is injective; ids with `+` are in `Users \ Plain`, for `url_decode`
(`parse_url.h:160`) turns `+` into a space, so that a grant to such an id is
stored, listed, and never found by the check. `ListsWhatIsReadable` and
`EffectiveIsHighest` name that exception.

### WorkspaceTree

A place is the sequence of names that makes up path and name. `docs` is the
objects collection, `dirs` and `files` are what is on disk; nothing is ever
removed from disk, since a `RemovalRequest` is only printed. `job` is the rest
of the job of the sync thread: the object to be removed, the items to be made, the one
that is on disk already but not in the database, the listing of a copy to come.
`del` holds what deletions on the pool have looked up.

| action | code |
|---|---|
| `CreateStart`, `RemoveOld` | `process_create`: checks, intermediates, overwriting |
| `CopyStart`, `CopyList` | `perform_copy`: checks, destination, `list_objects`, `replace_path_prefix` |
| `MakeDirectory`, `WriteFile`, `UseNode`, `CopyFile` | the disk's half of `create_workspace_object`, `create_folder`, `copy_workspace_object` |
| `InsertDoc` | `insert_one` |
| `DeleteStart`, `DeleteApply` | `method_delete`: the lookup, and `remove_workspace_folder_only` |
| `Crash` | the end of the process |

Abstractions. One workspace. The checks of a job are one step: no other job of
the sync thread runs, and a deletion between two of its reads has the same effect
as one before or after. `del` is a set, with one element for any number of
deletions that have looked up the same (`last`). The id of a deleted document is used
again only when nothing refers to it any more. "folder" stands for folders and
model folders; a request of type "modelfolder" is different from one of type
"folder" in one check (only the literal "folder" is refused as an overwriting
type), and `CreateStart` has both. Regular expression characters in names are
not considered, nor are sizes and metadata. A failure of the disk is a choice
(`ok`). `fs::copy` onto an existing file, or from a missing one, throws a
`filesystem_error`, which the handler for `ios_base::failure` does not catch:
the process ends.

What one might expect and the code does not provide, so that no property says
it: every object has its folder (an intermediate may fail, a folder with content
may be deleted); only folders have something beneath them (the copy's check of
the destination's parent accepts anything); an overwriting create that fails
leaves the old object; an object of the file system has its data (without the
directory it is inserted without); a copy of the whole workspace is complete
(only the top level is listed).

### PathParser, UrlCoding

| state | code |
|---|---|
| `parser` | `cur_state_`, `owner_`, `wsname_`, `path_`, `path_component_` |
| `seen` | history: what has been read since `init_parse` |
| `phase`, `result` | which member function comes next; what `extract_path` returned |

`ReadChar`, `ParseComplete` and `InitParse` are the parts of `parse`,
`ExtractPath` is `extract_path`, with the moves that leave members empty. The
transitions are two tables, one for a slash and one for any other character.
The switch has no state that is left by an error: what comes before the first
slash is skipped, and a text that begins with a hexadecimal digit has no names.
A character is its code, so that `UrlCoding` can work on the same texts.
`ReadHex` is what `is >> std::hex >> value` does with two characters: it skips
white space, takes a sign and a `0x`, and stops at the first character it cannot use.

Reference definitions, not taken from the machine: `AreNamesOf` says by the
positions of the slashes which parts of a text are its names (`Starts`, where
they begin, and `Rank`, which of them begins there); `PrefixIsParsed` compares after each
character. What a loop of the code computes for a whole text (`After`, `Joined`,
`UrlEncode`, `UrlDecode`) is a function of the number of rounds.

### Metadata

`docs` is the objects collection with its user metadata and types, `spaces` the
metadata in the workspaces collection, `job` what a request has looked up.

| action | code |
|---|---|
| `LookUp` | `method_update_metadata` up to `update_object`'s look-up, the checks of type |
| `UpdateObject`, `UpdateWorkspace` | `update_one`: any document with the uuid that was found |
| `Create`, `Copy`, `CreateFolder`, `RemoveObject` | the other jobs of the sync thread |
| `DeleteFolder` | a deletion on the pool, at any time |

Abstractions. Nothing is carried from one object of a request to the next, so an
object is a job; the permission check is in `Permissions`; creation dates, which
`update_object` sets like types, are left out. An update of a document that is
not there any more matches nothing.

As the code does it: `append` uses `std::map::insert`, so that a key the object
has already keeps its old value; the metadata of a workspace are never loaded
(`populate_workspace_from_db_obj`), so that an append on a workspace replaces;
a copy has no user metadata.

### Downloads

| state | code |
|---|---|
| `readers` | who may read the workspace (`effective_permission` at `read`) |
| `doc`, `file`, `last`, `making` | an object's document, the content of its file, and the write that is not yet in a document |
| `uploaded`, `acl` | Shock (external): nodes with their file, their access lists |
| `token` | whether `ws_auth_` is valid |
| `call` | calls of `get_download_url`: which objects are left, what has been read, `shock_urls` |
| `keys` | the `downloads` collection |
| `get` | requests of `/dl`: the key found, the length sent, the content sent |
| `could` | history: calls whose caller could read at some moment of the call |

| action | code |
|---|---|
| `Start`, `FetchEnds`, `FetchFails` | `ws_auth` |
| `ParsePath`, `LookUp`, `InsertKey` | `insert_download_for_object`, on the pool |
| `JobEnds`, `NameThrows` | the name for the access lists; `parts_.at("un")` of a token never filled throws |
| `AclAdds`, `AclFails`, `Reply` | the loop over `shock_urls`, the answer |
| `Find`, `NotFound` | the look-up of the key, the comparison of the name |
| `NodeHeader`, `NodeStream` | the header, then Shock's answer |
| `OpenFile`, `FileStream` | `file.open` with `prepare_payload`, then the body |
| `SetReaders`, `RemoveDoc`, `WriteFile`, `InsertDoc`, `CreateNode`, `SetSize` | the requests beside it |

Abstractions. One workspace. The objects of a call are handled in any order.
A version stands for a content and for a node, and its length is its number, so
that different contents have different lengths. The disk's write and the
document's insertion are two steps, and the second may be left out, as in
`WorkspaceTree`. A file is sent as a whole or not, depending on whether it is
the same at the end as at the beginning. Folders, which get no key, are objects
that are not there. A download that fails on the client's side changes nothing
and is left out. Assumptions about outside: the owner of the nodes
is the service, Shock serves a node to its owner and to those in its access
list, a token of a user is accepted as long as it is used, and the token server's
answer either has a whole token or no `access_token`. With several threads in the main
`io_context` the token is read in a pool thread while another coroutine may parse
into it; this data race is reduced to the two values of `token`.

### HttpServer, ServerLife

A connection is new, queued at the acceptor, in one of the places of a session
where it waits or decides (`header`, `continue`, `begin`, `body`, `lookup`,
`method`, `write`), ended, or refused because the acceptor is closed. `gone` are the
clients that have left.

| action | code |
|---|---|
| `Check`, `Accept`, `AcceptFails` | `Listener::loop` |
| `AcceptThrows`, `LoggerThrows` | `name_logger`: `remote_endpoint()` of a client that has left throws |
| `ReadHeader`, `HeaderFails`, `ContinueEnds` | `Session::loop` |
| `HandleQuit`, `HandleDownload`, `LookupEnds` | `handle_get` |
| `HandleOptions`, `HandleOther` | `handle_options`, and requests without an answer |
| `HandleApi`, `ReadBody`, `BodyFails`, `BodyThrows`, `MethodEnds` | `handle_api`; `parser.finish()` throws on JSON without an end |
| `WriteEnds` | `async_write` and its error |
| `Stop` | `io_context::run` returns |

An exception in a coroutine leaves `run` in its thread and ends the process
(`Throws`). `quit_` is a plain `bool` written and read by different threads when
there are several; that the listener sees an old value is the same as its having
looked a little earlier, that it never sees the new one is left out.

`ServerLife` knows which connections wait and which are served, and phases:
open, one more connection to be taken, closed, off, failed. The refinement
mapping is `Phase`: after the flag is set, the phase is *last* if the listener is in
`accept`, and *closed* if it is about to look.

## 3. Runs

| run | kind | shows |
|---|---|---|
| `db_exec` | pass, with fairness | three requests, two pool threads: types, `FrameOutlivesJob`, `SyncSerialized`, refinement of `DbCall`, every job is served, who waits in time is woken |
| `db_exec_lost_wakeup` | violation | a call that never returns |
| `upload` | pass, with fairness | two uploads at two paths, overwriting, one restart: `NoSizeLost`, `MapStableUnderIteration`, `SizeChangesToLength`, refinement of `Uploads`; every upload is noticed unless the timer hangs, every job of the sync thread ends |
| `upload_dangling` | violation | use of an erased entry |
| `permissions` | pass | two requests beside each other: `WriterKeepsPermission`, `ChangesAreAuthorized`, `ListsWhatIsReadable`, `EffectiveIsHighest` |
| `tree` | pass | `FolderHasDirectory`, `OnlyCopiesDuplicate`, `DeletesFoldersOnly` |
| `tree_delete` | violation | deletion of a folder that is not empty |
| `path_parser` | pass | all texts up to a length: `PrefixIsParsed`, `Canonical`, `CanonicalText`, `UrlNameIsDecoded` |
| `metadata` | pass | `UpdatesAreAtomic`, `KindIsKept` |
| `metadata_folder` | violation | a folder that becomes an object |
| `downloads` | pass | `KeysWereAllowed`, `RepliedKeysOpenNodes`, `FileIsNotOlder`, `LengthIsRight`, `TokensAreFilled` |
| `server` | pass, with fairness | refinement of `ServerLife`, `ConnectionsEnd`, `QuitStops` |

### Bounds

- `db_exec`: with three requests one sync job executes while two wait, so that
  order matters; two pool threads execute side by side. Requests issue calls for
  ever, so there is no bound on the length of a behaviour.
- `upload`: `Uuids` bounds the objects that are ever created. Two give
  an entry at and one after an iterator, and an object with either its overwriting
  successor or a bystander at another path. The sizes 0 and 3 are the zero-length
  file, which looks like an unnoticed upload, and any other. `MaxCrashes = 1`:
  after a restart the process is in a state from which it could start, apart from
  the database; a second restart adds nothing new. The safety properties are
  proved for any number of objects.
- `permissions`: an owner, an administrator of the service and a user with `+`
  in the id, who is an ordinary user otherwise. `Globals` and `Perms` have a
  value below, between and above the ranks that are compared, and the values
  with rules of their own ("public", "invalid", "none"). `MaxChanges = 2` is the
  least for which entries of one request can meet.
- `tree`: the places `a`, `a/b` and `b` give a folder, what is in it, a second
  folder, and where a copy puts the content. `MaxDocs = 3` leaves room for a
  duplicate beside a folder and its content, `MaxSeen = 1` is one looked-up
  target for any number of deletions.
- `path_parser`: `MaxLength = 9` holds an owner, a workspace, a folder and a
  name, with a slash too many anywhere (`/2//2/2/2`). The characters are the slash, a
  hexadecimal digit, and the two that the URL coding treats specially, which are
  also characters that begin no uuid. The parser may be used again after any text.
- `metadata`: two documents are the least for an update to hit the wrong one,
  two places and two workspaces for the wrong one to be beside or elsewhere; two
  values of one key distinguish old from new. Two documents of two ids are made
  and removed without end.
- `downloads`: two calls, so that one finds, fetches or loses the token while the
  other uses it, and one request of `/dl`; requests of `/dl` do not interact. A user
  and callers without a token; one path, since the objects of a call interact in
  `urls` only; `MaxVersion = 2` is an object and what overwrites it, a file or a node
  each. Calls and requests come to an end, so deadlock is not checked.
- `server`: the connection that asks to quit, the one that is taken after it, and
  one that is refused.

Symmetry is used in safety runs only, over sets whose elements the modules never
distinguish: requests of `Permissions`, calls of `Downloads`, ids of documents, and in `Metadata`
requests, ids, workspaces, places and values.

### Fairness

`DbExec!Fairness`: the `io_context`s run every handler that is ready, a thread
with a job queued is not idle, and a query function ends. No request has to
issue another call. Deadlock is not checked there, as an exception ends the process.

`UploadTracking!Fairness`: as above for each segment; a process that died is
started again; every request to Shock ends. The latter is an assumption about
the outside: the code sets no timeout, and a Shock that never answers blocks the
sync thread. Strong fairness of `SetSizesStart` stands for the queue of the sync
thread: it serves its jobs in order (proved of `DbExec`), so that a stream of requests
does not keep the timer's job away for ever. Strong fairness of a successful
answer says that Shock, asked for ever about a node that has its file, says so at
some time.

`HttpServer!Fairness`: the listener runs, a session that does not wait for its
client runs, and a client that is connected leaves some day. The last one is an
assumption about the outside: there is no timeout on a read or a write. A session whose
client has left gets an end of file or an error. That calls return
(`MethodEnds`) is assumed here; `db_exec_lost_wakeup` shows a call that does
not, whose session then never ends. No client has to connect: this is why
`QuitStops` begins with a listener that has ended.

## 4. Proofs

All theorems are for any values of the constants that satisfy the assumptions
the modules state, sets of any size included.

**DbExecProofs.** `TypeCorrect`, `FramesOutliveJobs`, `SyncJobsSerialized`,
`Refinement`. The inductive invariant adds to the types what ties the three
representations of a job together: a request occurs at most once in the queues
and workers (`OneWorker`, `NotQueued`, `QueuedOnce`), and where it was posted
(`KindsAgree`); a posted call has its timer set (`ExpirySet`). `FrameOutlivesJob`
is not inductive alone: a job's wake-up ends the wait of its request, which is
right only if there is no second job of the same request, and the wait does not
end at once only because of the expiry. From it, each step maps to a step of `DbCall` or to a
stutter; the order (`CallAhead`) needs lemmas on what `Append` and `Tail` do to
"is before in the queue".

**UploadTrackingProofs.** `TypeCorrect`, `NoUploadForgotten`, `MapStable`,
`SizesAreLengths`, `Refinement`. The inductive invariant is the conjunction of `TypeOK`;
`JobShape` (which fields a step of a job has); `Creating` (the object a create
is about to insert is not stored, and not tracked before its entry is made);
`Generated` (stored and tracked uuids have been generated); `TimerAndJob` (the
timer's job exists only while its coroutine waits for it, and its iterator is
valid); and, up to the first use of an erased entry, `Tracking`: a size held in
memory is the length of the file, what `NoSizeLost` says, and how far the
timer's job has got, since the sizes the job has written must be those whose
entries the coroutine erases afterwards.

`Refinement` says that `UploadTracking` implements `Uploads`, and needs two more
parts of the invariant. `Nodes`: where a job of `create` is, whether its object
has a node, and that an object is tracked before it is inserted. `Places`: an
object is at one path, and what a `create` overwrites is what is at
its path. Each step of the module is put down to one step of `Uploads`
or a stutter, with one lemma for each abstract step (`InsertRefines`,
`RecordRefines`, ...); lemmas on `Stage` and `Awaited` say which variables they
depend on and what a change to the database or the job does to them. The
invariant about sizes is what makes `Resolve` right: what leaves the map is
gone, or stored with the length of its file.

**PermissionsProofs.** `TypeCorrect`, `WritersAreAuthorized`,
`OnlyAuthorizedChanges`, `ListingsAreRight`, `HighestPermission`. The invariant
is `TypeOK`, `Serial` (one request of the sync thread at a time),
`SetIsAuthorized` (what the pending `set_permissions` was allowed to do still
holds) and `WriterKeepsPermission`. The last two are preserved because nobody
else changes the permissions, which is what `Serial` says.

**WorkspaceTreeProofs.** `TypeCorrect`, `FoldersHaveDirectories`,
`CreationsDoNotDuplicate`, `OnlyFoldersAreDeleted`. The inductive invariant adds
to the properties: `NowHasDirectory` (the folder that is on disk and not yet in
the database has its directory); `PlacesAreFree` (a job makes each place once,
and nothing is there but the object it overwrites, unless a copy has put it
there), which deletions beside the job keep since they only take documents away;
`MkdirMakesFolders` (an empty uuid is that of a folder) and `LookedUpFolders` (the
id a deletion has looked up is that of a folder, as long as it is in the
database). For the types, `WellPlaced` says where in a path the empty component
can be; that `replace_path_prefix` keeps it is a lemma of its own.

**PathParserProofs.** `TypeCorrect`, `PathsAreCanonical`,
`NamesAreThoseOfTheText`, `PathsAreReadToThemselves`, `NamesAreDecoded`: for texts of
any length over any characters. While the parser reads, the invariant says which
members have been begun in which state (`Well`), and which positions of
the text the members and the component at hand are, up to the character read last
(`Tracks`); afterwards, that all names are complete (`Done`). That a path is read to itself and that
`url_decode` undoes `url_encode` are about loops over whole texts, which takes
induction. The library's induction theorems cannot be used with the installed
provers, since they take an operator as a parameter. The module has its own for
sets: a set of numbers that is not all of them has a complement
with a least element (`LeastNumber`), so a set with 0 and the successor of each
of its elements is all of `Nat` (`Induction`). From it come induction over
sequences from the end, that a recursive function on an interval exists
(`Recursion`), and that two of them agree where their steps do (`SameSteps`). Reading
a text is then reading its parts one after the other, each name leaving what was
read before; and decoding an encoded text keeps the pace, one round for each
character.

**MetadataProofs.** `TypeCorrect`, `AtomicUpdates`,
`KindsAreKept`. The invariant says why a filter by uuid is enough: a uuid that is
not empty belongs to one document (`OwnIds`), one update is under way at a time
(`Serial`), and what it has looked up is still what the document has, if it is
there (`JobIsFresh`). The last one is not kept by the sync thread alone: deletions
run beside it, but only take documents away.

**DownloadsProofs.** `TypeCorrect`, `KeysAreAllowed`, `KeysHaveTokens`,
`RepliedKeysOpen`, `FilesAreNotOlder`, `LengthsAreRight`. Each property has a part
of the invariant that follows what it is about from the database to what a job has
read, to the keys and to the downloads: `Allowance` (who may read has been able to
since the call began), `Filled` (a call past `ws_auth` that has not failed finds
the token), `Opening` (a node with a key of the user is in `shock_urls` or in the
access list), `Files` (what is on disk is never older than any document that was read:
files are not removed and versions grow), `Lengths` (a recorded size is that of the content).

**HttpServerProofs.** `TypeCorrect`, `Refinement`. The types, with "nothing waits
for a listener that has ended", are inductive and all that the refinement needs.
The steps fall into kinds that have a lemma each: those that move a session
(stutters), end it (`Finish`), set the flag (`Quit`), throw (`Fail`), and the listener's.

Model-checked only: liveness (`EveryJobIsServed`, `WaiterIsWoken`,
`UploadIsResolved`, `JobsEnd`, `ConnectionsEnd`, `QuitStops`), which needs
fairness and `ENABLED`, out of reach of the prover. Every invariant, action
property and refinement that a passing run checks is also proved.

## 5. What was found

Each of the first four is a violation run: the shortest behaviour that TLC prints
is the evidence.

1. `db_exec_lost_wakeup`, `WorkspaceDB.h:208`: the job may call `cancel_one`
   before the coroutine has reached `async_wait`; the call never returns.
2. `upload_dangling`, `WorkspaceService.cpp:1084` and `178`: `update_auto_meta`
   and `run_timer` erase entries that the other, suspended in `get_node`, has a
   reference or an iterator to.
3. `tree_delete`, `WorkspaceDB.cpp:974`: a folder is deleted with objects in it,
   against the comment above.
4. `metadata_folder`, `WorkspaceDB.cpp:1105`: an update that names an object that
   does not exist selects any document with an empty uuid, and turns a folder
   made by `create_folder` into an object, which the check above it is to prevent.

Seen while modelling; the modules do as the code does, and no property contradicts it:

- `WorkspaceService.h:81`: pending uploads are in memory only; `README:27` wants
  them in nonvolatile storage. After a restart nobody polls their nodes
  (`Lose` of `Uploads`).
- `WorkspaceService.cpp:1392`: deletions run on the pool, so that a
  `set_permissions` may come between their check and their changes
  (`Permissions`, "delete").
- `WorkspaceDB.cpp:1225`: two entries for a user in one `set_permissions` make an
  update that MongoDB refuses; the exception ends the process (`SetThrows`).
- `WorkspaceTypes.h:270`: a copy into the workspace itself makes paths with a
  leading slash (the component `Gap` of `WorkspaceTree`), which no parsed path equals.
- `HTTPServer.h:419`: after `/quit` the listener takes one more connection, and
  without one the server does not end (phase "last" of `ServerLife`). An error of
  `accept` ends the listener for good. `remote_endpoint()` of a client that has
  left, and JSON that ends too early, throw an exception that ends the process.
- `WorkspaceDB.cpp:819`: a copy loses its user metadata. `1121`: an append does
  not change keys that exist. `1120`: an append on a workspace is to start from the
  metadata it has (the comment at `1117`); they are never loaded
  (`317`), so that it replaces all (`UpdateWorkspace` of `Metadata`).
- `WorkspaceDB.cpp:598`: `expiration_time` is stored with a key, and nothing looks
  at it; a key is good for ever, whatever becomes of the permission.
  `KeysWereAllowed` is about the making of a key.
- `WorkspaceState.h:48`: `valid()` does not look at the expiry, so that the token
  is never fetched again. `WorkspaceService.cpp:990`: without a token of the
  service, a call of somebody without a token ends the process (`NameThrows`).
- `Shock.h:40`: nobody looks at the result of a change of an access list
  (`AclFails`). `HTTPServer.cpp:86`: for a node the header with status and length is sent
  before Shock is asked; `LengthIsRight` therefore excludes a size that was not yet
  recorded, and is about contents that are sent in full.
- `HTTPServer.cpp:172`: a file that is overwritten while it is sent is sent in
  part, or mixed; the properties are about what is sent whole.
- `parse_url.h:119`: `%` is not encoded, and a name with it may be decoded to
  another (`UrlNameIsDecoded` excludes it); such an object cannot be downloaded.
- What `WorkspaceTree` does not promise is in its part of section 2.

## 6. What is not modelled

- Parsing and writing of HTTP and JSON, TLS, token verification, logging,
  configuration files, Base64: I/O and conversions without a state that the rest
  depends on. The dispatcher is a constant table; `HttpServer` has the call as one step.
- `create_workspace`, and operations the code does not have yet: moves, deletion of
  objects and of folders with their content, copies of single objects.
- MongoDB, Shock, the token server and the file system are external: a database
  operation is atomic, Shock and the token server may lose answers, a file
  operation may fail.
- Data races on the timer, the map, the token and `quit_` beyond the orders of the
  steps: `MapStableUnderIteration` shows that the map is not changed while it is read.
- Clocks: the expiry of tokens and keys, which the code stores and does not use.

## 7. Plan

The plan of modules is carried out: `DbCall` and `DbExec`, `Uploads` and
`UploadTracking`, `Permissions`, `WorkspaceTree`, `PathParser` and `UrlCoding`,
`Metadata`, `Downloads` (with the service's token), `ServerLife` and `HttpServer`.
What could follow:

1. `create_workspace` in `WorkspaceTree`: two directories and two collections
   that are made one after the other.
2. `get` in `Downloads`: the answer of a read that overlaps an overwrite.
