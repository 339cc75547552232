---------------------------- MODULE Permissions ----------------------------
(***************************************************************************)
(* The permissions of a workspace: effective_permission,                   *)
(* user_has_permission, update_permissions and list_workspaces of          *)
(* WorkspaceDBQuery, and the requests that depend on them.                 *)
(*                                                                         *)
(* A request reads the workspace's document (parse_path) and decides by    *)
(* what it has read; its changes to the database come later.  In between,  *)
(* the requests on the thread pool run side by side with the one on the    *)
(* sync thread.  Set_permissions, create, copy and update_metadata are on  *)
(* the sync thread, delete is on the pool.                                 *)
(***************************************************************************)
EXTENDS Naturals, FiniteSets

CONSTANTS
  Users,       \* the users of valid tokens
  Plain,       \* those whose id is the same after url_decode (it has no '+')
  Owner,       \* the owner of the workspace
  Admins,      \* the adminlist of the configuration
  Anonymous,   \* the user of a token that is not valid
  Requests,    \* requests that are served at the same time
  Keep,        \* no new_global_permission in a set_permissions request
  Globals,     \* bound on the global permissions that are requested
  Perms,       \* bound on the user permissions that are requested
  MaxChanges   \* bound on the number of user permissions in one request

ASSUME UsersAssumption ==
  /\ Plain \subseteq Users
  /\ Owner \in Users
  /\ Admins \subseteq Users
  /\ Anonymous \notin Users

VARIABLES
  global,   \* the document's global_permission
  grants,   \* the document's permissions: a map from users to permissions
  req,      \* what each request is about to do
  alive     \* FALSE once an exception has ended the process

vars == <<global, grants, req, alive>>

\* What to_permission makes of a string; "invalid" stands for every string
\* whose first letter is not that of a permission.
Permissions == {"invalid", "none", "read", "write", "admin", "owner", "public"}

ASSUME KeepAssumption == Keep \notin Permissions
ASSUME BoundsAssumption ==
  /\ Globals \subseteq Permissions
  /\ Perms \subseteq Permissions \ {"invalid"}

\* perm_ranks
Rank(p) ==
  CASE p \in {"none", "invalid"} -> 0
    [] p \in {"public", "read"}  -> 1
    [] p = "write"               -> 2
    [] p = "admin"               -> 3
    [] p = "owner"               -> 4

\* UserPermission rejects "invalid"; "none" removes the entry.
Grants  == {"read", "write", "admin", "owner"}
Changes == [user : Users, perm : Permissions \ {"invalid"}]

Ops == {"none", "set", "write", "delete"}

\* One record for the kinds of requests: global and changes are those of a set.
Reqs == [op : Ops, user : Users, admin : BOOLEAN,
         global : Permissions \union {Keep}, changes : SUBSET Changes]

Request(op, u, admin) ==
  [op |-> op, user |-> u, admin |-> admin, global |-> Keep, changes |-> {}]

NoRequest == Request("none", Owner, FALSE)

TypeOK ==
  /\ global \in Permissions
  /\ DOMAIN grants \subseteq Users
  /\ grants \in [DOMAIN grants -> Grants]
  /\ req \in [Requests -> Reqs]
  /\ alive \in BOOLEAN

NoGrants == [u \in {} |-> "read"]

Init ==
  /\ global = "none"
  /\ grants = NoGrants
  /\ req = [r \in Requests |-> NoRequest]
  /\ alive = TRUE

(***************************************************************************)
(* effective_permission and user_has_permission, on the document as it is. *)
(***************************************************************************)

\* Variant of Effective: the user's permission is preferred to the global one.
EffectiveUserFirst(u) ==
  IF u = Anonymous THEN global
  ELSE IF global = "public" THEN "public"
  ELSE IF u = Owner THEN "owner"
  ELSE IF u \in Plain /\ u \in DOMAIN grants THEN grants[u]
  ELSE global

\* A grant is looked up under the user's id after url_decode.
Effective(u) ==
  IF u = Anonymous THEN global
  ELSE IF global = "public" THEN "public"
  ELSE IF u = Owner THEN "owner"
  ELSE IF u \in Plain /\ u \in DOMAIN grants /\ Rank(grants[u]) > Rank(global)
  THEN grants[u]
  ELSE global

HasPermission(u, admin, p) == admin \/ Rank(Effective(u)) >= Rank(p)

\* Variant of Listed: only what everybody may read is listed for everybody.
ListedIfOpen(u) ==
  \/ u \in DOMAIN grants
  \/ u = Owner
  \/ global \in {"read", "public"}

\* The terms of the query of list_workspaces.  It looks for the user's key as
\* it is stored.
Listed(u) ==
  \/ u \in DOMAIN grants
  \/ u = Owner
  \/ global # "none"

(***************************************************************************)
(* Requests.                                                               *)
(***************************************************************************)

\* Variant of SyncThreadFree: set_permissions is handed to the pool.
AnyThreadFree(op) ==
  \A r \in Requests : op = "write" => req[r].op # "write"

\* The sync thread is between two jobs.
SyncThreadFree(op) == \A r \in Requests : req[r].op \notin {"set", "write"}

\* Who may change the permissions: those of a published workspace, its owner
\* and administrators.
MaySet(u, admin) ==
  IF global = "public" THEN u = Owner \/ admin
                       ELSE HasPermission(u, admin, "admin")

\* Variant of MayRequest: administrators may publish.
MayRequestAsAdmin(u, admin, g, changes) ==
  /\ MaySet(u, admin)
  /\ \A c \in changes : c.perm # "public"
  /\ g = "public" => u = Owner \/ admin
  /\ g # Keep \/ changes # {}

\* The checks of update_permissions; a request without any change ends there.
MayRequest(u, admin, g, changes) ==
  /\ MaySet(u, admin)
  /\ \A c \in changes : c.perm # "public"
  /\ g = "public" => u = Owner
  /\ g # Keep \/ changes # {}

StartSet(r, u, adminmode, g, changes) ==
  /\ alive
  /\ req[r].op = "none"
  /\ SyncThreadFree("set")
  /\ MayRequest(u, adminmode /\ u \in Admins, g, changes)
  /\ req' = [req EXCEPT ![r] =
               [op |-> "set", user |-> u, admin |-> adminmode /\ u \in Admins,
                global |-> g, changes |-> changes]]
  /\ UNCHANGED <<global, grants, alive>>

\* The fields of $set and $unset must be distinct.
Repeats(changes) == \E c, d \in changes : c # d /\ c.user = d.user

\* Variant of Updated: "none" is stored like any other permission.
UpdatedKeepsNone(changes) ==
  [u \in DOMAIN grants \union {c.user : c \in changes} |->
     IF \E c \in changes : c.user = u
     THEN (CHOOSE c \in changes : c.user = u).perm ELSE grants[u]]

\* The document's permissions after an update.
Updated(changes) ==
  LET touched == {c.user : c \in changes}
      kept    == {c \in changes : c.perm # "none"}
  IN [u \in (DOMAIN grants \ touched) \union {c.user : c \in kept} |->
        IF u \in touched THEN (CHOOSE c \in kept : c.user = u).perm ELSE grants[u]]

\* update_one
ApplySet(r) ==
  /\ alive
  /\ req[r].op = "set"
  /\ ~Repeats(req[r].changes)
  /\ global' = IF req[r].global = Keep THEN global ELSE req[r].global
  /\ grants' = Updated(req[r].changes)
  /\ req' = [req EXCEPT ![r] = NoRequest]
  /\ UNCHANGED alive

\* MongoDB refuses an update that names a field twice, update_one throws, and
\* nothing catches in the sync thread.
SetThrows(r) ==
  /\ alive
  /\ req[r].op = "set"
  /\ Repeats(req[r].changes)
  /\ alive' = FALSE
  /\ UNCHANGED <<global, grants, req>>

\* create, copy, update_metadata: user_has_permission on what parse_path read.
StartWrite(r, u, adminmode) ==
  /\ alive
  /\ req[r].op = "none"
  /\ SyncThreadFree("write")
  /\ HasPermission(u, adminmode /\ u \in Admins, "write")
  /\ req' = [req EXCEPT ![r] = Request("write", u, adminmode /\ u \in Admins)]
  /\ UNCHANGED <<global, grants, alive>>

\* The same for delete, on the pool.
StartDelete(r, u, adminmode) ==
  /\ alive
  /\ req[r].op = "none"
  /\ HasPermission(u, adminmode /\ u \in Admins, "write")
  /\ req' = [req EXCEPT ![r] = Request("delete", u, adminmode /\ u \in Admins)]
  /\ UNCHANGED <<global, grants, alive>>

\* The changes to the objects of the workspace, up to the last one.
ChangeObjects(r) ==
  /\ alive
  /\ req[r].op \in {"write", "delete"}
  /\ req' = [req EXCEPT ![r] = NoRequest]
  /\ UNCHANGED <<global, grants, alive>>

ChangeSets ==
  {changes \in SUBSET [user : Users, perm : Perms] : Cardinality(changes) <= MaxChanges}

Next ==
  \E r \in Requests :
    \/ \E u \in Users, adminmode \in BOOLEAN :
         \/ \E g \in Globals \union {Keep}, changes \in ChangeSets :
              StartSet(r, u, adminmode, g, changes)
         \/ StartWrite(r, u, adminmode)
         \/ StartDelete(r, u, adminmode)
    \/ ApplySet(r)
    \/ SetThrows(r)
    \/ ChangeObjects(r)

Spec == Init /\ [][Next]_vars

(***************************************************************************)
(* Properties.                                                             *)
(***************************************************************************)

\* From the check of a request on the sync thread to its last change of an
\* object, its user has the permission in the database: no set_permissions
\* comes in between.
WriterKeepsPermission ==
  \A r \in Requests :
    req[r].op = "write" => HasPermission(req[r].user, req[r].admin, "write")

\* At the moment the permissions change, the user of the request that changes
\* them is the owner, an administrator of the service, or a user with at least
\* the admin permission on a workspace that is not published; and only the owner
\* publishes.
ChangesAreAuthorized ==
  [][<<global, grants>>' # <<global, grants>> =>
       \E r \in Requests :
         /\ req[r].op = "set" /\ req'[r].op = "none"
         /\ \/ req[r].user = Owner \/ req[r].admin
            \/ global # "public" /\ Rank(Effective(req[r].user)) >= Rank("admin")
         /\ global' = "public" /\ global # "public" => req[r].user = Owner]_vars

\* list_workspaces, which asks the database, and effective_permission, which
\* looks at the loaded document, agree on which users can read the workspace,
\* except for ids that url_decode changes and for a global permission that is
\* none of the known ones.
ListsWhatIsReadable ==
  \A u \in Users :
    /\ HasPermission(u, FALSE, "read") => Listed(u)
    /\ (Listed(u) /\ u \in Plain /\ global # "invalid") => HasPermission(u, FALSE, "read")

\* The permission of a user is the higher one of the global one and the user's
\* own, publication takes away everything but reading from everyone, and no
\* one without a token has more than another user.
EffectiveIsHighest ==
  \A u \in Users :
    /\ Rank(Effective(Anonymous)) <= Rank(Effective(u))
    /\ global = "public" => Rank(Effective(u)) = 1
    /\ (global # "public" /\ u \in Plain /\ u \in DOMAIN grants) =>
         Rank(grants[u]) <= Rank(Effective(u))
    /\ (global # "public" /\ u # Owner) =>
         \/ Rank(Effective(u)) = Rank(global)
         \/ u \in DOMAIN grants /\ Rank(Effective(u)) = Rank(grants[u])
=============================================================================
