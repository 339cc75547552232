------------------------- MODULE PermissionsProofs -------------------------
(***************************************************************************)
(* Proofs about Permissions, for any number of users and requests.         *)
(*                                                                         *)
(* The permission a request was given is checked once and used later, so   *)
(* WriterKeepsPermission is not inductive by itself: a set_permissions that *)
(* is about to change the document could take the permission away.  IInv   *)
(* adds that the sync thread serves one request at a time, and that what   *)
(* it checked for a set_permissions is still so (which also keeps "public" *)
(* out of the grants).                                                     *)
(***************************************************************************)
EXTENDS Permissions, TLAPS

OnSyncThread(r) == req[r].op \in {"set", "write"}

Serial == \A r, s \in Requests : OnSyncThread(r) /\ OnSyncThread(s) => r = s

SetIsAuthorized ==
  \A r \in Requests :
    req[r].op = "set" =>
      MayRequest(req[r].user, req[r].admin, req[r].global, req[r].changes)

IInv == TypeOK /\ Serial /\ SetIsAuthorized /\ WriterKeepsPermission

-----------------------------------------------------------------------------
(***************************************************************************)
(* The operators.                                                          *)
(***************************************************************************)

\* perm_ranks is total and orders the permissions as the code's comparisons
\* assume.
LEMMA RankType ==
  /\ \A p \in Permissions : Rank(p) \in 0..4
  /\ \A p \in Permissions : Rank(p) >= 1 <=> p \notin {"none", "invalid"}
  /\ \A p \in Grants : Rank(p) >= 1
  /\ Rank("public") = 1
  /\ Rank("owner") = 4
  BY DEF Rank, Permissions, Grants

\* effective_permission returns a permission.
LEMMA EffectiveType ==
  ASSUME TypeOK, NEW u
  PROVE  Effective(u) \in Permissions
  BY DEF TypeOK, Effective, Permissions, Grants

\* The fields that update_one sets make up a map from users to grants.
LEMMA UpdatedType ==
  ASSUME TypeOK,
         NEW changes \in SUBSET Changes,
         \A c \in changes : c.perm # "public"
  PROVE  /\ DOMAIN Updated(changes) \subseteq Users
         /\ Updated(changes) \in [DOMAIN Updated(changes) -> Grants]
<1> DEFINE touched == {c.user : c \in changes}
           kept    == {c \in changes : c.perm # "none"}
           dom     == (DOMAIN grants \ touched) \union {c.user : c \in kept}
           val(u)  == IF u \in touched THEN (CHOOSE c \in kept : c.user = u).perm
                                       ELSE grants[u]
<1>1. Updated(changes) = [u \in dom |-> val(u)]
  BY DEF Updated
<1>2. dom \subseteq Users
  BY DEF TypeOK, Changes
<1>3. ASSUME NEW u \in dom PROVE val(u) \in Grants
  <2>1. CASE u \in touched
    <3>1. \E c \in kept : c.user = u
      BY <2>1
    <3>2. (CHOOSE c \in kept : c.user = u) \in kept
      BY <3>1
    <3>3. \A c \in kept : c.perm \in Grants
      BY DEF Changes, Permissions, Grants
    <3> QED BY <2>1, <3>2, <3>3
  <2>2. CASE u \notin touched
    <3>1. u \in DOMAIN grants
      BY <2>2
    <3> QED BY <2>2, <3>1 DEF TypeOK
  <2> QED BY <2>1, <2>2
<1> QED BY <1>1, <1>2, <1>3

-----------------------------------------------------------------------------
(***************************************************************************)
(* The inductive invariant.                                                *)
(***************************************************************************)

LEMMA InitIInv == Init => IInv
<1> SUFFICES ASSUME Init PROVE IInv
  OBVIOUS
<1>1. NoRequest \in Reqs /\ NoRequest.op = "none"
  BY UsersAssumption DEF NoRequest, Request, Reqs, Ops
<1>2. TypeOK
  BY <1>1 DEF Init, TypeOK, NoGrants, Permissions
<1>3. \A r \in Requests : req[r].op = "none"
  BY <1>1 DEF Init
<1> QED BY <1>2, <1>3 DEF IInv, Serial, OnSyncThread, SetIsAuthorized, WriterKeepsPermission

\* A request is accepted: the document stays as it is.
LEMMA Starts ==
  ASSUME IInv, NEW r \in Requests, NEW q \in Reqs,
         q.op = "none" \/ q.op = "delete" \/ SyncThreadFree(q.op),
         q.op = "set" => MayRequest(q.user, q.admin, q.global, q.changes),
         q.op = "write" => HasPermission(q.user, q.admin, "write"),
         req' = [req EXCEPT ![r] = q],
         UNCHANGED <<global, grants, alive>>
  PROVE  IInv'
<1> USE DEF IInv
<1>1. TypeOK'
  BY DEF TypeOK
<1>2. /\ req'[r] = q
      /\ \A s \in Requests \ {r} : req'[s] = req[s]
  BY DEF TypeOK
<1>3. Serial'
  BY <1>2 DEF Serial, OnSyncThread, SyncThreadFree
<1>4. SetIsAuthorized'
  <2> SUFFICES ASSUME NEW s \in Requests, req'[s].op = "set"
               PROVE  MayRequest(req[s].user, req[s].admin, req[s].global, req[s].changes)'
    BY DEF SetIsAuthorized
  <2>1. MayRequest(req'[s].user, req'[s].admin, req'[s].global, req'[s].changes)
    BY <1>2 DEF SetIsAuthorized
  <2> QED BY <2>1 DEF MayRequest, MaySet, HasPermission, Effective
<1>5. WriterKeepsPermission'
  <2> SUFFICES ASSUME NEW s \in Requests, req'[s].op = "write"
               PROVE  HasPermission(req[s].user, req[s].admin, "write")'
    BY DEF WriterKeepsPermission
  <2>1. HasPermission(req'[s].user, req'[s].admin, "write")
    BY <1>2 DEF WriterKeepsPermission
  <2> QED BY <2>1 DEF HasPermission, Effective
<1> QED BY <1>1, <1>3, <1>4, <1>5

LEMMA NextIInv == IInv /\ [Next]_vars => IInv'
<1> SUFFICES ASSUME IInv, [Next]_vars PROVE IInv'
  OBVIOUS
<1> USE UsersAssumption, KeepAssumption, BoundsAssumption
<1>0. NoRequest \in Reqs /\ NoRequest.op = "none"
  BY DEF NoRequest, Request, Reqs, Ops
<1>1. ASSUME NEW r \in Requests, NEW u \in Users, NEW adminmode \in BOOLEAN,
             NEW g \in Globals \union {Keep}, NEW changes \in ChangeSets,
             StartSet(r, u, adminmode, g, changes)
      PROVE  IInv'
  <2> DEFINE q == [op |-> "set", user |-> u, admin |-> adminmode /\ u \in Admins,
                   global |-> g, changes |-> changes]
  <2>1. changes \in SUBSET Changes
    BY DEF ChangeSets, Changes
  <2>2. q \in Reqs
    BY <2>1 DEF Reqs, Ops
  <2>3. MayRequest(q.user, q.admin, q.global, q.changes)
    BY <1>1 DEF StartSet
  <2>4. SyncThreadFree(q.op)
    BY <1>1 DEF StartSet, SyncThreadFree
  <2>5. req' = [req EXCEPT ![r] = q] /\ UNCHANGED <<global, grants, alive>>
    BY <1>1 DEF StartSet
  <2>6. q.op = "set"
    OBVIOUS
  <2> HIDE DEF q
  <2> QED BY <2>2, <2>3, <2>4, <2>5, <2>6, Starts
<1>2. ASSUME NEW r \in Requests, NEW u \in Users, NEW adminmode \in BOOLEAN,
             StartWrite(r, u, adminmode)
      PROVE  IInv'
  <2> DEFINE q == Request("write", u, adminmode /\ u \in Admins)
  <2>1. q \in Reqs
    BY DEF Request, Reqs, Ops
  <2>2. q.op = "write" /\ HasPermission(q.user, q.admin, "write")
    BY <1>2 DEF StartWrite, Request
  <2>3. SyncThreadFree(q.op)
    BY <1>2 DEF StartWrite, SyncThreadFree
  <2>4. req' = [req EXCEPT ![r] = q] /\ UNCHANGED <<global, grants, alive>>
    BY <1>2 DEF StartWrite
  <2> HIDE DEF q
  <2> QED BY <2>1, <2>2, <2>3, <2>4, Starts
<1>3. ASSUME NEW r \in Requests, NEW u \in Users, NEW adminmode \in BOOLEAN,
             StartDelete(r, u, adminmode)
      PROVE  IInv'
  <2> DEFINE q == Request("delete", u, adminmode /\ u \in Admins)
  <2>1. q \in Reqs /\ q.op = "delete"
    BY DEF Request, Reqs, Ops
  <2>2. req' = [req EXCEPT ![r] = q] /\ UNCHANGED <<global, grants, alive>>
    BY <1>3 DEF StartDelete
  <2> HIDE DEF q
  <2> QED BY <2>1, <2>2, Starts
<1>4. ASSUME NEW r \in Requests, ApplySet(r)
      PROVE  IInv'
  <2>1. /\ req[r] \in Reqs
        /\ req[r].op = "set"
        /\ MayRequest(req[r].user, req[r].admin, req[r].global, req[r].changes)
    BY <1>4 DEF ApplySet, IInv, TypeOK, SetIsAuthorized
  <2>2. /\ req[r].changes \in SUBSET Changes
        /\ \A c \in req[r].changes : c.perm # "public"
    BY <2>1 DEF Reqs, MayRequest
  <2>3. /\ DOMAIN grants' \subseteq Users
        /\ grants' \in [DOMAIN grants' -> Grants]
    BY <1>4, <2>2, UpdatedType DEF ApplySet, IInv
  <2>4. req' \in [Requests -> Reqs]
    BY <1>0, <1>4 DEF ApplySet, IInv, TypeOK
  <2>5. global' \in Permissions
    BY <1>4, <2>1 DEF ApplySet, IInv, TypeOK, Reqs
  <2>6. TypeOK'
    BY <1>4, <2>3, <2>4, <2>5 DEF ApplySet, IInv, TypeOK
  <2>7. \A s \in Requests : req'[s].op \notin {"set", "write"}
    BY <1>0, <1>4, <2>1 DEF ApplySet, IInv, TypeOK, Serial, OnSyncThread
  <2> QED BY <2>6, <2>7 DEF IInv, Serial, OnSyncThread, SetIsAuthorized, WriterKeepsPermission
<1>5. ASSUME NEW r \in Requests, SetThrows(r)
      PROVE  IInv'
  <2>1. TypeOK'
    BY <1>5 DEF SetThrows, IInv, TypeOK
  <2>2. UNCHANGED <<global, grants, req>>
    BY <1>5 DEF SetThrows
  <2> QED BY <2>1, <2>2 DEF IInv, Serial, OnSyncThread, SetIsAuthorized, MayRequest,
                            MaySet, WriterKeepsPermission, HasPermission, Effective
<1>6. ASSUME NEW r \in Requests, ChangeObjects(r)
      PROVE  IInv'
  <2>1. req' = [req EXCEPT ![r] = NoRequest] /\ UNCHANGED <<global, grants, alive>>
    BY <1>6 DEF ChangeObjects
  <2> QED BY <1>0, <2>1, Starts
<1>7. CASE UNCHANGED vars
  BY <1>7 DEF vars, IInv, TypeOK, Serial, OnSyncThread, SetIsAuthorized, MayRequest,
              MaySet, WriterKeepsPermission, HasPermission, Effective
<1> QED BY <1>1, <1>2, <1>3, <1>4, <1>5, <1>6, <1>7 DEF Next

\* IInv holds in every reachable state.
THEOREM SpecIInv == Spec => []IInv
  BY InitIInv, NextIInv, PTL DEF Spec

-----------------------------------------------------------------------------
(***************************************************************************)
(* The theorems.                                                           *)
(***************************************************************************)

\* The document and the requests have their types; in particular no "none" and
\* no "public" is ever stored as the permission of a user.
THEOREM TypeCorrect == Spec => []TypeOK
<1>1. IInv => TypeOK
  BY DEF IInv
<1> QED BY <1>1, SpecIInv, PTL

\* A request on the sync thread has the permission it was accepted with until
\* its last change.
THEOREM WritersAreAuthorized == Spec => []WriterKeepsPermission
<1>1. IInv => WriterKeepsPermission
  BY DEF IInv
<1> QED BY <1>1, SpecIInv, PTL

\* Permissions are changed only by those who may change them when it happens,
\* not just when they asked.
THEOREM OnlyAuthorizedChanges == Spec => ChangesAreAuthorized
<1> DEFINE Authorized(r) ==
      /\ req[r].op = "set" /\ req'[r].op = "none"
      /\ \/ req[r].user = Owner \/ req[r].admin
         \/ global # "public" /\ Rank(Effective(req[r].user)) >= Rank("admin")
      /\ global' = "public" /\ global # "public" => req[r].user = Owner
<1>1. ASSUME IInv, [Next]_vars, <<global, grants>>' # <<global, grants>>
      PROVE  \E r \in Requests : Authorized(r)
  <2>1. PICK r \in Requests : ApplySet(r)
    BY <1>1 DEF Next, StartSet, StartWrite, StartDelete, SetThrows, ChangeObjects, vars
  <2>2. MayRequest(req[r].user, req[r].admin, req[r].global, req[r].changes)
    BY <1>1, <2>1 DEF ApplySet, IInv, SetIsAuthorized
  <2>3. req[r].op = "set" /\ req'[r].op = "none"
    BY <1>1, <2>1 DEF ApplySet, IInv, TypeOK, NoRequest, Request
  <2>4. \/ req[r].user = Owner \/ req[r].admin
        \/ global # "public" /\ Rank(Effective(req[r].user)) >= Rank("admin")
    BY <2>2 DEF MayRequest, MaySet, HasPermission
  <2>5. ASSUME global' = "public", global # "public"
        PROVE  req[r].user = Owner
    BY <2>1, <2>2, <2>5 DEF ApplySet, MayRequest
  <2> QED BY <2>3, <2>4, <2>5
<1>2. IInv /\ [Next]_vars => (<<global, grants>>' # <<global, grants>> =>
                                \E r \in Requests : Authorized(r))
  BY <1>1
<1> HIDE DEF Authorized
<1>3. IInv /\ [Next]_vars => [<<global, grants>>' # <<global, grants>> =>
                                \E r \in Requests : Authorized(r)]_vars
  BY <1>2
<1>4. Spec => [][<<global, grants>>' # <<global, grants>> =>
                   \E r \in Requests : Authorized(r)]_vars
  BY <1>3, SpecIInv, PTL DEF Spec
<1> QED BY <1>4 DEF ChangesAreAuthorized, Authorized

\* The list of workspaces holds those that the user can read.
THEOREM ListingsAreRight == Spec => []ListsWhatIsReadable
<1>1. ASSUME TypeOK PROVE ListsWhatIsReadable
  <2> SUFFICES ASSUME NEW u \in Users
               PROVE  /\ HasPermission(u, FALSE, "read") => Listed(u)
                      /\ (Listed(u) /\ u \in Plain /\ global # "invalid") =>
                           HasPermission(u, FALSE, "read")
    BY DEF ListsWhatIsReadable
  <2>1. /\ HasPermission(u, FALSE, "read") <=> Rank(Effective(u)) >= 1
        /\ u # Anonymous
    BY UsersAssumption DEF HasPermission, Rank
  <2>2. global \in Permissions /\ \A v \in DOMAIN grants : grants[v] \in Grants
    BY <1>1 DEF TypeOK
  <2>3. Rank(global) \in 0..4 /\ (Rank(global) >= 1 <=> global \notin {"none", "invalid"})
    BY <2>2, RankType
  <2>4. \A v \in DOMAIN grants : Rank(grants[v]) \in 0..4 /\ Rank(grants[v]) >= 1
    BY <2>2, RankType DEF Grants, Permissions
  <2>5. CASE global = "public"
    <3>1. Effective(u) = "public" /\ Listed(u)
      BY <2>1, <2>5 DEF Effective, Listed
    <3>2. Rank(Effective(u)) = 1
      BY <3>1, RankType
    <3>3. Rank(Effective(u)) >= 1
      BY <3>2
    <3> QED BY <2>1, <3>1, <3>3, Zenon
  <2>6. CASE global # "public" /\ u = Owner
    <3>1. Effective(u) = "owner" /\ Listed(u)
      BY <2>1, <2>6 DEF Effective, Listed
    <3>2. Rank(Effective(u)) = 4
      BY <3>1, RankType
    <3>3. Rank(Effective(u)) >= 1
      BY <3>2
    <3> QED BY <2>1, <3>1, <3>3, Zenon
  <2>7. CASE global # "public" /\ u # Owner
    <3>1. CASE u \in Plain /\ u \in DOMAIN grants /\ Rank(grants[u]) > Rank(global)
      BY <2>1, <2>4, <2>7, <3>1 DEF Effective, Listed
    <3>2. CASE ~(u \in Plain /\ u \in DOMAIN grants /\ Rank(grants[u]) > Rank(global))
      <4>1. Effective(u) = global
        BY <2>1, <2>7, <3>2 DEF Effective
      <4>2. Rank(global) >= 1 => Listed(u)
        BY <2>3 DEF Listed
      <4>3. u \in DOMAIN grants /\ u \in Plain => Rank(global) >= 1
        BY <2>3, <2>4, <3>2
      <4>4. global # "none" /\ global # "invalid" => Rank(global) >= 1
        BY <2>3
      <4> QED BY <2>1, <2>7, <4>1, <4>2, <4>3, <4>4 DEF Listed
    <3> QED BY <3>1, <3>2
  <2> QED BY <2>5, <2>6, <2>7
<1> QED BY <1>1, TypeCorrect, PTL

\* Two permissions, the workspace's and the user's, make the higher of them.
THEOREM HighestPermission == Spec => []EffectiveIsHighest
<1>1. ASSUME TypeOK PROVE EffectiveIsHighest
  <2> SUFFICES ASSUME NEW u \in Users
               PROVE  /\ Rank(Effective(Anonymous)) <= Rank(Effective(u))
                      /\ global = "public" => Rank(Effective(u)) = 1
                      /\ (global # "public" /\ u \in Plain /\ u \in DOMAIN grants) =>
                           Rank(grants[u]) <= Rank(Effective(u))
                      /\ (global # "public" /\ u # Owner) =>
                           \/ Rank(Effective(u)) = Rank(global)
                           \/ u \in DOMAIN grants /\ Rank(Effective(u)) = Rank(grants[u])
    BY DEF EffectiveIsHighest
  <2>1. global \in Permissions /\ \A v \in DOMAIN grants : grants[v] \in Grants
    BY <1>1 DEF TypeOK
  <2>2. Rank(global) \in 0..4
    BY <2>1, RankType
  <2>3. \A v \in DOMAIN grants : Rank(grants[v]) \in 0..4
    BY <2>1, RankType DEF Grants, Permissions
  <2>4. u # Anonymous /\ Effective(Anonymous) = global
    BY UsersAssumption DEF Effective
  <2> QED BY <2>2, <2>3, <2>4, RankType DEF Effective
<1> QED BY <1>1, TypeCorrect, PTL
=============================================================================
