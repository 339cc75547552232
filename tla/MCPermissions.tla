---------------------------- MODULE MCPermissions ----------------------------
(***************************************************************************)
(* Permissions for TLC: the owner, an administrator and a user whose id    *)
(* holds a '+'; two requests, so that a deletion on the pool spans a whole *)
(* set_permissions of another user.                                        *)
(***************************************************************************)
EXTENDS Permissions, TLC

CONSTANTS own, adm, plus, anon, keep, q1, q2

MCUsers  == {own, adm, plus}
MCPlain  == {own, adm}
MCAdmins == {adm}
TwoRequests == {q1, q2}

\* Global permissions below and above what is granted; "public" is refused as
\* the permission of a user.
MCGlobals == {"none", "invalid", "admin", "public"}
MCPerms   == {"none", "write", "public"}

Symmetry == Permutations(TwoRequests)
=============================================================================
