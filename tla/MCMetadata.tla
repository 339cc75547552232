----------------------------- MODULE MCMetadata -----------------------------
(***************************************************************************)
(* Metadata for TLC.  Two places in each of two workspaces, so that an     *)
(* update can hit a document beside the one it names and one in another    *)
(* workspace; two values of one key, so that an append meets the key.      *)
(***************************************************************************)
EXTENDS Metadata, TLC

CONSTANTS r1, r2, i1, i2, w1, w2, a, b, root, k, v1, v2

TwoRequests == {r1, r2}
TwoIds      == {i1, i2}
TwoSpaces   == {w1, w2}
TwoPlaces   == {a, b}
OneKey      == {k}
TwoVals     == {v1, v2}

Symmetry == Permutations(Requests) \union Permutations(Ids)
            \union Permutations(TwoSpaces) \union Permutations(TwoPlaces)
            \union Permutations(TwoVals)
=============================================================================
