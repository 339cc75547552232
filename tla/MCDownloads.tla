---------------------------- MODULE MCDownloads ----------------------------
(***************************************************************************)
(* Downloads for TLC: a user and callers without a token; two versions, so *)
(* that an object is overwritten, by a file or a node.                     *)
(***************************************************************************)
EXTENDS Downloads, TLC

CONSTANTS c1, c2, g1, u, nobody, a

TwoCalls == {c1, c2}
OneGet   == {g1}
OneUser  == {u}
OnePath  == {a}
Symmetry == Permutations(TwoCalls)
=============================================================================
