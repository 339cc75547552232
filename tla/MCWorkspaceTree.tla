-------------------------- MODULE MCWorkspaceTree --------------------------
(***************************************************************************)
(* WorkspaceTree for TLC.  Three places, a, a/b and b, give a folder, what *)
(* is in it, and where a copy of the folder puts that.                     *)
(***************************************************************************)
EXTENDS WorkspaceTree, TLC

CONSTANTS a, b, gap, i1, i2, i3, i4

TwoNames == {a, b}
FourIds  == {i1, i2, i3, i4}

ThreePlaces == {<<a>>, <<a, b>>, <<b>>}

Symmetry == Permutations(Ids)
=============================================================================
