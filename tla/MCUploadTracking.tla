-------------------------- MODULE MCUploadTracking --------------------------
(***************************************************************************)
(* UploadTracking for TLC.  Two uuids give the map an entry before and one *)
(* after the iterator, and an overwritten object beside its successor; a   *)
(* size 0 is the zero-length file that check_pending_upload must recognize *)
(* by its checksum.                                                        *)
(***************************************************************************)
EXTENDS UploadTracking

CONSTANTS p1, p2, none

TwoUuids == {1, 2}
OnePath  == {p1}
TwoPaths == {p1, p2}
TwoSizes == {0, 3}
=============================================================================
