---------------------------- MODULE MCPathParser ----------------------------
(***************************************************************************)
(* PathParser for TLC, with UrlCoding on the same texts: all the texts of  *)
(* up to nine of the characters "/", "2" (a hexadecimal digit), "%" and    *)
(* "+".  Nine characters hold an owner, a workspace, a folder and a name   *)
(* in it, with one slash too many anywhere.                                *)
(***************************************************************************)
EXTENDS PathParser, TLC

FourChars == {Slash, 50, Url!Percent, Url!Plus}
=============================================================================
