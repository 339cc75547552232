---------------------------- MODULE MCHttpServer ----------------------------
(***************************************************************************)
(* HttpServer for TLC: the connection that asks to quit, the one that is   *)
(* taken after it, and one that is refused.                                *)
(***************************************************************************)
EXTENDS HttpServer

CONSTANTS k1, k2, k3

ThreeConns == {k1, k2, k3}
=============================================================================
