------------------------------ MODULE MCDbExec ------------------------------
(***************************************************************************)
(* DbExec for TLC: three requests, so that two sync jobs wait behind one   *)
(* that executes, and two pool threads.                                    *)
(***************************************************************************)
EXTENDS DbExec, TLC

CONSTANTS r1, r2, r3, p1, p2, sync, none

MCRequests    == {r1, r2, r3}
MCTwoRequests == {r1, r2}
MCPoolThreads == {p1, p2}
MCOnePoolThread == {p1}
=============================================================================
