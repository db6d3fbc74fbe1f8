----------------------------- MODULE MCReceive -----------------------------
(* Two photos: one page may hold one of them or both.                       *)
EXTENDS Receive

CONSTANTS p1, p2
=============================================================================
