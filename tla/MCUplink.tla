------------------------------ MODULE MCUplink ------------------------------
(* One photo: instances of Uplink for TLC. *)
EXTENDS Uplink
=============================================================================
