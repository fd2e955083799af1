---------------------------- MODULE MCReattachment ----------------------------
(* Small instances of Reattachment. *)
EXTENDS Reattachment, TLC
=============================================================================
