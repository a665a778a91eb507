----------------------------- MODULE MCBootGate -----------------------------
(***************************************************************************)
(* Instances of BootGate for TLC.                                          *)
(***************************************************************************)
EXTENDS BootGate, TLC
=============================================================================
