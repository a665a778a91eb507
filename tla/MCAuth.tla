------------------------------- MODULE MCAuth -------------------------------
(***************************************************************************)
(* Instances of Auth for TLC.                                              *)
(***************************************************************************)
EXTENDS Auth, TLC

\* Ids, raw tokens and awaiting handlers are told apart by nothing.
AuthSymmetry == Permutations(Sessions) \cup Permutations(Tokens) \cup Permutations(Calls)
=============================================================================
