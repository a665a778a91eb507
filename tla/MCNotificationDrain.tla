------------------------ MODULE MCNotificationDrain ------------------------
(***************************************************************************)
(* Instances of NotificationDrain for TLC; the sets are given in the .cfg  *)
(* files.  No symmetry: one run checks liveness, the other is small.       *)
(***************************************************************************)
EXTENDS NotificationDrain
=============================================================================
