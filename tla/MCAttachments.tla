---------------------------- MODULE MCAttachments ----------------------------
(***************************************************************************)
(* Instances of Attachments for TLC.                                       *)
(***************************************************************************)
EXTENDS Attachments, TLC

CONSTANTS p, q

\* One issue of p.
MCOneIssue == <<p>>

\* Nothing tells uploads apart.
UploadSymmetry == Permutations(Uploads)
=============================================================================
