----------------------------- MODULE MCIssueList -----------------------------
(***************************************************************************)
(* Instances of IssueList for TLC.                                         *)
(***************************************************************************)
EXTENDS IssueList

CONSTANTS open, closed, m

\* The filters a link or the storage may hold.
MCLinks ==
    {[status |-> {closed}, assignee |-> {}, sort |-> DefaultSort],
     [status |-> {open}, assignee |-> {m}, sort |-> "number_asc"]}

\* The open issues are m's, the closed ones nobody's.
MCHolder == [s \in Statuses |-> IF s = open THEN m ELSE Absent]
=============================================================================
