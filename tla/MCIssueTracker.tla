--------------------------- MODULE MCIssueTracker ---------------------------
(***************************************************************************)
(* Instances of IssueTracker for TLC.                                      *)
(***************************************************************************)
EXTENDS IssueTracker, TLC

CONSTANTS ann, bob

\* Kinds whose absence shows: one that outranks another, and the lowest.
MCOptional == {<<ann, "mentioned">>, <<ann, "watched_any_change">>}

MCMentionings == {{}, {ann}}

\* ann is a member, bob the super admin and no member.
MCRole == [u \in Users |-> IF u = ann THEN "user" ELSE "none"]

\* Both users are called the same at the start.
MCNames ==
    LET first == CHOOSE s \in StatusNames : TRUE
        second == CHOOSE s \in StatusNames \ {first} : TRUE
        jo == CHOOSE n \in DisplayNames : TRUE
    IN  [status |-> [s \in Statuses |-> IF s = DefaultStatus THEN first ELSE second],
         user |-> [u \in Users |-> jo]]

\* A plain new issue, and one that names its assignee and its status.
MCDrafts ==
    LET name == CHOOSE n \in Names : TRUE
    IN  {[name |-> name, status |-> DefaultStatus, assignee |-> Nobody]}
        \cup {[name |-> name, status |-> s, assignee |-> ann] : s \in Statuses \ {DefaultStatus}}

\* Nothing, single fields, and saves of two fields.
MCPatches ==
    LET none == [name |-> Keep, status |-> Keep, assignee |-> Keep]
        renamed == CHOOSE n \in Names : n # CHOOSE m \in Names : TRUE
    IN  {none, [none EXCEPT !.name = renamed, !.assignee = Nobody],
         [none EXCEPT !.status = DefaultStatus, !.assignee = ann]}
        \cup {[none EXCEPT !.status = s] : s \in Statuses \ {DefaultStatus}}
        \cup {[none EXCEPT !.assignee = u] : u \in Users \ {ann}}
=============================================================================
