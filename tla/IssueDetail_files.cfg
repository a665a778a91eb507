\* Files dropped beside a comment: are they uploaded?  The page rests
\* when the user does.
SPECIFICATION Spec
CONSTANTS
    Fields = {f1}
    Mine = {m1}
    Theirs = {t}
    First = first
    None = none
    Calls = {c1}
    Kinds = {"comment"}
    MaxEdits = 2
    MaxStarts = 1
    MaxElsewhere = 0
    MaxFaults = 0
INVARIANT CommentFilesAreSent
CHECK_DEADLOCK FALSE
