\* Two fields, two handlers at a time, two in all, one other user, one failure.
\* The page rests when the user does.
SPECIFICATION FairSpec
CONSTANTS
    Fields = {f1, f2}
    Mine = {m}
    Theirs = {t}
    First = first
    None = none
    Calls = {c1, c2}
    Kinds = {"save", "comment", "watch", "archive", "upload"}
    MaxEdits = 2
    MaxStarts = 2
    MaxElsewhere = 1
    MaxFaults = 1
INVARIANTS
    SettledShowsOwnWrites
PROPERTIES
    ShownNeverGoesBack
    NothingReverted
    BusyEnds
CHECK_DEADLOCK FALSE
