\* One issue per status at most, two acts of the user, one change by others, one
\* failing request.  The page rests when the user does.
SPECIFICATION FairListSpec
CONSTANTS
    open = open
    closed = closed
    Statuses = {open, closed}
    Open = {open}
    Sorts = {"updated_desc", "number_asc"}
    DefaultSort = "updated_desc"
    Absent = absent
    Refused = refused
    m = m
    Mates = {m}
    Holder <- MCHolder
    Links <- MCLinks
    PageSize = 1
    MaxIssues = 1
    MaxActs = 2
    MaxChanges = 1
    MaxFailures = 1
INVARIANTS
    SettledListIsCurrent
    PageExists
PROPERTIES
    ReloadRestores
    LoadingEnds
CHECK_DEADLOCK FALSE
