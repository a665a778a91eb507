\* Three subjects for two buckets, two tokens per four ticks, a clock that is
\* set back once.  The clock stops at the bound.
SPECIFICATION Spec
CONSTANTS
    Ips = {i1}
    Emails = {e1, e2}
    Absent = absent
    Capacity = 2
    RefillMs = 4
    PRUNE_INTERVAL_MS = 2
    MAX_BUCKETS = 2
    MaxTime = 7
    MaxBack = 1
SYMMETRY Symmetry
CHECK_DEADLOCK FALSE
INVARIANT NoBurst
PROPERTIES
    ImplementsBuckets
    ForgetsLeastRecent
