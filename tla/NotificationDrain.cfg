\* Two accounts, one with an address that is refused, two projects, one of which
\* may be hard-deleted, batches of two rows, two runs of the drain, two faults.
SPECIFICATION FairSpec
CONSTANTS
    Users = {u1, u2}
    Projects = {p1, p2}
    Purgeable = {p1}
    Rejecting = {u2}
    Drains = {d1, d2}
    BatchLimit = 2
    MaxBatches = 2
    MaxNotices = 2
    MaxKicks = 2
    MaxFaults = 2
INVARIANTS
    TypeOK
    OneDrain
    OwedIsCovered
    EmailedMeansHandled
    DuplicatesNeedFaults
    InOrder
PROPERTIES
    EveryNoticeSettled
    ImplementsOutbox
