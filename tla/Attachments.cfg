\* Two uploads to one issue, a crash, a failing operation, one script beside them
\* (the project deleted, the mirror reconciled or the files restored), an issue created or archived.
SPECIFICATION Spec
CONSTANTS
    p = p
    q = q
    Uploads = {u1, u2}
    Projects = {p, q}
    Nobody = Nobody
    InitialOwner <- MCOneIssue
    Interrupts = {"hangup"}
    MaxCrashes = 1
    MaxFaults = 1
    MaxScripts = 1
    MaxArrivals = 1
SYMMETRY UploadSymmetry
INVARIANTS
    RowHasFile
    NoOrphanFile
    AnswerIsTrue
    ScriptsReconcile
CHECK_DEADLOCK FALSE
