\* Two uploads, a second file part, a crash and a failure, under fairness.  Every
\* request ends.
SPECIFICATION FairSpec
CONSTANTS
    p = p
    q = q
    Uploads = {u1, u2}
    Projects = {p, q}
    Nobody = Nobody
    InitialOwner <- MCOneIssue
    Interrupts = {"hangup", "second_part"}
    MaxCrashes = 1
    MaxFaults = 1
    MaxScripts = 0
    MaxArrivals = 0
PROPERTY UploadsEnd
CHECK_DEADLOCK FALSE
