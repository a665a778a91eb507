\* A member and a super admin who is none, one issue, three events, one change
\* of role, account, status, name or preference.
SPECIFICATION Spec
CONSTANTS
    ann = ann
    bob = bob
    Users = {ann, bob}
    SuperAdmins = {bob}
    Names = {n1, n2}
    Statuses = {s1, s2}
    DefaultStatus = s1
    Nobody = Nobody
    Keep = Keep
    InitialRole <- MCRole
    StatusNames = {t1, t2, t3}
    DisplayNames = {jo, al}
    InitialNames <- MCNames
    Drafts <- MCDrafts
    Patches <- MCPatches
    Mentionings <- MCMentionings
    Optional <- MCOptional
    MaxIssues = 1
    MaxEvents = 3
    MaxChanges = 1
INVARIANTS
    HistoryReplays
PROPERTIES
    TriageNeedsDeveloper
    RightPeopleAreTold
