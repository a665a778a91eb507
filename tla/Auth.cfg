\* One account, two sessions, two tokens, two handlers awaiting at a time.
SPECIFICATION Spec
CONSTANTS
    Users = {ann}
    SuperAdmins = {}
    Passwords = {old, new}
    Sessions = {s1, s2}
    Tokens = {t1, t2}
    Calls = {c1, c2}
    None = None
    LinkTTL = 1
    ResetTTL = 1
    SessionTTL = 2
    TouchThrottle = 1
    MaxTime = 1
    MaxDisables = 1
SYMMETRY AuthSymmetry
INVARIANTS TokenUsedOnce OldPasswordsGone
PROPERTY LatestLinkOnly
CHECK_DEADLOCK FALSE
