\* One account while the clock runs past every expiry; no crash.
SPECIFICATION FairSpec
CONSTANTS
    User = {u1}
    App = {a1}
    Family = {f1}
    Token = {t1, t2}
    Request = {p1, p2}
    None = None
    AccessTTL = 1
    ImpersonateTTL = 1
    RefreshTTL = 2
    MaxTime = 2
INVARIANT
    RevokedAccessStaysRevoked
PROPERTY
    ReplayRevokesFamily
CHECK_DEADLOCK FALSE
