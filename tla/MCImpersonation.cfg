\* The default proportion of the two lifetimes: impersonation outlives access.
SPECIFICATION Spec
CONSTANTS
    User = {u1}
    App = {a1}
    Family = {f1}
    Token = {t1}
    Request = {p1, p2}
    None = None
    AccessTTL = 1
    ImpersonateTTL = 2
    RefreshTTL = 2
    MaxTime = 2
INVARIANT
    AllRevokedAccessStaysRevoked
CHECK_DEADLOCK FALSE
