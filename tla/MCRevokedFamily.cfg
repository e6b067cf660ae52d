\* A replay is answered while another rotation of the family is in flight.
SPECIFICATION Spec
CONSTANTS
    User = {u1}
    App = {a1}
    Family = {f1}
    Token = {t1, t2, t3}
    Request = {p1, p2}
    None = None
    AccessTTL = 1
    ImpersonateTTL = 1
    RefreshTTL = 2
    MaxTime = 0
INVARIANT
    RevokedFamilyIsDead
CHECK_DEADLOCK FALSE
