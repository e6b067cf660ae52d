\* Two racing requests, two accounts (one may come from a merge), two apps, one instant.
SPECIFICATION Spec
CONSTANTS
    User = {u1, u2}
    App = {a1, a2}
    Family = {f1}
    Token = {t1, t2}
    Request = {p1, p2}
    None = None
    AccessTTL = 1
    ImpersonateTTL = 1
    RefreshTTL = 1
    MaxTime = 0
SYMMETRY Symmetry
INVARIANTS
    TypeOK
    SingleLiveToken
    FamilyKeepsApp
PROPERTY
    ImplementsSessions
CHECK_DEADLOCK FALSE
