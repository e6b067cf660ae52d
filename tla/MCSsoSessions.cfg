\* Two requests, two accounts (one may come from a merge), one session, one code.
SPECIFICATION Spec
CONSTANTS
    User = {u1, u2}
    None = None
    Session = {s1}
    Code = {c1}
    Request = {r1, r2}
    IdleTTL = 1
    MaxTTL = 1
    CodeTTL = 1
    AccessTTL = 1
    MaxTime = 2
SYMMETRY Symmetry
INVARIANTS
    TypeOK
    SessionWithinLimits
PROPERTIES
    SignOutEndsSessions
    SessionStaysDeleted
    DisabledGetsNothing
    ImplementsOneTimeCodes
CHECK_DEADLOCK FALSE
