\* One account, no merge; the clock stands still.
SPECIFICATION Spec
CONSTANTS
    User = {u1}
    None = None
    Session = {s1}
    Code = {c1}
    Request = {r1, r2}
    IdleTTL = 1
    MaxTTL = 1
    CodeTTL = 1
    AccessTTL = 1
    MaxTime = 0
SYMMETRY Symmetry
PROPERTY
    SignedOutNeedsLogin
CHECK_DEADLOCK FALSE
