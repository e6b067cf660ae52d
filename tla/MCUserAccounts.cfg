SPECIFICATION Spec
CONSTANTS
    Request = {r1, r2}
    Password = {p1, p2}
    NoHash = NoHash
    Gone = Gone
    Kind = "directory"
    Settings <- MCSettings
    MaxAttempts = 3
    MaxTime = 3
SYMMETRY Symmetry
CONSTRAINT Bounds
INVARIANTS
    TypeOK
    LockMatchesAttempts
    AttemptsAreConsecutive
PROPERTIES
    DeletedStaysDeleted
    DisabledIsFinal
