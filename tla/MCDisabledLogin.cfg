SPECIFICATION Spec
CONSTANTS
    Request = {r1, r2}
    Password = {p1, p2}
    NoHash = NoHash
    Gone = Gone
    Kind = "local"
    Settings <- MCFixed
    MaxAttempts = 3
    MaxTime = 3
PROPERTIES
    DisabledCannotLogIn
