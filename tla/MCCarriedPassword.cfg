SPECIFICATION CentralSpec
CONSTANTS
    first = first
    second = second
    Commit = {c1, c2}
    Creator = {c3}
    Username = {first, second}
    Sources <- MCSources
    SameAD = TRUE
    MaxTokens = 2
    MaxInstances = 2
    MaxUsers = 3
SYMMETRY MCSymmetry
INVARIANTS
    CarriedPasswordsWork
CHECK_DEADLOCK FALSE
