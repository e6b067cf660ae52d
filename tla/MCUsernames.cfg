SPECIFICATION UsernamesSpec
CONSTANTS
    User = {u1, u2, u3, u4}
    App = {a, b}
    Mapping <- DistinctKeys
    None = None
    SkipRepair = FALSE
    first = first
    second = second
    Commit = {u1, u2}
    Creator = {u3}
    Username = {first, second}
    Sources <- MCSources
    SameAD = TRUE
    MaxTokens = 2
    MaxInstances = 2
    MaxUsers = 2
SYMMETRY MCSymmetry
INVARIANTS
    TypeOK
    LookupsAgree
    ListingRoundTrips
    TokenAppliesOnce
    ImportedOnce
    
PROPERTIES
    ImplementsPostgres
    ImportKeepsUsernames
CHECK_DEADLOCK FALSE
