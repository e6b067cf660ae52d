SPECIFICATION Spec
CONSTANTS
    User = {u1, u2}
    App = {a}
    Mapping <- SharedKey
    None = None
    SkipRepair = FALSE
INVARIANTS
    LookupsAgree
