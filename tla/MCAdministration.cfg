SPECIFICATION Spec
CONSTANTS
    first = first
    second = second
    Address = {first, second}
    Trusted = {second}
    NoAddress = none
    MaxHalf = 3
    MaxCount = 3
    Tab = {t1, t2}
    Body <- MCBody
    Seed <- MCSeed
    MaxVersion = 3
    DefaultMax = 1
    DefaultWindow = 1
    CapMax = 3
    CapWindow = 2
    DefaultHours = 2
    CapHours = 3
    Call = {c1, c2}
    Username = {first}
    LocalUser = {u1, u2}
    NoUser = none
    MaxApps = 2
    Edit = {e1}
    Exchange = {x1}
    TokenTTL = 3
    MaxSecret = 3
    MaxSave = 3
    LastHalf = 4
    Login = {l1, l2}
    Name = {sam, upn, case}
    Sam = sam
    SamForms = {sam, case}
    Record = {first, second}
    NoRecord = none
    OutagePolicy = "grace"
    Grace = 2
    Throttle = 1
    LastTime = 3
    Start = {s1}
    Table = {"identity_mappings", "revoked_tokens", "app_admins"}
    Row = {first, second}
    Capacity = 1
    EnvPostgres = TRUE
    FirstRows <- MCFirstRows
    OldRows <- MCOldRows
    MaxWrites = 1
    Verifier = {v1, v2}
    KeysTTL = 1
    MinRefetch = 1
    FetchTimeout = 1
    IssuedTTL = 3
    MaxKeys = 2
    MaxIssued = 2
    LastTick = 4
    SetupCall = {c1, c2}
    Host = {first, second}
    NoHost = none
    MaxPassword = 2
CONSTRAINT Bounds
INVARIANTS
    SettingsAgree
    AppStartsEmpty
    LocalUsersAreWhole
    RotationRevokesTokens
    GraceIsEarned
    GraceIsGranted
    OneRecordPerPerson
    MigrationKeepsRows
    StatusSettles
    TrustLapses
    LiveTokensVerified
    KerberosFollowsSetup
PROPERTIES
    NoStaleOverwrite
    LimitHolds
    UsernamesAreNotTaken
CHECK_DEADLOCK FALSE
