CONSTANTS
    p1 = p1
    p2 = p2
    None = None
    Procs <- TwoProcs
    Operations <- AllOperations
    Refreshers <- OneRefresher
    Faults = {"serverError", "lostReply", "crash", "noExpiry", "noConnect"}
    InitialDocs <- KnownAccount
    RefreshLead = 1
    Life = 3
    FallbackLife = 2
    OnTime = TRUE
    Punctual = TRUE
    MaxNow = 4
    MaxGrants = 3
    MaxRevoked = 0
    MaxRestarts = 1
SPECIFICATION Spec
INVARIANTS
    TypeOK
    QuietAgreement
PROPERTIES
    FreshStart
    CacheHoldsNewest
    OnlyDiscoveryGoesBack
    LoginSurvives
