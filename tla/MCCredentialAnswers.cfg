CONSTANTS
    p1 = p1
    p2 = p2
    None = None
    Procs <- TwoProcs
    Operations <- UserAndHost
    Refreshers <- OneRefresher
    Faults = {"noToken", "noRotate", "revoke", "saveFail", "learnsId"}
    InitialDocs <- NamelessAccount
    RefreshLead = 1
    Life = 3
    FallbackLife = 2
    OnTime = TRUE
    Punctual = TRUE
    MaxNow = 1
    MaxGrants = 2
    MaxRevoked = 2
    MaxRestarts = 0
SPECIFICATION FairSpec
PROPERTIES
    FlightSpec
    EveryRequestAnswered
