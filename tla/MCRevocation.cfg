CONSTANTS
    p1 = p1
    p2 = p2
    None = None
    Procs <- TwoProcs
    Operations <- ExecuteOnly
    Refreshers <- OneRefresher
    Faults = {"revoke"}
    InitialDocs <- FreshAccount
    RefreshLead = 1
    Life = 3
    FallbackLife = 2
    OnTime = TRUE
    Punctual = TRUE
    MaxNow = 1
    MaxGrants = 3
    MaxRevoked = 1
    MaxRestarts = 0
SPECIFICATION Spec
INVARIANT
    RevocationIsSurvived
