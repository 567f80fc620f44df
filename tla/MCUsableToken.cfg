CONSTANTS
    p1 = p1
    p2 = p2
    None = None
    Procs <- OneProc
    Operations <- ExecuteOnly
    Refreshers <- OneRefresher
    Faults = {"serverError"}
    InitialDocs <- DueAccount
    RefreshLead = 1
    Life = 3
    FallbackLife = 2
    OnTime = TRUE
    Punctual = TRUE
    MaxNow = 2
    MaxGrants = 2
    MaxRevoked = 0
    MaxRestarts = 0
SPECIFICATION Spec
INVARIANT
    UsableTokenServes
