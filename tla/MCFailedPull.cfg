CONSTANTS
    Procs = {"panel", "other"}
    Accounts = {a}
    None = None
    Family <- MCFamily
    Malformed = {"*p"}
    Calls <- Refreshes
    Configs <- MCConfigs
    Nested = {"map"}
    Published <- MCPublished
    fallbackModels <- MCFallback
    MaxRevision = 0
SPECIFICATION Spec
PROPERTIES
    FailedPullKeepsCatalog
