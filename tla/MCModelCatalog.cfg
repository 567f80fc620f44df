CONSTANTS
    Procs = {"panel", "other"}
    Accounts = {a}
    None = None
    Family <- MCFamily
    Malformed = {"*p"}
    Calls <- MCCalls
    Configs <- MCConfigs
    Nested = {"map"}
    Published <- MCPublished
    fallbackModels <- MCFallback
    MaxRevision = 2
SPECIFICATION Spec
INVARIANT
    TypeOK
    PanelShowsAll
    ListedOnce
    MoveLands
    RefreshTellsTheTruth
PROPERTIES
    HiddenNeverListed
    HiddenStaysHidden
