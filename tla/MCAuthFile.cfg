CONSTANTS
    p1 = p1
    p2 = p2
    None = None
    Procs <- TwoProcs
    Nicks = {"a", "b"}
    Names = {"name", "other"}
    Kinds = {"execute", "refresh"}
    FailingSaves = {"saveName"}
    Orderly = TRUE
    Punctual = TRUE
    Abreast = TRUE
    MaxPairs = 3
SPECIFICATION Spec
CHECK_DEADLOCK FALSE
INVARIANT
    TypeOK
PROPERTIES
    HostFieldsKept
    
    
    SurfacesAgree
    OneFilePerAccount
