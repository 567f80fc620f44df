CONSTANTS
    p1 = p1
    p2 = p2
    None = None
    Procs <- OneProc
    Nicks = {"a"}
    Names = {"name"}
    Kinds = {"merge"}
    FailingSaves = {}
    Orderly = TRUE
    Punctual = TRUE
    Abreast = TRUE
    MaxPairs = 2
SPECIFICATION Spec
CHECK_DEADLOCK FALSE
PROPERTY
    HostFieldsKept
