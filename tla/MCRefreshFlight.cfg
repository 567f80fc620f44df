CONSTANTS
    p1 = p1
    p2 = p2
    p3 = p3
    k1 = k1
    k2 = k2
    renewed = renewed
    refused = refused
    None = None
    Procs <- MCProcs
    Keys <- MCKeys
    Outcomes <- MCOutcomes
SPECIFICATION Spec
INVARIANTS
    TypeOK
    OneGrantPerKey
    NoOrphanRegistration
    WaitersAreAwaited
PROPERTIES
    WaitersShareTheAnswer
    EveryCallReturns
