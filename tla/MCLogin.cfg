CONSTANTS
    l1 = l1
    panel1 = panel1
    panel2 = panel2
    page = page
    Logins <- OneLogin
    Pollers <- ThreePollers
    Panels <- TwoPanels
    Faults = {"lostReply", "registerFails", "saveFails"}
SPECIFICATION FairSpec
INVARIANTS
    TypeOK
    OneCredentialPerApproval
    OkMeansSaved
PROPERTIES
    LoginStaysOpen
    EveryStateGoes
    ApprovalIsAnswered
