SPECIFICATION Spec
CONSTANTS
    a = a
    b = b
    e1 = e1
    e2 = e2
    l1 = l1
    l2 = l2
    NoId = NoId
    NoStatus = NoStatus
    NoLabel = NoLabel
    Gone = Gone
    UserLb = UserLb
    NoLb = NoLb
    NoCfg = NoCfg
    Mixed = Mixed
    NoRec = NoRec
    Specs <- ReuseSpecs
    Endpoints <- Two
    PotentialReady <- None
    LbIds <- OneId
    DisablePublicSLB = FALSE
    ClientTokenHonoured = FALSE
    ConsoleDeletes = TRUE
INVARIANT UserLbCleaned
PROPERTY UserLbUntouched
PROPERTY ListenersReturned
CHECK_DEADLOCK FALSE
