SPECIFICATION LiveSpec
CONSTANTS
    a = a
    e1 = e1
    e2 = e2
    l1 = l1
    NoId = NoId
    NoStatus = NoStatus
    NoLabel = NoLabel
    Gone = Gone
    UserLb = UserLb
    NoLb = NoLb
    NoCfg = NoCfg
    Mixed = Mixed
    NoRec = NoRec
    Specs <- LiveSpecs
    Endpoints <- Two
    PotentialReady <- Second
    LbIds <- OneId
    DisablePublicSLB = FALSE
    ClientTokenHonoured = TRUE
    ConsoleDeletes = FALSE
PROPERTY KeepsPromise
PROPERTY DeletionCompletes
PROPERTY BackendsConverge
CHECK_DEADLOCK FALSE
