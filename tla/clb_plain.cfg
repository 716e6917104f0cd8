SPECIFICATION Spec
CONSTANTS
    a = a
    b = b
    e1 = e1
    e2 = e2
    l1 = l1
    l2 = l2
    NoId = NoId
    NoStatus = NoStatus
    NoLabel = NoLabel
    Gone = Gone
    UserLb = UserLb
    NoLb = NoLb
    NoCfg = NoCfg
    Mixed = Mixed
    NoRec = NoRec
    Specs <- PlainSpecs
    Endpoints <- One
    PotentialReady <- None
    LbIds <- Ids
    DisablePublicSLB = FALSE
    ClientTokenHonoured = FALSE
    ConsoleDeletes = TRUE
SYMMETRY Sym
INVARIANT TypeOK
INVARIANT NoOrphan
INVARIANT NoDuplicate
CHECK_DEADLOCK FALSE
