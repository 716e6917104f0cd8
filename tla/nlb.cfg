SPECIFICATION LiveSpec
CONSTANTS
    b1 = b1
    b2 = b2
    eni = eni
    ecs = ecs
    a1 = a1
    a2 = a2
    Specs <- MCSpecs
    Ports = {80, 90}
    Kinds = {eni, ecs}
    Attrs = {a1, a2}
    Backends = {b1, b2}
    Scales <- MCScales
    LbIds = {1}
    UserLb = UserLb
    GroupIds = {1, 2, 3}
    MaxChanges = 2
    UserServer = UserServer
    UserGroup = UserGroup
    UserPorts = {80, 90}
    SharedPorts = {90}
    NoLb = NoLb
    NoInst = NoInst
    NoGroup = NoGroup
    NoLis = NoLis
    NoRec = NoRec
    NoLabel = NoLabel
INVARIANTS TypeOK NoOrphanNlb
PROPERTIES FilledBeforeUse UserResourcesKept NlbConverges KeepsPromise
CHECK_DEADLOCK FALSE
