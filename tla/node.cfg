CONSTANTS
    MaxNames = 2
    Setups <- MCSetups
    BatchSize = 1
    CfgRoute = TRUE
    MaxUid = 2
    MaxFaults <- MCMaxFaults
    Absent = Absent
    NoId = NoId
    BadId = BadId
    NoWork = NoWork
SPECIFICATION Spec
INVARIANT TypeOK
PROPERTIES OnlyDeadNodesDeleted NodesConverge
CHECK_DEADLOCK FALSE
