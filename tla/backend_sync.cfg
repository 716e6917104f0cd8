SPECIFICATION FairSpec
CONSTANTS
    n1 = n1
    p1 = p1
    p2 = p2
    NoNode = NoNode
    NoPod = NoPod
    NoWeight = NoWeight
    NodeNames <- OneNode
    Pods <- TwoPods
    NodeOf <- OnFirst
    Services <- AllServices
    LabelSets <- NodeLabels
    NodeChanges <- AllButTaint
    FilterServiceOnNodeChange = FALSE
    MaxChanges = 4
    MaxFaults = 1
INVARIANT TypeOK
INVARIANT QuietMeansFresh
INVARIANT LocalWeights
PROPERTY GatesOpen
CHECK_DEADLOCK FALSE
