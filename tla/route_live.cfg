SPECIFICATION FairSpec
CONSTANTS
    n1 = n1
    n2 = n2
    p1 = p1
    p2 = p2
    t1 = t1
    t2 = t2
    NoNode = NoNode
    NoCidr = NoCidr
    NoProv = NoProv
    NoRoute = NoRoute
    Names <- TwoNames
    Provs <- TwoProvs
    NodeCidrs <- OneCidr
    UserCidrs <- HandMade
    ClusterCidr <- Cluster
    Tables <- OneTable
    MaxDisturbances = 4
INVARIANT TypeOK
PROPERTY RoutesConverge
PROPERTY OtherRoutesStay
