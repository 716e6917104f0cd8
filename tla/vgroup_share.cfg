SPECIFICATION FairSpec
CONSTANTS
    s1 = s1
    s2 = s2
    user = user
    x = x
    y = y
    z = z
    Svcs <- TwoSvcs
    User = user
    Servers <- ThreeServers
    Weights <- TwoWeights
    Ports <- ThreePorts
    Wants <- Wanted
    UserBackends <- UserServers
    BatchSize = 1
    Limit = 5
    LeaveModes <- Leaving
    MaxEdits = 2
    MaxFaults = 1
INVARIANT TypeOK
PROPERTY OthersUntouched
PROPERTY GroupConverges
CHECK_DEADLOCK FALSE
