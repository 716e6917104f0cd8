CONSTANTS
    p1 = p1
    p2 = p2
    Pods <- MCPods
    ServerStarts <- MCStarts
    Kinds = {"endpoint", "node"}
    ReplaceMaxNums = {1, 2}
    BatchNum = 1
SPECIFICATION ServersSpec
INVARIANT ServersTypeOK
PROPERTIES GateMeansRegistered ServersConverge
CHECK_DEADLOCK FALSE
