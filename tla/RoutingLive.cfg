CONSTANTS
    nS = nS  nA = nA  nB = nB  nC = nC  nD = nD  nE = nE
    Node = {nS, nA, nB, nD}
    Link <- DiamondLinks
    Flow <- TwoFlows
    MaxPaths = 3
    LenDiff = 1
    Infinity = 65535
    MaxData = 1
    MaxBid = 1
    MaxTimers = 0
    Lossy = FALSE
SPECIFICATION FairSpec
CHECK_DEADLOCK FALSE
PROPERTIES DiscoveryCompletes DataLeaves 
