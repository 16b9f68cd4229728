CONSTANTS
    nS = nS  nA = nA  nB = nB  nC = nC  nD = nD  nE = nE
    Node = {nS, nA, nB, nC, nE, nD}
    Link <- OutwardLinks
    Flow <- FarFlows
    MaxPaths = 3
    LenDiff = 1
    Infinity = 65535
    MaxData = 1
    MaxBid = 1
    MaxTimers = 2
    Lossy = FALSE
SPECIFICATION Spec
CHECK_DEADLOCK FALSE
INVARIANTS RouteState AssertionsHold DisjointPaths NextHopNotOlder
PROPERTIES LoopsOnlyByFallback
