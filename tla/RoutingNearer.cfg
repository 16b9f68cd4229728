CONSTANTS
    nS = nS  nA = nA  nB = nB  nC = nC  nD = nD  nE = nE
    Node = {nS, nA, nB, nC, nE, nD}
    Link <- RingLinks
    Flow <- OneFlow
    MaxPaths = 3
    LenDiff = 1
    Infinity = 65535
    MaxData = 1
    MaxBid = 1
    MaxTimers = 0
    Lossy = FALSE
SPECIFICATION Spec
CHECK_DEADLOCK FALSE
INVARIANTS SmallerHopCount
