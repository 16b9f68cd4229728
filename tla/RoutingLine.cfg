CONSTANTS
    nS = nS  nA = nA  nB = nB  nC = nC  nD = nD  nE = nE
    Node = {nS, nA, nD}
    Link <- LineLinks
    Flow <- OneFlow
    MaxPaths = 3
    LenDiff = 1
    Infinity = 65535
    MaxData = 2
    MaxBid = 2
    MaxTimers = 2
    Lossy = TRUE
SPECIFICATION Spec
CHECK_DEADLOCK FALSE
INVARIANTS TypeOK RouteState AnnouncedParity NoStrandedPacket NeverAheadOfDestination AssertionsHold
PROPERTIES AdvertisementStable ImplementsRules
