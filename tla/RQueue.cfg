CONSTANTS
    p1 = p1  p2 = p2  p3 = p3  p4 = p4  x = x  y = y
    NULL = NULL
    Packet = {p1, p2, p3, p4}
    Dest = {x, y}
    dst <- Destinations
    Limit = 3
    Timeout = 2
    MaxNow = 4
SPECIFICATION Spec
CHECK_DEADLOCK FALSE
INVARIANTS TypeOK verifyQueue NothingCutOff AgedAtHead
PROPERTIES InTime ImplementsQueue
