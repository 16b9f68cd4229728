CONSTANTS
    p1 = p1  p2 = p2  p3 = p3  p4 = p4  n0 = n0  n1 = n1  d0 = d0  d1 = d1
    Packet = {p1, p2, p3, p4}
    Neighbor = {n0, n1}
    Zero = n0
    Dest = {d0, d1}
    Limit = 3
    BufferLimit = 2
    MaxSalvage = 1
    MaxPurged = 1
    NULL = NULL
SPECIFICATION Spec
PROPERTIES BroadcastStays
