CONSTANTS
    Hops = {1, 256}
    RttPerHop = 3
    MaxWait = 50
    Frequency = 25
    RtqTimeout = 1500
    MaxAge = 60
SPECIFICATION Spec
INVARIANTS SearchesAsAllowed
