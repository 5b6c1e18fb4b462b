SPECIFICATION Spec
CONSTANTS
    s1 = s1
    s2 = s2
    s3 = s3
    low = low
    high = high
    Devices = {low, high}
    Absent = Absent
    Sockets = {s1, s2, s3}
    Before <- LowOffers
    MaxDown = 4
    MaxMeshes = 3
    MaxPcs = 4
    MaxFaults = 1
    MaxLeaves = 1
CONSTRAINT Clear
ACTION_CONSTRAINT FirstFree
INVARIANTS TypeOK NoneLeftOpen
PROPERTY LinkComes
CHECK_DEADLOCK FALSE
