SPECIFICATION FairSpec
CONSTANTS
    u1 = u1
    u2 = u2
    b1 = b1
    Users = {u1, u2}
    Admins = {u1, u2}
    Blobs = {b1}
    Owner <- MCOwner
    Size <- MCSize
    Parts = 1
    Grants = {1}
    MaxGrant = 1
    Bytes <- MCBytes
    PendingMaxAge = 1
    BlobTTL = 1
    ResetTTL = 1
    MaxTime = 2
PROPERTIES GarbageReclaimed
