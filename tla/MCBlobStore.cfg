SPECIFICATION Spec
CONSTANTS
    u1 = u1
    b1 = b1
    b2 = b2
    Users = {u1}
    Admins = {}
    Blobs = {b1, b2}
    Owner <- MCOwner
    Size <- MCSize
    Parts = 2
    Grants = {2}
    MaxGrant = 2
    Bytes <- MCBytes
    PendingMaxAge = 1
    BlobTTL = 1
    ResetTTL = 1
    MaxTime = 2
INVARIANTS TypeOK UsedCoversFiles QuietFilesIntact
PROPERTIES ImplementsLedger
