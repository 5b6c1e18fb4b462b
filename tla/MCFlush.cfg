SPECIFICATION FairSpec
CONSTANTS
    n1 = n1
    Notes = {n1}
    NoNote = NoNote
    MaxVer = 2
    MaxHub = 0
    Together <- BesideFlush
PROPERTY QueueDrains
