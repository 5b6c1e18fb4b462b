SPECIFICATION Spec
CONSTANTS
    n1 = n1
    Notes = {n1}
    NoNote = NoNote
    MaxVer = 2
    MaxHub = 1
    Together <- Races
INVARIANT SentNoteKept
PROPERTIES OffStaysHere 
