SPECIFICATION PartsSpec
CONSTANTS
    Addresses = {"address"}
    Members = {"ann", "bob"}
    AuthLimiter = "auth"
    Invalid = "invalid"
    Capacity = 2
    Window = 3
    MaxTime = 3
    FileIds = {f1}
    ChunkSize = 2
    Contents <- SomeFiles
    FileMax = 5
    MinCompress = 2
    MaxChunks = 4
    TicketLife = 1
    MaxFaults = 2
    MaxTicks = 2
    Trailer = Trailer
    Nothing = Nothing
    ShareTabs = {t1, t2}
    Shared = {s1, s2}
    Empty = Empty
    UpdateTabs = {t1, t2}
    MaxVersion = 3
    MaxLoads = 3
    PlayTabs = {t1, t2}
    Slots <- OneEach
    PlayNotes = {n1, n2, n3}
    PlayCap = 1
    NoNote = NoNote
    PageTabs = {t1, t2}
    Nobody = Nobody
    FirstAdmin = FirstAdmin
    Known = Known
    Joiners = {m1, m2}
    Links = {l1}
    MaxChallenges = 2
    MaxMishaps = 1
    Askers = {m1, m2}
    Calls = {t1, t2}
    MaxAsks = 2
    MaxRequests = 2
    AskOpenMax = 1
    Grants = {1, 2}
    MaxFailed = 1
SYMMETRY Alike
INVARIANTS PartsOK LimitHeld RefusedForCause FileOpensWhole SharedOnce OffersAreNew CapNearlyHeld EnrolledAsMeant LoginUndisturbed SpaceAsApproved DecisionsLogged
PROPERTY DecidedForGood
CHECK_DEADLOCK FALSE
