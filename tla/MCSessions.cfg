SPECIFICATION Spec
CONSTANTS
    Admins = {a1, a2}
    Guests = {}
    Invites = {}
    Devices = {d1, d2}
    Tokens = {s1, s2}
    Calls = {c1, c2}
    InviteTTL = 1
    ChallengeTTL = 1
    Sliding = 1
    HardCap = 2
    MaxTime = 2
    None = None
SYMMETRY Symmetry
INVARIANTS AdminRemains RevokedHasNoSession
PROPERTY SignedOutStaysOut
CHECK_DEADLOCK FALSE
