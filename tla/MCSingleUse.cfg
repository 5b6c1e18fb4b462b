SPECIFICATION Spec
CONSTANTS
    Admins = {a1}
    Guests = {g1, g2}
    Invites = {i1}
    Devices = {d1, d2, d3}
    Tokens = {s1, s2, s3}
    Calls = {c1, c2}
    InviteTTL = 1
    ChallengeTTL = 1
    Sliding = 1
    HardCap = 2
    MaxTime = 1
    None = None
SYMMETRY Symmetry
INVARIANT InviteAdmitsOne
CHECK_DEADLOCK FALSE
