SPECIFICATION Spec
CONSTANTS
    Admin = Admin
    m1 = m1
    m2 = m2
    NoOne = NoOne
    Users <- AllUsers
    Handles = {h1, h2}
    Invites = {i1, i2, i3}
    Asks = {a1}
    Devices = {v1, v2, v3, v4}
    Tokens = {t1, t2, t3, t4}
    Pairings = {p1, p2}
    Codes = {c1}
    Items = {n1, n2}
    Blobs = {b1, b2}
    Uploads = {r1, r2}
    Endpoints = {e1}
    Sizes <- Sizes12
    Times <- Clock
    MaxAsks = 1
    MaxCalls = 4
    MaxClock = 1
    Starts = {"seeded", "settled"}
INVARIANTS TypeOK SameAnswers SameRows
CHECK_DEADLOCK FALSE
