SPECIFICATION Spec
CONSTANTS
    b1 = b1
    b2 = b2
    b3 = b3
    ann = ann
    bob = bob
    Browsers = {b1, b2, b3}
    Members = {ann, bob}
    Nobody = Nobody
    Tabs = {b1}
    Codes = {c1}
    k1 = k1
    k2 = k2
    Calls = {k1, k2}
    Users <- UsersOf
    SignedIn <- SignedInAs
    MaxPairings = 1
    MaxKeys = 2
    MaxSlips = 1
SYMMETRY AlikeCalls
CONSTRAINT Apart
INVARIANTS WordsOpen OwnKey SpentOnce
PROPERTIES PairedAlike
CHECK_DEADLOCK FALSE
