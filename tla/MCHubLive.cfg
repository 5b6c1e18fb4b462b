SPECIFICATION Spec
CONSTANTS
    t1 = t1
    t2 = t2
    d1 = d1
    d2 = d2
    Tabs = {t1, t2}
    Devices = {d1, d2}
    Absent = Absent
    Sockets = {s1, s2, s3}
    DeviceOf <- DeviceOfTab
    Subscribers <- Listeners
    MaxDown = 2
    Leaving = {t1}
    MaxFaults = 1
INVARIANTS PresenceTrue LiveFollows
PROPERTY LiveAgain
