CONSTANTS
    u1 = u1
    u2 = u2
    NoUser = NoUser
    Users <- MCUsers
    Zones <- MCZones
    Day = 12
    SendAt = 4
    Window = 1
    Period = 3
    Lateness = 1
    Start = 12
    End = 28
    MaxFaults = 0
    MaxRequests = 0
SPECIFICATION Spec
INVARIANTS SomeMatch
CHECK_DEADLOCK FALSE
