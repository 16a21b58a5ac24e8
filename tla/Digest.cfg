CONSTANTS
    u1 = u1
    u2 = u2
    NoUser = NoUser
    Users <- MCUsers
    Zones <- MCZones
    Day = 12
    SendAt = 4
    Window = 1
    Period = 3
    Lateness = 1
    Start = 12
    End = 20
    MaxFaults = 2
    MaxRequests = 1
SYMMETRY UserSymmetry
SPECIFICATION Spec
INVARIANTS TypeOK AtMostOneMatch FailuresStayLocal
PROPERTIES DigestNotRepeated
CHECK_DEADLOCK FALSE
