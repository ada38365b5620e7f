SPECIFICATION MirrorSafetySpec
CONSTANTS
    MaxOrders = 2
    TokenOrders = {2}
    Pollers = {p1, p2}
    Requests = {r1, r2}
    ApiStatuses = {"PROCESSING"}
    ApiLinks = {1}
    Limit = 2
    MaxEvents = 3
    MaxPayouts = 2
    MaxFaults = 1
SYMMETRY MirrorSymmetry
INVARIANTS
    MirrorTypeOK
    ClaimsJustified
    SweepCreates
    SweepCloses
PROPERTIES
    FollowsRecords
    NeverReset
    
CHECK_DEADLOCK FALSE
