SPECIFICATION FairSpec
CONSTANTS
    MaxOrders = 1
    TokenOrders = {}
    Pollers = {p1}
    Requests = {r1}
    ApiStatuses = {}
    ApiLinks = {}
    Limit = 3
    MaxEvents = 3
    MaxPayouts = 0
    MaxFaults = 0

PROPERTIES
    RefundsMirrored
CHECK_DEADLOCK FALSE
