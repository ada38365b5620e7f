SPECIFICATION FairSpec
CONSTANTS
    MaxOrders = 1
    TokenOrders = {}
    Pollers = {p1, p2}
    Requests = {r1}
    ApiStatuses = {"PROCESSING"}
    ApiLinks = {2}
    Limit = 3
    MaxEvents = 3
    MaxPayouts = 1
    MaxFaults = 1

PROPERTIES
    RowsArrive
    EventsArrive
CHECK_DEADLOCK FALSE
