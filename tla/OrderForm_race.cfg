SPECIFICATION FormSpec
CONSTANTS
    Addresses = {s1}
    Accounts = {a1, a2, a3}
    Unknown = {a3}
    Malformed = malformed
    Nothing = nothing
    Entered = {54}
    MaxOrders = 2
    MaxOrphans = 1
    Precision = 14
    Scale = 50
    Rate = 15
    Minor = 10
    MinSTX = 1
    MaxSTX = 3
INVARIANTS
    DetailsVerified
CHECK_DEADLOCK FALSE
