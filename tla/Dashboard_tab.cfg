SPECIFICATION FairSpec
CONSTANTS
    Addresses = {s1, s2}
    Accounts = {a1, a2, a3}
    a1 = a1
    a3 = a3
    Unknown = {a3}
    Malformed = malformed
    Nothing = nothing
    Entered = {49, 50, 54, 60, 61, 66, 73, 107, 108, 119, 120, 121, 122, 132, 146, 147, 150, 151}
    MaxOrders = 2
    MaxOrphans = 1
    Precision = 14
    Scale = 50
    Rate = 15
    Minor = 10
    MinSTX = 1
    MaxSTX = 3
    MaxPrompts = 2
    Loads = {l1, l2}
    l1 = l1
    MaxVersion = 2
    MaxFaults = 2
    Scopes <- AllScopes
INVARIANTS
    DashboardTypeOK
    OwnOrders
    FormTypeOK
    VerifiedUnlessLate
    AmountsFaithful
PROPERTIES
    NeverStepsBack
    HistoryCatchesUp
CHECK_DEADLOCK FALSE
