SPECIFICATION SystemSpec
CONSTANTS
    owner = owner
    a = a
    b = b
    contract = contract
    none = none
    token = token
    Principals <- MCPrincipals
    Candidates = {}
    Owner = owner
    NoPrincipal = none
    AdminTransferDelay = 2
    StartBlocks = {1}
    MaxBlock = 1
    Contract = contract
    STX = STX
    Tokens = {}
    Currencies = {NGN}
    MCBalance = 4
    InitialStx <- MCInitialStx
    Amounts = {2}
    Gifts = {}
    Defaults <- SystemDefaults
    Settings <- NoSettings
    FeeDenominator = 4
    MaxFeeRate = 2
    DayBlocks = 2
    MaxUserOrders = 2
    MaxBatch = 3
    MaxOrders = 1
    Pollers = {p1}
    Requests = {r1}
    ApiStatuses = {}
    ApiLinks = {}
    Limit = 2
    MaxEvents = 3
    MaxPayouts = 1
    MaxFaults = 0
SYMMETRY MCSymmetry
INVARIANTS
    FundsLocked
CHECK_DEADLOCK FALSE
