SPECIFICATION Spec
CONSTANTS
    owner = owner
    a = a
    b = b
    contract = contract
    none = none
    token = token
    Principals <- MCPrincipals
    Candidates = {}
    Owner = owner
    NoPrincipal = none
    AdminTransferDelay = 2
    StartBlocks = {1}
    MaxBlock = 1
    Contract = contract
    STX = STX
    Tokens = {token}
    Currencies = {NGN}
    MCBalance = 3
    InitialStx <- MCInitialStx
    Amounts = {2, 3}
    Gifts = {1}
    Defaults <- TokenDefaults
    Settings <- NoSettings
    FeeDenominator = 4
    MaxFeeRate = 2
    DayBlocks = 2
    MaxUserOrders = 2
    MaxBatch = 3
    MaxOrders = 3
INVARIANTS
    PendingCanBeCancelled
