SPECIFICATION ScopedSpec
CONSTANTS
    owner = owner
    a = a
    b = b
    contract = contract
    none = none
    token = token
    Principals <- MCPrincipals
    Candidates <- MCPrincipals
    Owner = owner
    NoPrincipal = none
    AdminTransferDelay = 2
    StartBlocks = {0, 5}
    MaxBlock = 9
    Contract = contract
    STX = STX
    Tokens = {token}
    Currencies = {NGN}
    MCBalance = 10
    InitialStx <- MCInitialStx
    Amounts = {1, 3}
    Gifts = {4}
    Defaults <- LimitDefaults
    Settings <- LimitSettings
    FeeDenominator = 4
    MaxFeeRate = 2
    DayBlocks = 2
    MaxUserOrders = 4
    MaxBatch = 3
    MaxOrders = 5
INVARIANTS
    AdminTypeOK
    CountBounded
    IndexComplete
    VolumeExact
    TwoLimitsPerDay
PROPERTIES
    TimelockServed
    CooldownServed
