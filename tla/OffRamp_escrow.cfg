SPECIFICATION PrintingSpec
CONSTANTS
    owner = owner
    a = a
    b = b
    contract = contract
    none = none
    token = token
    Principals <- MCPrincipals
    Candidates = {}
    Owner = owner
    NoPrincipal = none
    AdminTransferDelay = 2
    StartBlocks = {1}
    MaxBlock = 3
    Contract = contract
    STX = STX
    Tokens = {token}
    Currencies = {NGN}
    MCBalance = 6
    InitialStx <- MCInitialStx
    Amounts = {1, 2, 4}
    Gifts = {}
    Defaults <- MCDefaults
    Settings <- EscrowSettings
    FeeDenominator = 4
    MaxFeeRate = 2
    DayBlocks = 2
    MaxUserOrders = 2
    MaxBatch = 3
    MaxOrders = 2
SYMMETRY MCSymmetry
VIEW vars
INVARIANTS
    TypeOK
    EscrowExact
    Solvent
    EscrowAccounted
    NetPositive
    CustomersMadeWhole
    BatchOrderIrrelevant
    NeverStuck
PROPERTIES
    TermsFixed
    FollowsLifecycle
    FollowsEvents
