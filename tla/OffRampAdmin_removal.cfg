SPECIFICATION HistorySpec
CONSTANTS
    owner = owner
    a = a
    b = b
    none = none
    Principals <- MCPrincipals
    Candidates <- MCPrincipals
    Owner = owner
    NoPrincipal = none
    AdminTransferDelay = 2
    StartBlocks = {1}
    MaxBlock = 6
PROPERTY RemovalRevokes
