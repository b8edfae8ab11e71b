SPECIFICATION Spec
CONSTANTS
    NumActors = 2
    Creatable = {}
    Granularity = 1
    Minter = 1
    Founders = {1, 2}
    Addresses <- MCIDs
    Operators <- MCIDs
    Amounts = {0, 1}
    MaxSupply = 2
    MaxAllowance = 0
    MaxDepth = 2
INVARIANTS
    TypeOK
    SupplyIsNetIssuance
PROPERTIES
    MinterAuthority
    ImplementsLedger
