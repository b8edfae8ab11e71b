SPECIFICATION EitherSpec
CONSTANTS
    NumActors = 2
    Creatable <- MCCreatable
    Granularity = 1
    Minter = 1
    Founders = {1}
    Addresses <- MCMixed
    Operators <- MCOperators
    Amounts = {1}
    MaxSupply = 1
    MaxAllowance = 1
    MaxDepth = 2
INVARIANTS
    SupplyIsSumOfBalances
    ReplyIsCurrent
PROPERTIES
    DebitIsAuthorised
    ImplementsLedger
