SPECIFICATION Spec
CONSTANTS
    NumActors = 2
    Creatable <- MCCreatable
    Granularity = 1
    Minter = 1
    Founders = {1}
    Addresses <- MCMixed
    Operators <- MCOperators
    Amounts = {0, 1}
    MaxSupply = 1
    MaxAllowance = 1
    MaxDepth = 1
INVARIANTS
    InterfaceIsDispatched
