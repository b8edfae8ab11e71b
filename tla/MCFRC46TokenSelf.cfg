SPECIFICATION Spec
CONSTANTS
    NumActors = 2
    Creatable <- MCCreatable
    Granularity = 2
    Populations <- MCAnyPopulation
    Addresses <- Address
    Amounts <- MCAmounts
    MaxSupply = 2
    MaxAllowance = 2
INVARIANTS
    NoAllowanceToSelf
