SPECIFICATION Spec
CONSTANTS
    NumActors = 2
    Creatable <- MCCreatable
    Granularity = 2
    Populations <- MCAnyPopulation
    Addresses <- Address
    Amounts <- MCAmounts
    MaxSupply = 2
    MaxAllowance = 3
INVARIANTS
    TypeOK
    SupplyIsSumOfBalances
    StateIsCanonical
PROPERTIES
    FailedCallChangesNothing
    DebitIsAuthorised
    AllowanceIsTheOwners
