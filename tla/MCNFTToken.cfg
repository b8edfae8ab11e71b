SPECIFICATION Spec
CONSTANTS
    NumActors = 2
    Creatable <- MCCreatable
    Populations <- MCWithoutTwo
    Addresses <- MCAddresses
    Batches <- MCBatches
    Counts = {0, 1, 2}
    MaxMinted = 2
INVARIANTS
    TypeOK
    BalancesCountTokens
    BurntStaysBurnt
PROPERTIES
    FailedCallChangesNothing
    ApprovalsAreTheOwners
    NoEntryLeftEmpty
