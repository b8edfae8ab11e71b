SPECIFICATION Spec
CONSTANTS
    NumActors = 2
    Creatable <- MCCreatable
    Founders = {1}
    Addresses <- MCMixed
    Operators <- MCOperators
    Batches <- MCBatches
    Counts = {1}
    MaxMinted = 2
    MaxDepth = 1
INVARIANTS
    BalancesCountTokens
    ReplyIsCurrent
PROPERTIES
    MoveIsAuthorised
    ImplementsCollection
