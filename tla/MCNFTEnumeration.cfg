SPECIFICATION Spec
CONSTANTS
    NumActors = 3
    Creatable = {}
    Starts <- MCStarts
    Subjects <- MCSubjects
    Limits = {1, 2, 3}
    Batches <- MCBatches
    MaxWrites = 3
    U64 = 16
    USIZE = 4
CHECK_DEADLOCK FALSE
INVARIANTS
    ListingIsExact
PROPERTIES
    EnumerationEnds
