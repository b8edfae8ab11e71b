SPECIFICATION FailureSpec
CONSTANTS
    MaxCalls = 4
INVARIANTS RefusalReachesCaller CodeNamesTheCause
PROPERTY FailureIsReported
