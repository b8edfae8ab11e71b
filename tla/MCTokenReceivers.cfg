SPECIFICATION ReceiversSpec
CONSTANTS
    NumActors = 5
    Creatable = {}
    Granularity = 1
    Role <- MCRole
    Actions <- MCActions
    Scripts <- MCScripts
    Payments = {1}
    SupplyBound = 2
INVARIANTS ReceiversOK HookIsFunded OneOperatorOnly ForwardEmpties
PROPERTY EveryMessageEnds
