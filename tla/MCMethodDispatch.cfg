SPECIFICATION DispatchSpec
CONSTANTS
    Names <- MCNames
    CONSTRUCTOR_METHOD_NAME <- Ctor
    Digests <- MCDigests
    Bodies <- MCBodies
    Numbers <- MCNumbers
INVARIANTS ReservedNumbersRunNothing
\* An actor with a name that has no number is never built.
CHECK_DEADLOCK FALSE
