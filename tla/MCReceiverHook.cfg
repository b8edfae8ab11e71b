SPECIFICATION Spec
CONSTANTS
    MaxHooks = 2
INVARIANTS ToldAtMostOnce NobodyForgotten SuccessIsAcceptance
\* A method ends.
CHECK_DEADLOCK FALSE
