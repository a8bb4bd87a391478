SPECIFICATION Spec
CONSTANTS
    TickMs = 100
    MaxNow = 800
    Params <- MCParams
    ClockSteps <- ForwardSteps
    Requeues = TRUE
CHECK_DEADLOCK FALSE
INVARIANTS
    ValueInRange
    NeverUnderbilled
