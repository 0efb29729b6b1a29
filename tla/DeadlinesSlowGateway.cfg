SPECIFICATION Spec
CONSTANTS
    Window = 5
    Guard = 1
    StatusDeadline = 15
    CommandTimeout = 4
    Offsets <- SmallSkew
    TimeChecks = {"wall"}
    Horizon = 12
    Never = Never
INVARIANTS
    SlowGatewayStopsAtDeadline
CHECK_DEADLOCK FALSE
