SPECIFICATION Spec
CONSTANTS
    Window = 5
    Guard = 1
    StatusDeadline = 15
    CommandTimeout = 4
    Offsets <- AnySkew
    TimeChecks = {"ttl"}
    Horizon = 24
    Never = Never
INVARIANTS
    StatusDeadlineIsKept
CHECK_DEADLOCK FALSE
