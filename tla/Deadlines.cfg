SPECIFICATION Spec
CONSTANTS
    Window = 5
    Guard = 1
    StatusDeadline = 15
    CommandTimeout = 4
    Offsets <- AnySkew
    TimeChecks = {"proof", "wall"}
    Horizon = 12
    Never = Never
INVARIANTS
    WritesInWindow
    AdapterStartsInWindow
    WritesEndWithCall
PROPERTIES
    AcceptanceTimeoutIsQuiet
CHECK_DEADLOCK FALSE
