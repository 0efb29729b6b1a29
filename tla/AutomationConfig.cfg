SPECIFICATION FairSpec
CONSTANTS
    p1 = p1
    NoPublisher = NoPublisher
    Publishers = {p1}
    MaxRevision = 2
    MaxFaults = 2
INVARIANTS
    AppliedIsHeld
    StatusIsHonest
PROPERTIES
    ImplementsContract
    ChangesSettle
CHECK_DEADLOCK FALSE
