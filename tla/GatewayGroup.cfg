SPECIFICATION Spec
CONSTANTS
    c1 = c1  c2 = c2  f1 = f1  f2 = f2  g1 = g1
    NoCommand = NoCommand  NoGroup = NoGroup
    Commands = {c1, c2}
    Fixtures = {f1}
    Groups = {g1}
    Targets <- SharedTargets
    Group <- SameGroup
    Permit = FALSE
    DiskCanFill = FALSE
    MaxDeliveries = 1
    MaxCrashes = 1
INVARIANTS
    DiskOwnershipIsRecoverable
PROPERTIES
    GroupWritesAreSerial
    LiveOwnershipIsKept
CHECK_DEADLOCK FALSE
