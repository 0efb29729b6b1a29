SPECIFICATION Spec
CONSTANTS
    s1 = s1  s2 = s2  k1 = k1  g1 = g1
    NoGroup = NoGroup  NoDelivery = NoDelivery
    Sets = {s1}
    Gets = {k1}
    Groups = {g1}
    GroupOf <- NoGroups
    Copies <- OneOfEach
    OutboxCanFill = TRUE
    MaxDrops = 1
    MaxCrashes = 1
INVARIANTS
    ChecksReleaseIntake
    SharersHaveOwner
    PubackIsDurable
PROPERTIES
    ImplementsContract
CHECK_DEADLOCK FALSE
