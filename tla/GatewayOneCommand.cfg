SPECIFICATION FairSpec
CONSTANTS
    c1 = c1  c2 = c2  f1 = f1  f2 = f2  g1 = g1
    NoCommand = NoCommand  NoGroup = NoGroup
    Commands = {c1}
    Fixtures = {f1, f2}
    Groups = {}
    Targets <- OneTarget
    Group <- OneGroup
    Permit = TRUE
    DiskCanFill = TRUE
    MaxDeliveries = 2
    MaxCrashes = 2
INVARIANTS
    TypeOK
    SingleExecution
    AckMatchesJournal
    PubackIsDurable
    AbortReleasesOwnership
    OwnershipIsReleasable
PROPERTIES
    WritesAreRecorded
    ResultIsFinal
    ImplementsContract
    RecoverySettles
    DeliveriesDrain
CHECK_DEADLOCK FALSE
