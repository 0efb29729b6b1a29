SPECIFICATION Spec
CONSTANTS
    s1 = s1  s2 = s2  k1 = k1  g1 = g1
    NoGroup = NoGroup  NoDelivery = NoDelivery
    Sets = {s1, s2}
    Gets = {}
    Groups = {g1}
    GroupOf <- OneGroup
    Copies <- TwoSets
    OutboxCanFill = TRUE
    MaxDrops = 0
    MaxCrashes = 0
INVARIANT
    SetsReleaseIntake
CHECK_DEADLOCK FALSE
