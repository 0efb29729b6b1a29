SPECIFICATION FairSpec
CONSTANTS
    g1 = g1  g2 = g2  n1 = n1  n2 = n2
    Groups = {g1, g2}
    Floors = {g2}
    Nodes = {n1}
    MaxEvents = 3
    MaxFaults = 2
INVARIANTS
    TypeOK
    ReadyIsExact
    SettledIsExact
    OfferedIsOwed
    RefusedIsOvertaken
PROPERTIES
    GroupsSettle
    OfferedIsKnown
CHECK_DEADLOCK FALSE
