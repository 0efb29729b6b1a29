SPECIFICATION FairSpec
CONSTANTS
    g1 = g1  g2 = g2  n1 = n1  n2 = n2
    Groups = {g1}
    Floors = {}
    Nodes = {n1}
    MaxEvents = 2
    MaxFaults = 0
PROPERTIES
    EditsConverge
CHECK_DEADLOCK FALSE
