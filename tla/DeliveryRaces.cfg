SPECIFICATION FairSpec
CONSTANTS
    c1 = c1  f1 = f1  k1 = k1
    p1 = p1  p2 = p2  q1 = q1
    Whole = Whole  NoPublisher = NoPublisher
    Targets <- OneTarget
    ChunkOf <- OneChunk
    Commands = {c1}
    Fixtures = {f1}
    Chunks = {k1}
    MeshCommands = {}
    SetPublishers = {p1, p2}
    GetPublishers = {q1}
    Epoch = FALSE
    MaxAttempts = 2
    MaxChecks = 1
    MaxSetEvents = 0
    MaxCheckEvents = 0
    MaxFaults = 1
INVARIANTS
    UndeliveredIsUnsent
PROPERTIES
    SetsAreFenced
    DispatchesConclude
CHECK_DEADLOCK FALSE
