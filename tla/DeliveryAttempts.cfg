SPECIFICATION Spec
CONSTANTS
    c1 = c1  f1 = f1  k1 = k1
    p1 = p1  p2 = p2  q1 = q1
    Whole = Whole  NoPublisher = NoPublisher
    Targets <- OneTarget
    ChunkOf <- OneChunk
    Commands = {c1}
    Fixtures = {f1}
    Chunks = {k1}
    MeshCommands = {c1}
    SetPublishers = {p1}
    GetPublishers = {q1}
    Epoch = TRUE
    MaxAttempts = 1
    MaxChecks = 2
    MaxSetEvents = 1
    MaxCheckEvents = 1
    MaxFaults = 0
INVARIANTS
    TypeOK
    OutcomeExplained
    AttemptsAreSequential
PROPERTIES
    ImplementsContract
CHECK_DEADLOCK FALSE
