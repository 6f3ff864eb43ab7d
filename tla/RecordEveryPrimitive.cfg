SPECIFICATION PatientSpec
CONSTANTS
    Primitives <- InsertionPrimitives
    Edges <- InsertionEdges
    Origins <- InsertionOrigins
    Start = "approach"
    ResetPrimitive = "home"
    Terminals = {"done"}
    PublishesOrigin = TRUE
    NoPrimitive = "none"
    NoContext = NoContext
    MaxSteps = 6
    Recorded <- InsertionRecorded
    Modes <- Demonstrations
    OperatorEvents = {}
    NumEpisodes = 2
    MaxLoopSteps = 4
PROPERTY EveryPrimitiveRecorded
CHECK_DEADLOCK FALSE
