SPECIFICATION ProgramsSpec
CONSTANTS
    Primitives <- InsertionPrimitives
    Edges <- InsertionEdges
    Origins <- InsertionOrigins
    Start = "approach"
    ResetPrimitive = "home"
    Terminals = {"done"}
    PublishesOrigin = TRUE
    NoPrimitive = "none"
    NoContext = NoContext
    MaxSteps = 6
    Recorded <- InsertionRecorded
    Modes <- AllModes
    OperatorEvents = {"STOP_RECORDING", "RERECORD_EPISODE", "FAILURE"}
    NumEpisodes = 2
    MaxLoopSteps = 4
INVARIANTS
    TypeOK
    TerminalNeverStepped
    TimeLimitHonoured
    LiveFrame
    EpisodesWhole
    HeldWhileSaving
PROPERTIES
    CleanStart
    WalksGraph
    ResetTerminates
