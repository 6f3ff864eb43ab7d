SPECIFICATION Spec
CONSTANTS
    Primitives <- InsertionPrimitives
    Edges <- InsertionEdges
    Origins <- InsertionOrigins
    Start = "approach"
    ResetPrimitive = "home"
    Terminals = {"done"}
    PublishesOrigin = FALSE
    NoPrimitive = "none"
    NoContext = NoContext
    MaxSteps = 6
INVARIANTS
    FrameContinuity
