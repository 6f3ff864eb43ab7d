SPECIFICATION FairSpec
CONSTANTS
    Primitives <- ParkingPrimitives
    Edges <- ParkingEdges
    Origins <- ParkingOrigins
    Start = "approach"
    ResetPrimitive = "park"
    Terminals = {"done"}
    PublishesOrigin = TRUE
    NoPrimitive = "none"
    NoContext = NoContext
    MaxSteps = 6
PROPERTIES
    ResetTerminates
