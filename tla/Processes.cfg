SPECIFICATION ProcessesSpec
CONSTANTS
    Adaptive = {insert, reach}
    insert = insert
    reach = reach
    Warmup = 1
    BufferCapacity = 3
    Budget = 3
    SaveFreq = 2
    MaxTransitions = 3
    MaxCrashes = 1
    Policies <- ReplayPolicies
    OnlineCapacity = 3
    OfflineCapacity = 2
    MaxObservation = 7
    MaxResumes = 2
    None = None
    Frames <- URFrames
    Positions <- ArmPositions
    MinPose = 0
    MaxPose = 3
    MaxStep = 1
    WrenchLimit = 1
    ReferenceLimit = 1
    CommandSlots = 2
    MaxPosition = 2
    GripperSlots = 2
    HRCPoses <- AxisPositions
    HRCFrames <- TwoHRCFrames
    ServoPeriod = 2
    MaxCartesianStep = 1
    Requests = {1, 2}
    MaxPresses = 2
    MaxPulses = 2
    MaxWaiting = 2
INVARIANTS
    UpdatesBackedAcrossRestarts
    LastIsComplete
    FinishedIsSaved
    CrashLosesLittle
    SuccessorFollows
    OfflineSuccessorFollows
    NewestCorrectionsKept
    OneMotionLive
    StopIsNotUnexpected
    GoalFollowsTarget
    PortsExclusive
    BurstBounded
    NoLiveProcessLost
    TapsReported
    ActsOnce
PROPERTIES
    ServoContinuous
    WrenchPointsInward
    SetpointNearArm
SYMMETRY Primitives
CHECK_DEADLOCK FALSE
