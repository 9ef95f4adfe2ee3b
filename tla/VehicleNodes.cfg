CONSTANTS
    Polygons <- MCPolygons
    Limits <- MCLimits
    Points <- MCPoints
    Requests <- MCRequests
    NoLimits = NoLimits
    None = None
    MaxPositionAge = 1
    MaxGoals = 2
    MaxSetpointAge = 1
    FutureTolerance = 1
    Essential = "imu"
    Optional = "dvl"
    Interval <- MCInterval
    Window = 2
    SamTimeout = 2
    InitialTimeout = 2
    MaxSuspects = 1
    MaxOwed = 1
    NumRetries = 1
    VultureRanges = 1
    InspectTimeout = 2
    PatrolTimeout = 1
    NotStarted = None
    Goals = {g1, g2}
SPECIFICATION Spec
CHECK_DEADLOCK FALSE
INVARIANT SerialLimitsArePaired
INVARIANT DeadManSwitch
INVARIANT NodesTypeOK
INVARIANT TroubleIsReported
INVARIANT OutcomesAreEarned
INVARIANT TimeoutsStopTheBackend
INVARIANT UndisturbedRecoveriesAreWhole
INVARIANT CancelledAbortsStop
PROPERTY VerdictsAreRight
PROPERTY OnlyInControl
PROPERTY SmoothStart
PROPERTY ErrorIsFinal
