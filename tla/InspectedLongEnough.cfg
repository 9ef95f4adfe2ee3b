CONSTANTS
    MaxOwed = 1
    InspectTimeout = 2
    PatrolTimeout = 3
    NotStarted = None
SPECIFICATION ProxOpsSpec
CHECK_DEADLOCK FALSE
INVARIANT InspectedLongEnough
