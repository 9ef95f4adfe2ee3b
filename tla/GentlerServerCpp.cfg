CONSTANTS
    Goals = {g1, g2, g3}
    PreemptActiveGoal = TRUE
    None = None
    Timeouts <- MCTimeouts
    LongAgo = 1
SPECIFICATION Spec
CHECK_DEADLOCK FALSE
INVARIANT ServerTypeOK
INVARIANT OneLoopRuns
PROPERTY ReplacedGoalsEnd
PROPERTY CppGoalsFollowTheirLifecycle
PROPERTY UndisturbedWaitsAreWhole
