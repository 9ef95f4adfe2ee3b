SPECIFICATION FairSpec
CONSTANTS
    Goals = {g1, g2}
    MaxCancels = 2
    None = None
    Raising = {FALSE, TRUE}
INVARIANTS
    TypeOK
    ResultMatchesStatus
    LoopsServeActiveGoals
    OneGoalExecutes
PROPERTIES
    CancelEndsGoal
    GoalsFollowTheirLifecycle
CHECK_DEADLOCK FALSE
