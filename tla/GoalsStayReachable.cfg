SPECIFICATION BTSpec
CONSTANTS
    Uuids = {u1}
    Names = {n1}
    MissionTimeouts <- MCMissionTimeouts
    DefaultTimeout <- MCDefaultTimeout
    RefusedTimeouts = {}
    LivelinessTimeout = 0
    ParamsGiven = {TRUE}
    Commands = {"complete"}
    None = None
    Unparsable = Unparsable
    MaxTime = 1
    MaxTasks = 1
    MaxStarts = 1
    Emergency = Emergency
    GetReady = GetReady
    HealthTimeout = 0
PROPERTY
    GoalsStayReachable
CHECK_DEADLOCK FALSE
