SPECIFICATION BTSpec
CONSTANTS
    Uuids = {u1}
    Names = {n1, GetReady}
    MissionTimeouts <- MCMissionTimeouts
    DefaultTimeout <- MCDefaultTimeout
    RefusedTimeouts = {}
    LivelinessTimeout = 0
    ParamsGiven = {TRUE, FALSE}
    Commands = {"complete"}
    None = None
    Unparsable = Unparsable
    MaxTime = 1
    MaxTasks = 1
    MaxStarts = 1000
    Emergency = Emergency
    GetReady = GetReady
    HealthTimeout = 0
VIEW MCView
CONSTRAINT GetReadyOrTime
INVARIANTS
    BTTypeOK
    OneLeafRuns
PROPERTIES
    UsesTaskHandler
    RunningLeafIsOfTheHead
    EmergencyStopsWork
CHECK_DEADLOCK FALSE
