SPECIFICATION FairSpec
CONSTANTS
    u1 = u1
    u2 = u2
    Uuids <- MCUuids
    Names = {"move-to"}
    MissionTimeouts <- MCMissionTimeouts
    DefaultTimeout = 1
    RefusedTimeouts = {None, Unparsable}
    LivelinessTimeout = 1
    ParamsGiven = {TRUE}
    Commands = {"complete"}
    None = None
    Unparsable = Unparsable
    MaxTime = 2
    MaxTasks = 2
    MaxStarts = 2
INVARIANTS
    TypeOK
    StoppedTasksLeave
    EmergencyLeavesOnlyOverrunWork
PROPERTIES
    QueueIsFifo
    OverrunIsStopped
\* A callback that raises stops the node.
CHECK_DEADLOCK FALSE
