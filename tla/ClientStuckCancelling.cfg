SPECIFICATION FairProtocolSpec
CONSTANTS
    MaxGoals = 2
    Goals <- MCGoals
    MaxCancels = 1
    None = None
    Raising = {FALSE}
PROPERTIES
    CancellingEnds
CHECK_DEADLOCK FALSE
