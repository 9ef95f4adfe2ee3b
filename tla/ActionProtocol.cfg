SPECIFICATION FairProtocolSpec
CONSTANTS
    MaxGoals = 2
    Goals <- MCGoals
    MaxCancels = 1
    None = None
    Raising = {FALSE}
INVARIANTS
    ProtocolTypeOK
    PatientClientIsDoneTruly
    PatientClientIsAlone
PROPERTIES
    OutcomeIsTold
CHECK_DEADLOCK FALSE
