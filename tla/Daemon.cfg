SPECIFICATION FairSpec
CONSTANTS
    MaxCmd = 3
    MaxFaults = 1
    Paced = TRUE
    Prompt = FALSE
    MayLinger = TRUE
INVARIANTS
    TypeOK
    OneServes
    LeftoversAreNamed
    StopTellsTheTruth
    KillsItsOwn
    AllOrNothing
PROPERTIES
    RestartServes
CHECK_DEADLOCK FALSE
