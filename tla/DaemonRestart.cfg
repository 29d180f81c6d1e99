SPECIFICATION FairSpec
CONSTANTS
    MaxCmd = 2
    MaxFaults = 0
    Paced = TRUE
    Prompt = TRUE
    MayLinger = TRUE
PROPERTIES
    RestartIsTheRemedy
CHECK_DEADLOCK FALSE
