SPECIFICATION Spec
CONSTANTS
    MaxCmd = 2
    MaxFaults = 0
    Paced = FALSE
    Prompt = TRUE
    MayLinger = FALSE
INVARIANTS
    LeftoversAreNamed
CHECK_DEADLOCK FALSE
