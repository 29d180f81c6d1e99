SPECIFICATION Spec
CONSTANTS
    Word <- MCOneWord
    Cut <- MCCut
    ListWord = 1
    MaxReq = 2
    ReceptionLength = 8
    BufferLength = 5
    PipeSize = 16
    AllocMayFail = FALSE
    MayCrash = FALSE
    Timely = FALSE
INVARIANTS
    IdleCoreWatchesBoth
CHECK_DEADLOCK FALSE
