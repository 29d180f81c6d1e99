SPECIFICATION Spec
CONSTANTS
    Word <- MCWord
    Cut <- MCCut
    ListWord = 2
    MaxReq = 2
    ReceptionLength = 8
    BufferLength = 5
    PipeSize = 16
    AllocMayFail = FALSE
    MayCrash = FALSE
    Timely = FALSE
INVARIANTS
    AddedWordIsStored
CHECK_DEADLOCK FALSE
