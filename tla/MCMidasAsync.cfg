SPECIFICATION FairSpec
CONSTANTS
    Word <- MCOneWord
    Cut <- MCCut
    ListWord = 1
    MaxReq = 2
    ReceptionLength = 5
    BufferLength = 2
    PipeSize = 5
    AllocMayFail = TRUE
    MayCrash = TRUE
    Timely = FALSE
INVARIANTS
    BufferFromOneFrontEnd
    ReplyRouting
    IntactRequests
    ExecutedAtMostOnce
PROPERTIES
    KeepsPromise
    AttendedAreServed
CHECK_DEADLOCK FALSE
