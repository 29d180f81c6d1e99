SPECIFICATION Spec
CONSTANTS
    Word <- MCWord
    Cut <- MCCut
    ListWord = 2
    MaxReq = 3
    ReceptionLength = 8
    BufferLength = 5
    PipeSize = 16
    AllocMayFail = TRUE
    MayCrash = TRUE
    Timely = TRUE
INVARIANTS
    TypeOK
    AnswerIsOwn
    AnswersAreTruthful
    AddedOnce
    ErrorsAreEarned
CHECK_DEADLOCK FALSE
