SPECIFICATION Spec
CONSTANTS
    Letter = {2, 3, 4, 5}
    MaxWords = 4
    BufferLength = 7
INVARIANTS
    TypeOK
    PrintsOnlyTheList
    ListedIsWhole
PROPERTIES
    ListEndsOnceRead
CHECK_DEADLOCK FALSE
