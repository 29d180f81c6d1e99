SPECIFICATION Spec
CONSTANTS
    Letter = {2, 3, 4, 5}
    MaxWords = 4
    BufferLength = 7
PROPERTIES
    ListEnds
CHECK_DEADLOCK FALSE
