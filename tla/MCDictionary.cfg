SPECIFICATION Spec
CONSTANTS
    Word <- MCWord
    Cut <- MCCut
INVARIANTS
    TypeOK
    ListStrictlySorted
PROPERTY ImplementsWordSet
