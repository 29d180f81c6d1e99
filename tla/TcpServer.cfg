SPECIFICATION FairSpec
CONSTANTS
    MaxConnection = 2
    BufferLength = 2
    MaxClients = 3
INVARIANTS
    TypeOK
    SocketsOwned
    SelectSafe
    EveryClientPolled
PROPERTIES
    AskedIsServed
CHECK_DEADLOCK FALSE
