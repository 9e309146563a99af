SPECIFICATION Spec
CONSTANTS
    Slots <- MCSlots
    ListenOutcomes <- MCListenOk
    MaxAccepts = 3
    MaxAcceptErrors = 1
INVARIANTS
    TypeOK
    NoContractViolation
    ListenerAccepting
    SocketExclusive
    ConnectionCountedOnce
PROPERTIES
    StopCompletes
    FailedConnectionFreed
    ArtipcImplementsLifecycle
