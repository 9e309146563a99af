CONSTANTS
    IvlOptions <- MCIvlOptions
    MaxConnects = 4
SPECIFICATION Spec
INVARIANT TypeOK
INVARIANT NoContractViolation
INVARIANT SocketExclusive
INVARIANT StatsWhileRunning
INVARIANT ConnectionCountedOnce
PROPERTY LostConnectionRetried
PROPERTY StopCompletes
