CONSTANTS
    PeerHdrs <- MCPeerHdrs
    FrameTypes <- MCFrameTypes
    MaxRecv = 4
    MaxSend = 2
    MaxConns = 3
    RaceTimerStop = FALSE
    ShutdownInHandshake = FALSE
SPECIFICATION Spec
INVARIANT TypeOK
INVARIANT NoContractViolation
INVARIANT UsockOwnership
INVARIANT HandshakeSound
INVARIANT PipeAccounting
INVARIANT PipeOnlyWhileActive
PROPERTY StopCompletes
PROPERTY HandshakeEnds
PROPERTY SrtipcImplementsLifecycle
PROPERTY StreamhdrImplementsLifecycle
