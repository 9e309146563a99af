CONSTANTS
    PeerHdrs <- MCPeerHdrs
    FrameTypes <- MCFrameTypesShmem
    MaxRecv = 4
    MaxSend = 2
    MaxConns = 2
    RaceTimerStop = FALSE
    ShutdownInHandshake = FALSE
SPECIFICATION Spec
INVARIANT NoContractViolation
