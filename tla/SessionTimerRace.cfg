CONSTANTS
    PeerHdrs <- MCPeerHdrs
    FrameTypes <- MCFrameTypes
    MaxRecv = 4
    MaxSend = 2
    MaxConns = 2
    RaceTimerStop = TRUE
    ShutdownInHandshake = FALSE
SPECIFICATION Spec
INVARIANT NoContractViolation
