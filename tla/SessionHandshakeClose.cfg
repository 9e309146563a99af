CONSTANTS
    PeerHdrs <- MCPeerHdrs
    FrameTypes <- MCFrameTypes
    MaxRecv = 4
    MaxSend = 2
    MaxConns = 2
    RaceTimerStop = FALSE
    ShutdownInHandshake = TRUE
SPECIFICATION Spec
INVARIANT NoContractViolation
