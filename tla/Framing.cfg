CONSTANTS
    ByteBase = 2
    LenBytes = 2
    SizeBytes = 2
    Messages <- MCMessages
    MaxMsgs = 4
SPECIFICATION Spec
INVARIANT FrameRoundTrip
PROPERTY FrameArrives
