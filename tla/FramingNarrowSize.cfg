CONSTANTS
    ByteBase = 2
    LenBytes = 2
    SizeBytes = 1
    Messages <- MCMessages
    MaxMsgs = 3
SPECIFICATION Spec
INVARIANT FrameRoundTrip
