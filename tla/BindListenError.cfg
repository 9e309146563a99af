SPECIFICATION Spec
CONSTANTS
    Slots <- MCSlots
    ListenOutcomes <- MCListenUnlinkError
    MaxAccepts = 3
    MaxAcceptErrors = 1
INVARIANT NoContractViolation
