SPECIFICATION Spec
CONSTANTS
    SigNo = {1, 2}
    Mask <- MasksSelf
    MaxSignals <- One
    MaxCalls <- One
    MaxFlushes = 0
    GuestUses <- ResettingGuest
CHECK_DEADLOCK FALSE
INVARIANT NoSelfDeadlock
