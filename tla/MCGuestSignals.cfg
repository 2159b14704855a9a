SPECIFICATION Spec
CONSTANTS
    SigNo = {1, 2}
    Mask <- Masks
    MaxSignals <- SignalsOf
    MaxCalls <- CallsOf
    MaxFlushes = 1
    GuestUses <- AnyGuest
CHECK_DEADLOCK FALSE
INVARIANTS ChecksHold SingleConsumer NoLostSignal NativeCodeIsClean
 
