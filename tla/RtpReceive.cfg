SPECIFICATION Spec
CONSTANTS
    first = first
    second = second
    Ssrc = {first, second}
    SeqMod = 32
    MaxDropout = 16
    MaxMisorder = 4
    MaxWindow = 2
    DebounceCount = 2
    DebounceWindow = 0
    Setups <- AllSetups
    MaxSent = 4
    Reach = 2
    MaxTicks = 1
CHECK_DEADLOCK FALSE
INVARIANTS
    
    
    GapsHaveReason
    NothingDeliverableHeld
    OneSource
    HighestTrue
