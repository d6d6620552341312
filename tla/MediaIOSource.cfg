SPECIFICATION Spec
CONSTANTS
    s1 = s1
    s2 = s2
    w = w
    Source = {s1, s2}
    Ports <- PortList
    Worker = w
    Casts <- SafeCasts
    Depths = {1, 2}
    Starts <- MixedDepths
    Last = 2
    MaxCalls <- CallBound
CHECK_DEADLOCK FALSE
INVARIANTS
    PendingReadsCounted
    ArmedHeadReady
    ContinuationOnce
PROPERTIES
    VendedInOrder
    NoStaleRead
    
    EveryRequestResolves
