SPECIFICATION Spec
CONSTANTS
    s1 = s1
    s2 = s2
    w = w
    Source = {s1, s2}
    Ports <- PortList
    Worker = w
    Casts <- SeekCast
    Depths = {1, 2}
    Starts <- MixedDepths
    Last = 1
    MaxCalls <- CallBound
CHECK_DEADLOCK FALSE
INVARIANT
    SeekClearsEnd
