SPECIFICATION Spec
CONSTANTS
    k1 = k1
    k2 = k2
    Sink = {k1, k2}
    Order <- SinkOrder
    Last = 3
    Cuts = {2, 3}
    WriteDepth = 2
    Setups <- AllSetups
    MaxFlips = 2
    MaxFails = 1
CHECK_DEADLOCK FALSE
INVARIANTS
    SinkBounded
    NoFrameLost
    CapAtCut
    

    
