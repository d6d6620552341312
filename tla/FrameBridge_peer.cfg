SPECIFICATION Spec
CONSTANTS
    i1 = i1
    i2 = i2
    Input = {i1, i2}
    Setups <- AllSetups
    Depth = 2
    Attempts = 2
    MaxFails = 1
CHECK_DEADLOCK FALSE
PROPERTIES
    PeerGoneNoticed
