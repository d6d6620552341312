SPECIFICATION Spec
CONSTANTS
    s1 = s1
    s2 = s2
    s3 = s3
    Stage = {s1, s2, s3}
    Setups <- AllSetups
    Frames = 3
    Depth = 2
    MaxFails = 1
CHECK_DEADLOCK FALSE
INVARIANTS
    AwaitedExactly
    ClosedAfterAll
    SourceDrained
    ErrorMeansUnclean
PROPERTIES
    CloseEnds
