SPECIFICATION Spec
CONSTANTS
    a = a
    b = b
    Task = {k1, k2}
    Client = {a, b}
    Worker = {w1, w2}
    Casts <- RacingCast
    Timed = {}
    Counts = {1, 2}
CHECK_DEADLOCK FALSE
PROPERTIES
    EveryTaskRuns
