SPECIFICATION Spec
CONSTANTS
    a = a
    b = b
    Task = {k1, k2, k3}
    Client = {a, b}
    Worker = {w1, w2}
    Casts <- SafeCasts
    Timed = {b}
    Counts = {0, 1, 2}
CHECK_DEADLOCK FALSE
INVARIANTS
    CountsAgree
    DestroyDrains
PROPERTIES
    EveryTaskRuns
    ResizeReturns
    DoneSeen
