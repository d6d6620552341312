SPECIFICATION Spec
CONSTANTS
    p1 = p1
    p2 = p2
    c1 = c1
    c2 = c2
    x = x
    Thread = {p1, p2, c1, c2, x}
    Casts <- SafeCasts
    Timed = {p1, c1}
    Caps = {0, 1, 2}
    MaxDepth = 3
INVARIANTS
    NoStarvedThread
PROPERTIES
    EmptySeen
    CancelReleases
