SPECIFICATION Spec
CONSTANTS
    Task = {k1, k2, k3}
    NoTask = NoTask
    Caller = {c1, c2}
    Worker = {w1, w2}
INVARIANTS
    MutualExclusion
    NoLostTask
PROPERTIES
    IdleMeansQuiescent
    WaitReturns
    StrandRefinement
