CONSTANTS
    Workers = {w1, w2}
    Pages = {p1}
    Pids = {s1, s2}
    MaxEdits = 1
    Faults = {}
    TimedLock = TRUE
    None = None
    Stale = Stale
SYMMETRY Symmetric
SPECIFICATION Spec
INVARIANTS OkMeansComplete
