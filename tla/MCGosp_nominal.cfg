CONSTANTS
    Workers = {w1, w2}
    Pages = {p1}
    Pids = {s1, s2}
    MaxEdits = 2
    Faults = {"crash", "idle_exit", "hidden_edit"}
    TimedLock = TRUE
    None = None
    Stale = Stale
SYMMETRY Symmetric
SPECIFICATION Spec
INVARIANTS OneServer ServerCurrent KilledMeansGone
PROPERTIES ImplementsService
