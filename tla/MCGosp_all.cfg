CONSTANTS
    Workers = {w1, w2}
    Pages = {p1}
    Pids = {s1, s2}
    MaxEdits = 1
    Faults = {"crash", "error", "idle_exit", "slow_start", "slow_reply", "hidden_edit", "delete"}
    TimedLock = TRUE
    None = None
    Stale = Stale
SYMMETRY Symmetric
SPECIFICATION Spec
INVARIANTS TypeOK LockDiscipline CompileEconomy AtMostOnce
PROPERTIES NeverRollsBack
