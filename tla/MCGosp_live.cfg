CONSTANTS
    Workers = {w1, w2}
    Pages = {p1}
    Pids = {s1}
    MaxEdits = 1
    Faults = {"crash", "error", "idle_exit", "slow_start", "slow_reply", "delete"}
    TimedLock = FALSE
    None = None
    Stale = Stale
SPECIFICATION FairSpec
PROPERTIES RequestsFinish
