CONSTANTS
    Threads = {t1, t2}
    Modulus = 16
    Initial = {0}
    Deltas = {5}
    MaxCalls = 2
    None = None
SPECIFICATION Spec
CHECK_DEADLOCK FALSE
INVARIANTS EveryCallCounts
