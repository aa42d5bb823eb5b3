CONSTANTS
    Keys = {k1}
    Values = {v1}
    Txns = {x1}
    Levels = {"READ_COMMITTED", "SERIALIZABLE"}
    None = None
    Corrupt = Corrupt
    MaxLog = 2
    MaxBegins = 1
    MaxCrashes = 1
    MaxFaults = 0
    MaxCheckpoints = 0
SPECIFICATION Spec
CHECK_DEADLOCK FALSE
INVARIANTS DurableWrites
