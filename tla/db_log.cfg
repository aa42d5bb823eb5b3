CONSTANTS
    Keys = {k1, k2}
    Values = {v1}
    Txns = {x1}
    Levels = {"SERIALIZABLE"}
    None = None
    Corrupt = Corrupt
    MaxLog = 2
    MaxBegins = 1
    MaxCrashes = 2
    MaxFaults = 2
    MaxCheckpoints = 1
SPECIFICATION Spec
CHECK_DEADLOCK FALSE
SYMMETRY DataSymmetry
VIEW LogView
INVARIANTS TypeOK LogRestoresTable DurableIfLogged
