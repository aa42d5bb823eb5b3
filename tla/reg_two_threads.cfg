CONSTANTS
    Threads = {t1, t2}
    Names = {n1, n2}
    MaxIds = 3
    None = None
SPECIFICATION Spec
CHECK_DEADLOCK FALSE
INVARIANTS IdsNameOneService
