CONSTANTS
    Producers = {p1, p2}
    Consumers = {c1, c2}
    Topics = {t1, t2}
    Priorities = {0, 1}
    Guarantees = {"AT_LEAST_ONCE"}
    RetryLimits = {3}
    Orderings = {"FIFO", "PRIORITY"}
    MaxMessages = 2
    MaxRejects = 1
    None = None
SPECIFICATION Spec
SYMMETRY ThreadSymmetry
INVARIANTS TypeOK ExactlyOnePlace StopNotLost SleepersWereToldOfPublish NoUseAfterFree StatsAddUp
PROPERTIES OvertakenOnlyOnceTaken ImplementsDelivery
