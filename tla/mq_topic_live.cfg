CONSTANTS
    Producers = {p1}
    Consumers = {c1, c2}
    Topics = {t1, t2}
    Priorities = {0}
    Guarantees = {"AT_LEAST_ONCE"}
    RetryLimits = {3}
    Orderings = {"FIFO"}
    MaxMessages = 1
    MaxRejects = 0
    None = None
SPECIFICATION FairSpec
PROPERTIES EventuallyHandled
