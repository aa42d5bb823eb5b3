CONSTANTS
    Keys = {k1, k2}
    Values = {v1, v2}
    Ttls = {0, 1}
    MaxSize = 3
    Policies = {"LRU", "LFU"}
    MaxAccess = 1
    MaxSteps = 1
    None = None
    Clients = {c1, c2}
    Blocks = {b1, b2, b3}
    MaxHandles = 3
    Threads = {t1, t2}
    Modulus = 16
    Initial = {0, 14}
    Deltas = {5}
    MaxCalls = 3
    Objects = {o1, o2, o3}
    Fds = {3, 4}
    MaxCode = 620
    Limited = {a}
    MaxRequests = 2
    WindowMs = 2
    MaxTime = 7
    Registrars = {r1}
    Names = {n1, n2}
    MaxIds = 5
    MaxRetries = 3
    InitialDelay = 3
    Backoff = 2
    DelayRange = 16
    UserNames = {"", "ann", "longer than 127 bytes"}
    EmptyNames = {""}
    LongNames = {"longer than 127 bytes"}
    NotANumber = NotANumber
    TokenTtls = {0, 1, 2, 4, 5}
    SecondMs = 4
    WordRange = 16
    Gauges = {0, 10}
    Unit = 1
    Overhead = 6
    BufferSize = 22
    MaxValue = 10
SPECIFICATION MCSpec
SYMMETRY DataSymmetry
CHECK_DEADLOCK FALSE
INVARIANTS ComponentsTypeOK Coherent LastPutWins ListIsByRecency SomeCallsCount NobodysDescriptorClosed CategoriesAgree AtMostTwoWindowfuls NoneRefusedBelowLimit CopyMeansItsService RetryContract ValidForTtl ExportedOrOverrun
