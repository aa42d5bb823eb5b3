CONSTANTS
    Connections = {i1, i2}
    Mute = {i2}
    Handlers = {h1}
    None = None
    MaxStarts = 2
    MaxReuse = 1
    Callers = {c1, c2, c3}
    FailureThreshold = 2
    TimeoutMs = 2
    Names = {n1, n2}
    Methods = {"GET"}
    Versions = {"HTTP/1.1"}
    Blank = Blank
    MaxLines = 4
    MaxBody = 1
    MaxAdded = 1
    HeaderLengths = {3}
    MessageLengths = {2, 241}
SPECIFICATION MCSpec
CHECK_DEADLOCK FALSE
INVARIANTS ComponentsTypeOK ClosedBelowThreshold HalfOpenMeansRested AllHeadersOrNone SentHeadersAreFound SerializedWhole
PROPERTIES NothingAcceptedAfterStop StopReturns ConnectionsAreClosed NoCallWhileTripped TripEnds
