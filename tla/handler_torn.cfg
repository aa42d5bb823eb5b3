CONSTANTS
    Connections = {i1}
    Mute = {}
    Handlers = {h1}
    None = None
    MaxStarts = 1
    MaxReuse = 0
SPECIFICATION Spec
CHECK_DEADLOCK FALSE
INVARIANTS HandlerGetsItsData
