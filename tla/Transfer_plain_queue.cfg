SPECIFICATION Spec
CONSTANTS
    s1 = s1  s2 = s2  d1 = d1  d2 = d2  d3 = d3
    Scanners <- OneScanner
    Docs = {d1}
    Size <- OneLarge
    MaxMessageSize = 2
    InitialQueue = "absent"
    Faults = {}
    MaxStarts <- StartedOnce
    NoDoc = NoDoc
INVARIANTS QueueRequiresSession
CHECK_DEADLOCK FALSE
