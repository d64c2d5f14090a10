SPECIFICATION Spec
CONSTANTS
    s1 = s1  s2 = s2  d1 = d1  d2 = d2  d3 = d3
    Scanners <- OneScanner
    Docs = {d1}
    Size <- OneLarge
    MaxMessageSize = 2
    InitialQueue = "sessions"
    Faults = {"receiveTimeout"}
    MaxStarts <- StartedOnce
    NoDoc = NoDoc
INVARIANTS FilesAreWhole
CHECK_DEADLOCK FALSE
