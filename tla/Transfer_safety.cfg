SPECIFICATION Spec
CONSTANTS
    s1 = s1  s2 = s2  d1 = d1  d2 = d2  d3 = d3
    Scanners <- TwoScanners
    Docs = {d1, d2}
    Size <- TwoLarge
    MaxMessageSize = 2
    InitialQueue = "absent"
    Faults = {"receiveTimeout", "acceptTimeout", "lockLost", "stop"}
    MaxStarts <- CentralTwice
    NoDoc = NoDoc
INVARIANTS TransferInv TypeOK QueueIsThere BytesAreApart FilesAreSegments NoByteSavedTwice CountedIsWhole WaitsForMore
PROPERTIES NothingIsDropped
CHECK_DEADLOCK FALSE
