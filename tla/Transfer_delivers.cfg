SPECIFICATION FairSpec
CONSTANTS
    s1 = s1  s2 = s2  d1 = d1  d2 = d2  d3 = d3
    Scanners <- OneScanner
    Docs = {d1, d2, d3}
    Size <- WithSmall
    MaxMessageSize = 2
    InitialQueue = "absent"
    Faults = {"receiveTimeout", "acceptTimeout", "lockLost", "stop"}
    MaxStarts <- CentralTwice
    NoDoc = NoDoc
INVARIANTS ReceivedHasNumber
PROPERTIES Delivers QueueDrains SentIsSaved
CHECK_DEADLOCK FALSE
