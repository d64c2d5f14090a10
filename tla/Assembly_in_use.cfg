SPECIFICATION FairSpec
CONSTANTS
    p1 = p1  p2 = p2  p3 = p3  p5 = p5  sep = sep  odd = odd  bad = bad  memo = memo  photo = photo
    Files = {p1, bad, sep}
    Named = {p1, bad, sep}
    Number <- NumberOf
    Code <- CodeOf
    NoFile = NoFile
    Conditions = {"timeout", "inUse", "stop"}
    MaxStarts = 2
INVARIANTS SuccessIsSent
PROPERTIES WaitingIsWorkedOff
CHECK_DEADLOCK FALSE
