SPECIFICATION Spec
CONSTANTS
    p1 = p1  p2 = p2  p3 = p3  p5 = p5  sep = sep  odd = odd  bad = bad  memo = memo  photo = photo
    Files = {p1, p2, p5}
    Named = {p1, p2, p5}
    Number <- NumberOf
    Code <- CodeOf
    NoFile = NoFile
    Conditions = {"timeout"}
    MaxStarts = 1
INVARIANTS DocumentsAreConsecutive
CHECK_DEADLOCK FALSE
