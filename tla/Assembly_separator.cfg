SPECIFICATION Spec
CONSTANTS
    p1 = p1  p2 = p2  p3 = p3  p5 = p5  sep = sep  odd = odd  bad = bad  memo = memo  photo = photo
    Files = {p1, sep}
    Named = {p1, sep}
    Number <- NumberOf
    Code <- CodeOf
    NoFile = NoFile
    Conditions = {}
    MaxStarts = 1
PROPERTIES KeepsWatching
CHECK_DEADLOCK FALSE
