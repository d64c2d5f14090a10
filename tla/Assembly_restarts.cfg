SPECIFICATION Spec
CONSTANTS
    p1 = p1  p2 = p2  p3 = p3  p5 = p5  sep = sep  odd = odd  bad = bad  memo = memo  photo = photo
    Files = {p2, p3, p5, memo, photo}
    Named = {p2, p3, p5}
    Number <- NumberOf
    Code <- CodeOf
    NoFile = NoFile
    Conditions = {"timeout", "overflow", "stop"}
    MaxStarts = 2
INVARIANTS TypeOK AssemblyInv NoPageTwice JumpOnlyAfterFirstPage
PROPERTIES SplitsOnlyAtJump Assembles
CHECK_DEADLOCK FALSE
