SPECIFICATION Spec
CONSTANTS
    x = x
    y = y
    Names = {n1, n2, n3}
    Data <- MCData
    Texts <- MCTexts
    Chunk = 1
    NumInodes = 2
    NumHandles = 2
    MaxSize = 3
    Faults = {"create", "delete", "full", "save", "crash"}
    Absent = Absent
    Closed = Closed
INVARIANTS
    SaysTheTruth
    HandlesReleased
    MoveKeepsText
SYMMETRY MCSymmetry
