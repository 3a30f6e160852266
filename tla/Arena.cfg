SPECIFICATION Spec
CONSTANTS
    Blocks = {b1, b2, b3}
    NULL = NULL
    MinBlock = 6
    Align = 2
    MaxSize = 7
    MaxMarks = 2
SYMMETRY MCSymmetry
INVARIANTS
    ChainSound NoOverlap
