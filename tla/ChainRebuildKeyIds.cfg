SPECIFICATION Spec
CONSTANTS
    Names = {n1, n2}
    KeyIds = {k1, k2}
    NoId = NoId
    MaxPool = 1
SYMMETRY Symmetry
CHECK_DEADLOCK FALSE
INVARIANTS
    KeyIdsAgree
