SPECIFICATION Spec
CONSTANTS
    f1 = f1
    f2 = f2
    Files = {f1, f2}
    NDirect = 1
    NIndirect = 2
    MaxBlocks = 8
    Starts = {0, 3, 6, 9, 10}
    Bufs <- Texts
    MaxCommands = 2
SYMMETRY Symmetry
INVARIANTS SparseZeros
CHECK_DEADLOCK FALSE
