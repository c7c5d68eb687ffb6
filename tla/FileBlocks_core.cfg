SPECIFICATION Spec
CONSTANTS
    f1 = f1
    f2 = f2
    Files = {f1, f2}
    NDirect = 1
    NIndirect = 2
    MaxBlocks = 6
    Starts = {0, 3, 6, 9, 10}
    Bufs <- Texts
    MaxCommands = 4
SYMMETRY Symmetry
INVARIANTS TypeOK BlocksOwnedOnce ReadsBack RemoveFreesAll
CHECK_DEADLOCK FALSE
