SPECIFICATION Spec
CONSTANTS
    Names = {"a", "b", "long"}
    EntrySize <- Cells
    NrInodes = 3
    BlockCells = 7
    MaxBlocks = 4
    MaxRefs = 1
INVARIANTS TypeOK TreeSound 
PROPERTIES ImplementsTree
CHECK_DEADLOCK FALSE
