SPECIFICATION Spec
CONSTANTS
    x = x
    y = y
    z = z
    None = None
    Threads = {t1, t2}
    Data = {d1, d2, d3, d4}
    Names = {x, y, z}
    Sizes = {1, 2}
    Bucket <- Colliding
    CacheSize = 4
    MaxChanges = 1
SYMMETRY Symmetry
INVARIANTS TypeOK TableMatchesLRU OneCopyPerName SpaceAccounted  
PROPERTIES ImplementsLRU
CHECK_DEADLOCK FALSE
