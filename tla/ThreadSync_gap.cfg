SPECIFICATION SyncSpec
CONSTANTS
    Addr = {a0, a1, a2}
    Main = a0
    MaxThreads = 3
    Locks = {l1}
    CVs = {cv1}
    Queues = {l1, cv1}
    None = None
    MaxSize = 3
    Disciplined = TRUE
    Preemptive = TRUE
    Calls = {"create", "acquire", "release", "cv_wait", "cv_signal"}
SYMMETRY Symmetry
INVARIANTS WaitIsAtomic
CHECK_DEADLOCK FALSE
