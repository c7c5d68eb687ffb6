SPECIFICATION FairSyncSpec
CONSTANTS
    Addr = {a0, a1, a2}
    Main = a0
    MaxThreads = 3
    Locks = {l1}
    CVs = {cv1}
    Queues = {l1, cv1}
    None = None
    MaxSize = 3
    Disciplined = TRUE
    Preemptive = TRUE
    Calls = {"create", "yield_any", "exit_self", "acquire", "release", "lock_destroy", "cv_wait", "cv_signal", "cv_broadcast", "cv_destroy"}
INVARIANTS SyncTypeOK MutualExclusion SleepOnlyWhileHeld NoMaskedSpin
PROPERTIES LockSleepersWake ReadyRuns
CHECK_DEADLOCK FALSE
