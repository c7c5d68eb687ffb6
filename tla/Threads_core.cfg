SPECIFICATION Spec
CONSTANTS
    Addr = {a0, a1, a2, a3, a4}
    Main = a0
    MaxThreads = 4
    Queues = {q1}
    MaxSize = 3
    Disciplined = TRUE
    Preemptive = TRUE
    Calls = {"create", "yield_any", "yield_self", "yield_tid", "exit_self", "return", "sleep", "wakeup_one", "wakeup_all", "queue_destroy"}
SYMMETRY Symmetry
INVARIANTS TypeOK StatesTellReturns SizeCoversQueue NoFault 
PROPERTIES ImplementsLifecycle
CHECK_DEADLOCK FALSE
