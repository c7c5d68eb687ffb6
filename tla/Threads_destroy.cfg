SPECIFICATION Spec
CONSTANTS
    Addr = {a0, a1, a2, a3}
    Main = a0
    MaxThreads = 3
    Queues = {q1}
    MaxSize = 2
    Disciplined = TRUE
    Preemptive = FALSE
    Calls = {"create", "yield_any", "exit_any"}
SYMMETRY Symmetry
INVARIANTS NoFault
CHECK_DEADLOCK FALSE
