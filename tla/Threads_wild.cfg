SPECIFICATION Spec
CONSTANTS
    Addr = {a0, a1, a2, a3}
    Main = a0
    MaxThreads = 2
    Queues = {q1, q2}
    MaxSize = 2
    Disciplined = FALSE
    Preemptive = TRUE
    Calls = {"create", "yield_any", "yield_self", "yield_tid", "exit_self", "return", "sleep", "wakeup_one", "wakeup_all", "queue_destroy", "create_nomem", "exit_any", "exit_tid", "error_tid", "interrupts_set"}
SYMMETRY Symmetry
INVARIANTS OnePlace TidsAgree
CHECK_DEADLOCK FALSE
