------------------------------ MODULE Threads ------------------------------
(***************************************************************************)
(* The user-level threads of threads/thread.c and the timer interrupts of  *)
(* threads/interrupt.c.                                                    *)
(*                                                                         *)
(* One thread runs.  A library call masks SIGALRM while it works, so it is *)
(* one action up to the point where it switches to another thread with     *)
(* setcontext; the thread switched to continues, still masked, with Resume *)
(* (it was suspended behind a getcontext) or with Start (it is new and     *)
(* enters thread_stub).  With SIGALRM unmasked the handler may run between *)
(* any two calls and yields on the thread's behalf.                        *)
(*                                                                         *)
(* A thread is named by the address of its struct thread: identifiers are  *)
(* released at exit and reused while the old structure still waits to be   *)
(* freed.  A call that dereferences NULL, or that leaves the lists in a    *)
(* state where a freed stack will run, ends the behaviour with a status.   *)
(*                                                                         *)
(* Definitions marked "fault" are variants of the next definition with a   *)
(* plausible bug; no specification uses them.                              *)
(***************************************************************************)
EXTENDS Integers, Sequences, SequencesExt, FiniteSets

CONSTANTS
    Addr,           \* the addresses malloc can give a struct thread
    Main,           \* the address of the first thread's structure
    MaxThreads,     \* THREAD_MAX_THREADS
    Queues,         \* the wait queues
    MaxSize,        \* bound: a queue's size counter is not driven above it
    Calls,          \* the library calls the program makes
    Disciplined,    \* the program passes only arguments a call can serve
    Preemptive      \* register_interrupt_handler has been called

ASSUME MainAssumption == Main \in Addr
ASSUME MaxThreadsAssumption == MaxThreads \in Nat \ {0}
ASSUME MaxSizeAssumption == MaxSize \in Nat
ASSUME BooleanAssumption == Disciplined \in BOOLEAN /\ Preemptive \in BOOLEAN

VARIABLES
    thread_id_array,    \* thread_id_array[t]: identifier t is taken
    ready,              \* READY_HEAD, the list as a sequence
    running,            \* RUNNING_THREAD
    to_delete,          \* TO_DELETE_THREAD, the list as a sequence
    wait,               \* wait[q]: q's wait_head, the list as a sequence
    size,               \* size[q]: q's size field
    tid, state, flag,   \* fields of each struct thread
    sp,                 \* sp[a]: the thread has a stack from malloc
    pc,                 \* pc[a]: where thread a is, "free" for no thread
    on,                 \* on[a]: SIGALRM unmasked when a is in its own code
    leaked,             \* kinds of resources that can never be reclaimed
    status              \* of the process

vars == <<thread_id_array, ready, running, to_delete, wait, size,
          tid, state, flag, sp, pc, on, leaked, status>>

Tids == 0 .. (MaxThreads - 1)
THREAD_INVALID == -3        \* stands for the error codes -3 .. -7 as arguments

NEW_STATE == 1
RECOVER_STATE == 2

TypeOK ==
    /\ thread_id_array \in [Tids -> BOOLEAN]
    /\ ready \in Seq(Addr)
    /\ running \in Addr
    /\ to_delete \in Seq(Addr)
    /\ wait \in [Queues -> Seq(Addr)]
    /\ size \in [Queues -> Nat]
    /\ tid \in [Addr -> Tids]
    /\ state \in [Addr -> {NEW_STATE, RECOVER_STATE}]
    /\ flag \in [Addr -> BOOLEAN]
    /\ sp \in [Addr -> BOOLEAN]
    /\ pc \in [Addr -> {"free", "stub", "switched", "user", "dead"}]
    /\ on \in [Addr -> BOOLEAN]
    /\ leaked \subseteq {"stack", "tid", "struct"}
    /\ status \in {"running", "exited", "null_deref", "corrupt"}

\* thread_init.  Fields of structures not yet allocated are arbitrary; they
\* are given one value.
Init ==
    /\ thread_id_array = [t \in Tids |-> t = 0]
    /\ ready = <<>> /\ running = Main /\ to_delete = <<>>
    /\ wait = [q \in Queues |-> <<>>]
    /\ size = [q \in Queues |-> 0]
    /\ tid = [a \in Addr |-> 0]
    /\ state = [a \in Addr |-> NEW_STATE]
    /\ flag = [a \in Addr |-> FALSE]
    /\ sp = [a \in Addr |-> FALSE]
    /\ pc = [a \in Addr |-> IF a = Main THEN "user" ELSE "free"]
    /\ on = [a \in Addr |-> TRUE]
    /\ leaked = {}
    /\ status = "running"

----------------------------------------------------------------------------
(* Helpers.                                                                *)

lists == <<ready, running, to_delete, wait, size>>
fields == <<tid, state, flag, sp>>

\* The running thread is in the program's own code.
InUser == status = "running" /\ pc[running] = "user"
MayCall(c) == InUser /\ c \in Calls

\* The names on a list.
On(list) == {list[i] : i \in DOMAIN list}

FreeTids_OffByOne ==             \* fault: the scan goes one element too far
    {t \in 0 .. MaxThreads : t \in Tids => ~thread_id_array[t]}
FreeTids == {t \in Tids : ~thread_id_array[t]}
\* assign_thread_id takes the lowest free identifier.
NextTid == CHOOSE t \in FreeTids : \A u \in FreeTids : t <= u

\* insert_thread_to_ready, insert_thread_to_wait: at the tail.
Insert_Front(list, a) == <<a>> \o list          \* fault: at the head
Insert(list, a) == Append(list, a)

\* The ready list once the thread at position i is unlinked.
Unlinked_DropsFront(i) ==                       \* fault: prev is not relinked
    SubSeq(ready, i + 1, Len(ready))
Unlinked(i) == RemoveAt(ready, i)

\* A call returns leaving SIGALRM masked.
ReturnMasked ==
    /\ on' = [on EXCEPT ![running] = FALSE]
    /\ UNCHANGED <<thread_id_array, lists, fields, pc, leaked, status>>

\* The process stops with fault f.
Fault(f) ==
    /\ status' = f
    /\ UNCHANGED <<thread_id_array, lists, fields, pc, on, leaked>>

\* delete_threads_list: the structures on the list are freed, and the stacks
\* of those whose identifier is not 0.
Reaped_Keeps(code) == code                      \* fault: none is freed
Reaped(code) == [a \in Addr |-> IF a \in On(to_delete) THEN "free" ELSE code[a]]
ReapLeak == IF \E a \in On(to_delete) : tid[a] = 0 /\ sp[a] THEN {"stack"} ELSE {}

\* The states after a switch to next.
Switched_KeepsState(next) ==                    \* fault: the caller stays RECOVER
    [state EXCEPT ![next] = RECOVER_STATE]
Switched(next) ==
    [state EXCEPT ![running] = NEW_STATE, ![next] = RECOVER_STATE]

\* The identifiers once the running thread has given up its own.
Released_OfNext ==                              \* fault: the next thread's
    [thread_id_array EXCEPT ![tid[Head(ready)]] = FALSE]
Released == [thread_id_array EXCEPT ![tid[running]] = FALSE]

\* The end of thread_yield and thread_sleep: next has been taken off the
\* ready list, the caller has been put on a list, and getcontext returns for
\* the first time.
SwitchTo(next) ==
    /\ to_delete' = <<>>
    /\ leaked' = leaked \cup ReapLeak
    /\ running' = next
    /\ state' = Switched(next)
    /\ pc' = [Reaped(pc) EXCEPT ![running] = "switched"]
    /\ UNCHANGED <<thread_id_array, tid, flag, sp, on, status>>

\* thread_yield switches to the thread at position i of the ready list.  A
\* caller whose flag is set exits while it is on the ready list as well, and
\* the thread it was to switch to is on no list.
YieldTo(i) ==
    IF flag[running]
    THEN Fault("corrupt")
    ELSE /\ ready' = Insert(Unlinked(i), running)
         /\ SwitchTo(ready[i])
         /\ UNCHANGED <<wait, size>>

\* thread_exit(THREAD_SELF) when another thread is ready.
ExitSwitch ==
    /\ thread_id_array' = Released
    /\ to_delete' = Append(to_delete, running)
    /\ ready' = Tail(ready)
    /\ running' = Head(ready)
    /\ state' = [state EXCEPT ![Head(ready)] = RECOVER_STATE]
    /\ pc' = [pc EXCEPT ![running] = "dead"]
    /\ UNCHANGED <<wait, size, tid, flag, sp, on, leaked, status>>

----------------------------------------------------------------------------
(* After a switch.                                                         *)

\* getcontext returns for the second time: a flagged thread exits, if it can;
\* otherwise the dead are freed and the call returns.
Resume ==
    /\ status = "running" /\ pc[running] = "switched"
    /\ IF flag[running] /\ ready # <<>>
       THEN ExitSwitch
       ELSE /\ to_delete' = <<>>
            /\ leaked' = leaked \cup ReapLeak
            /\ pc' = [Reaped(pc) EXCEPT ![running] = "user"]
            /\ UNCHANGED <<thread_id_array, ready, running, wait, size,
                           fields, on, status>>

\* thread_stub unmasks SIGALRM and calls the thread's function.
Unmasked_Not == on                              \* fault: the stub does not
Unmasked == [on EXCEPT ![running] = TRUE]

Start ==
    /\ status = "running" /\ pc[running] = "stub"
    /\ pc' = [pc EXCEPT ![running] = "user"]
    /\ on' = Unmasked
    /\ UNCHANGED <<thread_id_array, lists, fields, leaked, status>>

----------------------------------------------------------------------------
(* thread_create.                                                          *)

Create(a) ==
    /\ MayCall("create")
    /\ FreeTids # {}
    /\ pc[a] = "free"
    /\ tid' = [tid EXCEPT ![a] = NextTid]
    /\ thread_id_array' = [thread_id_array EXCEPT ![NextTid] = TRUE]
    /\ state' = [state EXCEPT ![a] = NEW_STATE]
    /\ flag' = [flag EXCEPT ![a] = FALSE]
    /\ sp' = [sp EXCEPT ![a] = TRUE]
    /\ pc' = [pc EXCEPT ![a] = "stub"]
    /\ ready' = Insert(ready, a)
    /\ on' = [on EXCEPT ![a] = FALSE]
    /\ UNCHANGED <<running, to_delete, wait, size, leaked, status>>

\* THREAD_NOMORE; or THREAD_NOMEMORY for the structure.  Both return without
\* restoring the interrupt mask.
CreateFails ==
    /\ \/ MayCall("create") /\ FreeTids = {} /\ ~Disciplined
       \/ MayCall("create_nomem") /\ FreeTids # {}
    /\ ReturnMasked

\* THREAD_NOMEMORY for the stack: the structure and its identifier are lost.
CreateNoStack ==
    /\ MayCall("create_nomem")
    /\ FreeTids # {}
    /\ thread_id_array' = [thread_id_array EXCEPT ![NextTid] = TRUE]
    /\ leaked' = leaked \cup {"tid", "struct"}
    /\ on' = [on EXCEPT ![running] = FALSE]
    /\ UNCHANGED <<lists, fields, pc, status>>

----------------------------------------------------------------------------
(* thread_yield.  A call that changes nothing (THREAD_NONE, THREAD_INVALID) *)
(* is a stuttering step and is not listed.                                  *)

YieldAny == MayCall("yield_any") /\ ready # <<>> /\ YieldTo(1)

\* THREAD_SELF, or the caller's own identifier.
YieldSelf ==
    /\ MayCall("yield_self")
    /\ state' = [state EXCEPT ![running] = RECOVER_STATE]
    /\ UNCHANGED <<thread_id_array, lists, tid, flag, sp, pc, on, leaked, status>>

\* The identifiers the program passes.
Names == Tids \cup (IF "error_tid" \in Calls THEN {THREAD_INVALID} ELSE {})

\* A careful program names only threads that run or are ready.
Nameable(t) == \E a \in Addr : /\ tid[a] = t
                               /\ pc[a] \notin {"free", "dead"}
                               /\ \A q \in Queues : a \notin On(wait[q])

\* Whether thread_id_array says t is taken.  The range test lets the error
\* codes through, so they read the memory before the array.
MayBeUsed(t) == t \in Tids => thread_id_array[t]

\* The positions of t on the ready list.
Positions(t) == {i \in DOMAIN ready : tid[ready[i]] = t}
First(S) == CHOOSE i \in S : \A j \in S : i <= j

YieldTid(t) ==
    /\ MayCall("yield_tid")
    /\ t # tid[running]
    /\ Disciplined => Nameable(t)
    /\ MayBeUsed(t)
    /\ IF Positions(t) # {}
       THEN YieldTo(First(Positions(t)))
       ELSE Fault("null_deref")

\* The SIGALRM handler calls thread_yield(THREAD_ANY).
Interrupt ==
    /\ Preemptive /\ InUser
    /\ on[running]
    /\ ready # <<>>
    /\ YieldTo(1)

----------------------------------------------------------------------------
(* thread_exit.                                                            *)

ExitSelf ==
    /\ MayCall("exit_self")
    /\ IF ready # <<>>
       THEN ExitSwitch
       ELSE ~Disciplined /\ ReturnMasked            \* THREAD_NONE

\* Destroying another thread only sets its flag; it exits when it next
\* returns from a switch of its own.
SetFlag(a) ==
    /\ flag' = [flag EXCEPT ![a] = TRUE]
    /\ UNCHANGED <<thread_id_array, lists, tid, state, sp, pc, on, leaked, status>>

ExitAny ==
    /\ MayCall("exit_any")
    /\ IF ready # <<>>
       THEN SetFlag(Head(ready))
       ELSE ~Disciplined /\ ReturnMasked            \* THREAD_NONE

ExitTid(t) ==
    /\ MayCall("exit_tid")
    /\ Disciplined => Nameable(t) /\ t # tid[running]
    /\ \/ /\ MayBeUsed(t) /\ ready # <<>>
          /\ IF Positions(t) # {}
             THEN SetFlag(ready[First(Positions(t))])
             ELSE Fault("null_deref")
       \/ /\ t \in Tids /\ thread_id_array[t] => ready = <<>>
          /\ ReturnMasked                           \* THREAD_INVALID, THREAD_NONE

\* The thread's function returns: thread_stub calls thread_exit, and exit if
\* no thread is left.  Returning from main ends the process.
Return ==
    /\ MayCall("return")
    /\ IF ready # <<>> /\ sp[running]
       THEN ExitSwitch
       ELSE Fault("exited")

----------------------------------------------------------------------------
(* Wait queues.                                                            *)

\* The size once one more thread is inserted.
Counted_OnlyFirst(q) ==                         \* fault: in one branch only
    IF wait[q] = <<>> THEN size[q] + 1 ELSE size[q]
Counted(q) == size[q] + 1

\* thread_sleep.  A flagged caller exits while it is on the wait queue, if
\* another thread is ready; if none is, it sleeps.
Sleep(q) ==
    /\ size[q] < MaxSize
    /\ ready # <<>>
    /\ IF flag[running] /\ Tail(ready) # <<>>
       THEN Fault("corrupt")
       ELSE /\ ready' = Tail(ready)
            /\ wait' = [wait EXCEPT ![q] = Insert(@, running)]
            /\ size' = [size EXCEPT ![q] = Counted(q)]
            /\ SwitchTo(Head(ready))

\* thread_wakeup(q, 0).  Only the size = 1 case empties the queue; the size
\* is not decremented.
WakeupOne(q) ==
    /\ wait[q] # <<>>
    /\ IF size[q] = 1
       THEN ready' = ready \o wait[q] /\ wait' = [wait EXCEPT ![q] = <<>>]
       ELSE /\ ready' = Append(ready, Head(wait[q]))
            /\ wait' = [wait EXCEPT ![q] = Tail(@)]
    /\ UNCHANGED <<thread_id_array, running, to_delete, size, fields, pc, on,
                   leaked, status>>

\* thread_wakeup(q, 1); it returns size[q].
WakeupAll(q) ==
    /\ wait[q] # <<>>
    /\ ready' = ready \o wait[q]
    /\ wait' = [wait EXCEPT ![q] = <<>>]
    /\ size' = [size EXCEPT ![q] = 0]
    /\ UNCHANGED <<thread_id_array, running, to_delete, fields, pc, on, leaked,
                   status>>

\* wait_queue_destroy, and wait_queue_create for a new queue in its place.
\* The threads still on the queue are freed; their identifiers stay taken.
QueueDestroy(q) ==
    /\ wait' = [wait EXCEPT ![q] = <<>>]
    /\ size' = [size EXCEPT ![q] = 0]
    /\ pc' = [a \in Addr |-> IF a \in On(wait[q]) THEN "free" ELSE pc[a]]
    /\ leaked' = leaked \cup (IF wait[q] = <<>> THEN {} ELSE {"tid"})
                        \cup (IF \E a \in On(wait[q]) : tid[a] = 0 /\ sp[a]
                              THEN {"stack"} ELSE {})
    /\ UNCHANGED <<thread_id_array, ready, running, to_delete, fields, on, status>>

----------------------------------------------------------------------------
\* The program masks or unmasks SIGALRM with interrupts_set.
InterruptsSet(e) ==
    /\ MayCall("interrupts_set")
    /\ on' = [on EXCEPT ![running] = e]
    /\ UNCHANGED <<thread_id_array, lists, fields, pc, leaked, status>>

\* What a program may call at a moment of its choosing.
Call ==
    \/ \E a \in Addr : Create(a)
    \/ CreateFails \/ CreateNoStack
    \/ YieldAny \/ YieldSelf
    \/ \E t \in Names : YieldTid(t) \/ ExitTid(t)
    \/ ExitSelf \/ ExitAny \/ Return
    \/ \E q \in Queues : \/ MayCall("sleep") /\ Sleep(q)
                         \/ MayCall("wakeup_one") /\ WakeupOne(q)
                         \/ MayCall("wakeup_all") /\ WakeupAll(q)
                         \/ /\ MayCall("queue_destroy")
                            /\ Disciplined => wait[q] = <<>>
                            /\ QueueDestroy(q)
    \/ \E e \in BOOLEAN : InterruptsSet(e)

Next == Call \/ Interrupt \/ Resume \/ Start

Spec == Init /\ [][Next]_vars

\* The alarm is set again in every handler call, and one that comes while it
\* is masked is delivered when it is unmasked: a thread that is unmasked
\* again and again is interrupted in the end.
Fairness == WF_vars(Resume) /\ WF_vars(Start) /\ SF_vars(Interrupt)

FairSpec == Spec /\ Fairness

----------------------------------------------------------------------------
(* Properties.                                                             *)

Sleeping == UNION {On(wait[q]) : q \in Queues}
Live == {a \in Addr : pc[a] \notin {"free", "dead"}}

\* Every structure is in exactly one place, once: it runs, or it is on the
\* ready list, on one wait queue, or on the list of the dead.  (The links are
\* inside the structures: a thread on two lists would splice them.)
OnePlace ==
    status = "running" =>
        /\ IsInjective(ready) /\ IsInjective(to_delete)
        /\ \A q \in Queues : IsInjective(wait[q])
        /\ running \notin On(ready) \cup On(to_delete) \cup Sleeping
        /\ On(ready) \cap On(to_delete) = {}
        /\ Sleeping \cap (On(ready) \cup On(to_delete)) = {}
        /\ \A p, q \in Queues : p # q => On(wait[p]) \cap On(wait[q]) = {}
        /\ \A a \in Addr : pc[a] = "dead" <=> a \in On(to_delete)
        /\ \A a \in Addr : a \in Live <=> a \in {running} \cup On(ready) \cup Sleeping

\* Two live threads never have the same identifier, although an identifier
\* is reused while the thread that had it is still to be freed; and an
\* identifier is taken exactly when a live thread has it (or it is lost).
TidsAgree ==
    status = "running" =>
        /\ \A a, b \in Live : tid[a] = tid[b] => a = b
        /\ \A a \in Live : thread_id_array[tid[a]]
        /\ "tid" \notin leaked =>
              \A t \in Tids : thread_id_array[t] => \E a \in Live : tid[a] = t

\* getcontext returns twice in thread_yield and thread_sleep, and the state
\* fields tell the first return from the second: a thread that waits for the
\* processor is NEW, so the first return switches to it, and one that comes
\* back is RECOVER, so the second does not switch again.
StatesTellReturns ==
    status = "running" =>
        /\ \A a \in On(ready) \cup Sleeping : state[a] = NEW_STATE
        /\ pc[running] = "switched" => state[running] = RECOVER_STATE

\* The size field is what thread_wakeup(q, 0) takes for "one thread left":
\* it is never below the queue's length, so moving the whole list to the
\* ready list moves one thread.
SizeCoversQueue == \A q \in Queues : size[q] >= Len(wait[q])

\* A program that passes only arguments a call can serve, and leaves the
\* destruction of others alone, never makes the package dereference NULL or
\* run on a freed stack.
NoFault == status \in {"running", "exited"}

\* No call leaves interrupts masked in the code of the thread that made it,
\* and a new thread's code starts with interrupts unmasked.
InterruptsRestored == \A a \in Live : pc[a] # "stub" => on[a]

\* A thread that is ready runs, unless the process ends: the timer takes the
\* processor from threads that do not yield.
ReadyRuns ==
    \A a \in Addr : (a \in On(ready)) ~> (running = a \/ status # "running")

\* The lists of thread.c implement the life of a thread.
Mode == [a \in Addr |-> CASE a = running       -> "running"
                          [] a \in On(ready)   -> "ready"
                          [] pc[a] = "dead"    -> "dead"
                          [] pc[a] = "free"    -> "none"
                          [] OTHER             -> "sleeping"]

Lifecycle == INSTANCE ThreadLifecycle WITH mode <- Mode

ImplementsLifecycle == Lifecycle!Spec
=============================================================================
