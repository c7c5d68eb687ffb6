----------------------------- MODULE ThreadSync -----------------------------
(***************************************************************************)
(* The locks and condition variables of threads/thread.c, on the threads   *)
(* and wait queues of module Threads.  Each lock and each condition        *)
(* variable has a wait queue of its own, named as it is.                   *)
(*                                                                         *)
(* lock_acquire, lock_release, cv_signal and cv_broadcast mask SIGALRM for *)
(* their whole length.  cv_wait masks it in each of the three calls it     *)
(* makes and not between them.  frame[a] tells which of these calls thread *)
(* a is in when it is suspended or can be interrupted.                     *)
(*                                                                         *)
(* Definitions marked "fault" are variants of the next definition with a   *)
(* plausible bug; no specification uses them.                              *)
(***************************************************************************)
EXTENDS Threads

CONSTANTS
    Locks, CVs,         \* queues that belong to locks and condition variables
    None                \* no lock, no condition variable

ASSUME SyncQueues == Locks \subseteq Queues /\ CVs \subseteq Queues
                     /\ Locks \cap CVs = {} /\ None \notin Queues
\* Every thread can sleep on one lock before the size counter is at its bound.
ASSUME SizeBoundSuffices == Cardinality(Addr) <= MaxSize

VARIABLES
    lock_state,     \* lock_state[l], the field: 0 or 1; 2 once it is destroyed
    frame,          \* frame[a]: the call thread a is in
    flock, fcv,     \* its arguments
    holders         \* history: the threads between their acquire and release

sync == <<lock_state, frame, flock, fcv, holders>>
syncVars == <<vars, sync>>

SyncTypeOK ==
    /\ lock_state \in [Locks -> 0 .. 2]
    /\ frame \in [Addr -> {"none", "acquire", "cv_gap", "cv_acquire"}]
    /\ \A a \in Addr : flock[a] \in IF frame[a] = "none" THEN {None} ELSE Locks
    /\ \A a \in Addr : fcv[a] \in CVs \cup {None}
    /\ holders \in [Locks -> SUBSET Addr]

SyncInit ==
    /\ Init
    /\ lock_state = [l \in Locks |-> 0]
    /\ frame = [a \in Addr |-> "none"]
    /\ flock = [a \in Addr |-> None]
    /\ fcv = [a \in Addr |-> None]
    /\ holders = [l \in Locks |-> {}]

Holds(a, l) == a \in holders[l]
\* The running thread is in the program's own code and calls c.
MaySync(c) == MayCall(c) /\ frame[running] = "none"

InFrame_LosesLock(f, l, c) ==       \* fault: cv_wait forgets which lock
    /\ frame' = [frame EXCEPT ![running] = f]
    /\ flock' = [flock EXCEPT ![running] = IF c = None THEN l ELSE None]
    /\ fcv' = [fcv EXCEPT ![running] = c]
InFrame(f, l, c) ==
    /\ frame' = [frame EXCEPT ![running] = f]
    /\ flock' = [flock EXCEPT ![running] = l]
    /\ fcv' = [fcv EXCEPT ![running] = c]

----------------------------------------------------------------------------
(* Locks.                                                                  *)

\* The loop test of lock_acquire.
Available_TestedOnce(l) ==          \* fault: not tested again after the sleep
    lock_state[l] = 0 \/ frame[running] = "acquire"
Available(l) == lock_state[l] = 0

\* One round of the loop of lock_acquire.  If no other thread is ready,
\* thread_sleep returns at once and the loop spins with SIGALRM masked.
TryAcquire(l) ==
    \/ /\ Available(l)
       /\ lock_state' = [lock_state EXCEPT ![l] = 1]
       /\ holders' = [holders EXCEPT ![l] = @ \cup {running}]
       /\ InFrame("none", None, None)
       /\ UNCHANGED vars
    \/ /\ ~Available(l) /\ lock_state[l] = 1
       /\ IF ready # <<>> THEN Sleep(l) ELSE UNCHANGED vars
       /\ InFrame("acquire", l, None)
       /\ UNCHANGED <<lock_state, holders>>
    \/ /\ lock_state[l] = 2
       /\ Fault("corrupt")
       /\ UNCHANGED sync

Acquire(l) ==
    /\ MaySync("acquire")
    /\ Disciplined => ~Holds(running, l) /\ lock_state[l] # 2
    /\ TryAcquire(l)

\* The loop goes on after a sleep, and cv_wait takes its lock again.
AcquireAgain ==
    /\ InUser /\ frame[running] \in {"acquire", "cv_acquire"}
    /\ TryAcquire(flock[running])

WakeOnRelease_One(l) ==             \* fault: one waiter is woken, not all
    IF wait[l] = <<>> THEN UNCHANGED vars ELSE WakeupOne(l)
WakeOnRelease(l) == IF wait[l] = <<>> THEN UNCHANGED vars ELSE WakeupAll(l)

Unlock_KeepsState(l) ==             \* fault: the state is not reset
    /\ lock_state[l] # 2
    /\ holders' = [holders EXCEPT ![l] = @ \ {running}]
    /\ WakeOnRelease(l)
    /\ UNCHANGED lock_state

\* lock_release does not look who has the lock.
Unlock(l) ==
    /\ lock_state[l] # 2
    /\ lock_state' = [lock_state EXCEPT ![l] = 0]
    /\ holders' = [holders EXCEPT ![l] = @ \ {running}]
    /\ WakeOnRelease(l)

Release(l) ==
    /\ MaySync("release")
    /\ Disciplined => Holds(running, l)
    /\ Unlock(l)
    /\ UNCHANGED <<frame, flock, fcv>>

\* lock_destroy frees the queue and what sleeps on it, whatever the lock's
\* state.
LockDestroy(l) ==
    /\ MaySync("lock_destroy")
    /\ lock_state[l] # 2
    /\ Disciplined => lock_state[l] = 0 /\ \A a \in Addr : flock[a] # l
    /\ QueueDestroy(l)
    /\ lock_state' = [lock_state EXCEPT ![l] = 2]
    /\ UNCHANGED <<frame, flock, fcv, holders>>

----------------------------------------------------------------------------
(* Condition variables.                                                    *)

\* cv_wait releases the lock ...
CvWait(c, l) ==
    /\ MaySync("cv_wait")
    /\ Disciplined => Holds(running, l)
    /\ Unlock(l)
    /\ InFrame("cv_gap", l, c)

\* ... goes to sleep (or finds no thread to run instead, and goes on) ...
GoToSleep_YieldsFirst(c) ==         \* fault: gives up the processor before
    IF ready # <<>> THEN YieldTo(1) /\ UNCHANGED frame
    ELSE UNCHANGED vars /\ frame' = [frame EXCEPT ![running] = "cv_acquire"]
GoToSleep(c) ==
    /\ IF ready # <<>> THEN Sleep(c) ELSE UNCHANGED vars
    /\ frame' = [frame EXCEPT ![running] = "cv_acquire"]

CvSleep ==
    /\ InUser /\ frame[running] = "cv_gap"
    /\ GoToSleep(fcv[running])
    /\ UNCHANGED <<lock_state, flock, fcv, holders>>

\* ... and takes the lock again: AcquireAgain.

\* cv_signal and cv_broadcast do not look at the lock.
CvSignal(c, l) ==
    /\ MaySync("cv_signal")
    /\ Disciplined => Holds(running, l)
    /\ WakeupOne(c)
    /\ UNCHANGED sync

CvBroadcast(c, l) ==
    /\ MaySync("cv_broadcast")
    /\ Disciplined => Holds(running, l)
    /\ WakeupAll(c)
    /\ UNCHANGED sync

\* cv_destroy; a cv_create follows, for a new variable in its place.
CvDestroy(c) ==
    /\ MaySync("cv_destroy")
    /\ Disciplined => wait[c] = <<>> /\ \A a \in Addr : fcv[a] # c
    /\ QueueDestroy(c)
    /\ UNCHANGED sync

----------------------------------------------------------------------------
\* The rest of the program, and the package underneath.  A careful thread
\* does not end while it has a lock.
Other ==
    /\ UNCHANGED sync
    /\ \/ Resume \/ Start
       \/ Interrupt /\ frame[running] # "acquire"
       \/ /\ InUser /\ frame[running] = "none"
          /\ \/ \E a \in Addr : Create(a)
             \/ YieldAny
             \/ /\ Disciplined => \A l \in Locks : ~Holds(running, l)
                /\ ready # <<>>
                /\ ExitSelf

SyncNext ==
    \/ Other
    \/ AcquireAgain
    \/ CvSleep
    \/ \E l \in Locks : \/ Acquire(l) \/ Release(l) \/ LockDestroy(l)
                        \/ \E c \in CVs : CvWait(c, l) \/ CvSignal(c, l)
                                          \/ CvBroadcast(c, l)
    \/ \E c \in CVs : CvDestroy(c)

SyncSpec == SyncInit /\ [][SyncNext]_syncVars

\* The library's own steps are taken, the timer interrupts, and a thread that
\* has a lock releases it when it runs often enough.
SyncFairness ==
    /\ WF_syncVars(UNCHANGED sync /\ (Resume \/ Start))
    /\ SF_syncVars(UNCHANGED sync /\ Interrupt /\ frame[running] # "acquire")
    /\ WF_syncVars(AcquireAgain)
    /\ \A a \in Addr, l \in Locks : SF_syncVars(running = a /\ Release(l))

FairSyncSpec == SyncSpec /\ SyncFairness

----------------------------------------------------------------------------
(* Properties.                                                             *)

\* Two threads are never both between lock_acquire and lock_release, and the
\* lock's state says whether one is.
MutualExclusion ==
    \A l \in Locks :
        /\ \A a, b \in holders[l] : a = b
        /\ lock_state[l] = 1 <=> holders[l] # {}

\* No thread sleeps on a lock that is available (nobody would wake it: only
\* lock_release does).
SleepOnlyWhileHeld == \A l \in Locks : wait[l] # <<>> => lock_state[l] = 1

\* lock_acquire spins with interrupts masked when no other thread is ready.
\* A careful program with one lock never gets there, since the thread that
\* has the lock is ready; with two locks a deadlock ends in this loop.
NoMaskedSpin ==
    status = "running" /\ pc[running] = "user" /\ frame[running] = "acquire"
        => ready # <<>> \/ lock_state[flock[running]] = 0

\* A thread in cv_wait has released the lock and is not yet on the condition
\* variable's queue: no other thread runs, and so none signals, in between.
WaitIsAtomic == \A a \in Addr : frame[a] = "cv_gap" => running = a

\* A thread that sleeps on a lock is woken (it may then find the lock taken
\* again by a thread that came first).
LockSleepersWake ==
    \A a \in Addr, l \in Locks :
        (a \in On(wait[l])) ~> (a \notin On(wait[l]) \/ status # "running")
=============================================================================
