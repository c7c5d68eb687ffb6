-------------------------- MODULE ThreadSyncProofs --------------------------
(***************************************************************************)
(* Proofs about module ThreadSync, for any number of threads, locks and    *)
(* condition variables: the calls keep the threads and lists of            *)
(* module Threads sound, no thread sleeps on a lock that is available, and *)
(* a program that releases only the locks it holds and destroys only free  *)
(* ones never has two threads between acquire and release.                 *)
(***************************************************************************)
EXTENDS ThreadSync, ThreadsProofs

(***************************************************************************)
(* The types, with the argument that each frame has.                       *)
(***************************************************************************)
Frames == {"none", "acquire", "cv_gap", "cv_acquire"}

SyncTypes ==
    /\ lock_state \in [Locks -> 0 .. 2]
    /\ frame \in [Addr -> Frames]
    /\ flock \in [Addr -> Locks \cup {None}]
    /\ fcv \in [Addr -> CVs \cup {None}]
    /\ holders \in [Locks -> SUBSET Addr]
    /\ \A a \in Addr : frame[a] = "none" <=> flock[a] = None
    /\ \A a \in Addr : frame[a] = "cv_gap" => fcv[a] \in CVs

LEMMA NoneIsNone == None \notin Locks /\ None \notin CVs
  BY SyncQueues

LEMMA SyncTypesInit == SyncInit => SyncTypes
<1>. SUFFICES ASSUME SyncInit PROVE SyncTypes
  OBVIOUS
<1>1. 0 \in 0 .. 2
  OBVIOUS
<1>. QED
  BY <1>1 DEF SyncInit, SyncTypes, Frames

LEMMA InFrameTypes ==
    ASSUME SyncTypes, NEW f \in Frames, NEW l \in Locks \cup {None},
           NEW c \in CVs \cup {None},
           f = "none" <=> l = None, f = "cv_gap" => c \in CVs,
           InFrame(f, l, c),
           lock_state' \in [Locks -> 0 .. 2], holders' \in [Locks -> SUBSET Addr]
    PROVE  SyncTypes'
  BY DEF InFrame, SyncTypes

LEMMA UnlockTypes ==
    ASSUME SyncTypes, NEW l \in Locks, Unlock(l)
    PROVE  lock_state' \in [Locks -> 0 .. 2] /\ holders' \in [Locks -> SUBSET Addr]
<1>1. 0 \in 0 .. 2
  OBVIOUS
<1>. QED
  BY <1>1 DEF Unlock, SyncTypes

LEMMA TryTypes ==
    ASSUME SyncTypes, running \in Addr, NEW l \in Locks, TryAcquire(l)
    PROVE  SyncTypes'
<1>0. 1 \in 0 .. 2 /\ l # None
  BY NoneIsNone
<1>1. CASE Available(l) /\ InFrame("none", None, None)
           /\ lock_state' = [lock_state EXCEPT ![l] = 1]
           /\ holders' = [holders EXCEPT ![l] = @ \cup {running}]
  <2>1. lock_state' \in [Locks -> 0 .. 2] /\ holders' \in [Locks -> SUBSET Addr]
    BY <1>0, <1>1 DEF SyncTypes
  <2>. QED
    BY <1>1, <2>1, InFrameTypes DEF Frames
<1>2. CASE InFrame("acquire", l, None) /\ UNCHANGED <<lock_state, holders>>
  <2>1. lock_state' \in [Locks -> 0 .. 2] /\ holders' \in [Locks -> SUBSET Addr]
    BY <1>2 DEF SyncTypes
  <2>. QED
    BY <1>0, <1>2, <2>1, InFrameTypes DEF Frames
<1>3. CASE UNCHANGED sync
  BY <1>3 DEF sync, SyncTypes
<1>. QED
  BY <1>1, <1>2, <1>3 DEF TryAcquire

LEMMA SyncTypesStep ==
    ASSUME SyncTypes, running \in Addr, [SyncNext]_syncVars
    PROVE  SyncTypes'
<1>1. CASE UNCHANGED sync
  BY <1>1 DEF sync, SyncTypes
<1>2. CASE AcquireAgain
  <2>1. flock[running] \in Locks /\ TryAcquire(flock[running])
    BY <1>2 DEF AcquireAgain, SyncTypes
  <2>. QED
    BY <2>1, TryTypes
<1>3. CASE CvSleep
  <2>1. /\ frame[running] = "cv_gap" /\ UNCHANGED <<lock_state, flock, fcv, holders>>
        /\ frame' = [frame EXCEPT ![running] = "cv_acquire"]
    BY <1>3 DEF CvSleep, GoToSleep
  <2>. QED
    BY <2>1 DEF SyncTypes, Frames
<1>4. ASSUME NEW l \in Locks, Acquire(l) PROVE SyncTypes'
  BY <1>4, TryTypes DEF Acquire
<1>5. ASSUME NEW l \in Locks, Release(l) PROVE SyncTypes'
  BY <1>5, UnlockTypes DEF Release, SyncTypes
<1>6. ASSUME NEW l \in Locks, LockDestroy(l) PROVE SyncTypes'
  <2>1. 2 \in 0 .. 2
    OBVIOUS
  <2>. QED
    BY <1>6, <2>1 DEF LockDestroy, SyncTypes
<1>7. ASSUME NEW l \in Locks, NEW c \in CVs, CvWait(c, l) PROVE SyncTypes'
  <2>1. lock_state' \in [Locks -> 0 .. 2] /\ holders' \in [Locks -> SUBSET Addr]
    BY <1>7, UnlockTypes DEF CvWait
  <2>2. InFrame("cv_gap", l, c) /\ l # None
    BY <1>7, NoneIsNone DEF CvWait
  <2>. QED
    BY <2>1, <2>2, InFrameTypes DEF Frames
<1>. QED
  BY <1>1, <1>2, <1>3, <1>4, <1>5, <1>6, <1>7
     DEF SyncNext, Other, CvSignal, CvBroadcast, CvDestroy, syncVars

(***************************************************************************)
(* The steps of the threads underneath are steps of module ThreadsProofs's *)
(* kinds.                                                                  *)
(***************************************************************************)
LEMMA SyncSteps ==
    ASSUME SyncTypes, Placed, SleepOnlyWhileHeld, [SyncNext]_syncVars
    PROVE  Step \/ UNCHANGED vars
<1>1. ready \in Seq(Addr) /\ running \in Addr
  BY DEF Placed, IsList
<1>2. CASE UNCHANGED syncVars
  BY <1>2 DEF syncVars
<1>3. CASE Other
  <2>1. CASE Resume \/ Start
    BY <2>1, ResumeSteps DEF Step
  <2>2. CASE Interrupt
    BY <1>1, <2>2, InterruptSteps
  <2>3. CASE \E a \in Addr : Create(a)
    BY <2>3 DEF Step
  <2>4. CASE YieldAny
    BY <1>1, <2>4, FrontIsPosition, YieldToSteps DEF YieldAny
  <2>5. CASE ready # <<>> /\ ExitSelf
    BY <2>5 DEF ExitSelf, Step
  <2>. QED
    BY <1>3, <2>1, <2>2, <2>3, <2>4, <2>5 DEF Other
<1>4. ASSUME NEW l \in Locks, TryAcquire(l) PROVE Step \/ UNCHANGED vars
  <2>1. l \in Queues
    BY SyncQueues
  <2>. QED
    BY <1>4, <2>1, SleepSteps DEF TryAcquire, Step, Stops
<1>5. CASE AcquireAgain
  <2>1. flock[running] \in Locks
    BY <1>1, <1>5 DEF AcquireAgain, SyncTypes
  <2>. QED
    BY <1>4, <1>5, <2>1 DEF AcquireAgain
<1>6. CASE CvSleep
  <2>1. fcv[running] \in Queues
    BY <1>1, <1>6, SyncQueues DEF CvSleep, SyncTypes
  <2>. QED
    BY <1>6, <2>1, SleepSteps DEF CvSleep, GoToSleep
<1>7. ASSUME NEW l \in Locks, Unlock(l) PROVE Step \/ UNCHANGED vars
  BY <1>7, SyncQueues DEF Unlock, WakeOnRelease, Step
<1>8. ASSUME NEW c \in CVs, WakeupOne(c) \/ WakeupAll(c)
      PROVE  Step
  BY <1>8, SyncQueues DEF Step
<1>9. ASSUME NEW l \in Locks, LockDestroy(l) PROVE Step
  <2>1. Destroys(l)
    BY <1>9 DEF LockDestroy, SleepOnlyWhileHeld, Destroys
  <2>. QED
    BY <2>1, SyncQueues DEF Step
<1>10. ASSUME NEW c \in CVs, CvDestroy(c) PROVE Step
  <2>1. Destroys(c)
    BY <1>10 DEF CvDestroy, Destroys
  <2>. QED
    BY <2>1, SyncQueues DEF Step
<1>. QED
  BY <1>2, <1>3, <1>4, <1>5, <1>6, <1>7, <1>8, <1>9, <1>10
     DEF SyncNext, Acquire, Release, CvWait, CvSignal, CvBroadcast

(***************************************************************************)
(* Sleeping on locks.                                                      *)
(***************************************************************************)
\* The wait queues of the locks are as they were.
LocksWaitSame == \A l \in Locks : wait'[l] = wait[l]

LEMMA SleepingStays ==
    ASSUME SleepOnlyWhileHeld, LocksWaitSame, UNCHANGED lock_state
    PROVE  SleepOnlyWhileHeld'
  BY DEF SleepOnlyWhileHeld, LocksWaitSame

LEMMA SleepChangesOne ==
    ASSUME wait \in [Queues -> Seq(Addr)], NEW q \in Queues,
           Sleep(q) \/ WakeupOne(q) \/ WakeupAll(q) \/ QueueDestroy(q)
    PROVE  \A p \in Queues : p # q => wait'[p] = wait[p]
  BY DEF Sleep, SwitchTo, Fault, lists, WakeupOne, WakeupAll, QueueDestroy

LEMMA OtherKeepsWait == Other => UNCHANGED <<wait, sync>>
  BY DEF Other, Resume, ExitSwitch, Start, Interrupt, YieldTo, Fault, Create,
         YieldAny, ExitSelf, ReturnMasked, lists

LEMMA WakeupAllEmpties ==
    ASSUME wait \in [Queues -> Seq(Addr)], NEW q \in Queues,
           WakeupAll(q) \/ QueueDestroy(q)
    PROVE  wait'[q] = <<>>
  BY DEF WakeupAll, QueueDestroy

LEMMA TrySleeps ==
    ASSUME SleepOnlyWhileHeld, Placed, SyncTypes, NEW l \in Locks, TryAcquire(l)
    PROVE  SleepOnlyWhileHeld'
<1>1. l \in Queues /\ Locks \subseteq Queues /\ wait \in [Queues -> Seq(Addr)]
      /\ lock_state \in [Locks -> 0 .. 2]
  BY SyncQueues DEF Placed, SyncTypes
<1>2. CASE UNCHANGED vars /\ lock_state' = [lock_state EXCEPT ![l] = 1]
  BY <1>1, <1>2 DEF vars, SleepOnlyWhileHeld
<1>3. CASE lock_state[l] = 1 /\ (Sleep(l) \/ UNCHANGED vars) /\ UNCHANGED lock_state
  <2>1. \A p \in Locks : p # l => wait'[p] = wait[p]
    BY <1>1, <1>3, SleepChangesOne DEF vars
  <2>. QED
    BY <1>3, <2>1 DEF SleepOnlyWhileHeld
<1>4. CASE Fault("corrupt") /\ UNCHANGED sync
  BY <1>4, SleepingStays DEF Fault, lists, sync, LocksWaitSame
<1>. QED
  BY <1>2, <1>3, <1>4 DEF TryAcquire

LEMMA UnlockEmpties ==
    ASSUME SleepOnlyWhileHeld, Placed, SyncTypes, NEW l \in Locks, Unlock(l)
    PROVE  SleepOnlyWhileHeld'
<1>1. l \in Queues /\ Locks \subseteq Queues /\ wait \in [Queues -> Seq(Addr)]
      /\ lock_state \in [Locks -> 0 .. 2]
  BY SyncQueues DEF Placed, SyncTypes
<1>2. wait'[l] = <<>> /\ \A p \in Locks : p # l => wait'[p] = wait[p]
  BY <1>1, WakeupAllEmpties, SleepChangesOne DEF Unlock, WakeOnRelease, vars
<1>3. \A p \in Locks : p # l => lock_state'[p] = lock_state[p]
  BY <1>1 DEF Unlock
<1>. QED
  BY <1>2, <1>3 DEF SleepOnlyWhileHeld

LEMMA SleepOnlyStep ==
    ASSUME SleepOnlyWhileHeld, Placed, SyncTypes, [SyncNext]_syncVars
    PROVE  SleepOnlyWhileHeld'
<1>1. /\ Locks \subseteq Queues /\ CVs \subseteq Queues /\ Locks \cap CVs = {}
      /\ wait \in [Queues -> Seq(Addr)] /\ running \in Addr
  BY SyncQueues DEF Placed
<1>2. CASE Other \/ UNCHANGED syncVars
  <2>1. UNCHANGED <<wait, sync>>
    BY <1>2, OtherKeepsWait DEF syncVars, vars
  <2>. QED
    BY <2>1, SleepingStays DEF sync, LocksWaitSame
<1>3. CASE AcquireAgain
  <2>1. flock[running] \in Locks /\ TryAcquire(flock[running])
    BY <1>1, <1>3 DEF AcquireAgain, SyncTypes
  <2>. QED
    BY <2>1, TrySleeps
<1>4. CASE CvSleep
  <2>1. /\ fcv[running] \in CVs /\ UNCHANGED lock_state
        /\ Sleep(fcv[running]) \/ UNCHANGED vars
    BY <1>1, <1>4 DEF CvSleep, GoToSleep, SyncTypes
  <2>2. LocksWaitSame
    BY <1>1, <2>1, SleepChangesOne DEF LocksWaitSame, vars
  <2>. QED
    BY <2>1, <2>2, SleepingStays
<1>5. ASSUME NEW l \in Locks, Acquire(l) PROVE SleepOnlyWhileHeld'
  BY <1>5, TrySleeps DEF Acquire
<1>6. ASSUME NEW l \in Locks, Unlock(l) PROVE SleepOnlyWhileHeld'
  BY <1>6, UnlockEmpties
<1>7. ASSUME NEW l \in Locks, LockDestroy(l) PROVE SleepOnlyWhileHeld'
  <2>1. wait'[l] = <<>> /\ \A p \in Locks : p # l => wait'[p] = wait[p]
    BY <1>1, <1>7, WakeupAllEmpties, SleepChangesOne DEF LockDestroy
  <2>2. \A p \in Locks : p # l => lock_state'[p] = lock_state[p]
    BY <1>7 DEF LockDestroy, SyncTypes
  <2>. QED
    BY <2>1, <2>2 DEF SleepOnlyWhileHeld
<1>8. ASSUME NEW c \in CVs, WakeupOne(c) \/ WakeupAll(c) \/ QueueDestroy(c),
             UNCHANGED sync
      PROVE  SleepOnlyWhileHeld'
  <2>1. LocksWaitSame
    BY <1>1, <1>8, SleepChangesOne DEF LocksWaitSame
  <2>. QED
    BY <1>8, <2>1, SleepingStays DEF sync
<1>. QED
  BY <1>2, <1>3, <1>4, <1>5, <1>6, <1>7, <1>8
     DEF SyncNext, Release, CvWait, CvSignal, CvBroadcast, CvDestroy

SyncInv == IInv /\ SyncTypes /\ SleepOnlyWhileHeld

LEMMA SyncInvInit == SyncInit => SyncInv
<1>1. SyncInit => SleepOnlyWhileHeld
  BY SyncQueues DEF SyncInit, Init, SleepOnlyWhileHeld
<1>. QED
  BY <1>1, InvInit, SyncTypesInit DEF SyncInit, SyncInv

LEMMA SyncInvStep == SyncInv /\ [SyncNext]_syncVars => SyncInv'
<1>. SUFFICES ASSUME SyncInv, [SyncNext]_syncVars PROVE SyncInv'
  OBVIOUS
<1>1. Placed /\ SyncTypes /\ SleepOnlyWhileHeld /\ running \in Addr
  BY DEF SyncInv, IInv, Placed
<1>2. IInv'
  BY <1>1, SyncSteps, InvStep DEF SyncInv
<1>. QED
  BY <1>1, <1>2, SyncTypesStep, SleepOnlyStep DEF SyncInv

(***************************************************************************)
(* Mutual exclusion, of a program that releases only what it holds and     *)
(* destroys only what is free.                                             *)
(***************************************************************************)
LEMMA ExclusionStays ==
    ASSUME MutualExclusion, UNCHANGED <<lock_state, holders>>
    PROVE  MutualExclusion'
  BY DEF MutualExclusion

LEMMA TryExcludes ==
    ASSUME MutualExclusion, SyncTypes, NEW l \in Locks, TryAcquire(l)
    PROVE  MutualExclusion'
<1>1. CASE UNCHANGED <<lock_state, holders>>
  BY <1>1, ExclusionStays
<1>2. CASE /\ lock_state[l] = 0
           /\ lock_state' = [lock_state EXCEPT ![l] = 1]
           /\ holders' = [holders EXCEPT ![l] = @ \cup {running}]
  <2>1. holders[l] = {}
    BY <1>2 DEF MutualExclusion
  <2>2. lock_state'[l] = 1 /\ holders'[l] = {running}
    BY <1>2, <2>1 DEF SyncTypes
  <2>3. \A p \in Locks : p # l => lock_state'[p] = lock_state[p]
                                  /\ holders'[p] = holders[p]
    BY <1>2 DEF SyncTypes
  <2>. QED
    BY <2>2, <2>3 DEF MutualExclusion
<1>. QED
  BY <1>1, <1>2 DEF TryAcquire, Available, sync

LEMMA UnlockExcludes ==
    ASSUME MutualExclusion, SyncTypes, NEW l \in Locks, Holds(running, l), Unlock(l)
    PROVE  MutualExclusion'
<1>1. holders[l] = {running}
  BY DEF Holds, MutualExclusion
<1>2. lock_state'[l] = 0 /\ holders'[l] = {}
  BY <1>1 DEF Unlock, SyncTypes
<1>3. \A p \in Locks : p # l => lock_state'[p] = lock_state[p]
                                /\ holders'[p] = holders[p]
  BY DEF Unlock, SyncTypes
<1>. QED
  BY <1>2, <1>3 DEF MutualExclusion

LEMMA ExclusionStep ==
    ASSUME Disciplined, MutualExclusion, SyncTypes, running \in Addr,
           [SyncNext]_syncVars
    PROVE  MutualExclusion'
<1>1. CASE UNCHANGED <<lock_state, holders>>
  BY <1>1, ExclusionStays
<1>2. CASE AcquireAgain
  <2>1. flock[running] \in Locks /\ TryAcquire(flock[running])
    BY <1>2 DEF AcquireAgain, SyncTypes
  <2>. QED
    BY <2>1, TryExcludes
<1>3. ASSUME NEW l \in Locks, Acquire(l) PROVE MutualExclusion'
  BY <1>3, TryExcludes DEF Acquire
<1>4. ASSUME NEW l \in Locks, Release(l) PROVE MutualExclusion'
  BY <1>4, UnlockExcludes DEF Release
<1>5. ASSUME NEW l \in Locks, NEW c \in CVs, CvWait(c, l) PROVE MutualExclusion'
  BY <1>5, UnlockExcludes DEF CvWait
<1>6. ASSUME NEW l \in Locks, LockDestroy(l) PROVE MutualExclusion'
  <2>1. lock_state[l] = 0 /\ lock_state'[l] = 2 /\ holders' = holders
        /\ \A p \in Locks : p # l => lock_state'[p] = lock_state[p]
    BY <1>6 DEF LockDestroy, SyncTypes
  <2>. QED
    BY <2>1 DEF MutualExclusion
<1>. QED
  BY <1>1, <1>2, <1>3, <1>4, <1>5, <1>6
     DEF SyncNext, Other, CvSleep, CvSignal, CvBroadcast, CvDestroy, sync, syncVars

(***************************************************************************)
(* The theorems.                                                           *)
(***************************************************************************)
\* Each call of the locks and condition variables keeps the types of their
\* fields; a thread in the middle of one has the lock it was called with.
THEOREM SyncTyped == SyncSpec => []SyncTypeOK
<1>1. SyncInv => SyncTypeOK
  BY DEF SyncInv, SyncTypes, SyncTypeOK, Frames
<1>. QED
  BY <1>1, SyncInvInit, SyncInvStep, PTL DEF SyncSpec

\* Locks and condition variables keep every thread in exactly one place.
THEOREM SyncOnePlace == SyncSpec => []OnePlace
<1>1. SyncInv => OnePlace
  BY InvPlaces DEF SyncInv
<1>. QED
  BY <1>1, SyncInvInit, SyncInvStep, PTL DEF SyncSpec

\* No thread is on the queue of a lock that is available: lock_release resets
\* the state and wakes all in one masked section, and lock_acquire tests and
\* sleeps in one.
THEOREM SyncSleeps == SyncSpec => []SleepOnlyWhileHeld
<1>1. SyncInv => SleepOnlyWhileHeld
  BY DEF SyncInv
<1>. QED
  BY <1>1, SyncInvInit, SyncInvStep, PTL DEF SyncSpec

\* A careful program never has two threads between lock_acquire and
\* lock_release, and the lock's state says whether one is.
THEOREM SyncExcludes ==
    ASSUME Disciplined
    PROVE  SyncSpec => []MutualExclusion
<1>1. SyncInit => MutualExclusion
  BY DEF SyncInit, MutualExclusion
<1>2. SyncInv /\ MutualExclusion /\ [SyncNext]_syncVars => MutualExclusion'
  BY ExclusionStep DEF SyncInv, IInv, Placed
<1>. QED
  BY <1>1, <1>2, SyncInvInit, SyncInvStep, PTL DEF SyncSpec

\* Locks and condition variables keep to the life of a thread as well.
THEOREM SyncImplementsLifecycle ==
    ASSUME Disciplined
    PROVE  SyncSpec => ImplementsLifecycle
<1>1. SyncInv /\ SyncInv' /\ [SyncNext]_syncVars => Lifecycle!Next
  BY SyncSteps, LifecycleStep DEF SyncInv, IInv
<1>2. SyncSpec => [][Lifecycle!Next]_Mode
  BY <1>1, SyncInvInit, SyncInvStep, PTL DEF SyncSpec
<1>3. SyncInit => Lifecycle!Init
  BY LifecycleInit DEF SyncInit
<1>. QED
  BY <1>2, <1>3, PTL DEF SyncSpec, ImplementsLifecycle, Lifecycle!Spec

(***************************************************************************)
(* The loop of lock_acquire with interrupts masked, of a careful program   *)
(* with one lock.  (With two locks, threads that take them in opposite     *)
(* orders can make it spin.)                                               *)
(***************************************************************************)
OneLock == \A l, m \in Locks : l = m

\* A thread that has the lock is in its own code, and is not asleep.
Holding == \A l \in Locks : \A a \in holders[l] : frame[a] = "none" /\ a \in Live
Framed == \A a \in Addr : Asleep(a) => frame[a] # "none"
\* The lock a thread waits for is not destroyed.
Usable == \A a \in Addr : flock[a] \in Locks => lock_state[flock[a]] # 2

SpinInv == Unflagged /\ Holding /\ Framed /\ Usable

LEMMA SpinInit == SyncInit => SpinInv
<1>. SUFFICES ASSUME SyncInit PROVE SpinInv
  OBVIOUS
<1>1. Unflagged
  BY UnflaggedInit DEF SyncInit
<1>2. Holding /\ Usable
  BY NoneIsNone DEF SyncInit, Holding, Usable
<1>3. Framed
  BY OnEmpty DEF SyncInit, Init, Framed, Asleep
<1>. QED
  BY <1>1, <1>2, <1>3 DEF SpinInv

\* The threads below: flags stay down, nobody dies who holds the lock, and
\* only the running thread goes to sleep.
LEMMA UnflaggedStays == Unflagged /\ UNCHANGED flag => Unflagged'
  BY DEF Unflagged

LEMMA UnflaggedSync ==
    ASSUME Unflagged, Placed, Fields, [SyncNext]_syncVars
    PROVE  Unflagged'
<1>1. ~flag[running]
  BY Zenon DEF Unflagged, Placed
<1>2. CASE UNCHANGED flag
  BY <1>2, UnflaggedStays
<1>3. ASSUME NEW a \in Addr, Create(a) PROVE Unflagged'
  <2>1. flag' = [flag EXCEPT ![a] = FALSE] /\ flag \in [Addr -> BOOLEAN]
    BY <1>3 DEF Create, Fields
  <2>2. \A b \in Addr : flag'[b] = IF b = a THEN FALSE ELSE flag[b]
    BY <2>1, Zenon
  <2>. QED
    BY <2>2, Zenon DEF Unflagged
<1>4. /\ \A i : YieldTo(i) => UNCHANGED flag
      /\ \A q : Sleep(q) => UNCHANGED flag
      /\ Resume => UNCHANGED flag
  BY <1>1, SwitchesKeepFlags
<1>5. \A q : WakeupOne(q) \/ WakeupAll(q) \/ QueueDestroy(q) => UNCHANGED flag
  BY DEF WakeupOne, WakeupAll, QueueDestroy, fields
<1>6. UNCHANGED vars \/ Start \/ ExitSwitch \/ (\E f : Fault(f)) => UNCHANGED flag
  BY DEF vars, Start, ExitSwitch, Fault, fields
<1>7. ASSUME NEW l, TryAcquire(l) \/ Unlock(l) PROVE UNCHANGED flag
  BY <1>4, <1>5, <1>6, <1>7 DEF TryAcquire, Unlock, WakeOnRelease
<1>8. CASE Other
  BY <1>2, <1>3, <1>4, <1>6, <1>8 DEF Other, Interrupt, YieldAny, ExitSelf
<1>. QED
  BY <1>2, <1>4, <1>5, <1>6, <1>7, <1>8
     DEF SyncNext, AcquireAgain, CvSleep, GoToSleep, Acquire, Release, LockDestroy,
         CvWait, CvSignal, CvBroadcast, CvDestroy, syncVars

LEMMA LiveKept ==
    ASSUME Placed
    PROVE  /\ \A n : SwitchTo(n) => Live' = Live
           /\ Returns => Live' = Live
           /\ UNCHANGED pc => Live' = Live
           /\ \A q \in Queues : QueueDestroy(q) /\ wait[q] = <<>> => Live' = Live
<1>1. \A n : SwitchTo(n) => Live' = Live
  BY LiveOf DEF SwitchTo, Codes
<1>2. Returns => Live' = Live
  BY LiveOf DEF Returns, Codes
<1>3. UNCHANGED pc => Live' = Live
  BY DEF Live
<1>4. ASSUME NEW q \in Queues, QueueDestroy(q), wait[q] = <<>> PROVE Live' = Live
  BY <1>4, OnEmpty DEF QueueDestroy, Live
<1>. QED
  BY <1>1, <1>2, <1>3, <1>4

LEMMA SwitchesAre ==
    ASSUME Placed, ~flag[running]
    PROVE  /\ \A i : YieldTo(i) => Live' = Live
           /\ \A q : Sleep(q) => SwitchesFromWait(q) /\ Live' = Live
           /\ Resume => Live' = Live
<1>1. \A q : Sleep(q) => SwitchesFromWait(q)
  BY DEF Sleep, Insert, Counted, SwitchesFromWait
<1>2. Resume => Returns
  BY DEF Resume, Returns
<1>3. \A n : SwitchTo(n) => Live' = Live
  BY LiveKept
<1>4. \A i : YieldTo(i) => Live' = Live
  BY <1>3 DEF YieldTo
<1>5. \A q : SwitchesFromWait(q) => Live' = Live
  BY <1>3 DEF SwitchesFromWait
<1>6. Returns => Live' = Live
  BY LiveKept
<1>. QED
  BY <1>1, <1>2, <1>4, <1>5, <1>6

\* What each call of a lock or condition variable does to the threads below.
Calm == Live' = Live
LEMMA TryIsCalm ==
    ASSUME Placed, ~flag[running], NEW l, TryAcquire(l)
    PROVE  Calm
  BY SwitchesAre, LiveKept DEF TryAcquire, Fault, vars, SwitchesFromWait, Calm

LEMMA UnlockIsCalm ==
    ASSUME Placed, NEW l, Unlock(l)
    PROVE  Calm /\ running' = running
  BY LiveKept DEF Unlock, WakeOnRelease, WakeupAll, vars, Calm

\* A frame changes only for the running thread, and one that goes to sleep is
\* in the middle of a call.
LEMMA FramedStep ==
    ASSUME Orderly, Placed', Framed,
           \A a \in Addr : a # running => frame'[a] = frame[a],
           running' = running \/ frame'[running] # "none"
    PROVE  Framed'
  BY DEF Orderly, Placed, Framed, Asleep

LEMMA FramedSync ==
    ASSUME Disciplined, SyncInv, SyncInv', Framed, [SyncNext]_syncVars
    PROVE  Framed'
<1>1. /\ Placed /\ Placed' /\ SyncTypes /\ frame \in [Addr -> Frames] /\ running \in Addr
  BY DEF SyncInv, IInv, Placed, SyncTypes
<1>2. Orderly
  BY <1>1, SyncSteps, OrderlyStep DEF SyncInv
<1>3. CASE UNCHANGED <<wait, frame>>
  BY <1>3 DEF Framed, Asleep
<1>4. CASE Other
  BY <1>3, <1>4, OtherKeepsWait DEF sync
<1>5. ASSUME NEW f, NEW l, NEW c, InFrame(f, l, c), running' = running \/ f # "none"
      PROVE  Framed'
  <2>1. frame' = [frame EXCEPT ![running] = f]
    BY <1>5 DEF InFrame
  <2>2. frame'[running] = f /\ \A a \in Addr : a # running => frame'[a] = frame[a]
    BY <1>1, <2>1
  <2>. QED
    BY <1>1, <1>2, <1>5, <2>2, FramedStep
<1>6. ASSUME NEW l, TryAcquire(l) PROVE Framed'
  <2>1. \/ InFrame("none", None, None) /\ running' = running
        \/ InFrame("acquire", l, None)
        \/ UNCHANGED <<wait, frame>>
    BY <1>6 DEF TryAcquire, vars, Fault, lists, sync
  <2>. QED
    BY <1>3, <1>5, <2>1
<1>7. CASE CvSleep
  <2>1. frame' = [frame EXCEPT ![running] = "cv_acquire"]
    BY <1>7 DEF CvSleep, GoToSleep
  <2>2. /\ frame'[running] = "cv_acquire"
        /\ \A a \in Addr : a # running => frame'[a] = frame[a]
    BY <1>1, <2>1
  <2>. QED
    BY <1>1, <1>2, <2>2, FramedStep
<1>8. ASSUME UNCHANGED <<running, frame>> PROVE Framed'
  BY <1>1, <1>2, <1>8, FramedStep
<1>9. ASSUME NEW l, Unlock(l) PROVE running' = running
  BY <1>1, <1>9, UnlockIsCalm
<1>10. \A q : WakeupOne(q) \/ WakeupAll(q) \/ QueueDestroy(q) => running' = running
  BY DEF WakeupOne, WakeupAll, QueueDestroy
<1>. QED
  BY <1>3, <1>4, <1>5, <1>6, <1>7, <1>8, <1>9, <1>10
     DEF SyncNext, AcquireAgain, Acquire, Release, LockDestroy, CvWait, CvSignal,
         CvBroadcast, CvDestroy, sync, syncVars, vars

LEMMA HoldingSync ==
    ASSUME Disciplined, OneLock, SyncInv, Unflagged, Holding, [SyncNext]_syncVars
    PROVE  Holding'
<1>1. /\ Placed /\ SyncTypes /\ SleepOnlyWhileHeld /\ running \in Addr
      /\ frame \in [Addr -> Frames] /\ holders \in [Locks -> SUBSET Addr]
  BY DEF SyncInv, IInv, Placed, SyncTypes
<1>2. ~flag[running] /\ running \in Live
  BY <1>1, LiveOf, Zenon DEF Unflagged
<1>3. ASSUME Calm, UNCHANGED <<frame, holders>> PROVE Holding'
  BY <1>3 DEF Holding, Calm
<1>4. CASE Other
  <2>1. CASE (\A l \in Locks : ~Holds(running, l)) /\ ready # <<>> /\ ExitSelf
    <3>1. Live' = Live \ {running} /\ UNCHANGED <<frame, holders>>
      BY <1>1, <1>4, <2>1 DEF ExitSelf, ExitSwitch, Live, Placed, Other, sync
    <3>. QED
      BY <2>1, <3>1 DEF Holding, Holds
  <2>2. CASE \E a \in Addr : Create(a)
    <3>1. Live \subseteq Live' /\ UNCHANGED <<frame, holders>>
      BY <1>1, <1>4, <2>2 DEF Create, Live, Placed, Other, sync
    <3>. QED
      BY <3>1 DEF Holding
  <2>3. CASE Resume \/ Interrupt \/ YieldAny
    BY <1>1, <1>2, <1>3, <1>4, <2>3, SwitchesAre DEF Interrupt, YieldAny, Other, sync, Calm
  <2>4. CASE Start
    <3>1. Live' = Live
      BY <1>1, <2>4 DEF Start, Live, Placed
    <3>. QED
      BY <1>3, <1>4, <3>1 DEF Other, sync, Calm
  <2>. QED
    BY <1>4, <2>1, <2>2, <2>3, <2>4 DEF Other
<1>5. ASSUME Calm, running \notin UNION {holders[l] : l \in Locks},
             UNCHANGED holders, \A a \in Addr : a # running => frame'[a] = frame[a]
      PROVE  Holding'
  BY <1>1, <1>5 DEF Holding, Calm
<1>6. ASSUME NEW l \in Locks, TryAcquire(l), running \notin holders[l]
      PROVE  Holding'
  <2>1. Calm
    BY <1>1, <1>2, <1>6, TryIsCalm
  <2>2. running \notin UNION {holders[m] : m \in Locks}
    BY <1>6 DEF OneLock
  <2>3. CASE InFrame("none", None, None)
             /\ holders' = [holders EXCEPT ![l] = @ \cup {running}]
    <3>1. /\ frame'[running] = "none"
          /\ \A a \in Addr : a # running => frame'[a] = frame[a]
      BY <1>1, <2>3 DEF InFrame
    <3>2. \A m \in Locks : holders'[m] \subseteq holders[m] \cup {running}
      BY <1>1, <2>3
    <3>. QED
      BY <1>1, <1>2, <2>1, <3>1, <3>2 DEF Holding, Calm
  <2>4. CASE InFrame("acquire", l, None) /\ UNCHANGED holders
    <3>1. \A a \in Addr : a # running => frame'[a] = frame[a]
      BY <1>1, <2>4 DEF InFrame
    <3>. QED
      BY <1>5, <2>1, <2>2, <2>4, <3>1
  <2>5. CASE UNCHANGED sync
    BY <1>3, <2>1, <2>5 DEF sync
  <2>. QED
    BY <1>6, <2>3, <2>4, <2>5 DEF TryAcquire
<1>7. \A l \in Locks : running \in holders[l] => frame[running] = "none"
  BY DEF Holding
<1>8. CASE AcquireAgain
  <2>1. /\ flock[running] \in Locks /\ frame[running] # "none"
        /\ TryAcquire(flock[running])
    BY <1>1, <1>8 DEF AcquireAgain, SyncTypes
  <2>. QED
    BY <1>6, <1>7, <2>1
<1>9. CASE CvSleep
  <2>1. /\ frame[running] = "cv_gap" /\ UNCHANGED holders
        /\ frame' = [frame EXCEPT ![running] = "cv_acquire"]
    BY <1>9 DEF CvSleep, GoToSleep
  <2>2. Calm
    BY <1>1, <1>2, <1>9, SwitchesAre, LiveKept
       DEF CvSleep, GoToSleep, SwitchesFromWait, vars, Calm
  <2>3. running \notin UNION {holders[l] : l \in Locks}
    BY <1>7, <2>1
  <2>4. \A a \in Addr : a # running => frame'[a] = frame[a]
    BY <1>1, <2>1
  <2>. QED
    BY <1>5, <2>1, <2>2, <2>3, <2>4
<1>10. ASSUME NEW l \in Locks, Acquire(l) PROVE Holding'
  BY <1>6, <1>10 DEF Acquire, Holds
<1>11. ASSUME NEW l \in Locks, Unlock(l),
              \A a \in Addr : a # running => frame'[a] = frame[a]
       PROVE  Holding'
  <2>1. Calm
    BY <1>1, <1>11, UnlockIsCalm
  <2>2. \A m \in Locks : holders'[m] = holders[m] \ {running}
    BY <1>1, <1>11 DEF Unlock, OneLock
  <2>. QED
    BY <1>1, <1>11, <2>1, <2>2 DEF Holding, Calm
<1>12. ASSUME NEW l \in Locks, Release(l) PROVE Holding'
  BY <1>11, <1>12 DEF Release
<1>13. ASSUME NEW l \in Locks, NEW c \in CVs, CvWait(c, l) PROVE Holding'
  <2>1. \A a \in Addr : a # running => frame'[a] = frame[a]
    BY <1>1, <1>13 DEF CvWait, InFrame
  <2>. QED
    BY <1>11, <1>13, <2>1 DEF CvWait
<1>14. ASSUME NEW q \in Queues, QueueDestroy(q), wait[q] = <<>>, UNCHANGED <<frame, holders>>
       PROVE  Holding'
  BY <1>1, <1>3, <1>14, LiveKept DEF Calm
<1>15. ASSUME NEW l \in Locks, LockDestroy(l) PROVE Holding'
  <2>1. wait[l] = <<>>
    BY <1>1, <1>15 DEF LockDestroy, SleepOnlyWhileHeld
  <2>. QED
    BY <1>14, <1>15, <2>1, SyncQueues DEF LockDestroy
<1>16. ASSUME NEW c \in CVs, CvDestroy(c) PROVE Holding'
  BY <1>14, <1>16, SyncQueues DEF CvDestroy, sync
<1>17. ASSUME UNCHANGED <<pc, sync>> PROVE Holding'
  BY <1>1, <1>3, <1>17, LiveKept DEF sync, Calm
<1>18. ASSUME NEW c, WakeupOne(c) \/ WakeupAll(c), UNCHANGED sync PROVE Holding'
  BY <1>17, <1>18 DEF WakeupOne, WakeupAll
<1>19. CASE UNCHANGED syncVars
  BY <1>17, <1>19 DEF syncVars, vars
<1>. QED
  BY <1>4, <1>8, <1>9, <1>10, <1>12, <1>13, <1>15, <1>16, <1>18, <1>19
     DEF SyncNext, CvSignal, CvBroadcast

LEMMA UsableSync ==
    ASSUME Disciplined, SyncInv, Usable, [SyncNext]_syncVars
    PROVE  Usable'
<1>1. /\ SyncTypes /\ running \in Addr /\ flock \in [Addr -> Locks \cup {None}]
      /\ lock_state \in [Locks -> 0 .. 2]
  BY DEF SyncInv, IInv, Placed, SyncTypes
<1>2. CASE UNCHANGED <<flock, lock_state>>
  BY <1>2 DEF Usable
\* A lock's state is set to 0 or 1 while the running thread calls it.
<1>3. ASSUME NEW l \in Locks, lock_state' \in {lock_state, [lock_state EXCEPT ![l] = 0],
                                              [lock_state EXCEPT ![l] = 1]},
             lock_state'[l] # 2, NEW m \in {l, None},
             flock' = flock \/ flock' = [flock EXCEPT ![running] = m]
      PROVE  Usable'
  <2>1. \A k \in Locks : lock_state[k] # 2 => lock_state'[k] # 2
    BY <1>1, <1>3
  <2>2. \A a \in Addr : flock'[a] \in {flock[a], l, None}
    BY <1>1, <1>3
  <2>. QED
    BY <1>1, <1>3, <2>1, <2>2, NoneIsNone DEF Usable
<1>4. ASSUME NEW l \in Locks, TryAcquire(l) PROVE Usable'
  <2>1. CASE InFrame("none", None, None) /\ lock_state' = [lock_state EXCEPT ![l] = 1]
    <3>1. lock_state'[l] # 2
      BY <1>1, <2>1
    <3>. QED
      BY <1>3, <2>1, <3>1 DEF InFrame
  <2>2. CASE lock_state[l] = 1 /\ InFrame("acquire", l, None) /\ UNCHANGED lock_state
    <3>1. /\ lock_state' = lock_state /\ lock_state'[l] # 2
          /\ flock' = [flock EXCEPT ![running] = l]
      BY <2>2 DEF InFrame
    <3>. QED
      BY <1>3, <3>1
  <2>3. CASE UNCHANGED sync
    BY <1>2, <2>3 DEF sync
  <2>. QED
    BY <1>4, <2>1, <2>2, <2>3 DEF TryAcquire
<1>5. ASSUME NEW l \in Locks, Unlock(l),
             flock' = flock \/ flock' = [flock EXCEPT ![running] = l]
      PROVE  Usable'
  <2>1. lock_state' = [lock_state EXCEPT ![l] = 0] /\ lock_state'[l] # 2
    BY <1>1, <1>5 DEF Unlock
  <2>. QED
    BY <1>3, <1>5, <2>1
<1>6. CASE AcquireAgain
  <2>1. flock[running] \in Locks /\ TryAcquire(flock[running])
    BY <1>1, <1>6 DEF AcquireAgain, SyncTypes
  <2>. QED
    BY <1>4, <2>1
<1>7. ASSUME NEW l \in Locks, LockDestroy(l) PROVE Usable'
  <2>1. /\ \A a \in Addr : flock[a] # l
        /\ flock' = flock /\ lock_state' = [lock_state EXCEPT ![l] = 2]
    BY <1>7 DEF LockDestroy
  <2>. QED
    BY <1>1, <2>1 DEF Usable
<1>. QED
  BY <1>2, <1>4, <1>5, <1>6, <1>7
     DEF SyncNext, Other, CvSleep, Acquire, Release, CvWait, InFrame, CvSignal,
         CvBroadcast, CvDestroy, sync, syncVars

LEMMA SpinStep ==
    ASSUME Disciplined, OneLock, SyncInv, SyncInv', SpinInv, [SyncNext]_syncVars
    PROVE  SpinInv'
<1>1. Placed /\ Fields
  BY DEF SyncInv, IInv
<1>2. Unflagged /\ Holding /\ Framed /\ Usable
  BY DEF SpinInv
<1>3. Unflagged'
  BY <1>1, <1>2, UnflaggedSync
<1>4. Holding'
  BY <1>2, HoldingSync
<1>5. Framed'
  BY <1>2, FramedSync
<1>6. Usable'
  BY <1>2, UsableSync
<1>. QED
  BY <1>3, <1>4, <1>5, <1>6 DEF SpinInv

LEMMA HolderIsReady ==
    ASSUME SyncInv, SpinInv, MutualExclusion
    PROVE  NoMaskedSpin
<1>. SUFFICES ASSUME frame[running] = "acquire", lock_state[flock[running]] # 0
              PROVE  ready # <<>>
  BY DEF NoMaskedSpin
<1>. DEFINE l == flock[running]
<1>1. Placed /\ SyncTypes /\ running \in Addr
  BY DEF SyncInv, IInv, Placed
<1>2. l \in Locks /\ lock_state[l] \in 0 .. 2
  BY <1>1 DEF SyncTypes
<1>3. lock_state[l] = 1
  BY <1>1, <1>2 DEF SpinInv, Usable
<1>4. PICK h \in holders[l] : TRUE
  BY <1>2, <1>3 DEF MutualExclusion
<1>5. h \in Live /\ h \in Addr /\ h # running /\ ~Asleep(h)
  BY <1>1, <1>2, <1>4 DEF SpinInv, Holding, Framed, Live
<1>6. h \in On(ready)
  BY <1>1, <1>5 DEF Placed, Live, Asleep
<1>. QED
  BY <1>6, OnEmpty

\* lock_acquire never spins with interrupts masked, if there is one lock and
\* the program is careful: the thread that has the lock is ready.
THEOREM SyncNoSpin ==
    ASSUME Disciplined, OneLock
    PROVE  SyncSpec => []NoMaskedSpin
<1>1. SyncSpec => []SyncInv
  BY SyncInvInit, SyncInvStep, PTL DEF SyncSpec
<1>2. SyncInv /\ SyncInv' /\ SpinInv /\ [SyncNext]_syncVars => SpinInv'
  BY SpinStep
<1>3. SyncInv /\ SpinInv /\ MutualExclusion => NoMaskedSpin
  BY HolderIsReady
<1>. QED
  BY <1>1, <1>2, <1>3, SpinInit, SyncExcludes, PTL DEF SyncSpec
=============================================================================
