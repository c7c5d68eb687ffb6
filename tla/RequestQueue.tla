---------------------------- MODULE RequestQueue ----------------------------
(***************************************************************************)
(* The request queue of webserver/server_thread.c: the master thread runs  *)
(* server.c's accept loop and puts each connection into a ring buffer      *)
(* (server_request); nr_threads workers run stub_func, which takes a       *)
(* connection and serves it.                                               *)
(*                                                                         *)
(* Every access to in, out and buf is made under sv->lock, so a critical   *)
(* section is one action.  pthread_cond_wait releases the lock and joins   *)
(* the waiters in one step; a woken thread competes for the lock again and *)
(* tests its condition again.  POSIX lets a wait end without a signal.     *)
(*                                                                         *)
(* This is the nr_threads > 0 branch of server_request; with no workers    *)
(* the master serves the connection itself and the ring is not used (that  *)
(* branch is the master thread of FileCache).                              *)
(*                                                                         *)
(* Definitions marked "fault" are variants of the next definition with a   *)
(* plausible bug; no specification uses them.                              *)
(***************************************************************************)
EXTENDS Integers, Sequences

CONSTANTS
    Workers,        \* the nr_threads worker threads
    MaxRequests,    \* sv->max_requests
    Conns,          \* the descriptors accept can return
    NoConn          \* "no descriptor": an idle thread, an unwritten slot

\* server.c rejects negative arguments only, so max_requests may be 0.
ASSUME WorkersAssumption == Workers # {}
ASSUME MaxRequestsAssumption == MaxRequests \in Nat
ASSUME NoConnAssumption == NoConn \notin Conns

VARIABLES
    in,         \* sv->in: the slot the master writes next
    out,        \* sv->out: the slot a worker reads next
    buf,        \* sv->buf
    mpc,        \* where the master is
    mconn,      \* its connfd
    wpc,        \* wpc[w]: where worker w is
    wconn       \* wconn[w]: its msg, the connection it serves

vars == <<in, out, buf, mpc, mconn, wpc, wconn>>

N == MaxRequests + 1            \* the ring has one slot more than it may hold
Slots == 0 .. MaxRequests

NextSlot_NoWrap(s) == s + 1                     \* fault: the modulus forgotten
NextSlot(s) == (s + 1) % N

\* The number of waiting requests, as the code computes it.
Count == (in - out + N) % N
Empty == in = out
Full_OffByOne == Count = N                      \* fault: one request too many
Full == Count = MaxRequests

\* Whether Put signals cv_empty, and Take cv_full: both are decided before
\* the index moves.
WakesWorker_Late == NextSlot(in) = out          \* fault: decided after it moved
WakesWorker == Empty
WakesMaster_Late ==                             \* fault: decided after it moved
    (in - NextSlot(out) + N) % N = MaxRequests
WakesMaster == Full

TakenSlot_Late == NextSlot(out)                 \* fault: read after out moved
TakenSlot == out

\* The ring's contents, oldest first.
Contents == [i \in 1 .. Count |-> buf[(out + i - 1) % N]]

\* A descriptor is open from accept until its worker has closed it.
Open(c) ==
    \/ mconn = c
    \/ \E i \in 1 .. Count : Contents[i] = c
    \/ \E w \in Workers : wconn[w] = c

EmptyWaiters == {w \in Workers : wpc[w] = "cv_empty"}

TypeOK ==
    /\ in \in Slots
    /\ out \in Slots
    /\ buf \in [Slots -> Conns \cup {NoConn}]
    /\ mpc \in {"accept", "put", "cv_full"}
    /\ mconn \in Conns \cup {NoConn}
    /\ wpc \in [Workers -> {"take", "cv_empty", "serve"}]
    /\ wconn \in [Workers -> Conns \cup {NoConn}]

Init ==
    /\ in = 0 /\ out = 0
    /\ buf = [s \in Slots |-> NoConn]
    /\ mpc = "accept" /\ mconn = NoConn
    /\ wpc = [w \in Workers |-> "take"]
    /\ wconn = [w \in Workers |-> NoConn]

----------------------------------------------------------------------------
(* The master: main's accept, then server_request.                         *)

\* accept returns a descriptor that is not in use.
Accept(c) ==
    /\ mpc = "accept"
    /\ ~Open(c)
    /\ mpc' = "put"
    /\ mconn' = c
    /\ UNCHANGED <<in, out, buf, wpc, wconn>>

\* pthread_cond_signal(sv->cv_empty): some waiter, if there is one, wakes.
SignalEmpty ==
    IF EmptyWaiters = {}
    THEN UNCHANGED wpc
    ELSE \E w \in EmptyWaiters : wpc' = [wpc EXCEPT ![w] = "take"]

Put ==
    /\ mpc = "put"
    /\ ~Full
    /\ buf' = [buf EXCEPT ![in] = mconn]
    /\ IF WakesWorker THEN SignalEmpty ELSE UNCHANGED wpc
    /\ in' = NextSlot(in)
    /\ mpc' = "accept"
    /\ mconn' = NoConn
    /\ UNCHANGED <<out, wconn>>

PutWait ==
    /\ mpc = "put"
    /\ Full
    /\ mpc' = "cv_full"
    /\ UNCHANGED <<in, out, buf, mconn, wpc, wconn>>

SpuriousWakeMaster ==
    /\ mpc = "cv_full"
    /\ mpc' = "put"
    /\ UNCHANGED <<in, out, buf, mconn, wpc, wconn>>

----------------------------------------------------------------------------
(* A worker: the loop of stub_func.                                        *)

\* pthread_cond_signal(sv->cv_full): only the master waits there.
SignalFull == mpc' = IF mpc = "cv_full" THEN "put" ELSE mpc

Take(w) ==
    /\ wpc[w] = "take"
    /\ ~Empty
    /\ wconn' = [wconn EXCEPT ![w] = buf[TakenSlot]]
    /\ IF WakesMaster THEN SignalFull ELSE UNCHANGED mpc
    /\ out' = NextSlot(out)
    /\ wpc' = [wpc EXCEPT ![w] = "serve"]
    /\ UNCHANGED <<in, buf, mconn>>

TakeWait(w) ==
    /\ wpc[w] = "take"
    /\ Empty
    /\ wpc' = [wpc EXCEPT ![w] = "cv_empty"]
    /\ UNCHANGED <<in, out, buf, mpc, mconn, wconn>>

SpuriousWakeWorker(w) ==
    /\ wpc[w] = "cv_empty"
    /\ wpc' = [wpc EXCEPT ![w] = "take"]
    /\ UNCHANGED <<in, out, buf, mpc, mconn, wconn>>

\* do_server_request returns; request_destroy has closed the connection.
Served(w) ==
    /\ wpc[w] = "serve"
    /\ wpc' = [wpc EXCEPT ![w] = "take"]
    /\ wconn' = [wconn EXCEPT ![w] = NoConn]
    /\ UNCHANGED <<in, out, buf, mpc, mconn>>

----------------------------------------------------------------------------
MasterStep == Put \/ PutWait
WorkerStep(w) == Take(w) \/ TakeWait(w) \/ Served(w)

Next ==
    \/ \E c \in Conns : Accept(c)
    \/ MasterStep
    \/ SpuriousWakeMaster
    \/ \E w \in Workers : WorkerStep(w) \/ SpuriousWakeWorker(w)

Spec == Init /\ [][Next]_vars

\* Every thread that can run does run (the kernel schedules them all, and a
\* thread that asks for the mutex gets it), and do_server_request returns.
\* Nothing is assumed of clients or of spurious wakeups.
Fairness == WF_vars(MasterStep) /\ \A w \in Workers : WF_vars(WorkerStep(w))

FairSpec == Spec /\ Fairness

----------------------------------------------------------------------------
(* Properties.                                                             *)

\* cv_empty is signalled only for the first request of an empty ring, and
\* the signalled worker may find the ring emptied by another: still, while a
\* request waits, some worker is awake to come for it.
NoLostRequestSignal == ~Empty => EmptyWaiters # Workers

\* cv_full is signalled only by the worker that makes room in a full ring:
\* the master never sleeps while there is room.
MasterSleepsOnlyWhenFull == mpc = "cv_full" => Full

\* No connection is in two places: queued twice, queued while it is served,
\* served by two workers, or still in the master's hands.  (Two owners would
\* both write to the descriptor and both close it.)
OneOwner ==
    /\ \A i, j \in 1 .. Count : Contents[i] = Contents[j] => i = j
    /\ \A w \in Workers : wpc[w] = "serve" => wconn[w] \in Conns
    /\ \A w, v \in Workers : wconn[w] = wconn[v] => wconn[w] = NoConn \/ w = v
    /\ \A i \in 1 .. Count :
          Contents[i] # mconn /\ \A w \in Workers : Contents[i] # wconn[w]
    /\ \A w \in Workers : wconn[w] = mconn => mconn = NoConn

\* The ring, its indices and its stale slots are a bounded FIFO queue: a
\* request is handed out in arrival order, once, and requests do not wait for
\* ever while a worker could take them.
FIFO == INSTANCE BoundedFIFO WITH
            Capacity <- MaxRequests, pending <- Contents, holding <- wconn

ImplementsFIFO == FIFO!FairSpec

\* Every connection the master has accepted is eventually in a worker's hands.
EveryRequestServed ==
    \A c \in Conns :
        (mconn = c) ~> (\E w \in Workers : wconn[w] = c)
=============================================================================
