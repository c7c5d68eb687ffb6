---------------------------- MODULE BoundedFIFO ----------------------------
(***************************************************************************)
(* What the request queue of the web server promises: requests wait in one *)
(* first-in first-out queue of at most Capacity entries, and every request *)
(* is handed to exactly one worker.  RequestQueue implements it with a     *)
(* ring buffer, a mutex and two condition variables.                       *)
(***************************************************************************)
EXTENDS Naturals, Sequences

CONSTANTS
    Workers,    \* the threads that take requests
    Conns,      \* the connections a request can arrive on
    Capacity,   \* how many requests may wait
    NoConn      \* what an idle worker holds

VARIABLES
    pending,    \* the waiting requests, oldest first
    holding     \* holding[w]: the request worker w is serving

vars == <<pending, holding>>

Waiting(c) == \E i \in DOMAIN pending : pending[i] = c
Held(c) == \E w \in Workers : holding[w] = c

Init == pending = <<>> /\ holding = [w \in Workers |-> NoConn]

\* A request that nobody has yet joins the tail of a queue that has room.
Put(c) ==
    /\ Len(pending) < Capacity
    /\ ~Waiting(c) /\ ~Held(c)
    /\ pending' = Append(pending, c)
    /\ UNCHANGED holding

\* An idle worker takes the oldest request.
Get(w) ==
    /\ holding[w] = NoConn
    /\ pending # <<>>
    /\ pending' = Tail(pending)
    /\ holding' = [holding EXCEPT ![w] = Head(pending)]

Done(w) ==
    /\ holding[w] # NoConn
    /\ holding' = [holding EXCEPT ![w] = NoConn]
    /\ UNCHANGED pending

Next == (\E c \in Conns : Put(c)) \/ (\E w \in Workers : Get(w) \/ Done(w))

Spec == Init /\ [][Next]_vars

\* Requests do not wait for ever beside a worker that could take one.
FairSpec == Spec /\ WF_vars(\E w \in Workers : Get(w))
=============================================================================
