-------------------------- MODULE ThreadLifecycle --------------------------
(***************************************************************************)
(* What a thread package promises about the life of a thread: one thread   *)
(* runs at a time; a thread is created ready, runs only after it was       *)
(* ready, sleeps or dies only while it runs, becomes ready again only when *)
(* it is woken, and its memory is reclaimed only once it is dead.  Threads *)
(* implements it with the lists of thread.c.                               *)
(***************************************************************************)
CONSTANT Addr       \* the threads
VARIABLE mode       \* mode[a]: where thread a is in its life

Modes == {"none", "ready", "running", "sleeping", "dead"}

Moves ==
    {<<"none", "ready">>,                               \* create
     <<"ready", "running">>,                            \* dispatch
     <<"running", "ready">>,                            \* yield
     <<"running", "sleeping">>, <<"sleeping", "ready">>,\* sleep, wake up
     <<"running", "dead">>, <<"dead", "none">>}         \* exit, reclaim

OneRuns(m) == \E a \in Addr : \A b \in Addr : m[b] = "running" <=> a = b

Init == mode \in [Addr -> {"none", "running"}] /\ OneRuns(mode)

\* One step may switch threads and reclaim dead ones.
Next ==
    /\ mode' \in [Addr -> Modes]
    /\ OneRuns(mode')
    /\ \A a \in Addr : mode'[a] = mode[a] \/ <<mode[a], mode'[a]>> \in Moves

Spec == Init /\ [][Next]_mode
=============================================================================
