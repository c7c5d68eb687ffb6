------------------------------ MODULE MCThreads ------------------------------
EXTENDS Threads, TLC

\* Structures other than the first thread's are interchangeable, and so are
\* the queues.
Symmetry == Permutations(Addr \ {Main}) \cup Permutations(Queues)
=============================================================================
