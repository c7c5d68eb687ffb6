----------------------------- MODULE MCFileCache -----------------------------
EXTENDS FileCache

CONSTANTS x, y, z
\* Two names share a hash value, the third has its own.
Colliding == [n \in {x, y, z} |-> IF n = z THEN z ELSE x]

Symmetry == Permutations(Threads) \cup Permutations(Data)
==============================================================================
