---------------------------- MODULE MCThreadSync ----------------------------
EXTENDS ThreadSync, TLC

\* Structures other than the first thread's are interchangeable.
Symmetry == Permutations(Addr \ {Main})
=============================================================================
