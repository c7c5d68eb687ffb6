--------------------------- MODULE MCRequestQueue ---------------------------
EXTENDS RequestQueue, TLC

\* Connections and workers are interchangeable in the safety runs.
Symmetry == Permutations(Conns) \cup Permutations(Workers)
=============================================================================
