---------------------------- MODULE MCFileBlocks ----------------------------
(* A file of 7 blocks of 2 cells: 1 direct, 2 indirect, 4 doubly indirect. *)
EXTENDS FileBlocks, TLC
CONSTANTS f1, f2

Symmetry == Permutations(Files)

\* Texts of one cell, a block and a half, and two blocks and a half.
Texts == {<<91>>, <<92, 93, 94>>, <<95, 96, 97, 98, 99>>}
=============================================================================
