--------------------------- MODULE MCDirectories ----------------------------
(* Blocks of 7 cells: after the dots, a short name fills the root's block  *)
(* and a long one begins in it and ends in the next.                       *)
EXTENDS Directories, TLC

Cells == "." :> 2 @@ ".." :> 3 @@ "a" :> 2 @@ "b" :> 2 @@ "long" :> 3
=============================================================================
