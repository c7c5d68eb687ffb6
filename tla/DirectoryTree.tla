--------------------------- MODULE DirectoryTree ---------------------------
(***************************************************************************)
(* What the directories of fs/ promise: a tree of named nodes, in which a  *)
(* user stands at a directory, adds leaves to it, takes leaves from it and *)
(* moves to a neighbour.  A command that fails changes nothing.            *)
(***************************************************************************)
CONSTANTS Nodes, Root, Names

VARIABLES
    tree,       \* the nodes but Root, each with its parent, name and kind
    at          \* the directory the user is in

Init == tree = {} /\ at = Root

Children(d) == {t \in tree : t.parent = d}

Add(t) ==
    /\ t.parent = at
    /\ \A c \in Children(at) : c.name # t.name
    /\ t.node # Root /\ \A u \in tree : u.node # t.node
    /\ tree' = tree \cup {t}
    /\ UNCHANGED at

Take(t) ==
    /\ t \in Children(at) /\ Children(t.node) = {}
    /\ tree' = tree \ {t}
    /\ UNCHANGED at

\* To a directory in this one, to the one this is in, or back to the root.
Move ==
    /\ \/ \E t \in Children(at) : t.kind = "dir" /\ at' = t.node
       \/ \E t \in tree : t.node = at /\ at' = t.parent
       \/ at' = Root
    /\ UNCHANGED tree

Next ==
    \/ \E t \in [parent : Nodes, name : Names, node : Nodes, kind : {"file", "dir"}] :
           Add(t) \/ Take(t)
    \/ Move

Spec == Init /\ [][Next]_<<tree, at>>
=============================================================================
