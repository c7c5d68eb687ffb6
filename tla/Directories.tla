---------------------------- MODULE Directories -----------------------------
(***************************************************************************)
(* The directories of fs/dir.c, the inode table of fs/inode.c and the      *)
(* current directory of fs/testfs.c.                                       *)
(*                                                                         *)
(* One process runs one command at a time, so a command is an action, with *)
(* what it undoes when it fails.  A directory is the sequence of entries   *)
(* its data holds; an entry whose file was removed stays, with inode       *)
(* number -1, and is used again for a name of the same length.  Sizes are  *)
(* counted in cells.  Of a block only its being taken is modelled (see     *)
(* FileBlocks for the rest): a directory takes as many as its entries      *)
(* reach into, a file as many as were written.                             *)
(*                                                                         *)
(* An entry that begins in the last block of a directory and ends in a     *)
(* block that cannot be allocated leaves the directory with the greatest   *)
(* size a file can have and with half an entry: a scan that reaches it     *)
(* fails an assertion, and the behaviour ends here ("broken").             *)
(*                                                                         *)
(* Definitions marked "fault" are variants of the next definition with a   *)
(* plausible bug; no specification uses them.                              *)
(***************************************************************************)
EXTENDS Integers, Sequences, SequencesExt, FiniteSetsExt, Functions

CONSTANTS
    Names,          \* the names users give
    EntrySize,      \* the cells of an entry with a name, "." and ".." too
    NrInodes,       \* NR_INODE_BLOCKS * INODES_PER_BLOCK
    BlockCells,     \* BLOCK_SIZE
    MaxBlocks,      \* max_fs_blocks
    MaxRefs         \* bound: on the references to an inode

ASSUME NamesAssumption == Names \cap {".", ".."} = {}
ASSUME EntriesAssumption ==
    /\ \A n \in Names \cup {".", ".."} : EntrySize[n] \in 1 .. BlockCells
    /\ EntrySize["."] + EntrySize[".."] <= BlockCells
ASSUME VolumeAssumption ==
    NrInodes \in Nat \ {0} /\ MaxBlocks \in Nat \ {0} /\ BlockCells \in Nat \ {0} /\ MaxRefs \in Nat

Inodes == 0 .. NrInodes     \* bits of the inode bitmap: it has more than NrInodes
Root == 0
Removed == -1               \* INVALID_INODE_NR

VARIABLES
    type,           \* type[i]: i_type, "none" for a free inode
    entries,        \* entries[i]: the entries of directory i
    written,        \* written[i]: the blocks of file i
    cwd,            \* c.cur_dir
    count,          \* count[i]: i_count, 0 if i is not in the inode table
    leaked,         \* history: references that were not given back
    status          \* "ok", "abort" (an assertion failed), "broken"

vars == <<type, entries, written, cwd, count, leaked, status>>

Entry(n, i) == [name |-> n, nr |-> i]
Dots(i, parent) == <<Entry(".", i), Entry("..", parent)>>
None == [i \in Inodes |-> 0]

\* mktestfs has made the root directory, and testfs has opened it.
Init ==
    /\ type = [i \in Inodes |-> IF i = Root THEN "dir" ELSE "none"]
    /\ entries = [i \in Inodes |-> IF i = Root THEN Dots(Root, Root) ELSE <<>>]
    /\ written = None
    /\ cwd = Root /\ count = [None EXCEPT ![Root] = 1]
    /\ leaked = None
    /\ status = "ok"

----------------------------------------------------------------------------
(* Space.                                                                  *)

CellsOf(es) == SumFunction([k \in DOMAIN es |-> EntrySize[es[k].name]])
BlocksOf(es) == (CellsOf(es) + BlockCells - 1) \div BlockCells
Used == SumFunction([i \in Inodes |-> BlocksOf(entries[i]) + written[i]])
Left == MaxBlocks - Used

\* The lowest free inode, and whether the inode blocks have no place for it.
FreeInode == Min({i \in Inodes : type[i] = "none"})
NoInode_OffByOne == FreeInode > NrInodes        \* fault: > for >=
NoInode == FreeInode >= NrInodes

----------------------------------------------------------------------------
(* Entries.                                                                *)

\* testfs_dir_name_to_inode_nr: the inode of name n in directory d, or Removed.
Live(e) == e.nr # Removed
Lookup(d, n) ==
    LET found == {k \in DOMAIN entries[d] : Live(entries[d][k]) /\ entries[d][k].name = n}
    IN IF found = {} THEN Removed ELSE entries[d][Min(found)].nr

\* testfs_add_dirent: where a name goes, in the first removed entry with a
\* name as long, else at the end.
Reusable(es, n) == {k \in DOMAIN es : ~Live(es[k]) /\ EntrySize[es[k].name] = EntrySize[n]}
Slot_Next(es, n) == Min(Reusable(es, n) \cup {Len(es) + 1}) + 1
                                                \* fault: the offset after it
Slot(es, n) == Min(Reusable(es, n) \cup {Len(es) + 1})
With(es, n, i) ==
    IF Slot(es, n) > Len(es) THEN Append(es, Entry(n, i))
    ELSE [es EXCEPT ![Slot(es, n)] = Entry(n, i)]

\* testfs_remove_dirent_allowed.
Vacant_Always(i) == TRUE                        \* fault: contents not looked at
Vacant(i) == \A k \in DOMAIN entries[i] :
                 ~Live(entries[i][k]) \/ entries[i][k].name \in {".", ".."}

----------------------------------------------------------------------------
(* Commands.                                                               *)

\* testfs_create_file_or_dir.  A new directory takes a block for its dots,
\* and gives it back when the entry for it cannot be written.
Create(n, kind) ==
    LET i == FreeInode
        own == IF kind = "dir" THEN 1 ELSE 0
        new == With(entries[cwd], n, i)
        needs == BlocksOf(new) - BlocksOf(entries[cwd])
        halved == CellsOf(entries[cwd]) % BlockCells # 0
    IN
    /\ status = "ok"
    /\ IF Lookup(cwd, n) # Removed \/ NoInode \/ own > Left
       THEN UNCHANGED vars
       ELSE IF own + needs > Left
       THEN /\ status' = IF halved THEN "broken" ELSE "ok"
            /\ UNCHANGED <<type, entries, written, cwd, count, leaked>>
       ELSE /\ type' = [type EXCEPT ![i] = kind]
            /\ entries' = [entries EXCEPT ![cwd] = new,
                                          ![i] = IF kind = "dir" THEN Dots(i, cwd) ELSE <<>>]
            /\ UNCHANGED <<written, cwd, count, leaked, status>>

\* testfs_remove_dirent: the entry that names i keeps its place.
Unlink(es, n, i) == [es EXCEPT ![SelectInSeq(es, LAMBDA e : e = Entry(n, i))].nr = Removed]

\* cmd_rm, of a file or of an empty directory.
RemoveEntry(n) ==
    LET i == Lookup(cwd, n) IN
    /\ status = "ok"
    /\ n \notin {".", ".."} /\ i # Removed
    /\ type[i] = "dir" => Vacant(i)
    /\ type' = [type EXCEPT ![i] = "none"]
    /\ entries' = [entries EXCEPT ![cwd] = Unlink(@, n, i), ![i] = <<>>]
    /\ written' = [written EXCEPT ![i] = 0]
    /\ UNCHANGED <<cwd, count, leaked, status>>

\* testfs_get_inode and testfs_put_inode; at 0 the inode leaves the table.
Got(c, i) == [c EXCEPT ![i] = @ + 1]
Put(c, i) == [c EXCEPT ![i] = @ - 1]

\* The references after the current directory changes to i.
Moved_KeepsOld(i) == Got(count, i)              \* fault: the old one kept
Moved(i) == Put(Got(count, i), cwd)

\* cmd_cd.
Cd(n) ==
    LET i == Lookup(cwd, n) IN
    /\ status = "ok"
    /\ i # Removed /\ type[i] = "dir"
    /\ cwd' = i /\ count' = Moved(i)
    /\ UNCHANGED <<type, entries, written, leaked, status>>

\* cmd_ls_internal of something that is not a directory returns before it
\* puts the inode.  (ls of a directory, stat and pwd put all that they get.)
LsFile(n) ==
    LET i == Lookup(cwd, n) IN
    /\ status = "ok"
    /\ i # Removed /\ type[i] # "dir"
    /\ count[i] < MaxRefs
    /\ count' = Got(count, i)
    /\ leaked' = [leaked EXCEPT ![i] = @ + 1]
    /\ UNCHANGED <<type, entries, written, cwd, status>>

\* cmd_write: a file takes another block.
WriteBlock(n) ==
    LET i == Lookup(cwd, n) IN
    /\ status = "ok"
    /\ i # Removed /\ type[i] = "file" /\ Left > 0
    /\ written' = [written EXCEPT ![i] = @ + 1]
    /\ UNCHANGED <<type, entries, cwd, count, leaked, status>>

\* inode_hash_destroy asserts that the table is empty.
TableEmpty(c) == \A i \in Inodes : c[i] = 0

\* cmd_quit and the end of main: the current directory is put and the table
\* destroyed.  Then testfs is started again.
Quit ==
    /\ status = "ok"
    /\ IF TableEmpty(Put(count, cwd))
       THEN /\ cwd' = Root /\ count' = Got(None, Root)
            /\ UNCHANGED status
       ELSE status' = "abort" /\ UNCHANGED <<cwd, count>>
    /\ UNCHANGED <<type, entries, written, leaked>>

AnyName == Names \cup {".", ".."}
Next ==
    \/ \E n \in AnyName : \/ Create(n, "file") \/ Create(n, "dir") \/ RemoveEntry(n)
                          \/ Cd(n) \/ LsFile(n) \/ WriteBlock(n)
    \/ Quit

Spec == Init /\ [][Next]_vars

----------------------------------------------------------------------------
(* Properties.                                                             *)

Allocated == {i \in Inodes : type[i] # "none"}

\* No inode beyond the inode blocks is given out, and the volume is not
\* overfilled (struct dinode, struct dsuper_block).
TypeOK ==
    /\ type \in [Inodes -> {"none", "file", "dir"}]
    /\ Allocated \subseteq 0 .. NrInodes - 1
    /\ \A i \in Inodes : \A k \in DOMAIN entries[i] :
           entries[i][k].name \in AnyName /\ entries[i][k].nr \in Inodes \cup {Removed}
    /\ cwd \in Inodes
    /\ count \in [Inodes -> 0 .. MaxRefs + 1] /\ leaked \in [Inodes -> 0 .. MaxRefs]
    /\ Left \in 0 .. MaxBlocks
    /\ status \in {"ok", "abort", "broken"}

\* The entries that make the tree, as <<directory, place>>: not its dots.
Links == UNION {{<<d, k>> : k \in {k \in 3 .. Len(entries[d]) : Live(entries[d][k])}}
                : d \in Allocated}
LinkedTo(l) == entries[l[1]][l[2]]
Parent(d) == entries[d][2].nr

\* Each inode in use but the root is named by one entry of one directory,
\* nothing else is named, no directory has a name twice, and "." and ".." are
\* what they should be (pwd asserts that it finds itself in its parent).
LinksSound ==
    /\ {LinkedTo(l).nr : l \in Links} = Allocated \ {Root}
    /\ \A l, m \in Links : LinkedTo(l).nr = LinkedTo(m).nr => l = m
    /\ \A l, m \in Links : l[1] = m[1] /\ LinkedTo(l).name = LinkedTo(m).name => l = m
    /\ \A i \in Inodes : type[i] # "dir" => entries[i] = <<>>
    /\ \A l \in Links : type[LinkedTo(l).nr] = "dir" =>
           SubSeq(entries[LinkedTo(l).nr], 1, 2) = Dots(LinkedTo(l).nr, l[1])

\* Every directory is below the root.
BelowRoot ==
    \A i \in Allocated : type[i] = "dir" =>
        LET up[k \in 0 .. NrInodes] == IF k = 0 THEN i ELSE Parent(up[k - 1])
        IN up[NrInodes] = Root

\* Whatever was created, removed, moved to and reused, the directories stay a
\* tree.
TreeSound == LinksSound /\ BelowRoot

\* Between commands the table holds the current directory, which exists, and
\* the references that ls of a file left behind; testfs_put_inode is never
\* called once too often.
RefsReturned ==
    /\ type[cwd] = "dir"
    /\ \A i \in Inodes : count[i] = leaked[i] + (IF i = cwd THEN 1 ELSE 0)

\* The directories on disk implement a tree of names, and a command that
\* fails half way (no inode, no block for a new directory, no block for the
\* entry that names it) leaves the tree as it was.
TreeOf ==
    {[parent |-> l[1], name |-> LinkedTo(l).name, node |-> LinkedTo(l).nr,
      kind |-> type[LinkedTo(l).nr]] : l \in Links}

Tree == INSTANCE DirectoryTree WITH Nodes <- Inodes, at <- cwd, tree <- TreeOf

ImplementsTree == Tree!Spec
=============================================================================
