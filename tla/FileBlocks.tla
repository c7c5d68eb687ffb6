----------------------------- MODULE FileBlocks -----------------------------
(***************************************************************************)
(* The blocks of the files of fs/: reading and writing through direct,     *)
(* indirect and doubly indirect blocks (read_write.c), and the allocation  *)
(* of blocks under them (inode.c, super.c, bitmap.c, block.c).             *)
(*                                                                         *)
(* One process runs one command at a time, so a command is an action.      *)
(* What a command does step by step is a function of the volume: the       *)
(* operators below take the volume v and give the volume after.  A block   *)
(* is an array of cells.  A cell is an int: a block number in an index     *)
(* block, and the unit of data in a data block.  Blocks are numbered from  *)
(* 1 and 0 means none, as in an inode.  An inode is written back by every  *)
(* command that changed it, so there is one copy of it.                    *)
(*                                                                         *)
(* A failed assertion ends the behaviour.  So does a command that leaves   *)
(* an inode pointing to a block it has freed: the block may be given to    *)
(* another file, and what a later command does is not modelled.            *)
(*                                                                         *)
(* Definitions marked "fault" are variants of the next definition with a   *)
(* plausible bug; no specification uses them.                              *)
(***************************************************************************)
EXTENDS Integers, Sequences, FiniteSetsExt, Functions

CONSTANTS
    Files,          \* the inodes in use by files
    NDirect,        \* NR_DIRECT_BLOCKS
    NIndirect,      \* NR_INDIRECT_BLOCKS, and the cells of a block
    MaxBlocks,      \* max_fs_blocks
    Starts, Bufs,   \* offsets and texts the user writes
    MaxCommands     \* bound: on the commands of a behaviour

ASSUME GeometryAssumption == NDirect \in Nat \ {0} /\ NIndirect \in Nat \ {0}
ASSUME BoundsAssumption == IsFiniteSet(Files) /\ MaxBlocks \in Nat /\ MaxCommands \in Nat
ASSUME WritesAssumption == Starts \subseteq Nat /\ Bufs \subseteq Seq(Int) \ {<<>>}

B == NIndirect                                      \* BLOCK_SIZE
Cells == 0 .. B - 1
Blocks == 1 .. MaxBlocks + 1            \* the bitmap has more than MaxBlocks bits
Zero == [c \in Cells |-> 0]
MaxFileBlocks == NDirect + NIndirect + NIndirect * NIndirect
MaxFileSize == MaxFileBlocks * B                    \* 34376597504
ENOSPC == -28
EFBIG == -27
Uninitialized == -1     \* stands for ENOSPC or a failed assertion

VARIABLES
    fs,             \* the volume: see NewVolume
    status,         \* "ok", "abort", "corrupt" or "dangling": see WriteFile, RemoveFile
    commands,       \* commands so far
    content,        \* history: content[f][c], the values a read may find
    failed          \* history: the files of which a write failed

vars == <<fs, status, commands, content, failed>>

EmptyInode == [block_nr |-> [i \in 0 .. NDirect - 1 |-> 0], indirect |-> 0,
               dindirect |-> 0, block_count |-> 0, size |-> 0]

\* block_freemap as the set of allocated blocks; used_block_count.
NewVolume == [freemap |-> {}, used |-> 0, disk |-> [b \in Blocks |-> Zero],
              inode |-> [f \in Files |-> EmptyInode]]

Offsets == 0 .. MaxFileSize - 1
Unwritten == [c \in Offsets |-> {0}]

Init ==
    /\ fs = NewVolume /\ status = "ok" /\ commands = 0
    /\ content = [f \in Files |-> Unwritten]
    /\ failed = {}

----------------------------------------------------------------------------
(* Allocation.  A result is a volume and what the call returns.            *)

Result(v, ret) == [vol |-> v, ret |-> ret]
\* What follows a call that succeeded, and what undoes one that failed.
Then(r, Do(_)) == IF r.ret < 0 THEN r ELSE Do(r)
Else(r, Undo(_)) == IF r.ret < 0 THEN Result(Undo(r.vol), r.ret) ELSE r

\* max_fs_blocks is reached.
Full_OffByOne(v) == v.used > MaxBlocks          \* fault: > for >=
Full(v) == v.used >= MaxBlocks

\* bitmap_alloc: the first clear bit.
FirstClear(v) == Min(Blocks \ v.freemap)

\* testfs_alloc_block_for_inode.
Alloc(v, f) ==
    IF Full(v) THEN Result(v, ENOSPC)
    ELSE LET b == FirstClear(v) IN
         Result([v EXCEPT !.freemap = @ \cup {b}, !.used = @ + 1,
                          !.inode[f].block_count = @ + 1], b)

\* testfs_free_block_from_inode, for each block of bs.
Free(v, f, bs) ==
    [v EXCEPT !.freemap = @ \ bs, !.used = @ - Cardinality(bs),
              !.disk = [b \in Blocks |-> IF b \in bs THEN Zero ELSE @[b]],
              !.inode[f].block_count = @ - Cardinality(bs)]

\* write_blocks of one cell of an index block.
SetCell(v, b, c, x) == [v EXCEPT !.disk[b][c] = x]

----------------------------------------------------------------------------
(* The block map of a file.                                                *)

\* Which index block of the doubly indirect block, and which entry of it.
Outer_Mod(k) == k % NIndirect                   \* fault: % for /
Outer(k) == k \div NIndirect
Inner(k) == k % NIndirect

\* testfs_read_block: the physical block of logical block n, 0 if none ...
Physical(v, f, n) ==
    LET in == v.inode[f]  k == n - NDirect  m == k - NIndirect IN
    CASE k < 0 -> in.block_nr[n]
      [] k >= 0 /\ m < 0 -> IF in.indirect > 0 THEN v.disk[in.indirect][k] ELSE 0
      [] m >= NIndirect * NIndirect -> EFBIG
      [] OTHER -> IF in.dindirect > 0 /\ v.disk[in.dindirect][Outer(m)] > 0
                  THEN v.disk[v.disk[in.dindirect][Outer(m)]][Inner(m)] ELSE 0

\* ... and the contents it leaves in block.  A block that is not allocated
\* reads as zeros; but if there is a doubly indirect block and no indirect
\* block in it, the doubly indirect block itself is left in block.
BlockOf(v, f, n) ==
    LET in == v.inode[f]  m == n - NDirect - NIndirect IN
    IF Physical(v, f, n) > 0 THEN v.disk[Physical(v, f, n)]
    ELSE IF m >= 0 /\ in.dindirect > 0 /\ v.disk[in.dindirect][Outer(m)] = 0
    THEN v.disk[in.dindirect]
    ELSE Zero

\* testfs_allocate_block for a block that does not exist.
AllocDirect(v, f, n) ==
    Then(Alloc(v, f), LAMBDA a :
        Result([a.vol EXCEPT !.inode[f].block_nr[n] = a.ret], a.ret))

\* A data block for entry c of index block I, which is written back.  If there
\* is none, the index blocks allocated for it, new, are freed; the inode or
\* the index block above still names them.
AllocEntry_NotWritten(v, f, I, c, new) ==       \* fault: I is not written back
    Alloc(v, f)
AllocEntry(v, f, I, c, new) ==
    Else(Then(Alloc(v, f), LAMBDA d : Result(SetCell(d.vol, I, c, d.ret), d.ret)),
         LAMBDA u : Free(u, f, new))

AllocIndirect(v, f, k) ==
    IF v.inode[f].indirect # 0
    THEN AllocEntry(v, f, v.inode[f].indirect, k, {})
    ELSE Then(Alloc(v, f), LAMBDA a :
            AllocEntry([a.vol EXCEPT !.inode[f].indirect = a.ret], f, a.ret, k, {a.ret}))

\* Under the doubly indirect block D, allocated before or just now (new).
\* When an old D gets no index block the code goes on with an array it has
\* not initialized: its assertion fails, or the next allocation fails too.
AllocUnder(v, f, D, m, new) ==
    IF v.disk[D][Outer(m)] # 0
    THEN AllocEntry(v, f, v.disk[D][Outer(m)], Inner(m), {})
    ELSE IF new = {} /\ Full(v) THEN Result(v, Uninitialized)
    ELSE Then(Else(Alloc(v, f), LAMBDA u : Free(u, f, new)), LAMBDA i :
            AllocEntry(SetCell(i.vol, D, Outer(m), i.ret), f, i.ret, Inner(m),
                       new \cup {i.ret}))

AllocDouble(v, f, m) ==
    IF v.inode[f].dindirect # 0
    THEN AllocUnder(v, f, v.inode[f].dindirect, m, {})
    ELSE Then(Alloc(v, f), LAMBDA a :
            AllocUnder([a.vol EXCEPT !.inode[f].dindirect = a.ret], f, a.ret, m, {a.ret}))

\* testfs_allocate_block.
Allocate(v, f, n) ==
    LET k == n - NDirect IN
    CASE Physical(v, f, n) # 0 -> Result(v, Physical(v, f, n))
      [] Physical(v, f, n) = 0 /\ k < 0 -> AllocDirect(v, f, n)
      [] Physical(v, f, n) = 0 /\ k \in 0 .. NIndirect - 1 -> AllocIndirect(v, f, k)
      [] OTHER -> AllocDouble(v, f, k - NIndirect)

----------------------------------------------------------------------------
(* Data.  A transfer of size cells at start goes block by block: chunk 0,  *)
(* the head, from start % B, then whole blocks, then the tail.             *)

\* The last chunk of a transfer.
LastChunk_Whole(start, size) ==                 \* fault: size_remaining >= B
    IF (start % B) + size <= B THEN 0 ELSE 1 + (size - (B - (start % B))) \div B
LastChunk(start, size) ==
    IF (start % B) + size <= B THEN 0
    ELSE (size - (B - (start % B)) + B - 1) \div B

\* The part of the user's text that precedes chunk i.
Skip(start, i) == IF i = 0 THEN 0 ELSE B * i - (start % B)
From(start, i) == IF i = 0 THEN start % B ELSE 0

\* testfs_read_data, where all the blocks can be read.
ReadData(v, f, start, size) ==
    LET ChunkAt(p) == Max({i \in 0 .. LastChunk(start, size) : Skip(start, i) < p})
    IN [p \in 1 .. size |->
          LET i == ChunkAt(p) IN
          BlockOf(v, f, start \div B + i)[From(start, i) + p - 1 - Skip(start, i)]]

\* A block once chunk i of the text is copied into it.
Patched(block, start, buf, i) ==
    LET At(c) == Skip(start, i) + c - From(start, i) + 1 IN
    [c \in Cells |-> IF At(c) \in Skip(start, i) + 1 .. Len(buf)
                     THEN buf[At(c)] ELSE block[c]]

\* One chunk of testfs_write_data.  If the tail cannot be allocated the file
\* is given the greatest size.
PutChunk(v, f, start, buf, i) ==
    LET n == start \div B + i
        tail == i > 0 /\ i = LastChunk(start, Len(buf))
    IN Else(Then(Allocate(v, f, n), LAMBDA a :
                Result([a.vol EXCEPT !.disk[a.ret] =
                          Patched(BlockOf(v, f, n), start, buf, i)], a.ret)),
            LAMBDA u : IF tail THEN [u EXCEPT !.inode[f].size = MaxFileSize] ELSE u)

\* testfs_write_data: the chunks up to one that fails.
WriteData(v, f, start, buf) ==
    LET chunks == LastChunk(start, Len(buf)) + 1
        done[i \in 0 .. chunks] ==
            IF i = 0 THEN Result(v, 0)
            ELSE Then(done[i - 1], LAMBDA r : PutChunk(r.vol, f, start, buf, i - 1))
    IN Then(done[chunks], LAMBDA r :
            [r EXCEPT !.vol.inode[f].size = Max({@, start + Len(buf)})])

----------------------------------------------------------------------------
(* Removal.                                                                *)

\* DIVROUNDUP(i_size, BLOCK_SIZE), after the direct and the indirect blocks.
DoubleBlocks(v, f) == (v.inode[f].size + B - 1) \div B - NDirect - NIndirect

\* The index block of the doubly indirect block in entry i, with its blocks.
FreedUnder(v, I, i, e) ==
    {v.disk[I][j] : j \in {j \in Cells : i * NIndirect + j < e}} \cup {I}

\* The blocks testfs_free_blocks frees.
Freed(v, f) ==
    LET in == v.inode[f]
        e == DoubleBlocks(v, f)
        D == v.disk[in.dindirect]
        direct == {in.block_nr[i] : i \in {i \in 0 .. NDirect - 1 :
                                             i < e + NDirect + NIndirect}}
        indirect == IF in.indirect = 0 THEN {}
                    ELSE {v.disk[in.indirect][i] : i \in {i \in Cells : i < e + NIndirect}}
                         \cup {in.indirect}
        double == IF e < 0 \/ in.dindirect = 0 THEN {}
                  ELSE {in.dindirect} \cup
                       UNION {FreedUnder(v, D[i], i, e) :
                              i \in {i \in Cells : D[i] > 0 /\ i * NIndirect < e}}
    IN (direct \cup indirect \cup double) \ {0}

\* With no doubly indirect block, block 0 is read as one: the super block.
ReadsSuperBlock(v, f) == DoubleBlocks(v, f) > 0 /\ v.inode[f].dindirect = 0

\* The assertions of bitmap_unmark and of testfs_remove_inode hold.
AllMarked(v, bs) == bs \subseteq v.freemap
MayRemove(v, f) ==
    /\ AllMarked(v, Freed(v, f))
    /\ v.inode[f].block_count = Cardinality(Freed(v, f))

----------------------------------------------------------------------------
(* The pointers of an inode and of its index blocks that are not zero: the *)
(* block they are in (0, -1, -2 for those in the inode), the entry, and    *)
(* the block they name.                                                    *)
Pointers(v, f) ==
    LET in == v.inode[f]
        Entries(b) == IF b = 0 THEN {} ELSE {<<b, c, v.disk[b][c]>> : c \in Cells}
        index == IF in.dindirect = 0 THEN {} ELSE {v.disk[in.dindirect][c] : c \in Cells}
    IN {p \in {<<0, i, in.block_nr[i]>> : i \in 0 .. NDirect - 1}
              \cup {<<-1, 0, in.indirect>>, <<-2, 0, in.dindirect>>}
              \cup Entries(in.indirect) \cup Entries(in.dindirect)
              \cup UNION {Entries(b) : b \in index} : p[3] # 0}

PointedTo(v, f) == {p[3] : p \in Pointers(v, f)}
Dangling(v) == \E f \in Files : ~AllMarked(v, PointedTo(v, f))

----------------------------------------------------------------------------
(* The commands.                                                           *)

\* What a read of cell c of f may find after buf was written at start.
Written(f, start, buf, done) ==
    [c \in Offsets |->
       IF c \notin start .. start + Len(buf) - 1 THEN content[f][c]
       ELSE (IF done THEN {} ELSE content[f][c]) \cup {buf[c - start + 1]}]

\* cmd_write.
WriteFile(f, start, buf) ==
    /\ status = "ok" /\ commands < MaxCommands
    /\ commands' = commands + 1
    /\ \E r \in {WriteData(fs, f, start, buf)} :
        /\ fs' = r.vol
        /\ status' \in (IF Dangling(r.vol) THEN {"dangling"} ELSE {"ok"})
                       \cup (IF r.ret = Uninitialized THEN {"abort"} ELSE {})
        /\ content' = [content EXCEPT ![f] = Written(f, start, buf, r.ret >= 0)]
        /\ failed' = IF r.ret < 0 THEN failed \cup {f} ELSE failed

\* testfs_remove_inode, for a file whose last reference is gone.
RemoveFile(f) ==
    /\ status = "ok" /\ commands < MaxCommands
    /\ commands' = commands + 1
    /\ IF ReadsSuperBlock(fs, f) \/ ~MayRemove(fs, f)
       THEN /\ status' = IF ReadsSuperBlock(fs, f) THEN "corrupt" ELSE "abort"
            /\ UNCHANGED <<fs, content, failed>>
       ELSE /\ fs' = [Free(fs, f, Freed(fs, f)) EXCEPT !.inode[f] = EmptyInode]
            /\ content' = [content EXCEPT ![f] = Unwritten]
            /\ failed' = failed \ {f}
            /\ UNCHANGED status

Next ==
    \E f \in Files :
        \/ \E start \in Starts, buf \in Bufs : WriteFile(f, start, buf)
        \/ RemoveFile(f)

Spec == Init /\ [][Next]_vars

----------------------------------------------------------------------------
(* Properties.                                                             *)

\* Block numbers and counts stay in range (struct dinode, struct dsuper_block).
TypeOK ==
    /\ status \in {"ok", "abort", "corrupt", "dangling"}
    /\ commands \in 0 .. MaxCommands /\ failed \subseteq Files
    /\ fs.freemap \subseteq Blocks /\ fs.used \in 0 .. MaxBlocks
    /\ \A f \in Files :
        /\ fs.inode[f].size \in 0 .. MaxFileSize
        /\ fs.inode[f].block_count \in 0 .. MaxBlocks
        /\ PointedTo(fs, f) \subseteq Blocks

\* The bitmap, the counter of the super block, the counters of the inodes and
\* the block maps agree: an allocated block is in one place of one file.
BlocksOwnedOnce ==
    status = "ok" =>
        /\ fs.used = Cardinality(fs.freemap)
        /\ fs.freemap = UNION {PointedTo(fs, f) : f \in Files}
        /\ \A f \in Files : fs.inode[f].block_count = Cardinality(Pointers(fs, f))
        /\ fs.used = SumFunction([f \in Files |-> fs.inode[f].block_count])

\* testfs_read_data, from any offset and for any size within the file, finds
\* in each cell what was last written there, whatever is done to the other
\* files; and zero where nothing was written, in the blocks that are not under
\* the doubly indirect block (see SparseZeros).
ReadsBack ==
    status = "ok" =>
        \A f \in Files : \A s, e \in 0 .. fs.inode[f].size : s < e =>
            LET text == ReadData(fs, f, s, e - s) IN
            \A c \in s .. e - 1 :
                0 \notin content[f][c] \/ c < (NDirect + NIndirect) * B
                    => text[c - s + 1] \in content[f][c]

\* A file of which no write failed can be removed, and removing it frees
\* every block it has: its size covers its blocks.
RemoveFreesAll ==
    status = "ok" =>
        \A f \in Files \ failed :
            /\ MayRemove(fs, f) /\ ~ReadsSuperBlock(fs, f)
            /\ Freed(fs, f) = PointedTo(fs, f)

\* read_write.c:42, "we support sparse files by zeroing out a block that is
\* not allocated on disk": a cell never written reads as zero.
SparseZeros ==
    status = "ok" =>
        \A f \in Files : LET all == ReadData(fs, f, 0, fs.inode[f].size) IN
            \A c \in 0 .. fs.inode[f].size - 1 :
                content[f][c] = {0} => all[c + 1] = 0
=============================================================================
