-------------------------- MODULE FileBlocksProofs --------------------------
(***************************************************************************)
(* Proofs about module FileBlocks: for any geometry of an inode, any size  *)
(* of the volume and any writes, the bitmap, the counters and the block    *)
(* maps agree, a read finds what was written, and a removal frees every    *)
(* block of a file whose writes all succeeded.                             *)
(*                                                                         *)
(* While no block is freed that is still named (status is "ok"), the       *)
(* volume is Sound: every pointer names an allocated block, no two         *)
(* pointers name the same block, no allocated block is without a pointer,  *)
(* blocks that are free are zero and the counters count.  It is Tidy:      *)
(* every index block has an entry.  Its blocks hold what the history says  *)
(* (Reads), and the size of a file covers its blocks (Covers).             *)
(***************************************************************************)
EXTENDS FileBlocks, ListProofs

----------------------------------------------------------------------------
(* Pointers.                                                               *)
BlockNr == Blocks \cup {0}
Inode == [block_nr : [0 .. NDirect - 1 -> BlockNr], indirect : BlockNr, dindirect : BlockNr,
          block_count : Int, size : 0 .. MaxFileSize]
Volume == [freemap : SUBSET Blocks, used : Int, disk : [Blocks -> [Cells -> Int]],
           inode : [Files -> Inode]]

(***************************************************************************)
(* The pointers of a file: entry c of b, a block or the inode (0, -1, -2), *)
(* is x.                                                                   *)
(***************************************************************************)
\* Block b is an index block of file f.
Index(v, f, b) ==
    /\ b # 0
    /\ \/ b = v.inode[f].indirect \/ b = v.inode[f].dindirect
       \/ v.inode[f].dindirect # 0 /\ \E c \in Cells : b = v.disk[v.inode[f].dindirect][c]

Points(v, f, b, c, x) ==
    /\ x # 0
    /\ \/ b = 0 /\ c \in 0 .. NDirect - 1 /\ x = v.inode[f].block_nr[c]
       \/ b = -1 /\ c = 0 /\ x = v.inode[f].indirect
       \/ b = -2 /\ c = 0 /\ x = v.inode[f].dindirect
       \/ Index(v, f, b) /\ c \in Cells /\ x = v.disk[b][c]

LEMMA PointersAre ==
    ASSUME NEW v, NEW f
    PROVE  /\ \A p \in Pointers(v, f) : p = <<p[1], p[2], p[3]>> /\ Points(v, f, p[1], p[2], p[3])
           /\ \A b, c, x : Points(v, f, b, c, x) => <<b, c, x>> \in Pointers(v, f)
<1>. DEFINE in == v.inode[f]
            Entries(b) == IF b = 0 THEN {} ELSE {<<b, c, v.disk[b][c]>> : c \in Cells}
            index == IF in.dindirect = 0 THEN {} ELSE {v.disk[in.dindirect][c] : c \in Cells}
            D == {<<0, i, in.block_nr[i]>> : i \in 0 .. NDirect - 1}
            I == {<<-1, 0, in.indirect>>, <<-2, 0, in.dindirect>>}
            All == D \cup I \cup Entries(in.indirect) \cup Entries(in.dindirect)
                     \cup UNION {Entries(b) : b \in index}
<1>1. Pointers(v, f) = {p \in All : p[3] # 0}
  BY DEF Pointers
<1>2. \A b : Index(v, f, b) <=> b # 0 /\ (b = in.indirect \/ b = in.dindirect \/ b \in index)
  BY DEF Index
<1>3. ASSUME NEW b, NEW p \in Entries(b)
      PROVE  b # 0 /\ \E c \in Cells : p = <<b, c, v.disk[b][c]>>
  BY <1>3
<1>4. ASSUME NEW p \in Pointers(v, f)
      PROVE  p = <<p[1], p[2], p[3]>> /\ Points(v, f, p[1], p[2], p[3])
  <2>1. p \in All /\ p[3] # 0
    BY <1>1
  <2>2. CASE p \in D
    <3>1. PICK i \in 0 .. NDirect - 1 : p = <<0, i, in.block_nr[i]>>
      BY <2>2
    <3>. QED
      BY <2>1, <3>1 DEF Points
  <2>3. CASE p \in I
    <3>1. CASE p = <<-1, 0, in.indirect>>
      BY <2>1, <3>1 DEF Points
    <3>2. CASE p = <<-2, 0, in.dindirect>>
      BY <2>1, <3>2 DEF Points
    <3>. QED
      BY <2>3, <3>1, <3>2
  <2>4. ASSUME NEW b, p \in Entries(b), Index(v, f, b)
        PROVE  p = <<p[1], p[2], p[3]>> /\ Points(v, f, p[1], p[2], p[3])
    <3>1. PICK c \in Cells : p = <<b, c, v.disk[b][c]>>
      BY <1>3, <2>4
    <3>. QED
      BY <2>1, <2>4, <3>1 DEF Points
  <2>5. CASE p \in Entries(in.indirect) \/ p \in Entries(in.dindirect)
    BY <1>2, <1>3, <2>4, <2>5
  <2>6. CASE p \in UNION {Entries(b) : b \in index}
    <3>1. PICK b \in index : p \in Entries(b)
      BY <2>6
    <3>. QED
      BY <1>2, <1>3, <2>4, <3>1
  <2>. HIDE DEF D, I, Entries, index
  <2>. QED
    BY <2>1, <2>2, <2>3, <2>5, <2>6
<1>5. ASSUME NEW b, NEW c, NEW x, Points(v, f, b, c, x)
      PROVE  <<b, c, x>> \in Pointers(v, f)
  <2>1. x # 0
    BY <1>5 DEF Points
  <2>2. CASE b = 0 /\ c \in 0 .. NDirect - 1 /\ x = v.inode[f].block_nr[c]
    <3>1. <<b, c, x>> \in D
      BY <2>2
    <3>. QED
      BY <1>1, <2>1, <3>1
  <2>3. CASE b = -1 /\ c = 0 /\ x = v.inode[f].indirect
    BY <1>1, <2>1, <2>3
  <2>4. CASE b = -2 /\ c = 0 /\ x = v.inode[f].dindirect
    BY <1>1, <2>1, <2>4
  <2>5. CASE Index(v, f, b) /\ c \in Cells /\ x = v.disk[b][c]
    <3>1. <<b, c, x>> \in Entries(b)
      BY <1>2, <2>5
    <3>2. b = in.indirect \/ b = in.dindirect \/ b \in index
      BY <1>2, <2>5
    <3>3. <<b, c, x>> \in All
      <4>1. CASE b \in index
        <5>1. <<b, c, x>> \in UNION {Entries(e) : e \in index}
          BY <3>1, <4>1
        <5>. HIDE DEF D, I, Entries, index
        <5>. QED
          BY <5>1
      <4>2. CASE b = in.indirect \/ b = in.dindirect
        <5>1. <<b, c, x>> \in Entries(in.indirect) \/ <<b, c, x>> \in Entries(in.dindirect)
          BY <3>1, <4>2
        <5>. HIDE DEF D, I, Entries, index
        <5>. QED
          BY <5>1
      <4>. QED
        BY <3>2, <4>1, <4>2
    <3>. QED
      BY <1>1, <2>1, <3>3
  <2>. QED
    BY <1>5, <2>2, <2>3, <2>4, <2>5 DEF Points
<1>. QED
  BY <1>4, <1>5

----------------------------------------------------------------------------
(* Volumes whose bitmap, counters and block maps agree.                    *)

\* An allocated block is in one place of one file, and is counted.
InUse(v) == \A f \in Files : \A b, c, x : Points(v, f, b, c, x) => x \in v.freemap
OwnedOnce(v) ==
    \A f, g \in Files : \A b, c, d, e, x :
        Points(v, f, b, c, x) /\ Points(v, g, d, e, x) => f = g /\ b = d /\ c = e
NoneLost(v) == \A x \in v.freemap : \E f \in Files : \E b, c : Points(v, f, b, c, x)
\* A block that is not allocated is zeroed.
Clean(v) == \A b \in Blocks \ v.freemap : v.disk[b] = Zero
Counts(v) == [f \in Files |-> v.inode[f].block_count]
Counted(v) ==
    /\ v.used = Cardinality(v.freemap) /\ v.used <= MaxBlocks
    /\ v.used = SumFunctionOnSet(Counts(v), Files)
    /\ \A f \in Files : /\ IsFiniteSet(Pointers(v, f))
                        /\ v.inode[f].block_count = Cardinality(Pointers(v, f))

Sound(v) == v \in Volume /\ InUse(v) /\ OwnedOnce(v) /\ NoneLost(v) /\ Clean(v) /\ Counted(v)

\* What remains when a block that a file points to was freed.
Loose(v) ==
    /\ v \in Volume /\ v.used \in 0 .. MaxBlocks
    /\ \A f \in Files : v.inode[f].block_count \in 0 .. MaxBlocks
    /\ \A f \in Files : \A b, c, x : Points(v, f, b, c, x) => x \in Blocks

LEMMA Geometry ==
    /\ NDirect \in Nat \ {0} /\ NIndirect \in Nat \ {0} /\ B = NIndirect
    /\ Cells = 0 .. NIndirect - 1 /\ 0 \in Cells /\ MaxBlocks \in Nat
    /\ Blocks \subseteq Nat \ {0} /\ 0 \notin Blocks /\ -1 \notin BlockNr /\ -2 \notin BlockNr
  BY GeometryAssumption, BoundsAssumption DEF B, Cells, Blocks, BlockNr

LEMMA BlocksFinite == IsFiniteSet(Blocks) /\ Cardinality(Blocks) = MaxBlocks + 1
<1>1. 1 \in Int /\ MaxBlocks + 1 \in Int /\ MaxBlocks + 1 \in Nat /\ MaxBlocks + 1 >= 1
  BY BoundsAssumption
<1>2. IsFiniteSet(1 .. MaxBlocks + 1)
      /\ Cardinality(1 .. MaxBlocks + 1) = IF 1 > MaxBlocks + 1 THEN 0 ELSE (MaxBlocks + 1) - 1 + 1
  BY <1>1, FS_Interval
<1>. QED
  BY <1>1, <1>2 DEF Blocks

LEMMA FreemapFinite ==
    ASSUME NEW v \in Volume
    PROVE  /\ IsFiniteSet(v.freemap) /\ Cardinality(v.freemap) \in Nat /\ v.freemap \subseteq Blocks
           /\ Cardinality(v.freemap) <= MaxBlocks => \E b \in Blocks : b \notin v.freemap
<1>1. v.freemap \subseteq Blocks
  BY DEF Volume
<1>2. IsFiniteSet(v.freemap) /\ Cardinality(v.freemap) \in Nat
  BY <1>1, BlocksFinite, FS_Subset, FS_CardinalityType
<1>3. ASSUME \A b \in Blocks : b \in v.freemap, Cardinality(v.freemap) <= MaxBlocks PROVE FALSE
  <2>1. v.freemap = Blocks
    BY <1>1, <1>3
  <2>. QED
    BY <1>3, <2>1, BlocksFinite, Geometry
<1>. QED
  BY <1>1, <1>2, <1>3

\* bitmap_alloc finds a clear bit when the volume is not full.
LEMMA FirstClearIs ==
    ASSUME NEW v, Sound(v)
    PROVE  FirstClear(v) \in Blocks /\ FirstClear(v) \notin v.freemap /\ FirstClear(v) > 0
<1>1. \E b \in Blocks : b \notin v.freemap
  BY FreemapFinite DEF Sound, Counted
<1>2. Blocks \ v.freemap \in SUBSET Nat /\ Blocks \ v.freemap # {}
  BY <1>1, Geometry
<1>3. Min(Blocks \ v.freemap) \in Blocks \ v.freemap
  BY <1>2, LeastExists DEF Min
<1>4. FirstClear(v) \in Blocks \ v.freemap /\ FirstClear(v) \in Nat \ {0}
  BY <1>3, Geometry DEF FirstClear
<1>. QED
  BY <1>4

\* An index block is pointed to, so that it is in use and of one file.
LEMMA IndexPointed ==
    ASSUME NEW v, NEW f, NEW b, Index(v, f, b)
    PROVE  \E s, c : Points(v, f, s, c, b)
<1>1. CASE b = v.inode[f].indirect \/ b = v.inode[f].dindirect
  BY <1>1 DEF Index, Points
<1>2. CASE v.inode[f].dindirect # 0 /\ \E c \in Cells : b = v.disk[v.inode[f].dindirect][c]
  <2>1. Index(v, f, v.inode[f].dindirect)
    BY <1>2 DEF Index
  <2>. QED
    BY <1>2, <2>1 DEF Index, Points
<1>. QED
  BY <1>1, <1>2 DEF Index

LEMMA IndexOwned ==
    ASSUME NEW v, Sound(v), NEW f \in Files, NEW b, Index(v, f, b)
    PROVE  /\ b \in v.freemap /\ b \in Blocks /\ b # 0 /\ b # -1 /\ b # -2
           /\ \A g \in Files : Index(v, g, b) => g = f
<1>1. b \in v.freemap
  BY IndexPointed DEF Sound, InUse
<1>2. b \in Blocks
  BY <1>1 DEF Sound, Volume
<1>3. \A g \in Files : Index(v, g, b) => g = f
  BY IndexPointed DEF Sound, OwnedOnce
<1>. QED
  BY <1>1, <1>2, <1>3, Geometry DEF BlockNr

\* The pointers in the inode, and those in its blocks.
LEMMA PointsIn ==
    ASSUME NEW v, Sound(v), NEW f \in Files
    PROVE  /\ v.inode[f].indirect # 0 => Points(v, f, -1, 0, v.inode[f].indirect)
           /\ v.inode[f].dindirect # 0 => Points(v, f, -2, 0, v.inode[f].dindirect)
           /\ v.inode[f].indirect # 0 => Index(v, f, v.inode[f].indirect)
           /\ v.inode[f].dindirect # 0 => Index(v, f, v.inode[f].dindirect)
           /\ \A b, c : Index(v, f, b) /\ c \in Cells /\ v.disk[b][c] # 0 =>
                  Points(v, f, b, c, v.disk[b][c]) /\ v.disk[b][c] \in v.freemap
           /\ \A c \in Cells : v.inode[f].dindirect # 0 /\ v.disk[v.inode[f].dindirect][c] # 0 =>
                  Index(v, f, v.disk[v.inode[f].dindirect][c])
<1>1. \A b, c : Index(v, f, b) /\ c \in Cells /\ v.disk[b][c] # 0 => Points(v, f, b, c, v.disk[b][c])
  BY DEF Points
<1>. QED
  BY <1>1 DEF Points, Index, Sound, InUse

(***************************************************************************)
(* A block is taken for one place that had none.                           *)
(***************************************************************************)
Grows(v, w, f, s, c, a) ==
    /\ w \in Volume /\ a \in Blocks \ v.freemap
    /\ w.freemap = v.freemap \cup {a} /\ w.used = v.used + 1 /\ v.used < MaxBlocks
    /\ \A g \in Files : w.inode[g].block_count = v.inode[g].block_count + (IF g = f THEN 1 ELSE 0)
    /\ \A g \in Files : \A b, d, x :
          Points(w, g, b, d, x) <=> Points(v, g, b, d, x) \/ (g = f /\ b = s /\ d = c /\ x = a)
    /\ \A b \in Blocks \ w.freemap : w.disk[b] = v.disk[b]

LEMMA GrowsSound ==
    ASSUME NEW v, Sound(v), NEW w, NEW f \in Files, NEW s, NEW c, NEW a, Grows(v, w, f, s, c, a)
    PROVE  Sound(w)
<1>1. v \in Volume /\ w \in Volume /\ a \in Blocks /\ a \notin v.freemap
  BY DEF Sound, Grows
<1>2. \A g \in Files : \A b, d, x :
          Points(w, g, b, d, x) <=> Points(v, g, b, d, x) \/ (g = f /\ b = s /\ d = c /\ x = a)
  BY DEF Grows
<1>3. w.freemap = v.freemap \cup {a} /\ w.used = v.used + 1 /\ v.used < MaxBlocks
  BY DEF Grows
<1>4. \A g \in Files : \A b, d : ~Points(v, g, b, d, a)
  BY <1>1 DEF Sound, InUse
<1>5. InUse(w)
  BY <1>2, <1>3 DEF Sound, InUse
<1>6. OwnedOnce(w)
  BY <1>2, <1>4 DEF Sound, OwnedOnce
<1>7. NoneLost(w)
  BY <1>2, <1>3 DEF Sound, NoneLost
<1>8. Clean(w)
  BY <1>3 DEF Grows, Sound, Clean
<1>9. w.used = Cardinality(w.freemap) /\ w.used <= MaxBlocks
  <2>1. Cardinality(v.freemap \cup {a}) = Cardinality(v.freemap) + 1
    BY <1>1, FreemapFinite, FS_AddElement
  <2>2. v.used = Cardinality(v.freemap) /\ v.used \in Int
    BY DEF Sound, Counted, Volume
  <2>. QED
    BY <1>3, <2>1, <2>2, Geometry
<1>10. ASSUME NEW g \in Files
       PROVE  IsFiniteSet(Pointers(w, g)) /\ w.inode[g].block_count = Cardinality(Pointers(w, g))
  <2>1. IsFiniteSet(Pointers(v, g)) /\ v.inode[g].block_count = Cardinality(Pointers(v, g))
    BY DEF Sound, Counted
  <2>2. CASE g # f
    <3>1. \A b, d, x : Points(w, g, b, d, x) <=> Points(v, g, b, d, x)
      BY <1>2, <2>2
    <3>2. Pointers(w, g) = Pointers(v, g)
      <4>1. \A p \in Pointers(w, g) : p \in Pointers(v, g)
        BY <3>1, PointersAre
      <4>2. \A p \in Pointers(v, g) : p \in Pointers(w, g)
        BY <3>1, PointersAre
      <4>. QED
        BY <4>1, <4>2
    <3>3. w.inode[g].block_count = v.inode[g].block_count + 0 /\ v.inode[g].block_count \in Int
      BY <2>2 DEF Grows, Sound, Volume, Inode
    <3>. QED
      BY <2>1, <3>2, <3>3
  <2>3. CASE g = f
    <3>1. \A b, d, x : Points(w, g, b, d, x) <=> Points(v, g, b, d, x) \/ (b = s /\ d = c /\ x = a)
      BY <1>2, <2>3
    <3>2. Pointers(w, g) = Pointers(v, g) \cup {<<s, c, a>>}
      <4>1. \A p \in Pointers(w, g) : p \in Pointers(v, g) \cup {<<s, c, a>>}
        BY <3>1, PointersAre
      <4>2. \A p \in Pointers(v, g) : p \in Pointers(w, g)
        BY <3>1, PointersAre
      <4>3. <<s, c, a>> \in Pointers(w, g)
        BY <3>1, PointersAre
      <4>. QED
        BY <4>1, <4>2, <4>3
    <3>3. <<s, c, a>> \notin Pointers(v, g)
      <4>1. ~Points(v, g, s, c, a)
        BY <1>4
      <4>2. <<s, c, a>>[1] = s /\ <<s, c, a>>[2] = c /\ <<s, c, a>>[3] = a
        OBVIOUS
      <4>. QED
        BY <4>1, <4>2, PointersAre
    <3>4. /\ IsFiniteSet(Pointers(v, g) \cup {<<s, c, a>>})
          /\ Cardinality(Pointers(v, g) \cup {<<s, c, a>>}) = Cardinality(Pointers(v, g)) + 1
      BY <2>1, <3>3, FS_AddElement
    <3>5. w.inode[g].block_count = v.inode[g].block_count + 1
      BY <2>3 DEF Grows
    <3>. QED
      BY <2>1, <3>2, <3>4, <3>5
  <2>. QED
    BY <2>2, <2>3
<1>11. w.used = SumFunctionOnSet(Counts(w), Files)
  <2>1. Weighted(Counts(v), Files) /\ Weighted(Counts(w), Files)
    BY <1>1, BoundsAssumption DEF Weighted, Counts, Volume, Inode
  <2>2. \A g \in Files : Counts(w)[g] = Counts(v)[g] + (IF g = f THEN 1 ELSE 0)
    BY DEF Grows, Counts
  <2>3. SumFunctionOnSet(Counts(w), Files) = Counts(w)[f] + SumFunctionOnSet(Counts(w), Files \ {f})
    BY <2>1, SumTake
  <2>4. SumFunctionOnSet(Counts(v), Files) = Counts(v)[f] + SumFunctionOnSet(Counts(v), Files \ {f})
    BY <2>1, SumTake
  <2>5. Weighted(Counts(v), Files \ {f})
    BY <2>1, WeightedPart
  <2>6. \A g \in Files \ {f} : Counts(w)[g] = Counts(v)[g]
    BY <2>1, <2>2 DEF Weighted
  <2>7. SumFunctionOnSet(Counts(w), Files \ {f}) = SumFunctionOnSet(Counts(v), Files \ {f})
    BY <2>5, <2>6, SumSame
  <2>8. Counts(w)[f] = Counts(v)[f] + 1 /\ Counts(v)[f] \in Int
    BY <2>1, <2>2 DEF Weighted
  <2>9. SumFunctionOnSet(Counts(v), Files \ {f}) \in Int
    BY <2>5, SumType
  <2>10. v.used = SumFunctionOnSet(Counts(v), Files)
    BY DEF Sound, Counted
  <2>. QED
    BY <1>3, <2>3, <2>4, <2>7, <2>8, <2>9, <2>10
<1>. QED
  BY <1>1, <1>5, <1>6, <1>7, <1>8, <1>9, <1>10, <1>11 DEF Sound, Counted

----------------------------------------------------------------------------
(* A block is taken and named by one more pointer.                         *)

Took(v, f) ==
    [v EXCEPT !.freemap = @ \cup {FirstClear(v)}, !.used = @ + 1, !.inode[f].block_count = @ + 1]

LEMMA AllocIs ==
    ASSUME NEW v, NEW f
    PROVE  Alloc(v, f) = IF Full(v) THEN Result(v, ENOSPC) ELSE Result(Took(v, f), FirstClear(v))
  BY DEF Alloc, Took

\* Its counters, and nothing else but the free map, are not those of v.
Counting(v, w, f) ==
    /\ w.freemap = v.freemap \cup {FirstClear(v)} /\ w.used = v.used + 1
    /\ \A g \in Files :
          /\ w.inode[g].block_count = v.inode[g].block_count + (IF g = f THEN 1 ELSE 0)
          /\ w.inode[g].size = v.inode[g].size
          /\ g # f => w.inode[g] = v.inode[g]

WithDirect(v, f, n) == [Took(v, f) EXCEPT !.inode[f].block_nr[n] = FirstClear(v)]
WithIndirect(v, f) == [Took(v, f) EXCEPT !.inode[f].indirect = FirstClear(v)]
WithDouble(v, f) == [Took(v, f) EXCEPT !.inode[f].dindirect = FirstClear(v)]
WithCell(v, f, b, c) == SetCell(Took(v, f), b, c, FirstClear(v))

LEMMA VolumeFields ==
    ASSUME NEW v \in Volume
    PROVE  /\ v = [freemap |-> v.freemap, used |-> v.used, disk |-> v.disk, inode |-> v.inode]
           /\ v.freemap \subseteq Blocks /\ v.used \in Int
           /\ v.disk \in [Blocks -> [Cells -> Int]] /\ v.inode \in [Files -> Inode]
           /\ \A f \in Files :
                /\ v.inode[f] \in Inode
                /\ v.inode[f].block_nr \in [0 .. NDirect - 1 -> BlockNr]
                /\ v.inode[f].indirect \in BlockNr /\ v.inode[f].dindirect \in BlockNr
                /\ v.inode[f].block_count \in Int /\ v.inode[f].size \in 0 .. MaxFileSize
  BY DEF Volume, Inode


LEMMA TookIs ==
    ASSUME NEW v, Sound(v), NEW f \in Files
    PROVE  LET w == Took(v, f) IN
           /\ w \in Volume /\ Counting(v, w, f) /\ w.disk = v.disk
           /\ w.inode[f].block_nr = v.inode[f].block_nr
           /\ w.inode[f].indirect = v.inode[f].indirect /\ w.inode[f].dindirect = v.inode[f].dindirect
<1>. DEFINE w == Took(v, f)
            in == [v.inode[f] EXCEPT !.block_count = @ + 1]
<1>1. v \in Volume /\ FirstClear(v) \in Blocks
  BY FirstClearIs DEF Sound
<1>2. /\ v.freemap \subseteq Blocks /\ v.used \in Int
      /\ v.disk \in [Blocks -> [Cells -> Int]] /\ v.inode \in [Files -> Inode]
  BY <1>1, VolumeFields
<1>3. in \in Inode /\ in.block_nr = v.inode[f].block_nr /\ in.indirect = v.inode[f].indirect
      /\ in.dindirect = v.inode[f].dindirect /\ in.size = v.inode[f].size
      /\ in.block_count = v.inode[f].block_count + 1
  <2>1. v.inode[f] \in Inode /\ v.inode[f].block_count + 1 \in Int /\ 0 \in 0 .. NDirect - 1
        /\ 0 \in BlockNr /\ v.inode[f].block_nr \in [0 .. NDirect - 1 -> BlockNr]
    BY <1>1, VolumeFields, Geometry DEF BlockNr
  <2>. QED
    BY <2>1 DEF Inode
<1>4. w = [freemap |-> v.freemap \cup {FirstClear(v)}, used |-> v.used + 1, disk |-> v.disk,
           inode |-> [v.inode EXCEPT ![f] = in]]
  <2>1. w = [v EXCEPT !.freemap = v.freemap \cup {FirstClear(v)}, !.used = v.used + 1,
                      !.inode = [v.inode EXCEPT ![f] = in]]
    BY <1>1 DEF Took
  <2>. HIDE DEF w, in
  <2>. QED
    BY <1>1, <2>1 DEF Volume
<1>. HIDE DEF w, in
<1>5. [v.inode EXCEPT ![f] = in] \in [Files -> Inode]
  BY <1>2, <1>3
<1>6. w \in Volume
  BY <1>1, <1>2, <1>4, <1>5 DEF Volume
<1>7. w.inode = [v.inode EXCEPT ![f] = in] /\ w.disk = v.disk
  BY <1>4
<1>8. w.inode[f] = in /\ \A g \in Files : g # f => w.inode[g] = v.inode[g]
  BY <1>2, <1>7
<1>9. \A g \in Files : v.inode[g].block_count \in Int
  BY <1>1, VolumeFields
<1>10. Counting(v, w, f)
  BY <1>3, <1>4, <1>8, <1>9 DEF Counting
<1>. QED
  BY <1>3, <1>6, <1>7, <1>8, <1>10 DEF w

LEMMA WithInodeSound ==
    ASSUME NEW v, Sound(v), ~Full(v), NEW f \in Files, NEW w \in Volume, Counting(v, w, f),
           w.disk = v.disk, NEW s, NEW c, 
           LET a == FirstClear(v)  i == v.inode[f]  j == w.inode[f] IN
           \/ /\ s = 0 /\ c \in 0 .. NDirect - 1 /\ i.block_nr[c] = 0
              /\ j.block_nr = [i.block_nr EXCEPT ![c] = a]
              /\ j.indirect = i.indirect /\ j.dindirect = i.dindirect
           \/ /\ s = -1 /\ c = 0 /\ i.indirect = 0 /\ j.indirect = a
              /\ j.block_nr = i.block_nr /\ j.dindirect = i.dindirect
           \/ /\ s = -2 /\ c = 0 /\ i.dindirect = 0 /\ j.dindirect = a
              /\ j.block_nr = i.block_nr /\ j.indirect = i.indirect
    PROVE  Sound(w) /\ Grows(v, w, f, s, c, FirstClear(v))
<1>. DEFINE a == FirstClear(v)
            i == v.inode[f]
            j == w.inode[f]
<1>1. a \in Blocks /\ a \notin v.freemap /\ a # 0 /\ a # -1 /\ a # -2 /\ v \in Volume
  BY FirstClearIs, Geometry DEF BlockNr, Sound
<1>2. v.disk[a] = Zero /\ \A d \in Cells : v.disk[a][d] = 0
  BY <1>1 DEF Sound, Clean, Zero
<1>3. \A g \in Files : \A b : ~Index(v, g, a)
  BY <1>1, IndexOwned
<1>4. i.block_nr \in [0 .. NDirect - 1 -> BlockNr]
  BY <1>1, VolumeFields
<1>. HIDE DEF a
<1>5. ASSUME NEW g \in Files, NEW b, NEW d, NEW x
      PROVE  Points(w, g, b, d, x) <=> Points(v, g, b, d, x) \/ (g = f /\ b = s /\ d = c /\ x = a)
  <2>1. CASE g # f
    <3>1. w.inode[g] = v.inode[g]
      BY <2>1 DEF Counting
    <3>. QED
      BY <2>1, <3>1 DEF Points, Index
  <2>2. CASE g = f
    <3>1. CASE /\ s = 0 /\ c \in 0 .. NDirect - 1 /\ i.block_nr[c] = 0
               /\ j.block_nr = [i.block_nr EXCEPT ![c] = a]
               /\ j.indirect = i.indirect /\ j.dindirect = i.dindirect
      <4>1. Index(w, f, b) <=> Index(v, f, b)
        BY <3>1 DEF Index
      <4>2. ASSUME NEW e \in 0 .. NDirect - 1
            PROVE  j.block_nr[e] = IF e = c THEN a ELSE i.block_nr[e]
        BY <1>4, <3>1
      <4>3. b = 0 => ~Index(v, f, b)
        BY DEF Index
      <4>. HIDE DEF i, j
      <4>. QED
        BY <1>1, <2>2, <3>1, <4>1, <4>2, <4>3 DEF Points, i, j
    <3>2. CASE /\ s = -1 /\ c = 0 /\ i.indirect = 0 /\ j.indirect = a
               /\ j.block_nr = i.block_nr /\ j.dindirect = i.dindirect
      <4>1. Index(w, f, b) <=> Index(v, f, b) \/ b = a
        BY <1>1, <3>2 DEF Index
      <4>2. Index(v, f, b) => b # -1 /\ b # 0 /\ b # a
        BY <1>3, IndexOwned
      <4>. QED
        BY <1>1, <1>2, <2>2, <3>2, <4>1, <4>2 DEF Points
    <3>3. CASE /\ s = -2 /\ c = 0 /\ i.dindirect = 0 /\ j.dindirect = a
               /\ j.block_nr = i.block_nr /\ j.indirect = i.indirect
      <4>1. Index(w, f, b) <=> Index(v, f, b) \/ b = a
        BY <1>1, <1>2, <3>3 DEF Index
      <4>2. Index(v, f, b) => b # -2 /\ b # 0 /\ b # a
        BY <1>3, IndexOwned
      <4>. QED
        BY <1>1, <1>2, <2>2, <3>3, <4>1, <4>2 DEF Points
    <3>. QED
      BY <3>1, <3>2, <3>3 DEF a
  <2>. QED
    BY <2>1, <2>2
<1>6. v.used < MaxBlocks
  <2>1. v.used \in Int /\ MaxBlocks \in Int
    BY <1>1, VolumeFields, Geometry
  <2>. QED
    BY <2>1 DEF Full
<1>7. Grows(v, w, f, s, c, a)
  BY <1>1, <1>5, <1>6 DEF Grows, Counting, a
<1>. QED
  BY <1>7, GrowsSound DEF a

LEMMA WithDirectSound ==
    ASSUME NEW v, Sound(v), ~Full(v), NEW f \in Files, NEW n \in 0 .. NDirect - 1,
           v.inode[f].block_nr[n] = 0
    PROVE  LET w == WithDirect(v, f, n) IN
           /\ Sound(w) /\ Grows(v, w, f, 0, n, FirstClear(v)) /\ Counting(v, w, f) /\ w.disk = v.disk
           /\ w.inode[f].block_nr = [v.inode[f].block_nr EXCEPT ![n] = FirstClear(v)]
           /\ w.inode[f].indirect = v.inode[f].indirect /\ w.inode[f].dindirect = v.inode[f].dindirect
<1>. DEFINE w == WithDirect(v, f, n)
            t == Took(v, f)
            a == FirstClear(v)
            nr == [t.inode[f].block_nr EXCEPT ![n] = a]
            in == [t.inode[f] EXCEPT !.block_nr = nr]
<1>1. t \in Volume /\ a \in BlockNr
  BY TookIs, FirstClearIs DEF BlockNr
<1>2. Counting(v, t, f) /\ t.disk = v.disk /\ t.inode[f].block_nr = v.inode[f].block_nr
      /\ t.inode[f].indirect = v.inode[f].indirect /\ t.inode[f].dindirect = v.inode[f].dindirect
  BY TookIs
<1>. HIDE DEF t, a
<1>3. in \in Inode /\ in.block_nr = [t.inode[f].block_nr EXCEPT ![n] = a]
      /\ in.indirect = t.inode[f].indirect /\ in.dindirect = t.inode[f].dindirect
      /\ in.size = t.inode[f].size /\ in.block_count = t.inode[f].block_count
  <2>1. t.inode[f] \in Inode /\ nr \in [0 .. NDirect - 1 -> BlockNr] /\ 0 \in Int
    BY <1>1, VolumeFields
  <2>. HIDE DEF nr
  <2>3. /\ in \in Inode /\ in.block_nr = nr
        /\ in.indirect = t.inode[f].indirect /\ in.dindirect = t.inode[f].dindirect
        /\ in.block_count = t.inode[f].block_count /\ in.size = t.inode[f].size
    BY <2>1 DEF Inode
  <2>. QED
    BY <2>3 DEF nr
<1>4. w = [freemap |-> t.freemap, used |-> t.used, disk |-> t.disk, inode |-> [t.inode EXCEPT ![f] = in]]
  BY <1>1 DEF WithDirect, Volume, t, a
<1>. HIDE DEF w, in
<1>5. t.inode \in [Files -> Inode]
  BY <1>1, VolumeFields
<1>6. w.inode[f] = in /\ \A g \in Files : g # f => w.inode[g] = t.inode[g]
  BY <1>4, <1>5
<1>7. w \in Volume
  <2>1. [t.inode EXCEPT ![f] = in] \in [Files -> Inode]
    BY <1>3, <1>5
  <2>. QED
    BY <1>1, <1>4, <2>1, VolumeFields DEF Volume
<1>8. Counting(v, w, f) /\ w.disk = v.disk
  BY <1>2, <1>3, <1>4, <1>6 DEF Counting
<1>9. /\ w.inode[f].block_nr = [v.inode[f].block_nr EXCEPT ![n] = a]
      /\ w.inode[f].indirect = v.inode[f].indirect /\ w.inode[f].dindirect = v.inode[f].dindirect
  BY <1>2, <1>3, <1>6
<1>10. Sound(w) /\ Grows(v, w, f, 0, n, a)
  BY <1>7, <1>8, <1>9, WithInodeSound DEF a
<1>. QED
  BY <1>8, <1>9, <1>10 DEF w, a

LEMMA WithIndirectSound ==
    ASSUME NEW v, Sound(v), ~Full(v), NEW f \in Files, v.inode[f].indirect = 0
    PROVE  LET w == WithIndirect(v, f) IN
           /\ Sound(w) /\ Grows(v, w, f, -1, 0, FirstClear(v)) /\ Counting(v, w, f) /\ w.disk = v.disk
           /\ w.inode[f].block_nr = v.inode[f].block_nr
           /\ w.inode[f].indirect = FirstClear(v) /\ w.inode[f].dindirect = v.inode[f].dindirect
<1>. DEFINE w == WithIndirect(v, f)
            t == Took(v, f)
            a == FirstClear(v)
            in == [t.inode[f] EXCEPT !.indirect = a]
<1>1. t \in Volume /\ a \in BlockNr
  BY TookIs, FirstClearIs DEF BlockNr
<1>2. Counting(v, t, f) /\ t.disk = v.disk /\ t.inode[f].block_nr = v.inode[f].block_nr
      /\ t.inode[f].indirect = v.inode[f].indirect /\ t.inode[f].dindirect = v.inode[f].dindirect
  BY TookIs
<1>. HIDE DEF t, a
<1>3. in \in Inode /\ in.block_nr = t.inode[f].block_nr
      /\ in.indirect = a /\ in.dindirect = t.inode[f].dindirect
      /\ in.size = t.inode[f].size /\ in.block_count = t.inode[f].block_count
  <2>1. t.inode[f] \in Inode /\ 0 \in Int /\ t.inode[f].block_nr \in [0 .. NDirect - 1 -> BlockNr]
    BY <1>1, VolumeFields
  <2>. QED
    BY <1>1, <2>1 DEF Inode
<1>4. w = [freemap |-> t.freemap, used |-> t.used, disk |-> t.disk, inode |-> [t.inode EXCEPT ![f] = in]]
  BY <1>1 DEF WithIndirect, Volume, t, a
<1>. HIDE DEF w, in
<1>5. t.inode \in [Files -> Inode]
  BY <1>1, VolumeFields
<1>6. w.inode[f] = in /\ \A g \in Files : g # f => w.inode[g] = t.inode[g]
  BY <1>4, <1>5
<1>7. w \in Volume
  <2>1. [t.inode EXCEPT ![f] = in] \in [Files -> Inode]
    BY <1>3, <1>5
  <2>. QED
    BY <1>1, <1>4, <2>1, VolumeFields DEF Volume
<1>8. Counting(v, w, f) /\ w.disk = v.disk
  BY <1>2, <1>3, <1>4, <1>6 DEF Counting
<1>9. /\ w.inode[f].block_nr = v.inode[f].block_nr
      /\ w.inode[f].indirect = a /\ w.inode[f].dindirect = v.inode[f].dindirect
  BY <1>2, <1>3, <1>6
<1>10. Sound(w) /\ Grows(v, w, f, -1, 0, a)
  BY <1>7, <1>8, <1>9, WithInodeSound DEF a
<1>. QED
  BY <1>8, <1>9, <1>10 DEF w, a

LEMMA WithDoubleSound ==
    ASSUME NEW v, Sound(v), ~Full(v), NEW f \in Files, v.inode[f].dindirect = 0
    PROVE  LET w == WithDouble(v, f) IN
           /\ Sound(w) /\ Grows(v, w, f, -2, 0, FirstClear(v)) /\ Counting(v, w, f) /\ w.disk = v.disk
           /\ w.inode[f].block_nr = v.inode[f].block_nr
           /\ w.inode[f].indirect = v.inode[f].indirect /\ w.inode[f].dindirect = FirstClear(v)
<1>. DEFINE w == WithDouble(v, f)
            t == Took(v, f)
            a == FirstClear(v)
            in == [t.inode[f] EXCEPT !.dindirect = a]
<1>1. t \in Volume /\ a \in BlockNr
  BY TookIs, FirstClearIs DEF BlockNr
<1>2. Counting(v, t, f) /\ t.disk = v.disk /\ t.inode[f].block_nr = v.inode[f].block_nr
      /\ t.inode[f].indirect = v.inode[f].indirect /\ t.inode[f].dindirect = v.inode[f].dindirect
  BY TookIs
<1>. HIDE DEF t, a
<1>3. in \in Inode /\ in.block_nr = t.inode[f].block_nr
      /\ in.indirect = t.inode[f].indirect /\ in.dindirect = a
      /\ in.size = t.inode[f].size /\ in.block_count = t.inode[f].block_count
  <2>1. t.inode[f] \in Inode
    BY <1>1, VolumeFields
  <2>. QED
    BY <1>1, <2>1 DEF Inode
<1>4. w = [freemap |-> t.freemap, used |-> t.used, disk |-> t.disk, inode |-> [t.inode EXCEPT ![f] = in]]
  BY <1>1 DEF WithDouble, Volume, t, a
<1>. HIDE DEF w, in
<1>5. t.inode \in [Files -> Inode]
  BY <1>1, VolumeFields
<1>6. w.inode[f] = in /\ \A g \in Files : g # f => w.inode[g] = t.inode[g]
  BY <1>4, <1>5
<1>7. w \in Volume
  <2>1. [t.inode EXCEPT ![f] = in] \in [Files -> Inode]
    BY <1>3, <1>5
  <2>. QED
    BY <1>1, <1>4, <2>1, VolumeFields DEF Volume
<1>8. Counting(v, w, f) /\ w.disk = v.disk
  BY <1>2, <1>3, <1>4, <1>6 DEF Counting
<1>9. /\ w.inode[f].block_nr = v.inode[f].block_nr
      /\ w.inode[f].indirect = v.inode[f].indirect /\ w.inode[f].dindirect = a
  BY <1>2, <1>3, <1>6
<1>10. Sound(w) /\ Grows(v, w, f, -2, 0, a)
  BY <1>7, <1>8, <1>9, WithInodeSound DEF a
<1>. QED
  BY <1>8, <1>9, <1>10 DEF w, a

\* One cell is written, of a block that is in use.
LEMMA SetCellIs ==
    ASSUME NEW v \in Volume, NEW b \in Blocks, NEW c \in Cells, NEW x \in Int,
           NEW w, w = SetCell(v, b, c, x)
    PROVE  /\ w \in Volume /\ w.freemap = v.freemap /\ w.used = v.used /\ w.inode = v.inode
           /\ \A d \in Blocks, e \in Cells :
                 w.disk[d][e] = IF d = b /\ e = c THEN x ELSE v.disk[d][e]
           /\ \A d \in Blocks : d # b => w.disk[d] = v.disk[d]
<1>. DEFINE cells == [v.disk[b] EXCEPT ![c] = x]
            disk == [v.disk EXCEPT ![b] = cells]
<1>1. v.disk \in [Blocks -> [Cells -> Int]]
  BY VolumeFields
<1>2. cells \in [Cells -> Int] /\ \A e \in Cells : cells[e] = IF e = c THEN x ELSE v.disk[b][e]
  BY <1>1
<1>3. w = [freemap |-> v.freemap, used |-> v.used, disk |-> disk, inode |-> v.inode]
  <2>1. w = [v EXCEPT !.disk = disk]
    BY DEF SetCell
  <2>. HIDE DEF disk
  <2>. QED
    BY <2>1 DEF Volume
<1>. HIDE DEF cells
<1>4. disk \in [Blocks -> [Cells -> Int]] /\ \A d \in Blocks : disk[d] = IF d = b THEN cells ELSE v.disk[d]
  BY <1>1, <1>2
<1>. HIDE DEF disk
<1>5. w \in Volume
  BY <1>3, <1>4, VolumeFields DEF Volume
<1>. QED
  BY <1>2, <1>3, <1>4, <1>5

LEMMA WithCellSound ==
    ASSUME NEW v, Sound(v), ~Full(v), NEW f \in Files, NEW s, Index(v, f, s), NEW c \in Cells,
           v.disk[s][c] = 0
    PROVE  LET w == WithCell(v, f, s, c)  a == FirstClear(v) IN
           /\ Sound(w) /\ Grows(v, w, f, s, c, a) /\ Counting(v, w, f)
           /\ w.inode[f].block_nr = v.inode[f].block_nr
           /\ w.inode[f].indirect = v.inode[f].indirect
           /\ w.inode[f].dindirect = v.inode[f].dindirect
           /\ \A d \in Blocks, e \in Cells :
                 w.disk[d][e] = IF d = s /\ e = c THEN a ELSE v.disk[d][e]
           /\ \A d \in Blocks : d # s => w.disk[d] = v.disk[d]
<1>. DEFINE w == WithCell(v, f, s, c)
            t == Took(v, f)
            a == FirstClear(v)
<1>1. a \in Blocks /\ a \notin v.freemap /\ a # 0 /\ a # -1 /\ a # -2 /\ a \in Int /\ v \in Volume
  <2>1. a \in Blocks /\ a \notin v.freemap /\ v \in Volume
    BY FirstClearIs DEF Sound
  <2>. HIDE DEF a
  <2>. QED
    BY <2>1, Geometry DEF BlockNr
<1>2. /\ t \in Volume /\ Counting(v, t, f) /\ t.disk = v.disk
      /\ t.inode[f].block_nr = v.inode[f].block_nr
      /\ t.inode[f].indirect = v.inode[f].indirect /\ t.inode[f].dindirect = v.inode[f].dindirect
  BY TookIs
<1>3. s \in v.freemap /\ s \in Blocks /\ s # 0 /\ s # -1 /\ s # -2 /\ \A g \in Files : Index(v, g, s) => g = f
  BY IndexOwned
<1>4. w = SetCell(t, s, c, a)
  BY DEF WithCell
<1>. HIDE DEF w, t, a
<1>5. /\ w \in Volume /\ w.freemap = t.freemap /\ w.used = t.used /\ w.inode = t.inode
      /\ \A d \in Blocks, e \in Cells :
            w.disk[d][e] = IF d = s /\ e = c THEN a ELSE v.disk[d][e]
      /\ \A d \in Blocks : d # s => w.disk[d] = v.disk[d]
  <2>1. t \in Volume /\ s \in Blocks /\ c \in Cells /\ a \in Int
    BY <1>1, <1>2, <1>3
  <2>2. /\ w \in Volume /\ w.freemap = t.freemap /\ w.used = t.used /\ w.inode = t.inode
        /\ \A d \in Blocks, e \in Cells :
              w.disk[d][e] = IF d = s /\ e = c THEN a ELSE t.disk[d][e]
        /\ \A d \in Blocks : d # s => w.disk[d] = t.disk[d]
    BY <1>4, <2>1, SetCellIs
  <2>. QED
    BY <1>2, <2>2
<1>6. Counting(v, w, f)
  BY <1>2, <1>5 DEF Counting
<1>7. v.disk[a] = Zero /\ \A d \in Cells : v.disk[a][d] = 0
  BY <1>1 DEF Sound, Clean, Zero
<1>8. \A g \in Files : \A b : ~Index(v, g, a)
  BY <1>1, IndexOwned
<1>9. \A g \in Files : /\ w.inode[g].block_nr = v.inode[g].block_nr
                       /\ w.inode[g].indirect = v.inode[g].indirect
                       /\ w.inode[g].dindirect = v.inode[g].dindirect
  BY <1>2, <1>5 DEF Counting
<1>10. ASSUME NEW g \in Files, NEW b
       PROVE  /\ Index(v, g, b) => Index(w, g, b)
              /\ Index(w, g, b) => Index(v, g, b) \/ b = a
  <2>1. v.inode[g].dindirect # 0 => v.inode[g].dindirect \in Blocks
    BY <1>1, VolumeFields DEF BlockNr
  <2>2. ASSUME v.inode[g].dindirect # 0, NEW e \in Cells
        PROVE  \/ w.disk[v.inode[g].dindirect][e] = v.disk[v.inode[g].dindirect][e]
               \/ w.disk[v.inode[g].dindirect][e] = a /\ v.disk[v.inode[g].dindirect][e] = 0
    BY <1>5, <2>1, <2>2
  <2>. QED
    BY <1>9, <2>2 DEF Index
<1>11. ASSUME NEW g \in Files, NEW b, NEW d, NEW x
       PROVE  Points(w, g, b, d, x) <=> Points(v, g, b, d, x) \/ (g = f /\ b = s /\ d = c /\ x = a)
  <2>1. CASE b \notin Blocks
    <3>1. ~Index(v, g, b) /\ ~Index(w, g, b) /\ b # s
      BY <1>1, <1>3, <1>10, <2>1, IndexOwned
    <3>. QED
      BY <1>9, <3>1 DEF Points
  <2>2. CASE b = a
    <3>1. ~Index(v, g, b) /\ b # s /\ w.disk[b] = v.disk[b] /\ b # 0 /\ b # -1 /\ b # -2
      BY <1>1, <1>3, <1>5, <1>8, <2>2
    <3>. QED
      BY <1>7, <2>2, <3>1 DEF Points
  <2>3. CASE b \in Blocks /\ b # a
    <3>1. Index(v, g, b) <=> Index(w, g, b)
      BY <1>10, <2>3
    <3>2. b # 0 /\ b # -1 /\ b # -2
      BY <2>3, Geometry DEF BlockNr
    <3>3. ASSUME d \in Cells
          PROVE  w.disk[b][d] = IF b = s /\ d = c THEN a ELSE v.disk[b][d]
      BY <1>5, <2>3, <3>3
    <3>4. Points(w, g, b, d, x) <=> x # 0 /\ Index(v, g, b) /\ d \in Cells /\ x = w.disk[b][d]
      BY <3>1, <3>2 DEF Points
    <3>5. Points(v, g, b, d, x) <=> x # 0 /\ Index(v, g, b) /\ d \in Cells /\ x = v.disk[b][d]
      BY <3>2 DEF Points
    <3>6. CASE b = s /\ d = c
      <4>1. Index(v, g, b) => g = f
        BY <1>3, <3>6
      <4>. QED
        BY <1>1, <3>3, <3>4, <3>5, <3>6, <4>1
    <3>7. CASE ~(b = s /\ d = c)
      BY <3>3, <3>4, <3>5, <3>7
    <3>. QED
      BY <3>6, <3>7
  <2>. QED
    BY <2>1, <2>2, <2>3
<1>12. v.used < MaxBlocks
  <2>1. v.used \in Int /\ MaxBlocks \in Int
    BY <1>1, VolumeFields, Geometry
  <2>. QED
    BY <2>1 DEF Full
<1>13. \A b \in Blocks \ w.freemap : w.disk[b] = v.disk[b]
  BY <1>2, <1>3, <1>5 DEF Counting
<1>14. Grows(v, w, f, s, c, a)
  BY <1>1, <1>5, <1>6, <1>11, <1>12, <1>13 DEF Grows, Counting, a
<1>15. Sound(w) /\ Grows(v, w, f, s, c, a)
  BY <1>14, GrowsSound
<1>. QED
  BY <1>2, <1>5, <1>6, <1>9, <1>15 DEF w, a

----------------------------------------------------------------------------
(* Blocks are given back.                                                  *)

LEMMA PointedToIs ==
    ASSUME NEW v, NEW f
    PROVE  \A x : x \in PointedTo(v, f) <=> \E b, c : Points(v, f, b, c, x)
<1>1. ASSUME NEW x \in PointedTo(v, f) PROVE \E b, c : Points(v, f, b, c, x)
  BY PointersAre DEF PointedTo
<1>2. ASSUME NEW x, NEW b, NEW c, Points(v, f, b, c, x) PROVE x \in PointedTo(v, f)
  <2>1. <<b, c, x>> \in Pointers(v, f) /\ <<b, c, x>>[3] = x
    BY <1>2, PointersAre
  <2>. QED
    BY <2>1 DEF PointedTo
<1>. QED
  BY <1>1, <1>2

\* A file has as many blocks as pointers.
LEMMA PointedToCount ==
    ASSUME NEW v, Sound(v), NEW f \in Files
    PROVE  /\ IsFiniteSet(PointedTo(v, f)) /\ Cardinality(PointedTo(v, f)) = v.inode[f].block_count
           /\ PointedTo(v, f) \subseteq v.freemap
<1>. DEFINE S == Pointers(v, f)
            T == PointedTo(v, f)
            h == [p \in S |-> p[3]]
<1>1. IsFiniteSet(S) /\ v.inode[f].block_count = Cardinality(S)
  BY DEF Sound, Counted
<1>2. T = {p[3] : p \in S}
  BY DEF PointedTo
<1>3. \A p, q \in S : p[3] = q[3] => p = q
  <2>. SUFFICES ASSUME NEW p \in S, NEW q \in S, p[3] = q[3] PROVE p = q
    OBVIOUS
  <2>1. /\ p = <<p[1], p[2], p[3]>> /\ Points(v, f, p[1], p[2], p[3])
        /\ q = <<q[1], q[2], q[3]>> /\ Points(v, f, q[1], q[2], p[3])
    BY PointersAre
  <2>2. p[1] = q[1] /\ p[2] = q[2]
    BY <2>1 DEF Sound, OwnedOnce
  <2>. QED
    BY <2>1, <2>2
<1>4. h \in Surjection(S, T)
  <2>1. h \in [S -> T] /\ \A x \in T : \E p \in S : h[p] = x
    BY <1>2
  <2>. QED
    BY <2>1 DEF Surjection
<1>5. h \in Injection(S, T)
  <2>1. h \in [S -> T] /\ \A p, q \in DOMAIN h : h[p] = h[q] => p = q
    BY <1>2, <1>3
  <2>. QED
    BY <2>1 DEF Injection, IsInjective
<1>. HIDE DEF S, T, h
<1>6. IsFiniteSet(T) /\ Cardinality(T) = Cardinality(S)
  BY <1>1, <1>4, <1>5, FS_Surjection
<1>7. \A x \in T : x \in v.freemap
  BY PointedToIs DEF Sound, InUse, T
<1>. QED
  BY <1>1, <1>6, <1>7 DEF S, T

LEMMA FreeIs ==
    ASSUME NEW v \in Volume, NEW f \in Files, NEW bs \in SUBSET Blocks, NEW w, w = Free(v, f, bs)
    PROVE  /\ w \in Volume /\ Cardinality(bs) \in Nat
           /\ w.freemap = v.freemap \ bs /\ w.used = v.used - Cardinality(bs)
           /\ \A b \in Blocks : w.disk[b] = IF b \in bs THEN Zero ELSE v.disk[b]
           /\ \A g \in Files :
                /\ w.inode[g].block_nr = v.inode[g].block_nr
                /\ w.inode[g].indirect = v.inode[g].indirect
                /\ w.inode[g].dindirect = v.inode[g].dindirect
                /\ w.inode[g].size = v.inode[g].size
                /\ w.inode[g].block_count = v.inode[g].block_count - (IF g = f THEN Cardinality(bs) ELSE 0)
<1>. DEFINE n == Cardinality(bs)
            disk == [b \in Blocks |-> IF b \in bs THEN Zero ELSE v.disk[b]]
            in == [v.inode[f] EXCEPT !.block_count = @ - n]
            inode == [v.inode EXCEPT ![f] = in]
<1>1. n \in Nat
  BY BlocksFinite, FS_Subset, FS_CardinalityType
<1>2. /\ v.freemap \subseteq Blocks /\ v.used \in Int
      /\ v.disk \in [Blocks -> [Cells -> Int]] /\ v.inode \in [Files -> Inode] /\ v.inode[f] \in Inode
      /\ \A g \in Files : v.inode[g].block_count \in Int
  BY VolumeFields
<1>. HIDE DEF n
<1>3. /\ in \in Inode /\ in.block_nr = v.inode[f].block_nr /\ in.indirect = v.inode[f].indirect
      /\ in.dindirect = v.inode[f].dindirect /\ in.size = v.inode[f].size
      /\ in.block_count = v.inode[f].block_count - n
  BY <1>1, <1>2 DEF Inode
<1>4. w = [freemap |-> v.freemap \ bs, used |-> v.used - n, disk |-> disk, inode |-> inode]
  <2>1. w = [v EXCEPT !.freemap = v.freemap \ bs, !.used = v.used - n, !.disk = disk, !.inode = inode]
    BY DEF Free, n
  <2>. HIDE DEF disk, in, inode
  <2>. QED
    BY <2>1 DEF Volume
<1>5. disk \in [Blocks -> [Cells -> Int]]
  <2>1. Zero \in [Cells -> Int]
    BY DEF Zero
  <2>. QED
    BY <1>2, <2>1
<1>. HIDE DEF in
<1>6. inode \in [Files -> Inode] /\ inode[f] = in /\ \A g \in Files : g # f => inode[g] = v.inode[g]
  BY <1>2, <1>3
<1>7. \A b \in Blocks : disk[b] = IF b \in bs THEN Zero ELSE v.disk[b]
  OBVIOUS
<1>. HIDE DEF disk, inode
<1>8. w \in Volume
  BY <1>1, <1>2, <1>4, <1>5, <1>6 DEF Volume
<1>9. \A g \in Files :
         /\ w.inode[g].block_nr = v.inode[g].block_nr
         /\ w.inode[g].indirect = v.inode[g].indirect
         /\ w.inode[g].dindirect = v.inode[g].dindirect
         /\ w.inode[g].size = v.inode[g].size
         /\ w.inode[g].block_count = v.inode[g].block_count - (IF g = f THEN n ELSE 0)
  BY <1>2, <1>3, <1>4, <1>6
<1>. QED
  BY <1>1, <1>4, <1>7, <1>8, <1>9 DEF n

LEMMA FreeNothing ==
    ASSUME NEW v \in Volume, NEW f \in Files
    PROVE  Free(v, f, {}) = v
<1>. DEFINE no == {}
            w == Free(v, f, no)
<1>1. no \in SUBSET Blocks /\ Cardinality(no) = 0 /\ \A x : x \notin no
  BY FS_EmptySet
<1>2. /\ w \in Volume
      /\ w.freemap = v.freemap \ no /\ w.used = v.used - 0
      /\ \A b \in Blocks : w.disk[b] = v.disk[b]
      /\ \A g \in Files :
           /\ w.inode[g].block_nr = v.inode[g].block_nr
           /\ w.inode[g].indirect = v.inode[g].indirect
           /\ w.inode[g].dindirect = v.inode[g].dindirect
           /\ w.inode[g].size = v.inode[g].size
           /\ w.inode[g].block_count = v.inode[g].block_count - 0
  <2>1. w = Free(v, f, no)
    OBVIOUS
  <2>. HIDE DEF w, no
  <2>2. /\ w \in Volume
        /\ w.freemap = v.freemap \ no /\ w.used = v.used - Cardinality(no)
        /\ \A b \in Blocks : w.disk[b] = IF b \in no THEN Zero ELSE v.disk[b]
        /\ \A g \in Files :
             /\ w.inode[g].block_nr = v.inode[g].block_nr
             /\ w.inode[g].indirect = v.inode[g].indirect
             /\ w.inode[g].dindirect = v.inode[g].dindirect
             /\ w.inode[g].size = v.inode[g].size
             /\ w.inode[g].block_count
                  = v.inode[g].block_count - (IF g = f THEN Cardinality(no) ELSE 0)
    BY <1>1, <2>1, FreeIs
  <2>3. \A g \in Files : (IF g = f THEN Cardinality(no) ELSE 0) = 0
    BY <1>1
  <2>. QED
    BY <1>1, <2>2, <2>3
<1>. HIDE DEF w, no
<1>3. v.used \in Int /\ w.disk \in [Blocks -> [Cells -> Int]] /\ v.disk \in [Blocks -> [Cells -> Int]]
      /\ w.inode \in [Files -> Inode] /\ v.inode \in [Files -> Inode]
      /\ \A g \in Files : v.inode[g].block_count \in Int /\ w.inode[g] \in Inode /\ v.inode[g] \in Inode
  BY <1>2, VolumeFields
<1>4. w.disk = v.disk
  BY <1>2, <1>3
<1>5. \A g \in Files : w.inode[g] = v.inode[g]
  <2>. SUFFICES ASSUME NEW g \in Files PROVE w.inode[g] = v.inode[g]
    OBVIOUS
  <2>. DEFINE i == w.inode[g]
              j == v.inode[g]
  <2>1. i \in Inode /\ j \in Inode /\ i.block_nr = j.block_nr /\ i.indirect = j.indirect
        /\ i.dindirect = j.dindirect /\ i.size = j.size /\ i.block_count = j.block_count
    BY <1>2, <1>3
  <2>. HIDE DEF i, j
  <2>2. i = j
    BY <2>1 DEF Inode
  <2>. QED
    BY <2>2 DEF i, j
<1>6. w.inode = v.inode
  BY <1>3, <1>5
<1>7. w.freemap = v.freemap /\ w.used = v.used
  BY <1>1, <1>2, <1>3
<1>8. w = v
  BY <1>2, <1>4, <1>6, <1>7 DEF Volume
<1>. QED
  BY <1>8 DEF w, no

\* A freed block is zeroed, which takes pointers away and adds none.
LEMMA FreePoints ==
    ASSUME NEW v, Sound(v), NEW f \in Files, NEW bs \in SUBSET Blocks, NEW w, w = Free(v, f, bs),
           NEW g \in Files, NEW b, NEW c, NEW x, Points(w, g, b, c, x)
    PROVE  Points(v, g, b, c, x)
<1>1. v \in Volume
  BY DEF Sound
<1>2. /\ \A d \in Blocks : w.disk[d] = v.disk[d] \/ w.disk[d] = Zero
      /\ w.inode[g].block_nr = v.inode[g].block_nr
      /\ w.inode[g].indirect = v.inode[g].indirect
      /\ w.inode[g].dindirect = v.inode[g].dindirect
  BY <1>1, FreeIs
<1>3. \A d \in Cells : Zero[d] = 0
  BY DEF Zero
<1>4. ASSUME NEW d, Index(w, g, d) PROVE Index(v, g, d) /\ d \in Blocks
  <2>1. v.inode[g].dindirect # 0 => v.inode[g].dindirect \in Blocks
    BY <1>1, VolumeFields DEF BlockNr
  <2>2. Index(v, g, d)
    BY <1>2, <1>3, <1>4, <2>1 DEF Index
  <2>. QED
    BY <2>2, IndexOwned
<1>5. CASE Index(w, g, b) /\ c \in Cells /\ x = w.disk[b][c]
  <2>1. x # 0
    BY DEF Points
  <2>. QED
    BY <1>2, <1>3, <1>4, <1>5, <2>1 DEF Points
<1>. QED
  BY <1>2, <1>5 DEF Points

\* A file that still points to a block it freed.
LEMMA FreeDangles ==
    ASSUME NEW v, Sound(v), NEW f \in Files, NEW bs \in SUBSET PointedTo(v, f),
           NEW w, w = Free(v, f, bs), NEW b, NEW c, NEW x \in bs, Points(w, f, b, c, x)
    PROVE  Loose(w) /\ Dangling(w)
<1>1. v \in Volume
  BY DEF Sound
<1>2. bs \in SUBSET Blocks
  BY <1>1, PointedToCount, VolumeFields
<1>3. /\ w \in Volume /\ Cardinality(bs) \in Nat
      /\ w.freemap = v.freemap \ bs /\ w.used = v.used - Cardinality(bs)
      /\ \A g \in Files :
           w.inode[g].block_count = v.inode[g].block_count - (IF g = f THEN Cardinality(bs) ELSE 0)
  BY <1>1, <1>2, FreeIs
<1>4. Cardinality(bs) <= v.inode[f].block_count
  BY PointedToCount, FS_Subset
<1>5. \A g \in Files : v.inode[g].block_count \in Nat /\ v.inode[g].block_count <= v.used
  <2>. SUFFICES ASSUME NEW g \in Files
                PROVE  v.inode[g].block_count \in Nat /\ v.inode[g].block_count <= v.used
    OBVIOUS
  <2>1. IsFiniteSet(PointedTo(v, g)) /\ Cardinality(PointedTo(v, g)) = v.inode[g].block_count
        /\ PointedTo(v, g) \in SUBSET v.freemap
    BY PointedToCount
  <2>2. IsFiniteSet(v.freemap) /\ v.used = Cardinality(v.freemap)
    BY <1>1, FreemapFinite DEF Sound, Counted
  <2>. QED
    BY <2>1, <2>2, FS_Subset, FS_CardinalityType
<1>6. v.used <= MaxBlocks /\ v.used \in Int /\ MaxBlocks \in Nat
  BY <1>1, VolumeFields, Geometry DEF Sound, Counted
<1>7. w.used \in 0 .. MaxBlocks /\ \A g \in Files : w.inode[g].block_count \in 0 .. MaxBlocks
  <2>1. w.used \in 0 .. MaxBlocks
    BY <1>3, <1>4, <1>5, <1>6
  <2>2. ASSUME NEW g \in Files PROVE w.inode[g].block_count \in 0 .. MaxBlocks
    BY <1>3, <1>4, <1>5, <1>6
  <2>. QED
    BY <2>1, <2>2
<1>8. \A g \in Files : \A d, e, y : Points(w, g, d, e, y) => y \in Blocks
  <2>1. \A g \in Files : \A d, e, y : Points(w, g, d, e, y) => Points(v, g, d, e, y)
    BY <1>2, FreePoints
  <2>. QED
    BY <1>1, <2>1, VolumeFields DEF Sound, InUse
<1>9. Dangling(w)
  <2>1. x \in PointedTo(w, f) /\ x \notin w.freemap
    BY <1>3, PointedToIs
  <2>. QED
    BY <2>1 DEF Dangling, AllMarked
<1>. QED
  BY <1>3, <1>7, <1>8, <1>9 DEF Loose

----------------------------------------------------------------------------
(* The way from a logical block to the cell that names its block.          *)

Logical == 0 .. MaxFileBlocks - 1

LEMMA DivMod ==
    ASSUME NEW k \in Nat, NEW b \in Nat \ {0}, NEW q, q = k \div b, NEW r, r = k % b
    PROVE  q \in Nat /\ r \in 0 .. b - 1 /\ k = b * q + r
<1>1. q \in Nat /\ r \in 0 .. b - 1
  OBVIOUS
<1>. DEFINE p == b * q
<1>2. r = k - p
  BY SMTT(60)
<1>3. p \in Int
  BY <1>1
<1>. HIDE DEF p
<1>4. k = p + r
  BY <1>1, <1>2, <1>3
<1>. QED
  BY <1>1, <1>4 DEF p

LEMMA LessProduct ==
    ASSUME NEW k \in Nat, NEW b \in Nat \ {0}, NEW n \in Nat, k < b * n
    PROVE  k \div b < n
<1>. DEFINE q == k \div b
            r == k % b
<1>1. q = k \div b /\ r = k % b
  OBVIOUS
<1>. HIDE DEF q, r
<1>2. k = b * q + r /\ q \in Nat /\ r \in Nat
  BY <1>1, DivMod
<1>3. ASSUME q >= n PROVE FALSE
  <2>1. PICK d \in Nat : q = n + d
    <3>1. q - n \in Nat /\ q = n + (q - n)
      BY <1>2, <1>3
    <3>. QED
      BY <3>1
  <2>2. b * q = b * n + b * d
    BY <1>2, <2>1
  <2>3. b * d \in Nat /\ b * n \in Nat /\ b * q \in Nat
    BY <1>2
  <2>. QED
    BY <1>2, <2>2, <2>3
<1>. QED
  BY <1>2, <1>3 DEF q

LEMMA OuterInner ==
    ASSUME NEW m \in Nat
    PROVE  /\ Outer(m) \in Nat /\ Inner(m) \in Cells /\ m = NIndirect * Outer(m) + Inner(m)
           /\ m < NIndirect * NIndirect => Outer(m) \in Cells
<1>1. NIndirect \in Nat \ {0} /\ Cells = 0 .. NIndirect - 1
  BY Geometry
<1>2. Outer(m) \in Nat /\ Inner(m) \in 0 .. NIndirect - 1 /\ m = NIndirect * Outer(m) + Inner(m)
  <2>1. Outer(m) = m \div NIndirect /\ Inner(m) = m % NIndirect
    BY DEF Outer, Inner
  <2>. DEFINE o == Outer(m)
              i == Inner(m)
  <2>. HIDE DEF o, i
  <2>2. NIndirect \in Nat \ {0} /\ o = m \div NIndirect /\ i = m % NIndirect
    BY <1>1, <2>1 DEF o, i
  <2>3. o \in Nat /\ i \in 0 .. NIndirect - 1
    BY <2>2
  <2>4. i = m - NIndirect * o
    BY <2>2, SMTT(60)
  <2>5. m = NIndirect * o + i
    <3>. DEFINE p == NIndirect * o
    <3>1. p \in Int
      BY <2>2, <2>3
    <3>. HIDE DEF p
    <3>2. i = m - p => m = p + i
      BY <2>3, <3>1
    <3>. QED
      BY <2>4, <3>2 DEF p
  <2>. QED
    BY <2>3, <2>5, Zenon DEF o, i
<1>3. ASSUME m < NIndirect * NIndirect PROVE Outer(m) \in Cells
  <2>1. Outer(m) < NIndirect
    BY <1>1, <1>3, LessProduct DEF Outer
  <2>. QED
    BY <1>1, <1>2, <2>1
<1>. QED
  BY <1>1, <1>2, <1>3

LEMMA LogicalIs ==
    /\ MaxFileBlocks \in Nat /\ MaxFileBlocks = NDirect + NIndirect + NIndirect * NIndirect
    /\ \A n \in Nat : n - NDirect - NIndirect >= NIndirect * NIndirect <=> n \notin Logical
    /\ Logical \subseteq Nat
<1>1. NDirect \in Nat /\ NIndirect \in Nat
  BY Geometry
<1>. DEFINE p == NIndirect * NIndirect
<1>2. p \in Nat
  BY <1>1
<1>3. MaxFileBlocks = NDirect + NIndirect + p
  BY DEF MaxFileBlocks
<1>. HIDE DEF p
<1>4. /\ MaxFileBlocks \in Nat /\ \A n \in Nat : n - NDirect - NIndirect >= p <=> n \notin Logical
      /\ Logical \subseteq Nat
  BY <1>1, <1>2, <1>3 DEF Logical
<1>. QED
  BY <1>3, <1>4 DEF p

\* Where the block map of f has logical block n: entry c of s.
Path(v, f, n, s, c) ==
    LET in == v.inode[f]  k == n - NDirect  m == k - NIndirect IN
    \/ n \in 0 .. NDirect - 1 /\ s = 0 /\ c = n
    \/ k \in Cells /\ in.indirect # 0 /\ s = in.indirect /\ c = k
    \/ /\ m \in 0 .. NIndirect * NIndirect - 1 /\ in.dindirect # 0
       /\ v.disk[in.dindirect][Outer(m)] # 0
       /\ s = v.disk[in.dindirect][Outer(m)] /\ c = Inner(m)
Entry(v, f, s, c) == IF s = 0 THEN v.inode[f].block_nr[c] ELSE v.disk[s][c]

LEMMA Regions ==
    ASSUME NEW n \in Logical
    PROVE  LET k == n - NDirect  m == k - NIndirect IN
           /\ n \in Nat /\ ~(m >= NIndirect * NIndirect)
           /\ k < 0 => n \in 0 .. NDirect - 1
           /\ k >= 0 /\ m < 0 => k \in Cells
           /\ m >= 0 => /\ m \in Nat /\ m \in 0 .. NIndirect * NIndirect - 1
                        /\ Outer(m) \in Cells /\ Inner(m) \in Cells
                        /\ m = NIndirect * Outer(m) + Inner(m)
<1>. DEFINE k == n - NDirect
            m == k - NIndirect
            p == NIndirect * NIndirect
<1>1. n \in Nat /\ ~(m >= p)
  BY LogicalIs
<1>2. NDirect \in Nat /\ NIndirect \in Nat /\ Cells = 0 .. NIndirect - 1 /\ p \in Int
  BY Geometry
<1>. HIDE DEF p
<1>3. /\ k < 0 => n \in 0 .. NDirect - 1
      /\ k >= 0 /\ m < 0 => k \in Cells
      /\ m >= 0 => m \in Nat /\ m \in 0 .. p - 1 /\ m < p
  BY <1>1, <1>2
<1>. HIDE DEF m
<1>4. ASSUME m >= 0
      PROVE  Outer(m) \in Cells /\ Inner(m) \in Cells /\ m = NIndirect * Outer(m) + Inner(m)
  BY <1>3, <1>4, OuterInner DEF p
<1>. QED
  BY <1>1, <1>3, <1>4 DEF m, p

\* The cells of an index block are block numbers.
LEMMA IndexCells ==
    ASSUME NEW v, Sound(v), NEW f \in Files, NEW s, Index(v, f, s), NEW c \in Cells
    PROVE  v.disk[s][c] \in BlockNr /\ v.disk[s][c] \in Nat /\ (v.disk[s][c] > 0 <=> v.disk[s][c] # 0)
<1>1. v.disk[s][c] # 0 => v.disk[s][c] \in v.freemap
  BY PointsIn
<1>2. v.freemap \subseteq Blocks
  BY DEF Sound, Volume
<1>3. v.disk[s][c] \in BlockNr
  BY <1>1, <1>2 DEF BlockNr
<1>. HIDE DEF BlockNr
<1>4. \A x \in BlockNr : x \in Nat
  BY Geometry DEF BlockNr
<1>. QED
  BY <1>3, <1>4

LEMMA BlockNrs == \A x \in BlockNr : x \in Nat /\ (x > 0 <=> x # 0)
  BY Geometry DEF BlockNr

LEMMA PathIs ==
    ASSUME NEW v, Sound(v), NEW f \in Files, NEW n \in Logical
    PROVE  /\ \A s, c : Path(v, f, n, s, c) =>
                 /\ Physical(v, f, n) = Entry(v, f, s, c) /\ Entry(v, f, s, c) \in BlockNr
                 /\ s # 0 => Index(v, f, s) /\ c \in Cells /\ s # v.inode[f].dindirect
                 /\ s = 0 => c \in 0 .. NDirect - 1
           /\ (\A s, c : ~Path(v, f, n, s, c)) => Physical(v, f, n) = 0
<1>. DEFINE in == v.inode[f]
            k == n - NDirect
            m == k - NIndirect
            p == NIndirect * NIndirect
<1>1. /\ n \in Nat /\ ~(m >= p)
      /\ k < 0 => n \in 0 .. NDirect - 1
      /\ k >= 0 /\ m < 0 => k \in Cells
      /\ m >= 0 => m \in 0 .. p - 1 /\ Outer(m) \in Cells /\ Inner(m) \in Cells
  BY Regions
<1>2. /\ in.indirect \in BlockNr /\ in.dindirect \in BlockNr
      /\ in.block_nr \in [0 .. NDirect - 1 -> BlockNr]
  BY VolumeFields DEF Sound
<1>3. NDirect \in Nat /\ NIndirect \in Nat /\ Cells = 0 .. NIndirect - 1 /\ p \in Int /\ B = NIndirect
  BY Geometry
<1>4. /\ in.indirect # 0 => Index(v, f, in.indirect) /\ in.indirect # in.dindirect
      /\ in.dindirect # 0 => Index(v, f, in.dindirect)
      /\ \A c \in Cells : in.dindirect # 0 /\ v.disk[in.dindirect][c] # 0 =>
             Index(v, f, v.disk[in.dindirect][c]) /\ v.disk[in.dindirect][c] # in.dindirect
  <2>1. in.indirect # 0 => in.indirect # in.dindirect
    BY PointsIn DEF Sound, OwnedOnce
  <2>2. ASSUME NEW c \in Cells, in.dindirect # 0, v.disk[in.dindirect][c] = in.dindirect PROVE FALSE
    <3>1. Points(v, f, in.dindirect, c, in.dindirect) /\ Points(v, f, -2, 0, in.dindirect)
      BY <2>2, PointsIn
    <3>2. in.dindirect = -2
      BY <3>1 DEF Sound, OwnedOnce
    <3>. QED
      BY <1>2, <3>2, Geometry
  <2>. QED
    BY <2>1, <2>2, PointsIn
<1>8. k \in Int /\ m \in Int /\ (k < 0 => m < 0 /\ m < p) /\ (m < 0 => m < p)
  BY <1>1, <1>3
<1>5. CASE k < 0
  <2>1. Physical(v, f, n) = in.block_nr[n]
    <3>1. k < 0 /\ ~(k >= 0 /\ m < 0) /\ ~(m >= p)
      BY <1>1, <1>5, <1>8
    <3>. QED
      BY <3>1 DEF Physical
  <2>2. \A s, c : Path(v, f, n, s, c) <=> s = 0 /\ c = n
    BY <1>1, <1>3, <1>5 DEF Path
  <2>3. in.block_nr[n] \in BlockNr
    BY <1>1, <1>2, <1>5
  <2>4. Entry(v, f, 0, n) = in.block_nr[n] /\ n \in 0 .. NDirect - 1
    BY <1>1, <1>5 DEF Entry
  <2>5. Path(v, f, n, 0, n)
    BY <2>2
  <2>. QED
    BY <2>1, <2>2, <2>3, <2>4, <2>5
<1>6. CASE k >= 0 /\ m < 0
  <2>1. Physical(v, f, n) = IF in.indirect > 0 THEN v.disk[in.indirect][k] ELSE 0
    BY <1>1, <1>3, <1>6, <1>8 DEF Physical
  <2>2. \A s, c : Path(v, f, n, s, c) <=> in.indirect # 0 /\ s = in.indirect /\ c = k
    BY <1>1, <1>3, <1>6 DEF Path
  <2>3. in.indirect > 0 <=> in.indirect # 0
    BY <1>2, BlockNrs
  <2>4. in.indirect # 0 => v.disk[in.indirect][k] \in BlockNr
    BY <1>1, <1>4, <1>6, IndexCells
  <2>5. in.indirect # 0 => Entry(v, f, in.indirect, k) = v.disk[in.indirect][k]
    BY DEF Entry
  <2>6. in.indirect # 0 => Path(v, f, n, in.indirect, k)
    BY <2>2
  <2>7. k \in Cells
    BY <1>1, <1>6
  <2>. HIDE DEF k, m, in
  <2>. QED
    BY <1>4, <2>1, <2>2, <2>3, <2>4, <2>5, <2>6, <2>7 DEF in
<1>7. CASE m >= 0
  <2>. DEFINE o == Outer(m)
              i == Inner(m)
  <2>1. Physical(v, f, n) = IF in.dindirect > 0 /\ v.disk[in.dindirect][o] > 0
                            THEN v.disk[v.disk[in.dindirect][o]][i] ELSE 0
    <3>1. ~(k < 0) /\ ~(k >= 0 /\ m < 0) /\ ~(m >= p)
      BY <1>1, <1>7, <1>8
    <3>. QED
      BY <3>1 DEF Physical
  <2>2. \A s, c : Path(v, f, n, s, c) <=>
            in.dindirect # 0 /\ v.disk[in.dindirect][o] # 0 /\ s = v.disk[in.dindirect][o] /\ c = i
    BY <1>1, <1>3, <1>7 DEF Path
  <2>3. o \in Cells /\ i \in Cells
    BY <1>1, <1>7
  <2>. HIDE DEF o, i
  <2>4. in.dindirect > 0 <=> in.dindirect # 0
    BY <1>2, BlockNrs
  <2>5. in.dindirect # 0 => (v.disk[in.dindirect][o] > 0 <=> v.disk[in.dindirect][o] # 0)
    BY <1>4, <2>3, IndexCells
  <2>6. in.dindirect # 0 /\ v.disk[in.dindirect][o] # 0 =>
            /\ v.disk[v.disk[in.dindirect][o]][i] \in BlockNr
            /\ Index(v, f, v.disk[in.dindirect][o]) /\ v.disk[in.dindirect][o] # in.dindirect
    BY <1>4, <2>3, IndexCells
  <2>. QED
    BY <2>1, <2>2, <2>3, <2>4, <2>5, <2>6 DEF Entry
<1>. QED
  BY <1>5, <1>6, <1>7, <1>8

\* The path to a block, in terms of pointers.
LEMMA PathPoints ==
    ASSUME NEW v, Sound(v), NEW f \in Files, NEW n, NEW s, NEW c
    PROVE  Path(v, f, n, s, c) <=>
              \/ n \in 0 .. NDirect - 1 /\ s = 0 /\ c = n
              \/ n - NDirect \in Cells /\ c = n - NDirect /\ Points(v, f, -1, 0, s)
              \/ /\ n - NDirect - NIndirect \in 0 .. NIndirect * NIndirect - 1
                 /\ c = Inner(n - NDirect - NIndirect)
                 /\ \E d : /\ Points(v, f, -2, 0, d)
                           /\ Points(v, f, d, Outer(n - NDirect - NIndirect), s)
<1>. DEFINE in == v.inode[f]
            m == n - NDirect - NIndirect
            o == Outer(m)
            Deep == m \in 0 .. NIndirect * NIndirect - 1
<1>1. ~Index(v, f, -1) /\ ~Index(v, f, -2) /\ ~Index(v, f, 0)
  BY IndexOwned DEF Index
<1>2. Points(v, f, -1, 0, s) <=> s # 0 /\ s = in.indirect
  BY <1>1 DEF Points
<1>3. \A d : Points(v, f, -2, 0, d) <=> d # 0 /\ d = in.dindirect
  BY <1>1 DEF Points
<1>4. Deep => o \in Cells
  BY Geometry, OuterInner
<1>5. ASSUME Deep, in.dindirect # 0
      PROVE  Points(v, f, in.dindirect, o, s) <=> s # 0 /\ s = v.disk[in.dindirect][o]
  <2>1. Index(v, f, in.dindirect)
    BY <1>5, PointsIn
  <2>2. in.dindirect # -1 /\ in.dindirect # -2
    BY <2>1, IndexOwned
  <2>. QED
    BY <1>4, <1>5, <2>1, <2>2 DEF Points
<1>. HIDE DEF o
<1>6. Path(v, f, n, s, c) <=>
         \/ n \in 0 .. NDirect - 1 /\ s = 0 /\ c = n
         \/ n - NDirect \in Cells /\ in.indirect # 0 /\ s = in.indirect /\ c = n - NDirect
         \/ /\ Deep /\ in.dindirect # 0
            /\ v.disk[in.dindirect][o] # 0 /\ s = v.disk[in.dindirect][o] /\ c = Inner(m)
  BY DEF Path, o
<1>7. ASSUME Deep
      PROVE  (in.dindirect # 0 /\ v.disk[in.dindirect][o] # 0 /\ s = v.disk[in.dindirect][o])
               <=> \E d : Points(v, f, -2, 0, d) /\ Points(v, f, d, o, s)
  BY <1>3, <1>5, <1>7
<1>. HIDE DEF Deep, in
<1>. QED
  BY <1>2, <1>6, <1>7 DEF o, Deep

\* Two logical blocks of a file are not in the same place.
LEMMA PathUnique ==
    ASSUME NEW v, Sound(v), NEW f \in Files, NEW n \in Logical, NEW j \in Logical, NEW s, NEW c,
           Path(v, f, n, s, c), Path(v, f, j, s, c)
    PROVE  n = j
<1>. DEFINE in == v.inode[f]
            m == n - NDirect - NIndirect
            l == j - NDirect - NIndirect
            D(x) == v.disk[in.dindirect][Outer(x)]
            Deep(x) == /\ x \in 0 .. NIndirect * NIndirect - 1 /\ in.dindirect # 0
                       /\ D(x) # 0 /\ s = D(x) /\ c = Inner(x)
            Single(x) == x - NDirect \in Cells /\ in.indirect # 0 /\ s = in.indirect /\ c = x - NDirect
            Direct(x) == x \in 0 .. NDirect - 1 /\ s = 0 /\ c = x
<1>1. n \in Nat /\ j \in Nat /\ NDirect \in Nat /\ NIndirect \in Nat
  BY LogicalIs, Geometry
<1>2. Direct(n) \/ Single(n) \/ Deep(m)
  BY DEF Path
<1>3. Direct(j) \/ Single(j) \/ Deep(l)
  BY DEF Path
<1>4. ASSUME NEW x, Deep(x)
      PROVE  /\ x \in Nat /\ Outer(x) \in Cells /\ x = NIndirect * Outer(x) + Inner(x)
             /\ Points(v, f, in.dindirect, Outer(x), s) /\ s # 0 /\ in.dindirect # -1
  <2>1. x \in Nat /\ Outer(x) \in Cells /\ x = NIndirect * Outer(x) + Inner(x)
    <3>1. x \in Nat /\ x < NIndirect * NIndirect
      <4>. DEFINE q == NIndirect * NIndirect
      <4>1. x \in 0 .. q - 1
        BY <1>4
      <4>2. q \in Int
        BY <1>1
      <4>. HIDE DEF q
      <4>3. x \in Nat /\ x < q
        BY <4>1, <4>2
      <4>. QED
        BY <4>3 DEF q
    <3>. QED
      BY <3>1, OuterInner
  <2>2. Index(v, f, in.dindirect) /\ in.dindirect # -1
    BY <1>4, PointsIn, IndexOwned
  <2>. QED
    BY <1>4, <2>1, <2>2, PointsIn
<1>5. CASE Direct(n)
  BY <1>3, <1>4, <1>5
<1>6. CASE Direct(j)
  BY <1>2, <1>4, <1>6
<1>7. \A x : Single(x) => Points(v, f, -1, 0, s) /\ s # 0
  BY PointsIn
<1>8. CASE Single(n) /\ Single(j)
  BY <1>1, <1>8
<1>9. ASSUME NEW x, NEW y, Single(x), Deep(y) PROVE FALSE
  <2>1. Points(v, f, -1, 0, s)
    BY <1>7, <1>9
  <2>2. Points(v, f, in.dindirect, Outer(y), s) /\ in.dindirect # -1
    BY <1>4, <1>9
  <2>. QED
    BY <2>1, <2>2 DEF Sound, OwnedOnce
<1>10. CASE Deep(m) /\ Deep(l)
  <2>1. Points(v, f, in.dindirect, Outer(m), s) /\ Points(v, f, in.dindirect, Outer(l), s)
    BY <1>4, <1>10
  <2>2. Outer(m) = Outer(l)
    BY <2>1 DEF Sound, OwnedOnce
  <2>3. Inner(m) = Inner(l)
    BY <1>10
  <2>4. m = NIndirect * Outer(m) + Inner(m) /\ l = NIndirect * Outer(l) + Inner(l)
    BY <1>4, <1>10
  <2>5. m = l
    BY <2>2, <2>3, <2>4, Zenon
  <2>. QED
    BY <1>1, <2>5
<1>. HIDE DEF Direct, Single, Deep
<1>. QED
  BY <1>2, <1>3, <1>5, <1>6, <1>8, <1>9, <1>10

\* x is the physical block of logical block n of f.
Leads(v, f, n, x) == \E s, c : Path(v, f, n, s, c) /\ Points(v, f, s, c, x)

LEMMA LeadsIs ==
    ASSUME NEW v, Sound(v), NEW f \in Files, NEW n \in Logical
    PROVE  /\ \A x : Leads(v, f, n, x) <=> x # 0 /\ Physical(v, f, n) = x
           /\ Physical(v, f, n) \in BlockNr
           /\ \A s, c : Path(v, f, n, s, c) => s \in BlockNr
<1>1. /\ \A s, c : Path(v, f, n, s, c) =>
            /\ Physical(v, f, n) = Entry(v, f, s, c) /\ Entry(v, f, s, c) \in BlockNr
            /\ s # 0 => Index(v, f, s) /\ c \in Cells /\ s # v.inode[f].dindirect
            /\ s = 0 => c \in 0 .. NDirect - 1
      /\ (\A s, c : ~Path(v, f, n, s, c)) => Physical(v, f, n) = 0
  BY PathIs
<1>2. ~Index(v, f, 0)
  BY DEF Index
<1>3. ASSUME NEW s, NEW c, Path(v, f, n, s, c), NEW x
      PROVE  /\ Points(v, f, s, c, x) <=> x # 0 /\ Physical(v, f, n) = x
             /\ s \in BlockNr
  <2>1. CASE s = 0
    BY <1>1, <1>2, <1>3, <2>1 DEF Points, Entry, BlockNr
  <2>2. CASE s # 0
    <3>1. Index(v, f, s) /\ c \in Cells
      BY <1>1, <1>3, <2>2
    <3>2. s \in Blocks /\ s # -1 /\ s # -2
      BY <3>1, IndexOwned
    <3>3. Physical(v, f, n) = v.disk[s][c]
      BY <1>1, <1>3, <2>2 DEF Entry
    <3>. QED
      BY <2>2, <3>1, <3>2, <3>3 DEF Points, BlockNr
  <2>. QED
    BY <2>1, <2>2
<1>4. CASE \E s, c : Path(v, f, n, s, c)
  BY <1>1, <1>3, <1>4 DEF Leads
<1>5. CASE \A s, c : ~Path(v, f, n, s, c)
  BY <1>1, <1>5 DEF Leads, BlockNr
<1>. QED
  BY <1>4, <1>5

\* The physical block of a logical block is a block of data of that file only.
LEMMA LeafIs ==
    ASSUME NEW v, Sound(v), NEW f \in Files, NEW n \in Logical, NEW x, x = Physical(v, f, n), x # 0
    PROVE  /\ x \in v.freemap /\ x \in Blocks /\ x > 0
           /\ \A g \in Files : ~Index(v, g, x)
           /\ \A g \in Files, j \in Logical : Physical(v, g, j) = x => g = f /\ j = n
<1>1. PICK s, c : Path(v, f, n, s, c) /\ Points(v, f, s, c, x)
  BY LeadsIs DEF Leads
<1>2. x \in v.freemap /\ x \in Blocks
  BY <1>1 DEF Sound, InUse, Volume
<1>3. x > 0
  BY <1>2, Geometry
<1>4. s \in BlockNr /\ (s # 0 => s # v.inode[f].dindirect)
  BY <1>1, LeadsIs, PathIs
<1>5. ASSUME NEW g \in Files, Index(v, g, x) PROVE FALSE
  <2>1. g = f
    BY <1>1, <1>5, IndexPointed DEF Sound, OwnedOnce
  <2>2. \/ x = v.inode[f].indirect \/ x = v.inode[f].dindirect
        \/ v.inode[f].dindirect # 0 /\ \E e \in Cells : x = v.disk[v.inode[f].dindirect][e]
    BY <1>5, <2>1 DEF Index
  <2>3. v.inode[f].dindirect # 0 => Index(v, f, v.inode[f].dindirect)
    BY PointsIn
  <2>4. \/ Points(v, f, -1, 0, x) \/ Points(v, f, -2, 0, x)
        \/ v.inode[f].dindirect # 0 /\ \E e \in Cells : Points(v, f, v.inode[f].dindirect, e, x)
    BY <2>2, <2>3 DEF Points
  <2>5. s = -1 \/ s = -2 \/ (s # 0 /\ s = v.inode[f].dindirect)
    BY <1>1, <2>4 DEF Sound, OwnedOnce
  <2>. QED
    BY <1>4, <2>5, Geometry
<1>6. ASSUME NEW g \in Files, NEW j \in Logical, Physical(v, g, j) = x PROVE g = f /\ j = n
  <2>1. PICK t, e : Path(v, g, j, t, e) /\ Points(v, g, t, e, x)
    BY <1>6, LeadsIs DEF Leads
  <2>2. g = f /\ t = s /\ e = c
    BY <1>1, <2>1 DEF Sound, OwnedOnce
  <2>. QED
    BY <1>1, <2>1, <2>2, PathUnique
<1>. QED
  BY <1>2, <1>3, <1>5, <1>6

----------------------------------------------------------------------------
(* What taking a block leaves alone.                                       *)

LEMMA GrowsLeads ==
    ASSUME NEW v, Sound(v), NEW w, NEW f \in Files, NEW s, NEW c, NEW a, Grows(v, w, f, s, c, a),
           s # a, NEW g \in Files, NEW j \in Logical, NEW x
    PROVE  Leads(w, g, j, x) <=> Leads(v, g, j, x) \/ (x = a /\ g = f /\ Path(v, f, j, s, c))
<1>1. Sound(w)
  BY GrowsSound
<1>2. \A b, d, y :
          Points(w, g, b, d, y) <=> Points(v, g, b, d, y) \/ (g = f /\ b = s /\ d = c /\ y = a)
  BY DEF Grows
<1>3. a \in Blocks /\ a \notin v.freemap /\ a # 0 /\ a # -1 /\ a # -2
  BY Geometry DEF Grows, BlockNr
<1>4. \A d, y : ~Points(w, g, a, d, y)
  <2>1. ~Index(v, g, a)
    BY <1>3, IndexOwned
  <2>. QED
    BY <1>2, <1>3, <2>1 DEF Points
<1>5. ASSUME NEW t, NEW e, Path(v, g, j, t, e) PROVE Path(w, g, j, t, e)
  BY <1>1, <1>2, <1>5, PathPoints
<1>6. ASSUME NEW t, NEW e, Path(w, g, j, t, e) PROVE Path(v, g, j, t, e) \/ t = a
  BY <1>1, <1>2, <1>4, <1>6, PathPoints
<1>7. ASSUME Leads(w, g, j, x)
      PROVE  Leads(v, g, j, x) \/ (x = a /\ g = f /\ Path(v, f, j, s, c))
  <2>1. PICK t, e : Path(w, g, j, t, e) /\ Points(w, g, t, e, x)
    BY <1>7 DEF Leads
  <2>2. Path(v, g, j, t, e)
    BY <1>4, <1>6, <2>1
  <2>. QED
    BY <1>2, <2>1, <2>2 DEF Leads
<1>8. ASSUME Leads(v, g, j, x) PROVE Leads(w, g, j, x)
  BY <1>2, <1>5, <1>8 DEF Leads
<1>9. ASSUME x = a, g = f, Path(v, f, j, s, c) PROVE Leads(w, g, j, x)
  BY <1>2, <1>5, <1>9 DEF Leads
<1>. QED
  BY <1>7, <1>8, <1>9

\* All blocks of data but logical block n of f are where they were, as they were.
Keeps(v, w, f, n) ==
    /\ \A g \in Files : w.inode[g].size = v.inode[g].size
    /\ \A g \in Files, j \in Logical : ~(g = f /\ j = n) =>
          /\ Physical(w, g, j) = Physical(v, g, j)
          /\ Physical(v, g, j) # 0 => w.disk[Physical(v, g, j)] = v.disk[Physical(v, g, j)]

\* An index block is added: it has no block of data yet.
LEMMA GrowsIndex ==
    ASSUME NEW v, Sound(v), NEW w, NEW f \in Files, NEW s, NEW c, NEW a, Grows(v, w, f, s, c, a),
           s # a, \A j \in Logical : ~Path(v, f, j, s, c), Counting(v, w, f),
           \A b \in Blocks : (\A g \in Files : ~Index(v, g, b)) => w.disk[b] = v.disk[b]
    PROVE  Keeps(v, w, f, -1)
<1>1. ASSUME NEW g \in Files, NEW j \in Logical
      PROVE  /\ Physical(w, g, j) = Physical(v, g, j)
             /\ Physical(v, g, j) # 0 => w.disk[Physical(v, g, j)] = v.disk[Physical(v, g, j)]
  <2>1. \A x : Leads(w, g, j, x) <=> Leads(v, g, j, x)
    BY GrowsLeads
  <2>2. Sound(w)
    BY GrowsSound
  <2>3. Physical(w, g, j) = Physical(v, g, j)
    BY <2>1, <2>2, LeadsIs
  <2>4. Physical(v, g, j) # 0 =>
           Physical(v, g, j) \in Blocks /\ \A h \in Files : ~Index(v, h, Physical(v, g, j))
    BY LeafIs
  <2>. QED
    BY <2>3, <2>4
<1>. QED
  BY <1>1 DEF Keeps, Counting

\* A block of data is added.
LEMMA GrowsLeaf ==
    ASSUME NEW v, Sound(v), NEW w, NEW f \in Files, NEW s, NEW c, NEW a, Grows(v, w, f, s, c, a),
           s # a, NEW n \in Logical, Path(v, f, n, s, c), Counting(v, w, f),
           \A b \in Blocks : (\A g \in Files : ~Index(v, g, b)) => w.disk[b] = v.disk[b]
    PROVE  Keeps(v, w, f, n) /\ Physical(w, f, n) = a
<1>1. Sound(w)
  BY GrowsSound
<1>2. ASSUME NEW g \in Files, NEW j \in Logical, ~(g = f /\ j = n)
      PROVE  /\ Physical(w, g, j) = Physical(v, g, j)
             /\ Physical(v, g, j) # 0 => w.disk[Physical(v, g, j)] = v.disk[Physical(v, g, j)]
  <2>1. g = f => ~Path(v, f, j, s, c)
    BY <1>2, PathUnique
  <2>2. \A x : Leads(w, g, j, x) <=> Leads(v, g, j, x)
    BY <2>1, GrowsLeads
  <2>3. Physical(w, g, j) = Physical(v, g, j)
    BY <1>1, <2>2, LeadsIs
  <2>4. Physical(v, g, j) # 0 =>
           Physical(v, g, j) \in Blocks /\ \A h \in Files : ~Index(v, h, Physical(v, g, j))
    BY LeafIs
  <2>. QED
    BY <2>3, <2>4
<1>3. Physical(w, f, n) = a
  <2>1. Leads(w, f, n, a)
    BY GrowsLeads
  <2>. QED
    BY <1>1, <2>1, LeadsIs
<1>. QED
  BY <1>2, <1>3 DEF Keeps, Counting

----------------------------------------------------------------------------
(* Index blocks have an entry; what an allocation comes to.                *)

\* No index block but b is empty.
Tidy(v, b) == \A g \in Files : \A d : Index(v, g, d) /\ d # b => \E c, x : Points(v, g, d, c, x)

LEMMA IndexPoints ==
    ASSUME NEW v, Sound(v), NEW g \in Files, NEW b
    PROVE  Index(v, g, b) <=> \/ Points(v, g, -1, 0, b) \/ Points(v, g, -2, 0, b)
                              \/ \E d, c : Points(v, g, -2, 0, d) /\ Points(v, g, d, c, b)
<1>. DEFINE in == v.inode[g]
<1>1. ~Index(v, g, -1) /\ ~Index(v, g, -2) /\ ~Index(v, g, 0)
  BY IndexOwned DEF Index
<1>2. Points(v, g, -1, 0, b) <=> b # 0 /\ b = in.indirect
  BY <1>1 DEF Points
<1>3. \A d : Points(v, g, -2, 0, d) <=> d # 0 /\ d = in.dindirect
  BY <1>1 DEF Points
<1>4. ASSUME in.dindirect # 0, NEW c
      PROVE  Points(v, g, in.dindirect, c, b) <=> b # 0 /\ c \in Cells /\ b = v.disk[in.dindirect][c]
  <2>1. Index(v, g, in.dindirect) /\ in.dindirect # -1 /\ in.dindirect # -2
    BY <1>4, PointsIn, IndexOwned
  <2>. QED
    BY <1>4, <2>1 DEF Points
<1>. QED
  BY <1>2, <1>3, <1>4 DEF Index

LEMMA GrowsTidy ==
    ASSUME NEW v, Sound(v), NEW w, NEW f \in Files, NEW s, NEW c, NEW a, Grows(v, w, f, s, c, a),
           s # a, Tidy(v, s)
    PROVE  Tidy(w, a)
<1>. SUFFICES ASSUME NEW g \in Files, NEW b, Index(w, g, b), b # a
              PROVE  \E d, x : Points(w, g, b, d, x)
  BY DEF Tidy
<1>1. Sound(w)
  BY GrowsSound
<1>2. \A e, d, y :
          Points(w, g, e, d, y) <=> Points(v, g, e, d, y) \/ (g = f /\ e = s /\ d = c /\ y = a)
  BY DEF Grows
<1>3. \A d, y : ~Points(v, g, a, d, y)
  <2>1. a \in Blocks /\ a \notin v.freemap /\ a # 0 /\ a # -1 /\ a # -2
    BY Geometry DEF Grows, BlockNr
  <2>2. ~Index(v, g, a)
    BY <2>1, IndexOwned
  <2>. QED
    BY <2>1, <2>2 DEF Points
<1>4. Index(v, g, b)
  <2>1. \/ Points(w, g, -1, 0, b) \/ Points(w, g, -2, 0, b)
        \/ \E d, e : Points(w, g, -2, 0, d) /\ Points(w, g, d, e, b)
    BY <1>1, IndexPoints
  <2>2. \/ Points(v, g, -1, 0, b) \/ Points(v, g, -2, 0, b)
        \/ \E d, e : Points(v, g, -2, 0, d) /\ Points(v, g, d, e, b)
    BY <1>2, <1>3, <2>1
  <2>. QED
    BY <2>2, IndexPoints
<1>5. CASE b # s
  BY <1>2, <1>4, <1>5 DEF Tidy
<1>6. CASE b = s
  <2>1. g = f
    <3>1. PICK e, d : Points(v, g, e, d, s)
      BY <1>4, <1>6, IndexPointed
    <3>2. Points(w, f, s, c, a)
      BY DEF Grows
    <3>3. a \in Blocks /\ s \in Blocks
      BY <1>4, <1>6, IndexOwned DEF Grows
    <3>4. s # 0 /\ s # -1 /\ s # -2
      BY <1>4, <1>6, IndexOwned
    <3>5. Index(w, f, s)
      BY <3>2, <3>4 DEF Points
    <3>. QED
      BY <1>1, <1>6, <3>5, IndexOwned
  <2>. QED
    BY <1>2, <1>6, <2>1
<1>. QED
  BY <1>5, <1>6

\* bs was allocated for f, and freeing it leaves f pointing to a block of it.
Named(v, f, bs) ==
    /\ bs \in SUBSET PointedTo(v, f)
    /\ \E b, c, x : /\ x \in bs /\ b \notin bs /\ Points(v, f, b, c, x)
                    /\ b = -1 \/ b = -2 \/ b = v.inode[f].dindirect

LEMMA NamedDangles ==
    ASSUME NEW v, Sound(v), NEW f \in Files, NEW bs, Named(v, f, bs), NEW w, w = Free(v, f, bs)
    PROVE  Loose(w) /\ Dangling(w)
<1>1. PICK b, c, x : /\ x \in bs /\ b \notin bs /\ Points(v, f, b, c, x)
                     /\ b = -1 \/ b = -2 \/ b = v.inode[f].dindirect
  BY DEF Named
<1>2. bs \in SUBSET PointedTo(v, f) /\ v \in Volume
  BY DEF Named, Sound
<1>3. bs \in SUBSET Blocks
  BY <1>2, PointedToCount, VolumeFields
<1>4. /\ \A d \in Blocks : w.disk[d] = IF d \in bs THEN Zero ELSE v.disk[d]
      /\ w.inode[f].block_nr = v.inode[f].block_nr
      /\ w.inode[f].indirect = v.inode[f].indirect
      /\ w.inode[f].dindirect = v.inode[f].dindirect
  BY <1>2, <1>3, FreeIs
<1>5. Points(w, f, b, c, x)
  <2>1. CASE b = v.inode[f].dindirect /\ b # 0
    <3>1. Index(v, f, b) /\ b \in Blocks /\ b # -1 /\ b # -2 /\ b # 0
      BY <2>1, PointsIn, IndexOwned
    <3>2. Index(w, f, b)
      BY <1>4, <2>1 DEF Index
    <3>3. w.disk[b] = v.disk[b]
      BY <1>1, <1>4, <3>1
    <3>. QED
      BY <1>1, <3>1, <3>2, <3>3 DEF Points
  <2>2. CASE b = 0 \/ b = -1 \/ b = -2
    <3>1. ~Index(v, f, b)
      BY <2>2, IndexOwned DEF Index
    <3>. QED
      BY <1>1, <1>4, <2>2, <3>1 DEF Points
  <2>. QED
    BY <1>1, <2>1, <2>2
<1>. QED
  BY <1>1, <1>2, <1>5, FreeDangles

LEMMA KeepsTrans ==
    ASSUME NEW u, NEW v, NEW w, NEW f, NEW n, Keeps(u, v, f, -1), Keeps(v, w, f, n)
    PROVE  Keeps(u, w, f, n)
<1>1. \A j \in Logical : j # -1
  BY LogicalIs
<1>. QED
  BY <1>1 DEF Keeps

(***************************************************************************)
(* What testfs_allocate_block may do.                                      *)
(***************************************************************************)
Placed(v, f, n, r) ==
    /\ r.ret > 0 /\ r.ret \in Blocks /\ Sound(r.vol) /\ Tidy(r.vol, 0)
    /\ Keeps(v, r.vol, f, n) /\ Physical(r.vol, f, n) = r.ret
Undone(r) == r.ret < 0 /\ r.ret \in Int /\ Loose(r.vol) /\ Dangling(r.vol)
Refused(v, r) == r.ret < 0 /\ r.ret \in Int /\ r.vol = v

LEMMA EntryIs ==
    ASSUME NEW v, Sound(v), NEW f, NEW s, NEW c, NEW new
    PROVE  AllocEntry(v, f, s, c, new) =
              IF Full(v) THEN Result(Free(v, f, new), ENOSPC)
              ELSE Result(WithCell(v, f, s, c), FirstClear(v))
<1>1. CASE Full(v)
  <2>1. Alloc(v, f) = Result(v, ENOSPC)
    BY <1>1, AllocIs
  <2>. QED
    BY <1>1, <2>1 DEF AllocEntry, Then, Else, Result, ENOSPC
<1>2. CASE ~Full(v)
  <2>. DEFINE a == FirstClear(v)
              t == Took(v, f)
  <2>1. Alloc(v, f) = Result(t, a) /\ ~(a < 0)
    <3>1. a \in Nat
      BY FirstClearIs, Geometry
    <3>. QED
      BY <1>2, <3>1, AllocIs
  <2>2. WithCell(v, f, s, c) = SetCell(t, s, c, a)
    BY DEF WithCell
  <2>. HIDE DEF a, t
  <2>3. AllocEntry(v, f, s, c, new) = Result(SetCell(t, s, c, a), a)
    BY <2>1 DEF AllocEntry, Then, Else, Result
  <2>. QED
    BY <1>2, <2>2, <2>3 DEF a
<1>. QED
  BY <1>1, <1>2

LEMMA EntryGood ==
    ASSUME NEW v, Sound(v), NEW f \in Files, NEW n \in Logical, NEW s, NEW c, s # 0,
           Path(v, f, n, s, c), Physical(v, f, n) = 0, Tidy(v, s), NEW new, 
           new = {} \/ Named(v, f, new), NEW r, r = AllocEntry(v, f, s, c, new)
    PROVE  \/ Placed(v, f, n, r)
           \/ new = {} /\ Refused(v, r)
           \/ Undone(r)
<1>1. Index(v, f, s) /\ c \in Cells /\ v.disk[s][c] = 0
  BY PathIs DEF Entry
<1>2. CASE Full(v)
  <2>1. r = Result(Free(v, f, new), ENOSPC)
    BY <1>2, EntryIs
  <2>2. r.vol = Free(v, f, new) /\ r.ret < 0 /\ r.ret \in Int
    BY <2>1 DEF Result, ENOSPC
  <2>3. CASE new = {}
    <3>1. r.vol = v
      BY <2>2, <2>3, FreeNothing DEF Sound
    <3>. QED
      BY <2>2, <2>3, <3>1 DEF Refused
  <2>4. CASE Named(v, f, new)
    <3>1. Loose(r.vol) /\ Dangling(r.vol)
      BY <2>2, <2>4, NamedDangles
    <3>. QED
      BY <2>2, <3>1 DEF Undone
  <2>. QED
    BY <2>3, <2>4
<1>3. CASE ~Full(v)
  <2>. DEFINE w == WithCell(v, f, s, c)
              a == FirstClear(v)
  <2>1. /\ Sound(w) /\ Grows(v, w, f, s, c, a) /\ Counting(v, w, f)
        /\ \A d \in Blocks : d # s => w.disk[d] = v.disk[d]
    BY <1>1, <1>3, WithCellSound
  <2>2. a \in Blocks /\ a \notin v.freemap /\ a > 0
    BY FirstClearIs
  <2>3. r = Result(w, a)
    BY <1>3, EntryIs
  <2>. HIDE DEF w, a
  <2>4. s # a
    BY <1>1, <2>2, IndexOwned
  <2>5. \A b \in Blocks : (\A g \in Files : ~Index(v, g, b)) => w.disk[b] = v.disk[b]
    BY <1>1, <2>1
  <2>6. Keeps(v, w, f, n) /\ Physical(w, f, n) = a
    BY <2>1, <2>4, <2>5, GrowsLeaf
  <2>7. Tidy(w, a)
    BY <2>1, <2>4, GrowsTidy
  <2>8. a # 0
    BY <2>2, Geometry
  <2>9. \A g \in Files : ~Index(w, g, a)
    BY <2>1, <2>6, <2>8, LeafIs
  <2>10. Tidy(w, 0)
    BY <2>7, <2>9 DEF Tidy
  <2>11. r.vol = w /\ r.ret = a
    BY <2>3 DEF Result
  <2>. QED
    BY <2>1, <2>2, <2>6, <2>10, <2>11 DEF Placed
<1>. QED
  BY <1>2, <1>3

----------------------------------------------------------------------------
(* testfs_allocate_block.                                                  *)

LEMMA DirectGood ==
    ASSUME NEW v, Sound(v), Tidy(v, 0), NEW f \in Files, NEW n \in Logical, n - NDirect < 0,
           Physical(v, f, n) = 0, NEW r, r = AllocDirect(v, f, n)
    PROVE  Placed(v, f, n, r) \/ Refused(v, r)
<1>1. n \in 0 .. NDirect - 1
  BY Regions
<1>2. Path(v, f, n, 0, n)
  BY <1>1 DEF Path
<1>3. v.inode[f].block_nr[n] = 0
  BY <1>2, PathIs DEF Entry
<1>4. CASE Full(v)
  <2>1. Alloc(v, f) = Result(v, ENOSPC)
    BY <1>4, AllocIs
  <2>2. r = Result(v, ENOSPC)
    BY <2>1 DEF AllocDirect, Then, Result, ENOSPC
  <2>. QED
    BY <2>2 DEF Refused, Result, ENOSPC
<1>5. CASE ~Full(v)
  <2>. DEFINE a == FirstClear(v)
              t == Took(v, f)
              w == WithDirect(v, f, n)
  <2>1. a \in Blocks /\ a \notin v.freemap /\ a > 0 /\ a # 0 /\ ~(a < 0)
    <3>1. a \in Blocks /\ a \notin v.freemap /\ a \in Nat /\ a > 0
      BY FirstClearIs, Geometry
    <3>. QED
      BY <3>1
  <2>2. Alloc(v, f) = Result(t, a)
    BY <1>5, AllocIs
  <2>3. w = [t EXCEPT !.inode[f].block_nr[n] = a]
    BY DEF WithDirect
  <2>4. Sound(w) /\ Grows(v, w, f, 0, n, a) /\ Counting(v, w, f) /\ w.disk = v.disk
    BY <1>1, <1>3, <1>5, WithDirectSound
  <2>. HIDE DEF a, t, w
  <2>5. r = Result(w, a)
    BY <2>1, <2>2, <2>3 DEF AllocDirect, Then, Result
  <2>6. Keeps(v, w, f, n) /\ Physical(w, f, n) = a
    BY <1>2, <2>1, <2>4, GrowsLeaf
  <2>7. Tidy(v, 0) => Tidy(w, a)
    BY <2>1, <2>4, GrowsTidy
  <2>8. \A g \in Files : ~Index(w, g, a)
    BY <2>1, <2>4, <2>6, LeafIs
  <2>9. Tidy(w, 0)
    BY <2>7, <2>8 DEF Tidy
  <2>10. r.vol = w /\ r.ret = a
    BY <2>5 DEF Result
  <2>. QED
    BY <2>1, <2>4, <2>6, <2>9, <2>10 DEF Placed
<1>. QED
  BY <1>4, <1>5

LEMMA PlacedAfter ==
    ASSUME NEW u, NEW v, NEW f, NEW n, NEW r, Keeps(u, v, f, -1), Placed(v, f, n, r)
    PROVE  Placed(u, f, n, r)
  BY KeepsTrans DEF Placed

LEMMA IndirectGood ==
    ASSUME NEW v, Sound(v), Tidy(v, 0), NEW f \in Files, NEW n \in Logical,
           NEW k, k = n - NDirect, k \in Cells,
           Physical(v, f, n) = 0, NEW r, r = AllocIndirect(v, f, k)
    PROVE  Placed(v, f, n, r) \/ Refused(v, r) \/ Undone(r)
<1>. DEFINE in == v.inode[f]
            no == {}
<1>1. Tidy(v, in.indirect)
  BY DEF Tidy, Index
<1>2. CASE in.indirect # 0
  <2>1. Path(v, f, n, in.indirect, k)
    BY <1>2 DEF Path
  <2>2. r = AllocEntry(v, f, in.indirect, k, no)
    BY <1>2 DEF AllocIndirect
  <2>3. no = {}
    OBVIOUS
  <2>. HIDE DEF no
  <2>. QED
    BY <1>1, <1>2, <2>1, <2>2, <2>3, EntryGood
<1>3. CASE in.indirect = 0 /\ Full(v)
  <2>1. Alloc(v, f) = Result(v, ENOSPC)
    BY <1>3, AllocIs
  <2>2. r = Result(v, ENOSPC)
    BY <1>3, <2>1 DEF AllocIndirect, Then, Result, ENOSPC
  <2>. QED
    BY <2>2 DEF Refused, Result, ENOSPC
<1>4. CASE in.indirect = 0 /\ ~Full(v)
  <2>. DEFINE a == FirstClear(v)
              t == Took(v, f)
              w == WithIndirect(v, f)
              new == {a}
  <2>1. a \in Blocks /\ a \notin v.freemap /\ a > 0 /\ a # 0 /\ a # -1 /\ ~(a < 0)
    <3>1. a \in Blocks /\ a \notin v.freemap /\ a \in Nat /\ a > 0
      BY FirstClearIs, Geometry
    <3>. QED
      BY <3>1
  <2>2. Alloc(v, f) = Result(t, a)
    BY <1>4, AllocIs
  <2>3. w = [t EXCEPT !.inode[f].indirect = a]
    BY DEF WithIndirect
  <2>4. /\ Sound(w) /\ Grows(v, w, f, -1, 0, a) /\ Counting(v, w, f) /\ w.disk = v.disk
        /\ w.inode[f].indirect = a
    BY <1>4, WithIndirectSound
  <2>5. new = {a}
    OBVIOUS
  <2>. HIDE DEF a, t, w, new
  <2>6. r = AllocEntry(w, f, a, k, new)
    BY <1>4, <2>1, <2>2, <2>3, <2>5 DEF AllocIndirect, Then, Result
  <2>7. \A j \in Logical : ~Path(v, f, j, -1, 0)
    <3>1. \A j \in Logical : \A s, c : Path(v, f, j, s, c) => s \in BlockNr
      BY LeadsIs
    <3>. QED
      BY <3>1, Geometry
  <2>8. Keeps(v, w, f, -1)
    <3>1. \A b \in Blocks : (\A g \in Files : ~Index(v, g, b)) => w.disk[b] = v.disk[b]
      BY <2>4
    <3>. QED
      BY <2>1, <2>4, <2>7, <3>1, GrowsIndex
  <2>9. Tidy(w, a)
    <3>1. Tidy(v, -1)
      BY DEF Tidy, Index
    <3>. QED
      BY <2>1, <2>4, <3>1, GrowsTidy
  <2>10. Path(w, f, n, a, k)
    BY <2>1, <2>4 DEF Path
  <2>11. Physical(w, f, n) = 0
    BY <2>8, LogicalIs DEF Keeps
  <2>12. Named(w, f, new)
    <3>1. Points(w, f, -1, 0, a)
      BY <2>4 DEF Grows
    <3>2. a \in PointedTo(w, f)
      BY <3>1, PointedToIs
    <3>3. -1 \notin new
      BY <2>1, <2>5
    <3>. QED
      BY <2>5, <3>1, <3>2, <3>3 DEF Named
  <2>13. Placed(w, f, n, r) \/ (new = {} /\ Refused(w, r)) \/ Undone(r)
    BY <2>1, <2>4, <2>6, <2>9, <2>10, <2>11, <2>12, EntryGood
  <2>14. new # {}
    BY <2>5
  <2>. QED
    BY <2>8, <2>13, <2>14, PlacedAfter
<1>. QED
  BY <1>2, <1>3, <1>4

LEMMA UnderGood ==
    ASSUME NEW v, Sound(v), NEW f \in Files, NEW n \in Logical,
           NEW m, m = n - NDirect - NIndirect, m >= 0,
           NEW D, D = v.inode[f].dindirect, D # 0, Tidy(v, D), Physical(v, f, n) = 0,
           NEW new, new = {} \/ (new = {D} /\ v.disk[D][Outer(m)] = 0),
           NEW r, r = AllocUnder(v, f, D, m, new)
    PROVE  Placed(v, f, n, r) \/ (new = {} /\ Refused(v, r)) \/ Undone(r)
<1>. DEFINE o == Outer(m)
            i == Inner(m)
            no == {}
<1>1. /\ m \in 0 .. NIndirect * NIndirect - 1 /\ o \in Cells /\ i \in Cells
  BY Regions
<1>2. Index(v, f, D) /\ Points(v, f, -2, 0, D) /\ D # -1 /\ D # -2 /\ D \in Blocks
  <2>1. v.inode[f].dindirect # 0
    OBVIOUS
  <2>2. Index(v, f, v.inode[f].dindirect) /\ Points(v, f, -2, 0, v.inode[f].dindirect)
    BY <2>1, PointsIn
  <2>3. Index(v, f, D) /\ Points(v, f, -2, 0, D)
    BY <2>2
  <2>. QED
    BY <2>3, IndexOwned
<1>3. \A s : s # 0 /\ s = v.disk[D][o] => Path(v, f, n, s, i)
  BY <1>1 DEF Path
<1>4. r = IF v.disk[D][o] # 0 THEN AllocEntry(v, f, v.disk[D][o], i, no)
          ELSE IF new = {} /\ Full(v) THEN Result(v, Uninitialized)
          ELSE Then(Else(Alloc(v, f), LAMBDA u : Free(u, f, new)), LAMBDA x :
                 AllocEntry(SetCell(x.vol, D, o, x.ret), f, x.ret, i, new \cup {x.ret}))
  BY DEF AllocUnder
<1>5. no = {}
  OBVIOUS
<1>. HIDE DEF o, i, no
<1>6. CASE v.disk[D][o] # 0
  <2>. DEFINE s == v.disk[D][o]
  <2>1. new = {}
    BY <1>6 DEF o
  <2>2. r = AllocEntry(v, f, s, i, no)
    BY <1>4, <1>6
  <2>3. Points(v, f, D, o, s)
    BY <1>1, <1>2, <1>6, PointsIn
  <2>4. \A g \in Files : Index(v, g, D) => g = f
    BY <1>2, IndexOwned
  <2>. HIDE DEF s
  <2>5. Tidy(v, s)
    BY <2>3, <2>4 DEF Tidy
  <2>6. Path(v, f, n, s, i)
    BY <1>3, <1>6 DEF s
  <2>7. s # 0
    BY <1>6 DEF s
  <2>. QED
    BY <1>5, <2>1, <2>2, <2>5, <2>6, <2>7, EntryGood
<1>7. CASE v.disk[D][o] = 0 /\ new = {} /\ Full(v)
  <2>1. r = Result(v, Uninitialized)
    BY <1>4, <1>7
  <2>. QED
    BY <1>7, <2>1 DEF Refused, Result, Uninitialized
<1>8. CASE v.disk[D][o] = 0 /\ new # {} /\ Full(v)
  <2>1. Alloc(v, f) = Result(v, ENOSPC)
    BY <1>8, AllocIs
  <2>2. r = Result(Free(v, f, new), ENOSPC)
    BY <1>4, <1>8, <2>1 DEF Then, Else, Result, ENOSPC
  <2>3. new = {D}
    BY <1>8
  <2>4. Named(v, f, new)
    <3>1. D \in PointedTo(v, f)
      BY <1>2, PointedToIs
    <3>2. -2 \notin new /\ D \in new /\ new \in SUBSET PointedTo(v, f)
      BY <1>2, <2>3, <3>1
    <3>. QED
      BY <1>2, <3>2 DEF Named
  <2>5. Loose(Free(v, f, new)) /\ Dangling(Free(v, f, new))
    BY <2>4, NamedDangles
  <2>6. r.vol = Free(v, f, new) /\ r.ret < 0 /\ r.ret \in Int
    BY <2>2 DEF Result, ENOSPC
  <2>. QED
    BY <2>5, <2>6 DEF Undone
<1>9. CASE v.disk[D][o] = 0 /\ ~Full(v)
  <2>. DEFINE a == FirstClear(v)
              t == Took(v, f)
              w == WithCell(v, f, D, o)
              both == new \cup {a}
  <2>1. a \in Blocks /\ a \notin v.freemap /\ a > 0 /\ a # 0 /\ a # -2 /\ ~(a < 0)
    <3>1. a \in Blocks /\ a \notin v.freemap /\ a \in Nat /\ a > 0
      BY FirstClearIs, Geometry
    <3>. QED
      BY <3>1
  <2>2. Alloc(v, f) = Result(t, a)
    BY <1>9, AllocIs
  <2>3. w = SetCell(t, D, o, a)
    BY DEF WithCell
  <2>4. /\ Sound(w) /\ Grows(v, w, f, D, o, a) /\ Counting(v, w, f)
        /\ w.inode[f].dindirect = D
        /\ \A b \in Blocks, e \in Cells : w.disk[b][e] = IF b = D /\ e = o THEN a ELSE v.disk[b][e]
        /\ \A d \in Blocks : d # D => w.disk[d] = v.disk[d]
    <3>1. Index(v, f, D) /\ o \in Cells /\ v.disk[D][o] = 0 /\ ~Full(v)
      BY <1>1, <1>2, <1>9
    <3>. HIDE DEF o
    <3>2. Sound(w) /\ Grows(v, w, f, D, o, a) /\ Counting(v, w, f)
      BY <3>1, WithCellSound
    <3>3. w.inode[f].dindirect = v.inode[f].dindirect
      BY <3>1, WithCellSound
    <3>4. \A b \in Blocks, e \in Cells : w.disk[b][e] = IF b = D /\ e = o THEN a ELSE v.disk[b][e]
      BY <3>1, WithCellSound
    <3>5. \A d \in Blocks : d # D => w.disk[d] = v.disk[d]
      BY <3>1, WithCellSound
    <3>. HIDE DEF w, a
    <3>. QED
      BY <3>2, <3>3, <3>4, <3>5
  <2>5. both = new \cup {a} /\ a # D
    BY <1>2, <2>1, IndexOwned
  <2>. HIDE DEF a, t, w, both
  <2>6. r = AllocEntry(w, f, a, i, both)
    BY <1>4, <1>9, <2>1, <2>2, <2>3, <2>5 DEF Then, Else, Result
  <2>7. \A j \in Logical : ~Path(v, f, j, D, o)
    BY PathIs
  <2>8. Keeps(v, w, f, -1)
    <3>1. \A b \in Blocks : (\A g \in Files : ~Index(v, g, b)) => w.disk[b] = v.disk[b]
      BY <1>2, <2>4
    <3>. QED
      BY <2>4, <2>5, <2>7, <3>1, GrowsIndex
  <2>9. Tidy(w, a)
    BY <2>4, <2>5, GrowsTidy
  <2>10. Path(w, f, n, a, i)
    BY <1>1, <1>2, <2>1, <2>4 DEF Path, o, i
  <2>11. Physical(w, f, n) = 0
    BY <2>8, LogicalIs DEF Keeps
  <2>12. Named(w, f, both)
    <3>1. Points(w, f, D, o, a) /\ Points(w, f, -2, 0, D)
      BY <1>2, <2>4 DEF Grows
    <3>2. a \in PointedTo(w, f) /\ D \in PointedTo(w, f)
      BY <3>1, PointedToIs
    <3>3. both \in SUBSET PointedTo(w, f) /\ a \in both
      BY <2>5, <3>2
    <3>4. CASE new = {}
      <4>1. D \notin both
        BY <2>5, <3>4
      <4>. QED
        BY <2>4, <3>1, <3>3, <4>1 DEF Named
    <3>5. CASE new = {D}
      <4>1. D \in both /\ -2 \notin both
        BY <1>2, <2>1, <2>5, <3>5
      <4>. QED
        BY <3>1, <3>3, <4>1 DEF Named
    <3>. QED
      BY <3>4, <3>5
  <2>13. Placed(w, f, n, r) \/ (both = {} /\ Refused(w, r)) \/ Undone(r)
    BY <2>1, <2>4, <2>6, <2>9, <2>10, <2>11, <2>12, EntryGood
  <2>14. both # {}
    BY <2>5
  <2>. QED
    BY <2>8, <2>13, <2>14, PlacedAfter
<1>. QED
  BY <1>6, <1>7, <1>8, <1>9

LEMMA DoubleGood ==
    ASSUME NEW v, Sound(v), Tidy(v, 0), NEW f \in Files, NEW n \in Logical,
           NEW m, m = n - NDirect - NIndirect, m >= 0,
           Physical(v, f, n) = 0, NEW r, r = AllocDouble(v, f, m)
    PROVE  Placed(v, f, n, r) \/ Refused(v, r) \/ Undone(r)
<1>. DEFINE D == v.inode[f].dindirect
            no == {}
<1>1. Tidy(v, D)
  BY DEF Tidy, Index
<1>2. no = {}
  OBVIOUS
<1>. HIDE DEF no
<1>3. CASE D # 0
  <2>1. r = AllocUnder(v, f, D, m, no)
    BY <1>2, <1>3 DEF AllocDouble
  <2>. QED
    BY <1>1, <1>2, <1>3, <2>1, UnderGood
<1>4. CASE D = 0 /\ Full(v)
  <2>1. Alloc(v, f) = Result(v, ENOSPC)
    BY <1>4, AllocIs
  <2>2. r = Result(v, ENOSPC)
    BY <1>4, <2>1 DEF AllocDouble, Then, Result, ENOSPC
  <2>. QED
    BY <2>2 DEF Refused, Result, ENOSPC
<1>5. CASE D = 0 /\ ~Full(v)
  <2>. DEFINE a == FirstClear(v)
              t == Took(v, f)
              w == WithDouble(v, f)
              new == {a}
  <2>1. a \in Blocks /\ a \notin v.freemap /\ a > 0 /\ a # 0 /\ a # -2 /\ ~(a < 0)
    <3>1. a \in Blocks /\ a \notin v.freemap /\ a \in Nat /\ a > 0
      BY FirstClearIs, Geometry
    <3>. QED
      BY <3>1
  <2>2. Alloc(v, f) = Result(t, a)
    BY <1>5, AllocIs
  <2>3. w = [t EXCEPT !.inode[f].dindirect = a]
    BY DEF WithDouble
  <2>4. /\ Sound(w) /\ Grows(v, w, f, -2, 0, a) /\ Counting(v, w, f) /\ w.disk = v.disk
        /\ w.inode[f].dindirect = a
    BY <1>5, WithDoubleSound
  <2>5. new = {a} /\ new # {}
    OBVIOUS
  <2>. HIDE DEF a, t, w, new
  <2>6. r = AllocUnder(w, f, a, m, new)
    BY <1>5, <2>1, <2>2, <2>3, <2>5 DEF AllocDouble, Then, Result
  <2>7. \A j \in Logical : ~Path(v, f, j, -2, 0)
    <3>1. \A j \in Logical : \A s, c : Path(v, f, j, s, c) => s \in BlockNr
      BY LeadsIs
    <3>. QED
      BY <3>1, Geometry
  <2>8. Keeps(v, w, f, -1)
    <3>1. \A b \in Blocks : (\A g \in Files : ~Index(v, g, b)) => w.disk[b] = v.disk[b]
      BY <2>4
    <3>. QED
      BY <2>1, <2>4, <2>7, <3>1, GrowsIndex
  <2>9. Tidy(w, a)
    <3>1. Tidy(v, -2)
      BY DEF Tidy, Index
    <3>. QED
      BY <2>1, <2>4, <3>1, GrowsTidy
  <2>10. w.disk[a][Outer(m)] = 0
    <3>1. Outer(m) \in Cells
      BY Regions
    <3>2. v.disk[a] = Zero
      BY <2>1 DEF Sound, Clean
    <3>. QED
      BY <2>4, <3>1, <3>2 DEF Zero
  <2>11. Physical(w, f, n) = 0
    BY <2>8, LogicalIs DEF Keeps
  <2>12. Placed(w, f, n, r) \/ (new = {} /\ Refused(w, r)) \/ Undone(r)
    BY <2>1, <2>4, <2>5, <2>6, <2>9, <2>10, <2>11, UnderGood
  <2>. QED
    BY <2>5, <2>8, <2>12, PlacedAfter
<1>. QED
  BY <1>3, <1>4, <1>5

LEMMA AllocateGood ==
    ASSUME NEW v, Sound(v), Tidy(v, 0), NEW f \in Files, NEW n \in Nat,
           NEW r, r = Allocate(v, f, n)
    PROVE  \/ n \in Logical /\ Placed(v, f, n, r)
           \/ Refused(v, r)
           \/ Undone(r)
<1>. DEFINE k == n - NDirect
            m == k - NIndirect
            p == NIndirect * NIndirect
            x == Physical(v, f, n)
<1>1. /\ NDirect \in Nat /\ NIndirect \in Nat /\ Cells = 0 .. NIndirect - 1 /\ p \in Nat
      /\ k \in Int /\ m \in Int
  BY Geometry
<1>2. CASE n \notin Logical
  <2>1. m >= p
    BY <1>2, LogicalIs
  <2>. HIDE DEF p
  <2>2. ~(k < 0) /\ ~(m < 0)
    BY <1>1, <2>1
  <2>3. x = EFBIG
    BY <1>1, <2>1, <2>2 DEF Physical, p
  <2>4. r = Result(v, EFBIG)
    BY <2>3 DEF Allocate, EFBIG
  <2>. QED
    BY <2>4 DEF Refused, Result, EFBIG
<1>3. CASE n \in Logical /\ x # 0
  <2>1. r = Result(v, x)
    BY <1>3 DEF Allocate
  <2>2. x \in Blocks /\ x > 0
    BY <1>3, LeafIs
  <2>3. Keeps(v, v, f, n)
    BY DEF Keeps
  <2>4. r.vol = v /\ r.ret = x
    BY <2>1 DEF Result
  <2>. QED
    BY <1>3, <2>2, <2>3, <2>4 DEF Placed
<1>4. CASE n \in Logical /\ x = 0 /\ k < 0
  <2>1. r = AllocDirect(v, f, n)
    BY <1>1, <1>4 DEF Allocate
  <2>. QED
    BY <1>4, <2>1, DirectGood
<1>5. CASE n \in Logical /\ x = 0 /\ k >= 0 /\ m < 0
  <2>1. k \in Cells /\ k \in 0 .. NIndirect - 1 /\ ~(k < 0)
    BY <1>1, <1>5
  <2>2. r = AllocIndirect(v, f, k)
    BY <1>5, <2>1 DEF Allocate
  <2>. QED
    BY <1>5, <2>1, <2>2, IndirectGood
<1>6. CASE n \in Logical /\ x = 0 /\ m >= 0
  <2>1. ~(k < 0) /\ k \notin 0 .. NIndirect - 1
    BY <1>1, <1>6
  <2>2. r = AllocDouble(v, f, m)
    BY <1>6, <2>1 DEF Allocate
  <2>. QED
    BY <1>6, <2>2, DoubleGood
<1>. QED
  BY <1>1, <1>2, <1>3, <1>4, <1>5, <1>6

----------------------------------------------------------------------------
(* Contents of blocks.                                                     *)

\* A volume that differs from a sound one in data and sizes only.
SamePlaces(v, w) ==
    \A g \in Files, j \in Logical : Physical(w, g, j) = Physical(v, g, j)

LEMMA SameSound ==
    ASSUME NEW v, Sound(v), NEW w \in Volume, w.freemap = v.freemap, w.used = v.used,
           \A g \in Files : w.inode[g].block_count = v.inode[g].block_count,
           \A g \in Files : \A b, d, x : Points(w, g, b, d, x) <=> Points(v, g, b, d, x),
           \A b \in Blocks \ v.freemap : w.disk[b] = v.disk[b]
    PROVE  Sound(w) /\ SamePlaces(v, w) /\ (Tidy(v, 0) => Tidy(w, 0))
<1>1. InUse(w) /\ OwnedOnce(w) /\ NoneLost(w) /\ Clean(w)
  <2>1. InUse(w)
    BY DEF Sound, InUse
  <2>2. OwnedOnce(w)
    BY DEF Sound, OwnedOnce
  <2>3. NoneLost(w)
    BY DEF Sound, NoneLost
  <2>4. Clean(w)
    BY DEF Sound, Clean
  <2>. QED
    BY <2>1, <2>2, <2>3, <2>4
<1>2. \A g \in Files : Pointers(w, g) = Pointers(v, g)
  <2>. SUFFICES ASSUME NEW g \in Files PROVE Pointers(w, g) = Pointers(v, g)
    OBVIOUS
  <2>1. \A p \in Pointers(w, g) : p \in Pointers(v, g)
    BY PointersAre
  <2>2. \A p \in Pointers(v, g) : p \in Pointers(w, g)
    BY PointersAre
  <2>. QED
    BY <2>1, <2>2
<1>3. Counts(w) = Counts(v)
  BY DEF Counts
<1>4. Sound(w)
  BY <1>1, <1>2, <1>3 DEF Sound, Counted
<1>5. SamePlaces(v, w)
  <2>. SUFFICES ASSUME NEW g \in Files, NEW j \in Logical
                PROVE  Physical(w, g, j) = Physical(v, g, j)
    BY DEF SamePlaces
  <2>1. \A s, c : Path(w, g, j, s, c) <=> Path(v, g, j, s, c)
    BY <1>4, PathPoints
  <2>2. \A x : Leads(w, g, j, x) <=> Leads(v, g, j, x)
    BY <2>1 DEF Leads
  <2>. QED
    BY <1>4, <2>2, LeadsIs
<1>6. ASSUME Tidy(v, 0) PROVE Tidy(w, 0)
  <2>1. \A g \in Files : \A b : Index(w, g, b) <=> Index(v, g, b)
    BY <1>4, IndexPoints
  <2>. QED
    BY <1>6, <2>1 DEF Tidy
<1>. QED
  BY <1>4, <1>5, <1>6

\* A block of data is written.
Store(v, a, data) == [v EXCEPT !.disk[a] = data]

LEMMA StoreIs ==
    ASSUME NEW v, Sound(v), Tidy(v, 0), NEW f \in Files, NEW n \in Logical,
           NEW a, a = Physical(v, f, n), a # 0, NEW data \in [Cells -> Int],
           NEW w, w = Store(v, a, data)
    PROVE  /\ Sound(w) /\ Tidy(w, 0) /\ SamePlaces(v, w) /\ w.inode = v.inode
           /\ w.disk[a] = data /\ \A b \in Blocks : b # a => w.disk[b] = v.disk[b]
<1>. DEFINE disk == [v.disk EXCEPT ![a] = data]
<1>1. v \in Volume /\ v.disk \in [Blocks -> [Cells -> Int]]
  BY VolumeFields DEF Sound
<1>2. a \in v.freemap /\ a \in Blocks /\ \A g \in Files : ~Index(v, g, a)
  BY LeafIs
<1>3. w = [freemap |-> v.freemap, used |-> v.used, disk |-> disk, inode |-> v.inode]
  <2>1. w = [v EXCEPT !.disk = disk]
    BY DEF Store
  <2>. HIDE DEF disk
  <2>. QED
    BY <1>1, <2>1 DEF Volume
<1>4. /\ disk \in [Blocks -> [Cells -> Int]] /\ disk[a] = data
      /\ \A b \in Blocks : b # a => disk[b] = v.disk[b]
  BY <1>1, <1>2
<1>. HIDE DEF disk
<1>5. w \in Volume
  BY <1>1, <1>3, <1>4, VolumeFields DEF Volume
<1>6. ASSUME NEW g \in Files, NEW b PROVE Index(w, g, b) <=> Index(v, g, b)
  <2>1. v.inode[g].dindirect # 0 => v.inode[g].dindirect \in Blocks /\ Index(v, g, v.inode[g].dindirect)
    BY PointsIn, IndexOwned
  <2>2. v.inode[g].dindirect # 0 => w.disk[v.inode[g].dindirect] = v.disk[v.inode[g].dindirect]
    BY <1>2, <1>3, <1>4, <2>1
  <2>. QED
    BY <1>3, <2>2 DEF Index
<1>7. ASSUME NEW g \in Files, NEW b, NEW d, NEW x
      PROVE  Points(w, g, b, d, x) <=> Points(v, g, b, d, x)
  <2>1. Index(v, g, b) => w.disk[b] = v.disk[b]
    BY <1>2, <1>3, <1>4, IndexOwned
  <2>. QED
    BY <1>3, <1>6, <2>1 DEF Points
<1>8. \A b \in Blocks \ v.freemap : w.disk[b] = v.disk[b]
  BY <1>2, <1>3, <1>4
<1>9. Sound(w) /\ SamePlaces(v, w) /\ Tidy(w, 0)
  BY <1>3, <1>5, <1>7, <1>8, SameSound
<1>10. w.disk = disk /\ w.inode = v.inode
  BY <1>3
<1>11. w.disk[a] = data /\ \A b \in Blocks : b # a => w.disk[b] = v.disk[b]
  BY <1>4, <1>10, Zenon
<1>. QED
  BY <1>9, <1>10, <1>11, Zenon

\* A size is written.
LEMMA SizeIs ==
    ASSUME NEW v \in Volume, NEW f \in Files, NEW z \in 0 .. MaxFileSize,
           NEW w, w = [v EXCEPT !.inode[f].size = z]
    PROVE  /\ w \in Volume /\ w.disk = v.disk /\ w.inode[f].size = z
           /\ \A g \in Files : g # f => w.inode[g] = v.inode[g]
           /\ Sound(v) => Sound(w) /\ SamePlaces(v, w) /\ (Tidy(v, 0) => Tidy(w, 0))
           /\ Loose(v) => Loose(w)
           /\ Dangling(v) => Dangling(w)
<1>. DEFINE in == [v.inode[f] EXCEPT !.size = z]
            inode == [v.inode EXCEPT ![f] = in]
<1>1. v.inode \in [Files -> Inode] /\ v.inode[f] \in Inode
  BY VolumeFields
<1>2. /\ in \in Inode /\ in.block_nr = v.inode[f].block_nr /\ in.indirect = v.inode[f].indirect
      /\ in.dindirect = v.inode[f].dindirect /\ in.size = z
      /\ in.block_count = v.inode[f].block_count
  BY <1>1 DEF Inode
<1>3. w = [freemap |-> v.freemap, used |-> v.used, disk |-> v.disk, inode |-> inode]
  <2>1. w = [v EXCEPT !.inode = inode]
    OBVIOUS
  <2>. HIDE DEF inode
  <2>. QED
    BY <2>1 DEF Volume
<1>. HIDE DEF in
<1>4. /\ inode \in [Files -> Inode] /\ inode[f] = in
      /\ \A g \in Files : g # f => inode[g] = v.inode[g]
  BY <1>1, <1>2
<1>. HIDE DEF inode
<1>5. w \in Volume
  BY <1>3, <1>4, VolumeFields DEF Volume
<1>6. \A g \in Files : /\ w.inode[g].block_nr = v.inode[g].block_nr
                       /\ w.inode[g].indirect = v.inode[g].indirect
                       /\ w.inode[g].dindirect = v.inode[g].dindirect
                       /\ w.inode[g].block_count = v.inode[g].block_count
  BY <1>2, <1>3, <1>4
<1>7. w.freemap = v.freemap /\ w.used = v.used /\ w.disk = v.disk
  BY <1>3
<1>8. \A g \in Files : \A b : Index(w, g, b) <=> Index(v, g, b)
  BY <1>6, <1>7 DEF Index
<1>9. \A g \in Files : \A b, d, x : Points(w, g, b, d, x) <=> Points(v, g, b, d, x)
  BY <1>6, <1>7, <1>8 DEF Points
<1>10. ASSUME Sound(v) PROVE Sound(w) /\ SamePlaces(v, w) /\ (Tidy(v, 0) => Tidy(w, 0))
  <2>1. /\ \A g \in Files : w.inode[g].block_count = v.inode[g].block_count
        /\ \A b \in Blocks \ v.freemap : w.disk[b] = v.disk[b]
    BY <1>6, <1>7
  <2>. QED
    BY <1>5, <1>7, <1>9, <1>10, <2>1, SameSound
<1>11. Loose(v) => Loose(w)
  BY <1>5, <1>6, <1>7, <1>9 DEF Loose
<1>12. ASSUME Dangling(v) PROVE Dangling(w)
  <2>1. PICK g \in Files : \E x : x \in PointedTo(v, g) /\ x \notin v.freemap
    BY <1>12 DEF Dangling, AllMarked
  <2>2. PICK x : x \in PointedTo(v, g) /\ x \notin v.freemap
    BY <2>1
  <2>3. x \in PointedTo(w, g)
    BY <1>9, <2>2, PointedToIs
  <2>. QED
    BY <1>7, <2>2, <2>3 DEF Dangling, AllMarked
<1>13. w.inode[f].size = z /\ \A g \in Files : g # f => w.inode[g] = v.inode[g]
  BY <1>2, <1>3, <1>4
<1>. QED
  BY <1>5, <1>7, <1>10, <1>11, <1>12, <1>13

(***************************************************************************)
(* What a read may find: cell k of logical block j of g is in S.           *)
(***************************************************************************)
Shallow(j) == j < NDirect + NIndirect
Holds(v, g, j, k, S) ==
    IF Physical(v, g, j) = 0 THEN 0 \in S
    ELSE 0 \notin S \/ Shallow(j) => v.disk[Physical(v, g, j)][k] \in S

LEMMA HoldsMore ==
    ASSUME NEW v, NEW g, NEW j, NEW k, NEW S, NEW T, S \subseteq T, Holds(v, g, j, k, S)
    PROVE  Holds(v, g, j, k, T)
  BY DEF Holds

LEMMA HoldsKept ==
    ASSUME NEW v, NEW w, NEW f, NEW n, Keeps(v, w, f, n), NEW g \in Files, NEW j \in Logical,
           ~(g = f /\ j = n), NEW k, NEW S, Holds(v, g, j, k, S)
    PROVE  Holds(w, g, j, k, S)
  BY DEF Keeps, Holds

----------------------------------------------------------------------------
(* Chunks of a text.                                                       *)

Quot(k, b) == k \div b
Rem(k, b) == k % b
Times(a, b) == a * b

LEMMA QuotRem ==
    ASSUME NEW k \in Nat, NEW b \in Nat \ {0}
    PROVE  Quot(k, b) \in Nat /\ Rem(k, b) \in 0 .. b - 1 /\ k = Times(b, Quot(k, b)) + Rem(k, b)
<1>. DEFINE q == k \div b
            r == k % b
<1>1. q = k \div b /\ r = k % b /\ q = Quot(k, b) /\ r = Rem(k, b)
  BY DEF Quot, Rem
<1>. HIDE DEF q, r
<1>2. q \in Nat /\ r \in 0 .. b - 1 /\ k = b * q + r
  <2>1. q \in Nat /\ r \in 0 .. b - 1
    BY <1>1
  <2>. DEFINE p == b * q
  <2>2. r = k - p
    <3>1. r = k % b /\ q = k \div b
      BY <1>1
    <3>. QED
      BY <3>1, SMTT(60)
  <2>3. p \in Int
    BY <2>1
  <2>. HIDE DEF p
  <2>4. k = p + r
    BY <2>1, <2>2, <2>3
  <2>. QED
    BY <2>1, <2>4 DEF p
<1>3. b * q = Times(b, q)
  BY DEF Times
<1>. QED
  BY <1>1, <1>2, <1>3

LEMMA DivUnique ==
    ASSUME NEW b \in Nat \ {0}, NEW q \in Nat, NEW r \in 0 .. b - 1, NEW n, n = b * q + r
    PROVE  n \div b = q /\ n % b = r
<1>. DEFINE Q == n \div b
            R == n % b
<1>1. n \in Nat
  BY SMT
<1>2. Q = n \div b /\ R = n % b
  OBVIOUS
<1>. HIDE DEF Q, R
<1>3. Q \in Nat /\ R \in 0 .. b - 1 /\ n = b * Q + R
  <2>1. Q = Quot(n, b) /\ R = Rem(n, b) /\ b * Q = Times(b, Q)
    BY <1>2 DEF Quot, Rem, Times
  <2>2. Q \in Nat /\ R \in 0 .. b - 1 /\ n = Times(b, Q) + R
    BY <1>1, <2>1, QuotRem
  <2>. QED
    BY <2>1, <2>2
<1>4. ASSUME NEW x \in Nat, NEW y \in Nat, x < y PROVE b * x + b <= b * y
  <2>1. PICK d \in Nat : y = x + 1 + d
    <3>1. y - x - 1 \in Nat /\ y = x + 1 + (y - x - 1)
      BY <1>4
    <3>. QED
      BY <3>1
  <2>2. b * y = b * x + b + b * d
    BY <2>1
  <2>3. b * d \in Nat /\ b * x \in Nat
    BY <2>1, <1>4
  <2>. QED
    BY <2>2, <2>3
<1>. DEFINE u == b * q
            U == b * Q
<1>5. u \in Nat /\ U \in Nat
  BY <1>3
<1>6. n = u + r /\ n = U + R /\ (Q < q => U + b <= u) /\ (q < Q => u + b <= U)
  BY <1>3, <1>4
<1>. HIDE DEF u, U
<1>7. Q = q
  BY <1>3, <1>5, <1>6
<1>8. U = u
  BY <1>7 DEF u, U
<1>9. R = r
  BY <1>3, <1>5, <1>6, <1>8
<1>. QED
  BY <1>2, <1>7, <1>9

LEMMA StartIs ==
    ASSUME NEW start \in Nat
    PROVE  LET o == Quot(start, B)  h == Rem(start, B) IN
           /\ o \in Nat /\ h \in 0 .. B - 1 /\ Times(B, o) \in Nat /\ start = Times(B, o) + h
<1>1. B \in Nat \ {0}
  BY Geometry
<1>2. Quot(start, B) \in Nat /\ Rem(start, B) \in 0 .. B - 1
      /\ start = Times(B, Quot(start, B)) + Rem(start, B)
  BY <1>1, QuotRem
<1>3. Times(B, Quot(start, B)) \in Nat
  BY <1>1, <1>2 DEF Times
<1>. QED
  BY <1>2, <1>3

\* The last chunk of a transfer holds its last cell.
LEMMA LastChunkIs ==
    ASSUME NEW start \in Nat, NEW size \in Nat \ {0}, NEW o, o = start \div B,
           NEW l, l = LastChunk(start, size)
    PROVE  l \in Nat /\ B * (o + l) < start + size /\ start + size <= B * (o + l) + B
<1>. DEFINE h == start % B
            u == B * o
<1>1. h = start % B
  OBVIOUS
<1>. HIDE DEF h
<1>2. o \in Nat /\ h \in 0 .. B - 1 /\ u \in Nat /\ start = u + h /\ B \in Nat \ {0}
  <2>1. o = Quot(start, B) /\ h = Rem(start, B) /\ u = Times(B, o)
    BY <1>1 DEF Quot, Rem, Times
  <2>. HIDE DEF u
  <2>. QED
    BY <2>1, StartIs, Geometry
<1>3. CASE h + size <= B
  <2>1. l = 0
    BY <1>1, <1>3 DEF LastChunk
  <2>2. B * (o + l) = u
    BY <1>2, <2>1
  <2>. HIDE DEF u
  <2>. QED
    BY <1>2, <1>3, <2>1, <2>2
<1>4. CASE ~(h + size <= B)
  <2>. DEFINE x == size - (B - h) + B - 1
              r == x % B
              t == B * l
  <2>1. l = x \div B /\ r = x % B
    BY <1>1, <1>4 DEF LastChunk
  <2>2. x \in Nat /\ x = size + h - 1
    BY <1>2, <1>4
  <2>. HIDE DEF x, r
  <2>3. l \in Nat /\ r \in 0 .. B - 1 /\ x = t + r
    <3>1. l = Quot(x, B) /\ r = Rem(x, B) /\ t = Times(B, l)
      BY <2>1 DEF Quot, Rem, Times
    <3>. HIDE DEF t
    <3>. QED
      BY <1>2, <2>2, <3>1, QuotRem
  <2>4. B * (o + l) = u + t /\ t \in Nat
    BY <1>2, <2>3
  <2>. HIDE DEF u, t
  <2>. QED
    BY <1>2, <2>2, <2>3, <2>4
<1>. QED
  BY <1>3, <1>4

Text(start, buf) == start .. start + Len(buf) - 1

\* Chunk i of a text is the part of it in logical block start / B + i.
LEMMA PatchedIs ==
    ASSUME NEW start \in Nat, NEW buf \in Seq(Int), NEW i \in Nat, NEW n, n = start \div B + i,
           NEW block \in [Cells -> Int]
    PROVE  /\ Patched(block, start, buf, i) \in [Cells -> Int]
           /\ \A k \in Cells : Patched(block, start, buf, i)[k] =
                 IF B * n + k \in Text(start, buf) THEN buf[B * n + k - start + 1] ELSE block[k]
<1>. DEFINE o == start \div B
            h == start % B
            u == B * o
            p == B * i
            At(c) == Skip(start, i) + c - From(start, i) + 1
            new == Patched(block, start, buf, i)
<1>1. o = start \div B /\ h = start % B
  OBVIOUS
<1>. HIDE DEF o, h
<1>2. o \in Nat /\ h \in 0 .. B - 1 /\ u \in Nat /\ start = u + h /\ B \in Nat \ {0}
  <2>1. o = Quot(start, B) /\ h = Rem(start, B) /\ u = Times(B, o)
    BY <1>1 DEF Quot, Rem, Times
  <2>. HIDE DEF u
  <2>. QED
    BY <2>1, StartIs, Geometry
<1>3. p \in Nat /\ B * n = u + p /\ (i > 0 => p >= B) /\ (i = 0 => p = 0)
  <2>1. p \in Nat /\ B * n = u + p /\ (i = 0 => p = 0)
    BY <1>1, <1>2
  <2>2. ASSUME i > 0 PROVE p >= B
    <3>1. PICK d \in Nat : i = d + 1
      <4>1. i - 1 \in Nat /\ i = (i - 1) + 1
        BY <2>2
      <4>. QED
        BY <4>1
    <3>2. p = B * d + B /\ B * d \in Nat
      BY <1>2, <3>1
    <3>. QED
      BY <1>2, <3>2
  <2>. QED
    BY <2>1, <2>2
<1>4. Skip(start, i) = (IF i = 0 THEN 0 ELSE p - h) /\ From(start, i) = IF i = 0 THEN h ELSE 0
  BY <1>1 DEF Skip, From
<1>. HIDE DEF u, p
<1>5. Cells = 0 .. B - 1 /\ Len(buf) \in Nat
  BY DEF Cells
<1>6. ASSUME NEW k \in Cells
      PROVE  /\ At(k) = B * n + k - start + 1
             /\ At(k) \in Skip(start, i) + 1 .. Len(buf) <=> B * n + k \in Text(start, buf)
  <2>1. At(k) = u + p + k - start + 1
    BY <1>2, <1>3, <1>4, <1>5
  <2>2. At(k) \in Skip(start, i) + 1 .. Len(buf) <=> u + p + k \in Text(start, buf)
    <3>. DEFINE x == At(k)
                y == u + p + k
                n0 == Len(buf)
    <3>1. x = y - start + 1 /\ k \in 0 .. B - 1 /\ B \in Nat /\ n0 \in Nat
      BY <1>2, <1>3, <1>5, <2>1, Geometry
    <3>2. CASE i = 0
      <4>1. Skip(start, i) = 0 /\ y \in Nat
        BY <1>2, <1>3, <1>4, <3>1, <3>2
      <4>. HIDE DEF x, y, n0
      <4>2. x \in 0 + 1 .. n0 <=> y \in start .. start + n0 - 1
        BY <3>1, <4>1
      <4>. QED
        BY <4>1, <4>2 DEF Text, x, y, n0
    <3>3. CASE i > 0
      <4>1. Skip(start, i) = p - h /\ y \in Nat
        BY <1>2, <1>3, <1>4, <3>1, <3>3
      <4>2. x >= p - h + 1 /\ y >= start /\ x \in Int /\ p - h + 1 \in Int
        BY <1>2, <1>3, <3>1, <3>3
      <4>. HIDE DEF x, y, n0
      <4>3. x \in p - h + 1 .. n0 <=> y \in start .. start + n0 - 1
        BY <3>1, <4>1, <4>2
      <4>. QED
        BY <4>1, <4>3 DEF Text, x, y, n0
    <3>. QED
      BY <3>2, <3>3
  <2>. QED
    BY <1>3, <2>1, <2>2
<1>7. new = [c \in Cells |-> IF At(c) \in Skip(start, i) + 1 .. Len(buf) THEN buf[At(c)] ELSE block[c]]
  BY DEF Patched
<1>8. \A c \in Cells : At(c) \in Skip(start, i) + 1 .. Len(buf) => buf[At(c)] \in Int
  <2>. SUFFICES ASSUME NEW c \in Cells, At(c) \in Skip(start, i) + 1 .. Len(buf)
                PROVE  buf[At(c)] \in Int
    OBVIOUS
  <2>1. At(c) \in 1 .. Len(buf)
    <3>1. At(c) \in Int /\ Skip(start, i) \in Nat
      <4>1. At(c) = B * n + c - start + 1
        BY <1>6
      <4>2. B * n \in Nat /\ c \in Nat /\ start \in Nat
        BY <1>2, <1>3, <1>5
      <4>3. Skip(start, i) \in Nat
        BY <1>2, <1>3, <1>4
      <4>. HIDE DEF At
      <4>. QED
        BY <4>1, <4>2, <4>3
    <3>2. At(c) \in Skip(start, i) + 1 .. Len(buf)
      OBVIOUS
    <3>. HIDE DEF At
    <3>. QED
      BY <1>5, <3>1, <3>2
  <2>. HIDE DEF At
  <2>. QED
    BY <2>1
<1>. HIDE DEF At
<1>9. new \in [Cells -> Int]
  BY <1>7, <1>8
<1>. HIDE DEF new
<1>10. ASSUME NEW k \in Cells
       PROVE  new[k] = IF B * n + k \in Text(start, buf) THEN buf[B * n + k - start + 1] ELSE block[k]
  BY <1>6, <1>7
<1>. QED
  BY <1>9, <1>10 DEF new

----------------------------------------------------------------------------
(* One chunk of testfs_write_data.                                         *)

\* A transfer that stopped: the blocks are as before, or a file dangles.
Unmoved(v, w, f) ==
    /\ Sound(w) /\ Tidy(w, 0) /\ SamePlaces(v, w) /\ w.disk = v.disk
    /\ \A g \in Files : g # f => w.inode[g] = v.inode[g]
Stopped(v, f, r) ==
    /\ r.ret \in Int /\ r.ret < 0
    /\ Unmoved(v, r.vol, f) \/ (Loose(r.vol) /\ Dangling(r.vol))

\* The text is in cell k of logical block n, or the cell is as it was.
Puts(v, w, f, n, start, buf) ==
    \A k \in Cells : \A S :
        IF B * n + k \in Text(start, buf)
        THEN buf[B * n + k - start + 1] \in S => Holds(w, f, n, k, S)
        ELSE Holds(v, f, n, k, S) => Holds(w, f, n, k, S)
PutAt(v, f, n, start, buf, r) ==
    /\ r = Result(r.vol, r.ret) /\ r.ret \in Int /\ ~(r.ret < 0)
    /\ Sound(r.vol) /\ Tidy(r.vol, 0) /\ Keeps(v, r.vol, f, n)
    /\ Physical(r.vol, f, n) # 0 /\ Puts(v, r.vol, f, n, start, buf)

LEMMA BlockOfIs ==
    ASSUME NEW v, Sound(v), NEW f \in Files, NEW n \in Logical
    PROVE  /\ BlockOf(v, f, n) \in [Cells -> Int]
           /\ Physical(v, f, n) # 0 => BlockOf(v, f, n) = v.disk[Physical(v, f, n)]
           /\ Physical(v, f, n) = 0 /\ Shallow(n) => BlockOf(v, f, n) = Zero
<1>. DEFINE x == Physical(v, f, n)
            in == v.inode[f]
            m == n - NDirect - NIndirect
<1>1. x # 0 => x \in Blocks /\ x > 0
  BY LeafIs
<1>2. v.disk \in [Blocks -> [Cells -> Int]]
  BY VolumeFields DEF Sound
<1>3. in.dindirect > 0 => in.dindirect \in Blocks
  <2>1. in.dindirect \in BlockNr /\ (in.dindirect > 0 => in.dindirect # 0)
    BY VolumeFields, BlockNrs DEF Sound
  <2>. QED
    BY <2>1 DEF BlockNr
<1>4. Zero \in [Cells -> Int]
  BY DEF Zero
<1>5. Shallow(n) => ~(m >= 0)
  BY Geometry, LogicalIs DEF Shallow
<1>6. BlockOf(v, f, n) = IF x > 0 THEN v.disk[x]
         ELSE IF m >= 0 /\ in.dindirect > 0 /\ v.disk[in.dindirect][Outer(m)] = 0
         THEN v.disk[in.dindirect] ELSE Zero
  BY DEF BlockOf
<1>7. x > 0 => x # 0
  BY SMT
<1>. HIDE DEF x, in, m
<1>. QED
  BY <1>1, <1>2, <1>3, <1>4, <1>5, <1>6, <1>7 DEF x

LEMMA PutChunkGood ==
    ASSUME NEW v, Sound(v), Tidy(v, 0), NEW f \in Files, NEW start \in Nat, NEW buf \in Seq(Int),
           NEW i \in Nat, NEW n, n = start \div B + i, NEW r, r = PutChunk(v, f, start, buf, i)
    PROVE  n \in Nat /\ ((n \in Logical /\ PutAt(v, f, n, start, buf, r)) \/ Stopped(v, f, r))
<1>. DEFINE al == Allocate(v, f, n)
            data == Patched(BlockOf(v, f, n), start, buf, i)
            w == [al.vol EXCEPT !.disk[al.ret] = data]
            tail == i > 0 /\ i = LastChunk(start, Len(buf))
            sized == [al.vol EXCEPT !.inode[f].size = MaxFileSize]
<1>1. n \in Nat
  <2>1. start \div B \in Nat
    BY Geometry
  <2>. QED
    BY <2>1
<1>2. r = IF al.ret < 0 THEN Result(IF tail THEN sized ELSE al.vol, al.ret) ELSE Result(w, al.ret)
  <2>. DEFINE o == start \div B + i
  <2>1. o = n
    OBVIOUS
  <2>2. r = Else(Then(Allocate(v, f, o), LAMBDA a :
                Result([a.vol EXCEPT !.disk[a.ret] =
                          Patched(BlockOf(v, f, o), start, buf, i)], a.ret)),
            LAMBDA u : IF tail THEN [u EXCEPT !.inode[f].size = MaxFileSize] ELSE u)
    BY DEF PutChunk
  <2>. HIDE DEF o, tail
  <2>3. CASE al.ret < 0
    BY <2>1, <2>2, <2>3 DEF Then, Else, Result
  <2>4. CASE ~(al.ret < 0)
    BY <2>1, <2>2, <2>4 DEF Then, Else, Result
  <2>. QED
    BY <2>3, <2>4
<1>3. al = Allocate(v, f, n) /\ w = [al.vol EXCEPT !.disk[al.ret] = data]
      /\ sized = [al.vol EXCEPT !.inode[f].size = MaxFileSize]
  OBVIOUS
<1>. HIDE DEF al, w, tail, sized
<1>4. \/ n \in Logical /\ Placed(v, f, n, al)
      \/ Refused(v, al)
      \/ Undone(al)
  BY <1>1, <1>3, AllocateGood
<1>5. MaxFileSize \in 0 .. MaxFileSize
  <2>1. MaxFileBlocks \in Nat /\ B \in Nat
    BY LogicalIs, Geometry
  <2>. QED
    BY <2>1 DEF MaxFileSize
<1>6. CASE n \in Logical /\ Placed(v, f, n, al)
  <2>1. /\ al.ret > 0 /\ al.ret \in Blocks /\ Sound(al.vol) /\ Tidy(al.vol, 0)
        /\ Keeps(v, al.vol, f, n) /\ Physical(al.vol, f, n) = al.ret
    BY <1>6 DEF Placed
  <2>2. al.ret \in Nat /\ al.ret # 0 /\ ~(al.ret < 0)
    <3>1. al.ret \in Nat /\ al.ret > 0
      BY <2>1, Geometry
    <3>. QED
      BY <3>1
  <2>3. /\ BlockOf(v, f, n) \in [Cells -> Int]
        /\ Physical(v, f, n) # 0 => BlockOf(v, f, n) = v.disk[Physical(v, f, n)]
        /\ Physical(v, f, n) = 0 /\ Shallow(n) => BlockOf(v, f, n) = Zero
    BY <1>6, BlockOfIs
  <2>4. /\ data \in [Cells -> Int]
        /\ \A k \in Cells : data[k] = IF B * n + k \in Text(start, buf)
                                      THEN buf[B * n + k - start + 1] ELSE BlockOf(v, f, n)[k]
    BY <2>3, PatchedIs
  <2>. HIDE DEF data
  <2>5. /\ Sound(w) /\ Tidy(w, 0) /\ SamePlaces(al.vol, w) /\ w.inode = al.vol.inode
        /\ w.disk[al.ret] = data /\ \A b \in Blocks : b # al.ret => w.disk[b] = al.vol.disk[b]
    <3>. DEFINE u == al.vol
                a == al.ret
    <3>1. w = Store(u, a, data)
      BY <1>3 DEF Store
    <3>2. Sound(u) /\ Tidy(u, 0) /\ a = Physical(u, f, n) /\ a # 0 /\ n \in Logical
      BY <1>6, <2>1, <2>2
    <3>3. data \in [Cells -> Int]
      BY <2>4
    <3>. HIDE DEF u, a
    <3>4. /\ Sound(w) /\ Tidy(w, 0) /\ SamePlaces(u, w) /\ w.inode = u.inode
          /\ w.disk[a] = data /\ \A b \in Blocks : b # a => w.disk[b] = u.disk[b]
      BY <3>1, <3>2, <3>3, StoreIs
    <3>. QED
      BY <3>4 DEF u, a
  <2>6. r.vol = w /\ r.ret = al.ret /\ r = Result(r.vol, r.ret)
    BY <1>2, <2>2 DEF Result
  <2>7. Keeps(v, w, f, n)
    <3>1. ASSUME NEW g \in Files, NEW j \in Logical, ~(g = f /\ j = n)
          PROVE  /\ Physical(w, g, j) = Physical(v, g, j)
                 /\ Physical(v, g, j) # 0 => w.disk[Physical(v, g, j)] = v.disk[Physical(v, g, j)]
      <4>1. /\ Physical(w, g, j) = Physical(al.vol, g, j)
            /\ Physical(al.vol, g, j) = Physical(v, g, j)
        BY <2>1, <2>5, <3>1 DEF Keeps, SamePlaces
      <4>2. ASSUME Physical(v, g, j) # 0
            PROVE  w.disk[Physical(v, g, j)] = v.disk[Physical(v, g, j)]
        <5>1. Physical(v, g, j) \in Blocks /\ Physical(v, g, j) # al.ret
          BY <1>6, <2>1, <2>2, <3>1, <4>1, <4>2, LeafIs
        <5>2. al.vol.disk[Physical(v, g, j)] = v.disk[Physical(v, g, j)]
          BY <2>1, <3>1, <4>2 DEF Keeps
        <5>. QED
          BY <2>5, <5>1, <5>2
      <4>. QED
        BY <4>1, <4>2
    <3>2. \A g \in Files : w.inode[g].size = v.inode[g].size
      BY <2>1, <2>5 DEF Keeps
    <3>. QED
      BY <3>1, <3>2 DEF Keeps
  <2>8. Physical(w, f, n) = al.ret
    BY <1>6, <2>1, <2>5 DEF SamePlaces
  <2>9. Puts(v, w, f, n, start, buf)
    <3>. SUFFICES ASSUME NEW k \in Cells, NEW S
                  PROVE  IF B * n + k \in Text(start, buf)
                         THEN buf[B * n + k - start + 1] \in S => Holds(w, f, n, k, S)
                         ELSE Holds(v, f, n, k, S) => Holds(w, f, n, k, S)
      BY DEF Puts
    <3>1. Holds(w, f, n, k, S) <=> (0 \notin S \/ Shallow(n) => data[k] \in S)
      BY <2>2, <2>5, <2>8 DEF Holds
    <3>2. CASE B * n + k \in Text(start, buf)
      BY <2>4, <3>1, <3>2
    <3>3. CASE B * n + k \notin Text(start, buf)
      <4>1. data[k] = BlockOf(v, f, n)[k]
        BY <2>4, <3>3
      <4>2. Zero[k] = 0
        BY DEF Zero
      <4>3. Holds(v, f, n, k, S) => (0 \notin S \/ Shallow(n) => data[k] \in S)
        BY <2>3, <4>1, <4>2 DEF Holds
      <4>. QED
        BY <3>1, <3>3, <4>3
    <3>. QED
      BY <3>2, <3>3
  <2>10. PutAt(v, f, n, start, buf, r)
    BY <2>2, <2>5, <2>6, <2>7, <2>8, <2>9 DEF PutAt
  <2>. QED
    BY <1>1, <1>6, <2>10
<1>7. CASE Refused(v, al)
  <2>1. al.ret < 0 /\ al.ret \in Int /\ al.vol = v
    BY <1>7 DEF Refused
  <2>2. r.ret = al.ret /\ r.vol = IF tail THEN sized ELSE v
    BY <1>2, <2>1 DEF Result
  <2>3. Unmoved(v, v, f)
    BY DEF Unmoved, SamePlaces
  <2>4. v \in Volume
    BY DEF Sound
  <2>5. Unmoved(v, sized, f)
    <3>1. sized = [v EXCEPT !.inode[f].size = MaxFileSize]
      BY <1>3, <2>1
    <3>2. /\ sized.disk = v.disk /\ \A g \in Files : g # f => sized.inode[g] = v.inode[g]
          /\ Sound(sized) /\ SamePlaces(v, sized) /\ Tidy(sized, 0)
      BY <1>5, <2>4, <3>1, SizeIs
    <3>. QED
      BY <3>2 DEF Unmoved
  <2>. QED
    BY <1>1, <2>1, <2>2, <2>3, <2>5 DEF Stopped
<1>8. CASE Undone(al)
  <2>1. al.ret < 0 /\ al.ret \in Int /\ Loose(al.vol) /\ Dangling(al.vol) /\ al.vol \in Volume
    BY <1>8 DEF Undone, Loose
  <2>2. r.ret = al.ret /\ r.vol = IF tail THEN sized ELSE al.vol
    BY <1>2, <2>1 DEF Result
  <2>3. Loose(sized) /\ Dangling(sized)
    BY <1>3, <1>5, <2>1, SizeIs
  <2>. QED
    BY <1>1, <2>1, <2>2, <2>3 DEF Stopped
<1>. QED
  BY <1>4, <1>6, <1>7, <1>8

----------------------------------------------------------------------------
(* testfs_write_data.                                                      *)

(***************************************************************************)
(* The chunks of a transfer, from v to w.                                  *)
(***************************************************************************)
\* The first i chunks are read back, and the rest of the volume is as before.
Writes(v, w, f, start, buf, i) ==
    \A g \in Files, j \in Logical, k \in Cells : \A S :
        LET new == g = f /\ B * j + k \in Text(start, buf)
            x == buf[B * j + k - start + 1]
        IN /\ Holds(v, g, j, k, S) /\ (new => x \in S) => Holds(w, g, j, k, S)
           /\ new /\ j < start \div B + i /\ x \in S => Holds(w, g, j, k, S)
\* They have blocks.
Fills(v, w, f, start, i) ==
    /\ \A j \in start \div B .. start \div B + i - 1 : j \in Logical
    /\ \A g \in Files, j \in Logical : Physical(w, g, j) # 0 <=>
          \/ Physical(v, g, j) # 0
          \/ g = f /\ j \in start \div B .. start \div B + i - 1

Going(v, f, start, buf, i, r) ==
    /\ r = Result(r.vol, r.ret) /\ r.ret \in Int /\ ~(r.ret < 0)
    /\ Sound(r.vol) /\ Tidy(r.vol, 0)
    /\ \A g \in Files : r.vol.inode[g].size = v.inode[g].size
    /\ Writes(v, r.vol, f, start, buf, i) /\ Fills(v, r.vol, f, start, i)
Halted(v, f, start, buf, r) ==
    /\ r.ret \in Int /\ r.ret < 0
    /\ \/ Loose(r.vol) /\ Dangling(r.vol)
       \/ /\ Sound(r.vol) /\ Tidy(r.vol, 0) /\ Writes(v, r.vol, f, start, buf, 0)
          /\ \A g \in Files : g # f =>
                /\ r.vol.inode[g].size = v.inode[g].size
                /\ \A j \in Logical : Physical(r.vol, g, j) # 0 <=> Physical(v, g, j) # 0

LEMMA IntervalGrows ==
    ASSUME NEW o \in Nat, NEW i \in Nat
    PROVE  \A j : j \in o .. o + (i + 1) - 1 <=> j \in o .. o + i - 1 \/ j = o + i
  OBVIOUS

LEMMA GoesOn ==
    ASSUME NEW v, NEW f \in Files, NEW start \in Nat, NEW buf \in Seq(Int), NEW i \in Nat,
           NEW d, Going(v, f, start, buf, i, d), NEW r, r = PutChunk(d.vol, f, start, buf, i)
    PROVE  Going(v, f, start, buf, i + 1, r) \/ Halted(v, f, start, buf, r)
<1>. DEFINE o == start \div B
            n == o + i
            u == d.vol
            w == r.vol
<1>1. o \in Nat
  BY Geometry
<1>2. o = start \div B
  OBVIOUS
<1>. HIDE DEF o
<1>3. /\ Sound(u) /\ Tidy(u, 0) /\ Writes(v, u, f, start, buf, i) /\ Fills(v, u, f, start, i)
      /\ \A g \in Files : u.inode[g].size = v.inode[g].size
  BY DEF Going
<1>. HIDE DEF u
<1>4. n \in Nat /\ ((n \in Logical /\ PutAt(u, f, n, start, buf, r)) \/ Stopped(u, f, r))
  BY <1>2, <1>3, PutChunkGood DEF u
<1>5. \A j \in Logical : j \in Nat
  BY LogicalIs
<1>6. CASE n \in Logical /\ PutAt(u, f, n, start, buf, r)
  <2>1. /\ r = Result(r.vol, r.ret) /\ r.ret \in Int /\ ~(r.ret < 0)
        /\ Sound(w) /\ Tidy(w, 0) /\ Keeps(u, w, f, n)
        /\ Physical(w, f, n) # 0 /\ Puts(u, w, f, n, start, buf)
    BY <1>6 DEF PutAt
  <2>. HIDE DEF n, w
  <2>2. \A g \in Files : w.inode[g].size = v.inode[g].size
    BY <1>3, <2>1 DEF Keeps
  <2>3. Writes(v, w, f, start, buf, i + 1)
    <3>. SUFFICES ASSUME NEW g \in Files, NEW j \in Logical, NEW k \in Cells, NEW S
                  PROVE  LET new == g = f /\ B * j + k \in Text(start, buf)
                             x == buf[B * j + k - start + 1]
                         IN /\ Holds(v, g, j, k, S) /\ (new => x \in S) => Holds(w, g, j, k, S)
                            /\ new /\ j < start \div B + (i + 1) /\ x \in S => Holds(w, g, j, k, S)
      BY DEF Writes
    <3>. DEFINE new == g = f /\ B * j + k \in Text(start, buf)
                x == buf[B * j + k - start + 1]
    <3>1. /\ Holds(v, g, j, k, S) /\ (new => x \in S) => Holds(u, g, j, k, S)
          /\ new /\ j < o + i /\ x \in S => Holds(u, g, j, k, S)
      BY <1>2, <1>3 DEF Writes
    <3>2. CASE ~(g = f /\ j = n)
      <4>1. Holds(u, g, j, k, S) => Holds(w, g, j, k, S)
        BY <2>1, <3>2, HoldsKept
      <4>2. g = f /\ j < o + (i + 1) => j < o + i
        BY <1>1, <1>5, <3>2 DEF n
      <4>3. new => g = f
        OBVIOUS
      <4>. HIDE DEF x, new
      <4>4. /\ Holds(v, g, j, k, S) /\ (new => x \in S) => Holds(w, g, j, k, S)
            /\ new /\ j < o + (i + 1) /\ x \in S => Holds(w, g, j, k, S)
        BY <3>1, <4>1, <4>2, <4>3
      <4>. QED
        BY <1>2, <4>4 DEF x, new
    <3>3. CASE g = f /\ j = n
      <4>1. IF new THEN x \in S => Holds(w, g, j, k, S)
            ELSE Holds(u, g, j, k, S) => Holds(w, g, j, k, S)
        BY <2>1, <3>3 DEF Puts
      <4>. HIDE DEF x, new
      <4>. QED
        BY <3>1, <4>1 DEF new, x
    <3>. QED
      BY <3>2, <3>3
  <2>4. \A j : j \in o .. o + (i + 1) - 1 <=> j \in o .. o + i - 1 \/ j = n
    BY <1>1, IntervalGrows DEF n
  <2>5. Fills(v, w, f, start, i + 1)
    <3>1. \A j \in o .. o + (i + 1) - 1 : j \in Logical
      BY <1>2, <1>3, <1>6, <2>4 DEF Fills
    <3>2. ASSUME NEW g \in Files, NEW j \in Logical
          PROVE  Physical(w, g, j) # 0 <=>
                   Physical(v, g, j) # 0 \/ (g = f /\ j \in o .. o + (i + 1) - 1)
      <4>1. Physical(u, g, j) # 0 <=> Physical(v, g, j) # 0 \/ (g = f /\ j \in o .. o + i - 1)
        BY <1>2, <1>3 DEF Fills
      <4>2. ~(g = f /\ j = n) => Physical(w, g, j) = Physical(u, g, j)
        BY <2>1 DEF Keeps
      <4>. QED
        BY <2>1, <2>4, <4>1, <4>2
    <3>. QED
      BY <1>2, <3>1, <3>2 DEF Fills
  <2>. QED
    BY <2>1, <2>2, <2>3, <2>5 DEF Going, w
<1>7. CASE Stopped(u, f, r)
  <2>1. CASE Loose(w) /\ Dangling(w)
    BY <1>7, <2>1 DEF Halted, Stopped
  <2>2. CASE Unmoved(u, w, f)
    <3>1. /\ Sound(w) /\ Tidy(w, 0) /\ SamePlaces(u, w) /\ w.disk = u.disk
          /\ \A g \in Files : g # f => w.inode[g] = u.inode[g]
      BY <2>2 DEF Unmoved
    <3>. HIDE DEF w
    <3>2. \A g \in Files, j \in Logical : \A k, S : Holds(u, g, j, k, S) => Holds(w, g, j, k, S)
      BY <3>1 DEF Holds, SamePlaces
    <3>3. Writes(v, w, f, start, buf, 0)
      <4>. SUFFICES ASSUME NEW g \in Files, NEW j \in Logical, NEW k \in Cells, NEW S
                    PROVE  LET new == g = f /\ B * j + k \in Text(start, buf)
                               x == buf[B * j + k - start + 1]
                           IN /\ Holds(v, g, j, k, S) /\ (new => x \in S) => Holds(w, g, j, k, S)
                              /\ new /\ j < start \div B + 0 /\ x \in S => Holds(w, g, j, k, S)
        BY DEF Writes
      <4>. DEFINE new == g = f /\ B * j + k \in Text(start, buf)
                  x == buf[B * j + k - start + 1]
      <4>1. /\ Holds(v, g, j, k, S) /\ (new => x \in S) => Holds(u, g, j, k, S)
            /\ new /\ j < o + i /\ x \in S => Holds(u, g, j, k, S)
        BY <1>2, <1>3 DEF Writes
      <4>2. j < o + 0 => j < o + i
        BY <1>1, <1>5
      <4>. HIDE DEF x, new
      <4>. QED
        BY <1>2, <3>2, <4>1, <4>2 DEF x, new
    <3>4. ASSUME NEW g \in Files, g # f
          PROVE  /\ w.inode[g].size = v.inode[g].size
                 /\ \A j \in Logical : Physical(w, g, j) # 0 <=> Physical(v, g, j) # 0
      BY <1>3, <3>1, <3>4 DEF Fills, SamePlaces
    <3>. QED
      BY <1>7, <3>1, <3>3, <3>4 DEF Halted, Stopped, w
  <2>. QED
    BY <1>7, <2>1, <2>2 DEF Stopped
<1>. QED
  BY <1>4, <1>6, <1>7

NextChunk(d, f, start, buf, i) == Then(d, LAMBDA r : PutChunk(r.vol, f, start, buf, i))

LEMMA NextChunkIs ==
    ASSUME NEW d, NEW f, NEW start, NEW buf, NEW i
    PROVE  NextChunk(d, f, start, buf, i) = IF d.ret < 0 THEN d ELSE PutChunk(d.vol, f, start, buf, i)
  BY DEF NextChunk, Then

\* done gives the results of the first n chunks.
Done(done, v, f, start, buf, n) ==
    done = [i \in 0 .. n |-> IF i = 0 THEN Result(v, 0)
                             ELSE NextChunk(done[i - 1], f, start, buf, i - 1)]

LEMMA DoneExists ==
    ASSUME NEW v, NEW f, NEW start, NEW buf
    PROVE  \A n \in Nat : \E done : Done(done, v, f, start, buf, n)
<1>. DEFINE N == {n \in Nat : \E done : Done(done, v, f, start, buf, n)}
<1>1. 0 \in N
  <2>1. Done([i \in 0 .. 0 |-> Result(v, 0)], v, f, start, buf, 0)
    BY DEF Done
  <2>. QED
    BY <2>1
<1>2. ASSUME NEW n \in Nat, n \in N PROVE n + 1 \in N
  <2>1. PICK up : Done(up, v, f, start, buf, n)
    BY <1>2
  <2>. DEFINE F(g, k) == IF k = 0 THEN Result(v, 0) ELSE NextChunk(g[k - 1], f, start, buf, k - 1)
              on == [k \in 0 .. n + 1 |-> F(up, k)]
  <2>2. \A k \in 0 .. n : on[k] = up[k]
    <3>1. \A k \in 0 .. n : k \in 0 .. n + 1
      OBVIOUS
    <3>2. \A k \in 0 .. n : up[k] = F(up, k)
      <4>. HIDE DEF F
      <4>. DEFINE w == [k \in 0 .. n |-> F(up, k)]
      <4>1. up = w
        BY <2>1, Zenon DEF Done, F
      <4>2. \A k \in 0 .. n : w[k] = F(up, k)
        OBVIOUS
      <4>. QED
        BY <4>1, <4>2, Zenon
    <3>. QED
      BY <3>1, <3>2
  <2>3. \A k \in 0 .. n + 1 : F(up, k) = F(on, k)
    <3>1. \A k \in 0 .. n + 1 : k # 0 => k - 1 \in 0 .. n
      OBVIOUS
    <3>. HIDE DEF on
    <3>. QED
      BY <2>2, <3>1
  <2>4. on = [k \in 0 .. n + 1 |-> F(on, k)]
    <3>. HIDE DEF F
    <3>1. [k \in 0 .. n + 1 |-> F(up, k)] = [k \in 0 .. n + 1 |-> F(on, k)]
      BY <2>3
    <3>. QED
      BY <3>1, Zenon
  <2>5. Done(on, v, f, start, buf, n + 1)
    BY <2>4, Zenon DEF Done, F
  <2>. HIDE DEF on
  <2>. QED
    BY <2>5
<1>. HIDE DEF N
<1>3. \A n \in Nat : n \in N
  BY <1>1, <1>2, NatSet
<1>. QED
  BY <1>3 DEF N

LEMMA DoneGood ==
    ASSUME NEW v, Sound(v), Tidy(v, 0), NEW f \in Files, NEW start \in Nat, NEW buf \in Seq(Int),
           NEW n \in Nat, NEW done, Done(done, v, f, start, buf, n)
    PROVE  Going(v, f, start, buf, n, done[n]) \/ Halted(v, f, start, buf, done[n])
<1>1. /\ done[0] = Result(v, 0)
      /\ \A i \in 0 .. n : i # 0 => done[i] = NextChunk(done[i - 1], f, start, buf, i - 1)
  <2>. DEFINE w == [i \in 0 .. n |-> IF i = 0 THEN Result(v, 0)
                                     ELSE NextChunk(done[i - 1], f, start, buf, i - 1)]
  <2>1. done = w
    BY Zenon DEF Done
  <2>2. \A i \in 0 .. n : w[i] = IF i = 0 THEN Result(v, 0)
                                 ELSE NextChunk(done[i - 1], f, start, buf, i - 1)
    OBVIOUS
  <2>3. 0 \in 0 .. n
    OBVIOUS
  <2>. HIDE DEF w
  <2>. QED
    BY <2>1, <2>2, <2>3
<1>. DEFINE N == {i \in Nat : i \in 0 .. n =>
                    Going(v, f, start, buf, i, done[i]) \/ Halted(v, f, start, buf, done[i])}
<1>2. 0 \in N
  <2>1. done[0].ret = 0 /\ done[0].vol = v /\ done[0] = Result(done[0].vol, done[0].ret)
    BY <1>1 DEF Result
  <2>2. start \div B \in Nat /\ \A j \in Logical : j \in Nat
    <3>1. B \in Nat \ {0} /\ start \in Nat
      BY Geometry
    <3>. QED
      BY <3>1, LogicalIs, DivMod
  <2>3. Writes(v, v, f, start, buf, 0)
    <3>. SUFFICES ASSUME NEW g \in Files, NEW j \in Logical, NEW k \in Cells, NEW S
                  PROVE  LET new == g = f /\ B * j + k \in Text(start, buf)
                             x == buf[B * j + k - start + 1]
                         IN /\ Holds(v, g, j, k, S) /\ (new => x \in S) => Holds(v, g, j, k, S)
                            /\ new /\ j < start \div B + 0 /\ x \in S => Holds(v, g, j, k, S)
      BY DEF Writes
    <3>1. ASSUME B * j + k \in Text(start, buf), j < start \div B + 0 PROVE FALSE
      <4>. DEFINE o == Quot(start, B)
                  h == Rem(start, B)
                  b == B
      <4>1. o \in Nat /\ h \in 0 .. b - 1 /\ start = Times(b, o) + h /\ b \in Nat \ {0}
        BY StartIs, Geometry
      <4>2. j < o /\ j \in Nat
        BY <2>2, <3>1 DEF Quot
      <4>3. b * j + k >= start /\ k \in 0 .. b - 1
        BY <2>2, <3>1, Geometry DEF Text, Cells
      <4>. HIDE DEF o, h, b
      <4>4. PICK d \in Nat : o = j + 1 + d
        <5>1. o - j - 1 \in Nat /\ o = j + 1 + (o - j - 1)
          BY <4>1, <4>2
        <5>. QED
          BY <5>1
      <4>5. b * o = b * j + b + b * d /\ b * d \in Nat /\ b * j \in Nat
        BY <4>1, <4>2, <4>4
      <4>6. start = b * o + h
        BY <4>1 DEF Times
      <4>. QED
        BY <4>1, <4>3, <4>5, <4>6
    <3>. QED
      BY <3>1
  <2>4. Fills(v, v, f, start, 0)
    <3>1. \A j : j \notin start \div B .. start \div B + 0 - 1
      BY <2>2
    <3>. QED
      BY <3>1 DEF Fills
  <2>5. Going(v, f, start, buf, 0, done[0])
    BY <2>1, <2>3, <2>4 DEF Going
  <2>. QED
    BY <2>5
<1>3. ASSUME NEW i \in Nat, i \in N PROVE i + 1 \in N
  <2>. SUFFICES ASSUME i + 1 \in 0 .. n
                PROVE  Going(v, f, start, buf, i + 1, done[i + 1]) \/ Halted(v, f, start, buf, done[i + 1])
    OBVIOUS
  <2>1. Going(v, f, start, buf, i, done[i]) \/ Halted(v, f, start, buf, done[i])
    BY <1>3
  <2>2. done[i + 1] = NextChunk(done[i], f, start, buf, i)
    <3>1. i + 1 # 0 /\ (i + 1) - 1 = i
      OBVIOUS
    <3>. QED
      BY <1>1, <3>1
  <2>3. CASE Going(v, f, start, buf, i, done[i])
    <3>1. done[i + 1] = PutChunk(done[i].vol, f, start, buf, i)
      BY <2>2, <2>3, NextChunkIs DEF Going
    <3>. QED
      BY <2>3, <3>1, GoesOn
  <2>4. CASE Halted(v, f, start, buf, done[i])
    <3>1. done[i + 1] = done[i]
      BY <2>2, <2>4, NextChunkIs DEF Halted
    <3>. QED
      BY <2>4, <3>1
  <2>. QED
    BY <2>1, <2>3, <2>4
<1>. HIDE DEF N
<1>4. \A i \in Nat : i \in N
  BY <1>2, <1>3, NatSet
<1>. QED
  BY <1>4 DEF N

\* The size is written last.
WithSize(r, f, z) == [r EXCEPT !.vol.inode[f].size = Max({@, z})]

LEMMA WriteDataIs ==
    ASSUME NEW v, NEW f, NEW start, NEW buf, NEW n, n = LastChunk(start, Len(buf)) + 1, n \in Nat
    PROVE  \E done : /\ Done(done, v, f, start, buf, n)
                     /\ WriteData(v, f, start, buf) =
                          IF done[n].ret < 0 THEN done[n]
                          ELSE WithSize(done[n], f, start + Len(buf))
<1>. DEFINE c == LastChunk(start, Len(buf)) + 1
            done[i \in 0 .. c] ==
                IF i = 0 THEN Result(v, 0)
                ELSE Then(done[i - 1], LAMBDA r : PutChunk(r.vol, f, start, buf, i - 1))
<1>1. WriteData(v, f, start, buf) =
         Then(done[c], LAMBDA r : [r EXCEPT !.vol.inode[f].size = Max({@, start + Len(buf)})])
  BY DEF WriteData
<1>2. \E d : Done(d, v, f, start, buf, c)
  BY DoneExists
<1>3. Done(done, v, f, start, buf, c)
  BY <1>2 DEF Done, NextChunk
<1>4. c = n
  OBVIOUS
<1>. HIDE DEF done, c
<1>. QED
  BY <1>1, <1>3, <1>4 DEF Then, WithSize

LEMMA MaxOfTwo ==
    ASSUME NEW x \in Nat, NEW y \in Nat
    PROVE  Max({x, y}) = IF x >= y THEN x ELSE y
<1>. DEFINE z == IF x >= y THEN x ELSE y
<1>1. z \in {x, y} /\ \A u \in {x, y} : z >= u
  OBVIOUS
<1>2. \A w \in {x, y} : (\A u \in {x, y} : w >= u) => w = z
  OBVIOUS
<1>. HIDE DEF z
<1>3. Max({x, y}) = z
  BY <1>1, <1>2 DEF Max
<1>. QED
  BY <1>3 DEF z

Completed(v, f, start, buf, r) ==
    /\ r.ret \in Int /\ ~(r.ret < 0) /\ Sound(r.vol) /\ Tidy(r.vol, 0)
    /\ start + Len(buf) <= MaxFileSize
    /\ \A g \in Files : r.vol.inode[g].size =
          IF g # f \/ v.inode[f].size >= start + Len(buf) THEN v.inode[g].size ELSE start + Len(buf)
    /\ Writes(v, r.vol, f, start, buf, LastChunk(start, Len(buf)) + 1)
    /\ Fills(v, r.vol, f, start, LastChunk(start, Len(buf)) + 1)

LEMMA WriteDataGood ==
    ASSUME NEW v, Sound(v), Tidy(v, 0), NEW f \in Files, NEW start \in Nat, NEW buf \in Seq(Int) \ {<<>>},
           NEW r, r = WriteData(v, f, start, buf)
    PROVE  Completed(v, f, start, buf, r) \/ Halted(v, f, start, buf, r)
<1>. DEFINE l == LastChunk(start, Len(buf))
            n == l + 1
            o == start \div B
            e == start + Len(buf)
<1>1. Len(buf) \in Nat \ {0} /\ buf \in Seq(Int)
  OBVIOUS
<1>2. l \in Nat /\ B * (o + l) < e /\ e <= B * (o + l) + B
  BY <1>1, LastChunkIs
<1>3. n \in Nat /\ o \in Nat /\ e \in Nat /\ l < n
  <2>1. o \in Nat
    BY Geometry
  <2>2. l \in Nat /\ e \in Nat
    BY <1>1, <1>2
  <2>. HIDE DEF o, l
  <2>. QED
    BY <2>1, <2>2
<1>4. PICK done : /\ Done(done, v, f, start, buf, n)
                  /\ r = IF done[n].ret < 0 THEN done[n]
                         ELSE WithSize(done[n], f, e)
  <2>1. n = LastChunk(start, Len(buf)) + 1
    OBVIOUS
  <2>. HIDE DEF n
  <2>2. \E done : /\ Done(done, v, f, start, buf, n)
                  /\ WriteData(v, f, start, buf) =
                       IF done[n].ret < 0 THEN done[n]
                       ELSE WithSize(done[n], f, start + Len(buf))
    BY <1>3, <2>1, WriteDataIs
  <2>. QED
    BY <2>2
<1>. DEFINE d == done[n]
            u == d.vol
<1>5. Going(v, f, start, buf, n, d) \/ Halted(v, f, start, buf, d)
  BY <1>1, <1>3, <1>4, DoneGood
<1>6. CASE Halted(v, f, start, buf, d)
  <2>1. r = d
    BY <1>4, <1>6 DEF Halted
  <2>. QED
    BY <1>6, <2>1
<1>7. CASE Going(v, f, start, buf, n, d)
  <2>1. /\ d.ret \in Int /\ ~(d.ret < 0) /\ Sound(u) /\ Tidy(u, 0)
        /\ \A g \in Files : u.inode[g].size = v.inode[g].size
        /\ Writes(v, u, f, start, buf, n) /\ Fills(v, u, f, start, n)
    BY <1>7 DEF Going
  <2>2. e <= MaxFileSize
    <3>1. o + l \in Logical
      <4>1. o + l \in o .. o + n - 1
        BY <1>2, <1>3
      <4>. QED
        BY <2>1, <4>1 DEF Fills
    <3>2. MaxFileBlocks \in Nat /\ B \in Nat
      BY LogicalIs, Geometry
    <3>. DEFINE j == o + l
                M == MaxFileBlocks
    <3>3. j \in Nat /\ j < M /\ M \in Nat
      BY <3>1, <3>2 DEF Logical
    <3>4. e <= B * j + B
      BY <1>2
    <3>. HIDE DEF j, M
    <3>5. PICK x \in Nat : M = j + 1 + x
      <4>1. M - j - 1 \in Nat /\ M = j + 1 + (M - j - 1)
        BY <3>3
      <4>. QED
        BY <4>1
    <3>6. M * B = B * j + B + B * x /\ B * x \in Nat /\ B * j \in Nat
      BY <3>2, <3>3, <3>5
    <3>7. MaxFileSize = M * B
      BY DEF MaxFileSize, M
    <3>. QED
      BY <1>3, <3>2, <3>4, <3>6, <3>7
  <2>. DEFINE z == Max({u.inode[f].size, e})
  <2>3. u \in Volume /\ u.inode[f].size \in 0 .. MaxFileSize /\ MaxFileSize \in Nat
    <3>1. u \in Volume
      BY <2>1 DEF Sound
    <3>2. MaxFileBlocks \in Nat /\ B \in Nat
      BY LogicalIs, Geometry
    <3>. QED
      BY <3>1, <3>2, VolumeFields DEF MaxFileSize
  <2>4. z = (IF u.inode[f].size >= e THEN u.inode[f].size ELSE e) /\ z \in 0 .. MaxFileSize
    <3>1. z = IF u.inode[f].size >= e THEN u.inode[f].size ELSE e
      <4>. DEFINE y == u.inode[f].size
      <4>1. y \in Nat /\ e \in Nat
        BY <1>3, <2>3
      <4>. HIDE DEF y, e
      <4>2. Max({y, e}) = IF y >= e THEN y ELSE e
        BY <4>1, MaxOfTwo
      <4>. QED
        BY <4>2 DEF y
    <3>. HIDE DEF z, u, e
    <3>. QED
      BY <1>3, <2>2, <2>3, <3>1
  <2>. DEFINE w == [u EXCEPT !.inode[f].size = z]
  <2>5. r.vol = w /\ r.ret = d.ret
    <3>1. r = [d EXCEPT !.vol.inode[f].size = Max({@, e})]
      BY <1>4, <2>1 DEF WithSize
    <3>2. d = Result(d.vol, d.ret)
      BY <1>7 DEF Going
    <3>. DEFINE x == d.ret
    <3>3. d = [vol |-> u, ret |-> x]
      BY <3>2 DEF Result
    <3>. HIDE DEF d, u, x
    <3>4. [d EXCEPT !.vol.inode[f].size = Max({@, e})]
            = [vol |-> [u EXCEPT !.inode[f].size = Max({u.inode[f].size, e})], ret |-> x]
      <4>. DEFINE y == Max({u.inode[f].size, e})
      <4>1. [d EXCEPT !.vol.inode[f].size = Max({@, e})] = [d EXCEPT !.vol = [u EXCEPT !.inode[f].size = y]]
        BY <3>3
      <4>. DEFINE t == [u EXCEPT !.inode[f].size = y]
      <4>. HIDE DEF t
      <4>2. [d EXCEPT !.vol = t] = [vol |-> t, ret |-> x]
        BY <3>3
      <4>. QED
        BY <4>1, <4>2 DEF t
    <3>. QED
      BY <3>1, <3>4 DEF x
  <2>6. /\ w \in Volume /\ w.disk = u.disk /\ w.inode[f].size = z
        /\ \A g \in Files : g # f => w.inode[g] = u.inode[g]
        /\ Sound(w) /\ SamePlaces(u, w) /\ Tidy(w, 0)
    <3>1. w = [u EXCEPT !.inode[f].size = z]
      OBVIOUS
    <3>. HIDE DEF u, z, w
    <3>2. u \in Volume /\ z \in 0 .. MaxFileSize /\ Sound(u) /\ Tidy(u, 0)
      BY <2>1, <2>3, <2>4
    <3>3. w \in Volume
      BY <3>1, <3>2, SizeIs
    <3>4. w.disk = u.disk
      BY <3>1, <3>2, SizeIs
    <3>5. w.inode[f].size = z
      <4>1. u.inode \in [Files -> Inode] /\ u.inode[f] \in Inode
        BY <3>2, VolumeFields
      <4>2. w.inode[f] = [u.inode[f] EXCEPT !.size = z]
        BY <3>1, <3>2, <4>1 DEF Volume
      <4>. QED
        BY <4>1, <4>2 DEF Inode
    <3>6. \A g \in Files : g # f => w.inode[g] = u.inode[g]
      BY <3>1, <3>2, SizeIs
    <3>7. Sound(w) /\ SamePlaces(u, w) /\ Tidy(w, 0)
      BY <3>1, <3>2, SizeIs
    <3>. QED
      BY <3>3, <3>4, <3>5, <3>6, <3>7
  <2>. HIDE DEF w
  <2>7. \A g \in Files, j \in Logical : \A k, S : Holds(u, g, j, k, S) => Holds(w, g, j, k, S)
    BY <2>6 DEF Holds, SamePlaces
  <2>8. Writes(v, w, f, start, buf, n)
    <3>. HIDE DEF n, u
    <3>. QED
      BY <2>1, <2>7 DEF Writes
  <2>9. Fills(v, w, f, start, n)
    <3>. HIDE DEF n, u
    <3>. QED
      BY <2>1, <2>6 DEF Fills, SamePlaces
  <2>10. \A g \in Files : w.inode[g].size =
            IF g # f \/ v.inode[f].size >= e THEN v.inode[g].size ELSE e
    <3>1. u.inode[f].size = v.inode[f].size
      BY <2>1
    <3>. HIDE DEF e, u, z
    <3>. QED
      BY <2>1, <2>4, <2>6, <3>1
  <2>. QED
    BY <2>1, <2>2, <2>5, <2>6, <2>8, <2>9, <2>10 DEF Completed
<1>. QED
  BY <1>5, <1>6, <1>7

----------------------------------------------------------------------------
(* testfs_remove_inode.                                                    *)

LEMMA SoundLoose ==
    ASSUME NEW v, Sound(v)
    PROVE  Loose(v) /\ ~Dangling(v)
<1>1. v \in Volume /\ v.used <= MaxBlocks /\ v.used \in Int /\ MaxBlocks \in Nat
      /\ v.used = Cardinality(v.freemap)
  BY VolumeFields, Geometry DEF Sound, Counted
<1>2. \A g \in Files : v.inode[g].block_count \in Nat /\ v.inode[g].block_count <= v.used
  <2>. SUFFICES ASSUME NEW g \in Files
                PROVE  v.inode[g].block_count \in Nat /\ v.inode[g].block_count <= v.used
    OBVIOUS
  <2>1. IsFiniteSet(PointedTo(v, g)) /\ Cardinality(PointedTo(v, g)) = v.inode[g].block_count
        /\ PointedTo(v, g) \in SUBSET v.freemap
    BY PointedToCount
  <2>2. IsFiniteSet(v.freemap)
    BY <1>1, FreemapFinite
  <2>. QED
    BY <1>1, <2>1, <2>2, FS_Subset, FS_CardinalityType
<1>3. v.used \in 0 .. MaxBlocks /\ \A g \in Files : v.inode[g].block_count \in 0 .. MaxBlocks
  <2>1. Cardinality(v.freemap) \in Nat
    BY <1>1, FreemapFinite
  <2>. QED
    BY <1>1, <1>2, <2>1
<1>4. \A g \in Files : \A b, c, x : Points(v, g, b, c, x) => x \in Blocks
  BY <1>1, VolumeFields DEF Sound, InUse
<1>5. ~Dangling(v)
  BY PointedToCount DEF Dangling, AllMarked
<1>. QED
  BY <1>1, <1>3, <1>4, <1>5 DEF Loose

\* Only blocks of f are freed with it.
LEMMA FreedIn ==
    ASSUME NEW v, Sound(v), NEW f \in Files
    PROVE  Freed(v, f) \subseteq PointedTo(v, f)
<1>. DEFINE in == v.inode[f]
            e == DoubleBlocks(v, f)
            D == v.disk[in.dindirect]
            direct == {in.block_nr[i] : i \in {i \in 0 .. NDirect - 1 : i < e + NDirect + NIndirect}}
            indirect == IF in.indirect = 0 THEN {}
                        ELSE {v.disk[in.indirect][i] : i \in {i \in Cells : i < e + NIndirect}}
                             \cup {in.indirect}
            U == UNION {FreedUnder(v, D[i], i, e) :
                        i \in {i \in Cells : D[i] > 0 /\ i * NIndirect < e}}
            double == IF e < 0 \/ in.dindirect = 0 THEN {} ELSE {in.dindirect} \cup U
            P == PointedTo(v, f)
<1>1. Freed(v, f) = (direct \cup indirect \cup double) \ {0}
  BY DEF Freed
<1>2. \A b, c, x : Points(v, f, b, c, x) => x \in P
  BY PointedToIs
<1>3. \A b, c : Index(v, f, b) /\ c \in Cells /\ v.disk[b][c] # 0 => v.disk[b][c] \in P
  BY <1>2, PointsIn
<1>4. /\ in.indirect # 0 => Index(v, f, in.indirect) /\ in.indirect \in P
      /\ in.dindirect # 0 => Index(v, f, in.dindirect) /\ in.dindirect \in P
  BY <1>2, PointsIn
<1>5. ASSUME NEW x \in direct, x # 0 PROVE x \in P
  <2>1. PICK i \in 0 .. NDirect - 1 : x = in.block_nr[i]
    BY <1>5
  <2>2. Points(v, f, 0, i, x)
    BY <1>5, <2>1 DEF Points
  <2>. QED
    BY <1>2, <2>2
<1>6. ASSUME NEW x \in indirect, x # 0 PROVE x \in P
  BY <1>3, <1>4, <1>6
<1>7. ASSUME NEW x \in double, x # 0 PROVE x \in P
  <2>1. in.dindirect # 0
    BY <1>7
  <2>2. CASE x = in.dindirect
    BY <1>4, <2>1, <2>2
  <2>3. ASSUME NEW i \in Cells, D[i] > 0, x \in FreedUnder(v, D[i], i, e) PROVE x \in P
    <3>1. D[i] # 0
      <4>1. D[i] \in Nat
        BY <1>4, <2>1, IndexCells
      <4>. HIDE DEF D
      <4>. QED
        BY <2>3, <4>1
    <3>2. Index(v, f, D[i]) /\ D[i] \in P
      BY <1>3, <1>4, <2>1, <3>1, PointsIn
    <3>3. x = D[i] \/ \E j \in Cells : x = v.disk[D[i]][j]
      BY <2>3 DEF FreedUnder
    <3>. QED
      BY <1>3, <1>7, <3>2, <3>3
  <2>4. x = in.dindirect \/ \E i \in Cells : D[i] > 0 /\ x \in FreedUnder(v, D[i], i, e)
    <3>. DEFINE K == {i \in Cells : D[i] > 0 /\ i * NIndirect < e}
                F(i) == FreedUnder(v, D[i], i, e)
    <3>1. x \in U => \E i \in K : x \in F(i)
      OBVIOUS
    <3>2. \A i \in K : i \in Cells /\ D[i] > 0
      OBVIOUS
    <3>3. \A i : F(i) = FreedUnder(v, D[i], i, e)
      OBVIOUS
    <3>. HIDE DEF K, F, D, in, e, U
    <3>4. x = in.dindirect \/ \E i \in K : x \in F(i)
      BY <1>7, <3>1
    <3>5. ASSUME NEW i \in K, x \in F(i)
          PROVE  i \in Cells /\ D[i] > 0 /\ x \in FreedUnder(v, D[i], i, e)
      <4>1. i \in Cells /\ D[i] > 0
        BY <3>2
      <4>2. F(i) = FreedUnder(v, D[i], i, e)
        BY <3>3
      <4>. HIDE DEF K
      <4>3. x \in FreedUnder(v, D[i], i, e)
        BY <3>5, <4>2
      <4>. QED
        BY <4>1, <4>3
    <3>. QED
      BY <3>4, <3>5
  <2>. QED
    BY <2>2, <2>3, <2>4
<1>. HIDE DEF direct, indirect, double, P
<1>. QED
  BY <1>1, <1>5, <1>6, <1>7 DEF P

LEMMA FreedAll ==
    ASSUME NEW v, Sound(v), NEW f \in Files, MayRemove(v, f)
    PROVE  Freed(v, f) = PointedTo(v, f)
<1>. DEFINE S == PointedTo(v, f)
            T == Freed(v, f)
<1>1. IsFiniteSet(S) /\ Cardinality(S) = v.inode[f].block_count
  BY PointedToCount
<1>2. T \in SUBSET S
  BY FreedIn
<1>3. Cardinality(T) = v.inode[f].block_count
  BY DEF MayRemove
<1>. HIDE DEF S, T
<1>4. T = S
  BY <1>1, <1>2, <1>3, FS_Subset
<1>. QED
  BY <1>4 DEF S, T

Removed(v, f) == [Free(v, f, PointedTo(v, f)) EXCEPT !.inode[f] = EmptyInode]

LEMMA RemovedIs ==
    ASSUME NEW v, Sound(v), NEW f \in Files, NEW w, w = Removed(v, f)
    PROVE  /\ w \in Volume /\ w.freemap = v.freemap \ PointedTo(v, f)
           /\ w.used = v.used - v.inode[f].block_count
           /\ \A b \in Blocks : w.disk[b] = IF b \in PointedTo(v, f) THEN Zero ELSE v.disk[b]
           /\ w.inode[f] = EmptyInode
           /\ \A g \in Files : g # f => w.inode[g] = v.inode[g]
<1>. DEFINE bs == PointedTo(v, f)
            u == Free(v, f, bs)
            inode == [u.inode EXCEPT ![f] = EmptyInode]
<1>1. v \in Volume /\ bs \in SUBSET Blocks /\ Cardinality(bs) = v.inode[f].block_count
  BY PointedToCount, VolumeFields DEF Sound
<1>2. u = Free(v, f, bs)
  OBVIOUS
<1>3. w = [u EXCEPT !.inode = inode]
  BY DEF Removed
<1>4. \A g \in Files : g # f => u.inode[g] = v.inode[g]
  <2>. SUFFICES ASSUME NEW g \in Files, g # f PROVE u.inode[g] = v.inode[g]
    OBVIOUS
  <2>1. u.inode = [v.inode EXCEPT ![f] = [v.inode[f] EXCEPT !.block_count = @ - Cardinality(bs)]]
    <3>. DEFINE in == [v.inode EXCEPT ![f] = [v.inode[f] EXCEPT !.block_count = @ - Cardinality(bs)]]
                d == [b \in Blocks |-> IF b \in bs THEN Zero ELSE v.disk[b]]
                n == Cardinality(bs)
    <3>1. u = [v EXCEPT !.freemap = v.freemap \ bs, !.used = v.used - n, !.disk = d, !.inode = in]
      BY DEF Free
    <3>. HIDE DEF u, in, d, n, bs
    <3>2. u.inode = in
      BY <1>1, <3>1 DEF Volume
    <3>. QED
      BY <3>2 DEF in
  <2>. HIDE DEF u, bs
  <2>2. v.inode \in [Files -> Inode]
    BY <1>1, VolumeFields
  <2>. QED
    BY <2>1, <2>2
<1>. HIDE DEF bs, u
<1>5. /\ u \in Volume /\ u.freemap = v.freemap \ bs /\ u.used = v.used - Cardinality(bs)
      /\ \A b \in Blocks : u.disk[b] = IF b \in bs THEN Zero ELSE v.disk[b]
  BY <1>1, <1>2, FreeIs
<1>6. EmptyInode \in Inode
  <2>1. 0 \in BlockNr /\ [i \in 0 .. NDirect - 1 |-> 0] \in [0 .. NDirect - 1 -> BlockNr]
    BY DEF BlockNr
  <2>2. 0 \in 0 .. MaxFileSize
    <3>1. MaxFileBlocks \in Nat /\ B \in Nat
      BY LogicalIs, Geometry
    <3>2. MaxFileSize \in Nat
      BY <3>1 DEF MaxFileSize
    <3>. QED
      BY <3>2
  <2>. QED
    BY <2>1, <2>2 DEF EmptyInode, Inode
<1>7. /\ inode \in [Files -> Inode] /\ inode[f] = EmptyInode
      /\ \A g \in Files : g # f => inode[g] = u.inode[g]
  BY <1>5, <1>6, VolumeFields
<1>. HIDE DEF inode
<1>8. w = [freemap |-> u.freemap, used |-> u.used, disk |-> u.disk, inode |-> inode]
  BY <1>3, <1>5 DEF Volume
<1>9. w \in Volume
  BY <1>5, <1>7, <1>8, VolumeFields DEF Volume
<1>. QED
  BY <1>1, <1>4, <1>5, <1>7, <1>8, <1>9 DEF bs

LEMMA RemovedSound ==
    ASSUME NEW v, Sound(v), NEW f \in Files, NEW w, w = Removed(v, f)
    PROVE  /\ Sound(w) /\ (Tidy(v, 0) => Tidy(w, 0))
           /\ \A j \in Logical : Physical(w, f, j) = 0
           /\ \A g \in Files, j \in Logical : g # f =>
                 /\ Physical(w, g, j) = Physical(v, g, j)
                 /\ Physical(v, g, j) # 0 => w.disk[Physical(v, g, j)] = v.disk[Physical(v, g, j)]
<1>. DEFINE P == PointedTo(v, f)
<1>1. /\ w \in Volume /\ w.freemap = v.freemap \ P
      /\ w.used = v.used - v.inode[f].block_count
      /\ \A b \in Blocks : w.disk[b] = IF b \in P THEN Zero ELSE v.disk[b]
      /\ w.inode[f] = EmptyInode
      /\ \A g \in Files : g # f => w.inode[g] = v.inode[g]
  BY RemovedIs
<1>2. /\ v \in Volume /\ IsFiniteSet(P) /\ Cardinality(P) = v.inode[f].block_count
      /\ P \subseteq v.freemap /\ v.freemap \subseteq Blocks
  BY PointedToCount, VolumeFields DEF Sound
<1>3. \A x : x \in P <=> \E b, c : Points(v, f, b, c, x)
  BY PointedToIs
<1>. HIDE DEF P
<1>4. \A g \in Files : \A b, c, x : g # f /\ Points(v, g, b, c, x) => x \notin P
  BY <1>3 DEF Sound, OwnedOnce
<1>5. \A g \in Files : \A b : g # f /\ Index(v, g, b) => b \in Blocks /\ b \notin P
  BY <1>4, IndexPointed, IndexOwned
<1>6. ASSUME NEW g \in Files, g # f, NEW b, NEW c, NEW x
      PROVE  Points(w, g, b, c, x) <=> Points(v, g, b, c, x)
  <2>1. \A d : Index(v, g, d) => w.disk[d] = v.disk[d]
    BY <1>1, <1>5, <1>6
  <2>2. v.inode[g].dindirect # 0 => Index(v, g, v.inode[g].dindirect)
    BY PointsIn
  <2>3. Index(w, g, b) <=> Index(v, g, b)
    BY <1>1, <1>6, <2>1, <2>2 DEF Index
  <2>. QED
    BY <1>1, <1>6, <2>1, <2>3 DEF Points
<1>7. ASSUME NEW b, NEW c, NEW x PROVE ~Points(w, f, b, c, x)
  <2>1. /\ w.inode[f].indirect = 0 /\ w.inode[f].dindirect = 0
        /\ \A i \in 0 .. NDirect - 1 : w.inode[f].block_nr[i] = 0
    BY <1>1 DEF EmptyInode
  <2>. QED
    BY <2>1 DEF Points, Index
<1>8. InUse(w)
  BY <1>1, <1>4, <1>6, <1>7 DEF Sound, InUse
<1>9. OwnedOnce(w)
  BY <1>6, <1>7 DEF Sound, OwnedOnce
<1>10. NoneLost(w)
  BY <1>1, <1>3, <1>6 DEF Sound, NoneLost
<1>11. Clean(w)
  BY <1>1 DEF Sound, Clean
<1>12. /\ w.used = Cardinality(w.freemap) /\ w.used <= MaxBlocks
  <2>1. IsFiniteSet(v.freemap) /\ v.used = Cardinality(v.freemap) /\ v.used <= MaxBlocks /\ v.used \in Int
    BY <1>2, FreemapFinite, VolumeFields DEF Sound, Counted
  <2>2. Cardinality(v.freemap \ P) = Cardinality(v.freemap) - Cardinality(v.freemap \cap P)
    BY <2>1, FS_Difference
  <2>3. v.freemap \cap P = P
    BY <1>2
  <2>4. Cardinality(P) \in Nat /\ MaxBlocks \in Nat
    BY <1>2, FS_CardinalityType, Geometry
  <2>. QED
    <3>1. Cardinality(w.freemap) = v.used - Cardinality(P)
      BY <1>1, <2>1, <2>2, <2>3
    <3>2. w.used = v.used - Cardinality(P)
      BY <1>1, <1>2
    <3>. QED
      BY <2>1, <2>4, <3>1, <3>2
<1>13. ASSUME NEW g \in Files
       PROVE  IsFiniteSet(Pointers(w, g)) /\ w.inode[g].block_count = Cardinality(Pointers(w, g))
  <2>1. CASE g = f
    <3>1. Pointers(w, f) = {}
      BY <1>7, PointersAre
    <3>2. w.inode[f].block_count = 0
      BY <1>1 DEF EmptyInode
    <3>. QED
      BY <2>1, <3>1, <3>2, FS_EmptySet
  <2>2. CASE g # f
    <3>1. \A p \in Pointers(w, g) : p \in Pointers(v, g)
      BY <1>6, <2>2, PointersAre
    <3>2. \A p \in Pointers(v, g) : p \in Pointers(w, g)
      BY <1>6, <2>2, PointersAre
    <3>3. Pointers(w, g) = Pointers(v, g)
      BY <3>1, <3>2
    <3>. QED
      BY <1>1, <2>2, <3>3 DEF Sound, Counted
  <2>. QED
    BY <2>1, <2>2
<1>14. w.used = SumFunctionOnSet(Counts(w), Files)
  <2>1. Weighted(Counts(v), Files) /\ Weighted(Counts(w), Files)
    BY <1>1, <1>2, BoundsAssumption DEF Weighted, Counts, Volume, Inode
  <2>2. SumFunctionOnSet(Counts(w), Files) = Counts(w)[f] + SumFunctionOnSet(Counts(w), Files \ {f})
    BY <2>1, SumTake
  <2>3. SumFunctionOnSet(Counts(v), Files) = Counts(v)[f] + SumFunctionOnSet(Counts(v), Files \ {f})
    BY <2>1, SumTake
  <2>4. Weighted(Counts(v), Files \ {f})
    BY <2>1, WeightedPart
  <2>5. \A g \in Files \ {f} : Counts(w)[g] = Counts(v)[g]
    BY <1>1 DEF Counts
  <2>6. SumFunctionOnSet(Counts(w), Files \ {f}) = SumFunctionOnSet(Counts(v), Files \ {f})
    BY <2>4, <2>5, SumSame
  <2>7. Counts(w)[f] = 0 /\ Counts(v)[f] = v.inode[f].block_count /\ Counts(v)[f] \in Int
    BY <1>1, <2>1 DEF Counts, EmptyInode, Weighted
  <2>8. SumFunctionOnSet(Counts(v), Files \ {f}) \in Int
    BY <2>4, SumType
  <2>9. v.used = SumFunctionOnSet(Counts(v), Files)
    BY DEF Sound, Counted
  <2>. QED
    BY <1>1, <2>2, <2>3, <2>6, <2>7, <2>8, <2>9
<1>15. Sound(w)
  BY <1>1, <1>8, <1>9, <1>10, <1>11, <1>12, <1>13, <1>14 DEF Sound, Counted
<1>16. ASSUME Tidy(v, 0) PROVE Tidy(w, 0)
  <2>1. \A g \in Files : \A b : Index(w, g, b) => g # f /\ Index(v, g, b)
    BY <1>6, <1>7, <1>15, IndexPoints
  <2>. QED
    BY <1>6, <1>16, <2>1 DEF Tidy
<1>17. \A j \in Logical : Physical(w, f, j) = 0
  BY <1>7, <1>15, LeadsIs DEF Leads
<1>18. ASSUME NEW g \in Files, NEW j \in Logical, g # f
       PROVE  /\ Physical(w, g, j) = Physical(v, g, j)
              /\ Physical(v, g, j) # 0 => w.disk[Physical(v, g, j)] = v.disk[Physical(v, g, j)]
  <2>1. \A s, c : Path(w, g, j, s, c) <=> Path(v, g, j, s, c)
    BY <1>6, <1>15, <1>18, PathPoints
  <2>2. \A x : Leads(w, g, j, x) <=> Leads(v, g, j, x)
    BY <1>6, <1>18, <2>1 DEF Leads
  <2>3. Physical(w, g, j) = Physical(v, g, j)
    BY <1>15, <2>2, LeadsIs
  <2>4. ASSUME Physical(v, g, j) # 0 PROVE Physical(v, g, j) \in Blocks /\ Physical(v, g, j) \notin P
    <3>1. Leads(v, g, j, Physical(v, g, j))
      BY <2>4, LeadsIs
    <3>. QED
      BY <1>4, <1>18, <2>4, <3>1, LeafIs DEF Leads
  <2>. QED
    BY <1>1, <2>3, <2>4
<1>. QED
  BY <1>15, <1>16, <1>17, <1>18

----------------------------------------------------------------------------
(* The inductive invariant.                                                *)

\* What reads of the cells of each file may find is what the blocks hold.
Reads(v, values) ==
    \A g \in Files, j \in Logical, k \in Cells : Holds(v, g, j, k, values[g][B * j + k])

\* The size of a file covers its blocks, and no more.
Covers(v, g) ==
    /\ \A j \in Logical : Physical(v, g, j) # 0 => B * j < v.inode[g].size
    /\ v.inode[g].size # 0 =>
          \E j \in Logical : Physical(v, g, j) # 0 /\ v.inode[g].size <= B * j + B

Volumes ==
    /\ Loose(fs)
    /\ content \in [Files -> [Offsets -> SUBSET Int]] /\ failed \subseteq Files
    /\ status = "ok" => /\ Sound(fs) /\ Tidy(fs, 0)
                        /\ Reads(fs, content)
                        /\ \A g \in Files \ failed : Covers(fs, g)

IInv ==
    /\ status \in {"ok", "abort", "corrupt", "dangling"}
    /\ commands \in 0 .. MaxCommands
    /\ Volumes

\* The cells of the logical blocks are the offsets.
LEMMA OffsetIs ==
    ASSUME NEW j \in Logical, NEW k \in Cells
    PROVE  B * j + k \in Offsets
<1>. DEFINE p == B * j
            M == B * MaxFileBlocks
<1>1. j \in Nat /\ MaxFileBlocks \in Nat /\ j + 1 <= MaxFileBlocks /\ B \in Nat \ {0} /\ k \in 0 .. B - 1
  BY LogicalIs, Geometry DEF Logical
<1>2. PICK d \in Nat : MaxFileBlocks = j + 1 + d
  <2>1. MaxFileBlocks - j - 1 \in Nat /\ MaxFileBlocks = j + 1 + (MaxFileBlocks - j - 1)
    BY <1>1
  <2>. QED
    BY <2>1
<1>3. p \in Nat /\ B * d \in Nat /\ M = p + B + B * d
  BY <1>1, <1>2
<1>4. MaxFileSize = M
  BY <1>1 DEF MaxFileSize
<1>. HIDE DEF p, M
<1>5. p + k \in 0 .. M - 1
  BY <1>1, <1>3
<1>. QED
  BY <1>4, <1>5 DEF Offsets, p

LEMMA InitPoints ==
    ASSUME NEW f \in Files, NEW b, NEW c, NEW x
    PROVE  ~Points(NewVolume, f, b, c, x)
<1>1. /\ NewVolume.inode[f].indirect = 0 /\ NewVolume.inode[f].dindirect = 0
      /\ \A i \in 0 .. NDirect - 1 : NewVolume.inode[f].block_nr[i] = 0
  BY DEF NewVolume, EmptyInode
<1>. QED
  BY <1>1 DEF Points, Index

LEMMA NewSound == Sound(NewVolume) /\ Tidy(NewVolume, 0)
<1>. DEFINE v == NewVolume
<1>1. EmptyInode \in Inode
  <2>1. 0 \in BlockNr /\ [i \in 0 .. NDirect - 1 |-> 0] \in [0 .. NDirect - 1 -> BlockNr]
    BY DEF BlockNr
  <2>2. MaxFileBlocks \in Nat /\ B \in Nat
    BY LogicalIs, Geometry
  <2>3. MaxFileSize \in Nat
    BY <2>2 DEF MaxFileSize
  <2>4. 0 \in 0 .. MaxFileSize
    BY <2>3
  <2>. QED
    BY <2>1, <2>4 DEF EmptyInode, Inode
<1>2. Zero \in [Cells -> Int]
  BY DEF Zero
<1>3. v \in Volume
  BY <1>1, <1>2 DEF NewVolume, Volume
<1>4. InUse(v) /\ OwnedOnce(v)
  BY InitPoints DEF InUse, OwnedOnce
<1>5. NoneLost(v) /\ Clean(v)
  BY DEF NoneLost, Clean, NewVolume
<1>6. \A f \in Files : Pointers(v, f) = {}
  BY InitPoints, PointersAre
<1>7. Cardinality({}) = 0 /\ IsFiniteSet({})
  BY FS_EmptySet
<1>8. \A f \in Files : Counts(v)[f] = 0
  BY DEF Counts, NewVolume, EmptyInode
<1>9. SumFunctionOnSet(Counts(v), Files) = 0
  BY <1>8, BoundsAssumption, SumZero DEF Weighted
<1>10. v.used = 0 /\ v.freemap = {} /\ \A f \in Files : v.inode[f].block_count = 0
  BY DEF NewVolume, EmptyInode
<1>11. Counted(v)
  <2>1. MaxBlocks \in Nat
    BY Geometry
  <2>. HIDE DEF v
  <2>. QED
    BY <1>6, <1>7, <1>9, <1>10, <2>1 DEF Counted
<1>12. Tidy(v, 0)
  BY InitPoints, IndexPointed DEF Tidy
<1>. QED
  BY <1>3, <1>4, <1>5, <1>11, <1>12 DEF Sound

LEMMA NoBlocks ==
    ASSUME NEW v, Sound(v), NEW g \in Files, v.inode[g] = EmptyInode,
           \A j \in Logical : Physical(v, g, j) = 0
    PROVE  Covers(v, g) /\ \A j \in Logical : \A k : Holds(v, g, j, k, {0})
<1>1. v.inode[g].size = 0
  BY DEF EmptyInode
<1>. QED
  BY <1>1 DEF Covers, Holds

LEMMA InitVolumes == Init => IInv
<1>. SUFFICES ASSUME Init PROVE IInv
  OBVIOUS
<1>1. fs = NewVolume /\ status = "ok" /\ commands = 0 /\ failed = {}
      /\ content = [f \in Files |-> Unwritten]
  BY DEF Init
<1>2. Sound(fs) /\ Tidy(fs, 0) /\ Loose(fs)
  BY <1>1, NewSound, SoundLoose
<1>3. \A g \in Files, j \in Logical : Physical(fs, g, j) = 0
  BY <1>1, <1>2, InitPoints, LeadsIs DEF Leads
<1>4. \A g \in Files : fs.inode[g] = EmptyInode
  BY <1>1 DEF NewVolume
<1>5. ASSUME NEW g \in Files PROVE Covers(fs, g) /\ \A j \in Logical : \A k : Holds(fs, g, j, k, {0})
  BY <1>2, <1>3, <1>4, NoBlocks
<1>6. \A g \in Files, j \in Logical, k \in Cells : content[g][B * j + k] = {0}
  BY <1>1, OffsetIs DEF Unwritten
<1>7. content \in [Files -> [Offsets -> SUBSET Int]]
  BY <1>1 DEF Unwritten
<1>8. MaxCommands \in Nat /\ commands \in 0 .. MaxCommands
  BY <1>1, BoundsAssumption
<1>9. Reads(fs, content)
  <2>. SUFFICES ASSUME NEW g \in Files, NEW j \in Logical, NEW k \in Cells
                PROVE  Holds(fs, g, j, k, content[g][B * j + k])
    BY DEF Reads
  <2>. QED
    BY <1>5, <1>6
<1>10. Volumes
  BY <1>1, <1>2, <1>5, <1>7, <1>9 DEF Volumes
<1>. QED
  BY <1>1, <1>8, <1>10 DEF IInv

\* Logical blocks in order.
LEMMA BlockOrder ==
    ASSUME NEW j \in Nat, NEW n \in Nat
    PROVE  /\ j <= n => B * j <= B * n
           /\ B * j < B * n + B => j <= n
<1>1. B \in Nat \ {0}
  BY Geometry
<1>2. ASSUME j <= n PROVE B * j <= B * n
  <2>1. PICK d \in Nat : n = j + d
    <3>1. n - j \in Nat /\ n = j + (n - j)
      BY <1>2
    <3>. QED
      BY <3>1
  <2>2. B * n = B * j + B * d /\ B * d \in Nat /\ B * j \in Nat
    BY <1>1, <2>1
  <2>. QED
    BY <2>2
<1>3. ASSUME ~(j <= n) PROVE ~(B * j < B * n + B)
  <2>1. PICK d \in Nat : j = n + 1 + d
    <3>1. j - n - 1 \in Nat /\ j = n + 1 + (j - n - 1)
      BY <1>3
    <3>. QED
      BY <3>1
  <2>2. B * j = B * n + B + B * d /\ B * d \in Nat /\ B * n \in Nat
    BY <1>1, <2>1
  <2>. DEFINE p == B * j
              q == B * n
              e == B * d
  <2>3. p = q + B + e /\ e \in Nat /\ q \in Nat /\ B \in Nat
    BY <1>1, <2>2
  <2>. HIDE DEF p, q, e
  <2>4. ~(p < q + B)
    BY <2>3
  <2>. QED
    BY <2>4 DEF p, q
<1>. QED
  BY <1>2, <1>3

\* What a file holds and covers depends on its places, its blocks and its size.
LEMMA CoversKept ==
    ASSUME NEW v, NEW w, NEW g \in Files, w.inode[g].size = v.inode[g].size,
           \A j \in Logical : Physical(w, g, j) # 0 <=> Physical(v, g, j) # 0, Covers(v, g)
    PROVE  Covers(w, g)
BY DEF Covers

LEMMA RemoveFileNext ==
    ASSUME IInv, NEW f \in Files, RemoveFile(f)
    PROVE  IInv'
<1>1. /\ status = "ok" /\ commands \in Nat /\ MaxCommands \in Nat /\ commands' = commands + 1
      /\ commands < MaxCommands
      /\ Loose(fs) /\ content \in [Files -> [Offsets -> SUBSET Int]] /\ failed \subseteq Files
  BY BoundsAssumption DEF IInv, Volumes, RemoveFile
<1>2. /\ Sound(fs) /\ Tidy(fs, 0) /\ Reads(fs, content)
      /\ \A g \in Files \ failed : Covers(fs, g)
  BY <1>1 DEF IInv, Volumes
<1>3. commands' \in 0 .. MaxCommands
  BY <1>1
<1>4. CASE ReadsSuperBlock(fs, f) \/ ~MayRemove(fs, f)
  <2>1. fs' = fs /\ content' = content /\ failed' = failed /\ status' \in {"corrupt", "abort"}
    BY <1>4 DEF RemoveFile
  <2>2. Volumes'
    BY <1>1, <2>1 DEF Volumes
  <2>. QED
    BY <1>3, <2>1, <2>2 DEF IInv
<1>5. CASE ~(ReadsSuperBlock(fs, f) \/ ~MayRemove(fs, f))
  <2>1. /\ fs' = [Free(fs, f, Freed(fs, f)) EXCEPT !.inode[f] = EmptyInode]
        /\ content' = [content EXCEPT ![f] = Unwritten] /\ failed' = failed \ {f}
        /\ status' = status /\ MayRemove(fs, f)
    BY <1>5 DEF RemoveFile
  <2>2. Freed(fs, f) = PointedTo(fs, f)
    BY <1>2, <2>1, FreedAll
  <2>. DEFINE w == Removed(fs, f)
  <2>3. fs' = w
    BY <2>1, <2>2 DEF Removed
  <2>4. /\ Sound(w) /\ Tidy(w, 0) /\ \A j \in Logical : Physical(w, f, j) = 0
        /\ \A g \in Files, j \in Logical : g # f =>
              /\ Physical(w, g, j) = Physical(fs, g, j)
              /\ Physical(fs, g, j) # 0 => w.disk[Physical(fs, g, j)] = fs.disk[Physical(fs, g, j)]
    BY <1>2, RemovedSound
  <2>5. w.inode[f] = EmptyInode /\ \A g \in Files : g # f => w.inode[g] = fs.inode[g]
    BY <1>2, RemovedIs
  <2>. HIDE DEF w
  <2>6. Loose(w)
    BY <2>4, SoundLoose
  <2>7. Covers(w, f) /\ \A j \in Logical : \A k : Holds(w, f, j, k, {0})
    BY <2>4, <2>5, NoBlocks
  <2>8. ASSUME NEW g \in Files, NEW j \in Logical, NEW k \in Cells
        PROVE  Holds(w, g, j, k, content'[g][B * j + k])
    <3>1. CASE g = f
      <4>1. content'[f][B * j + k] = {0}
        BY <1>1, <2>1, OffsetIs DEF Unwritten
      <4>. QED
        BY <2>7, <3>1, <4>1
    <3>2. CASE g # f
      <4>1. Holds(fs, g, j, k, content[g][B * j + k])
        BY <1>2 DEF Reads
      <4>2. content'[g] = content[g]
        BY <1>1, <2>1, <3>2
      <4>. QED
        BY <2>4, <3>2, <4>1, <4>2 DEF Holds
    <3>. QED
      BY <3>1, <3>2
  <2>9. ASSUME NEW g \in Files \ failed' PROVE Covers(w, g)
    <3>1. CASE g = f
      BY <2>7, <3>1
    <3>2. CASE g # f
      <4>1. Covers(fs, g)
        BY <1>2, <2>1, <3>2
      <4>. QED
        BY <2>4, <2>5, <3>2, <4>1, CoversKept
    <3>. QED
      BY <3>1, <3>2
  <2>10. content' \in [Files -> [Offsets -> SUBSET Int]]
    BY <1>1, <2>1 DEF Unwritten
  <2>11. Reads(w, content')
    BY <2>8 DEF Reads
  <2>12. failed' \subseteq Files
    BY <1>1, <2>1
  <2>13. Volumes'
    BY <2>3, <2>4, <2>6, <2>9, <2>10, <2>11, <2>12 DEF Volumes
  <2>. QED
    BY <1>1, <1>3, <2>1, <2>13 DEF IInv
<1>. QED
  BY <1>4, <1>5

\* What the history holds after a write.
LEMMA WrittenIs ==
    ASSUME NEW f \in Files, NEW start \in Nat, NEW buf \in Seq(Int), NEW done \in BOOLEAN,
           content \in [Files -> [Offsets -> SUBSET Int]],
           NEW W, W = Written(f, start, buf, done)
    PROVE  /\ W \in [Offsets -> SUBSET Int]
           /\ \A p \in Offsets :
                 /\ p \notin Text(start, buf) => W[p] = content[f][p]
                 /\ p \in Text(start, buf) => buf[p - start + 1] \in W[p]
                 /\ ~done => content[f][p] \subseteq W[p]
<1>1. W = [p \in Offsets |-> IF p \notin Text(start, buf) THEN content[f][p]
                             ELSE (IF done THEN {} ELSE content[f][p]) \cup {buf[p - start + 1]}]
  BY DEF Written, Text
<1>2. \A p \in Text(start, buf) : buf[p - start + 1] \in Int
  <2>. SUFFICES ASSUME NEW p \in Text(start, buf) PROVE buf[p - start + 1] \in Int
    OBVIOUS
  <2>1. p - start + 1 \in 1 .. Len(buf)
    BY DEF Text
  <2>. QED
    BY <2>1
<1>. QED
  BY <1>1, <1>2

LEMMA WritesAt ==
    ASSUME NEW v, NEW w, NEW f, NEW start \in Nat, NEW buf, NEW i \in Nat, Writes(v, w, f, start, buf, i),
           NEW g \in Files, NEW j \in Logical, NEW k \in Cells, NEW S, NEW p, p = B * j + k
    PROVE  /\ Holds(v, g, j, k, S) /\ (g = f /\ p \in Text(start, buf) => buf[p - start + 1] \in S)
                  => Holds(w, g, j, k, S)
           /\ g = f /\ p \in Text(start, buf) /\ j < start \div B + i /\ buf[p - start + 1] \in S
                  => Holds(w, g, j, k, S)
<1>1. \A T : LET new == g = f /\ B * j + k \in Text(start, buf)
                 x == buf[B * j + k - start + 1]
             IN /\ Holds(v, g, j, k, T) /\ (new => x \in T) => Holds(w, g, j, k, T)
                /\ new /\ j < start \div B + i /\ x \in T => Holds(w, g, j, k, T)
  BY Zenon DEF Writes
<1>2. /\ Holds(v, g, j, k, S)
            /\ (g = f /\ B * j + k \in Text(start, buf) => buf[B * j + k - start + 1] \in S)
            => Holds(w, g, j, k, S)
      /\ g = f /\ B * j + k \in Text(start, buf) /\ j < start \div B + i
            /\ buf[B * j + k - start + 1] \in S => Holds(w, g, j, k, S)
  BY Zenon, <1>1
<1>3. B * j + k \in Text(start, buf) <=> p \in Text(start, buf)
  OBVIOUS
<1>4. B * j + k - start + 1 = p - start + 1
  <2>1. B \in Nat /\ j \in Nat /\ k \in Nat
    BY Geometry, LogicalIs
  <2>. DEFINE a == B * j
  <2>2. a \in Nat /\ p = a + k
    BY <2>1
  <2>. HIDE DEF a
  <2>3. a + k - start + 1 = p - start + 1
    BY <2>1, <2>2
  <2>. QED
    BY <2>3 DEF a
<1>5. buf[B * j + k - start + 1] = buf[p - start + 1]
  BY Zenon, <1>4
<1>6. buf[B * j + k - start + 1] \in S <=> buf[p - start + 1] \in S
  BY Zenon, <1>5
<1>. QED
  BY Zenon, <1>2, <1>3, <1>6

\* A write that is done.
LEMMA CompletedReads ==
    ASSUME NEW v, NEW w, NEW f \in Files, NEW start \in Nat, NEW buf \in Seq(Int) \ {<<>>},
           NEW l, l = LastChunk(start, Len(buf)), Writes(v, w, f, start, buf, l + 1),
           NEW old, Reads(v, old), NEW now,
           \A g \in Files : g # f => now[g] = old[g],
           \A p \in Offsets : /\ p \notin Text(start, buf) => now[f][p] = old[f][p]
                              /\ p \in Text(start, buf) => buf[p - start + 1] \in now[f][p]
    PROVE  Reads(w, now)
<1>. SUFFICES ASSUME NEW g \in Files, NEW j \in Logical, NEW k \in Cells
              PROVE  Holds(w, g, j, k, now[g][B * j + k])
  BY DEF Reads
<1>. DEFINE p == B * j + k
            x == buf[p - start + 1]
            S == now[g][p]
<1>1. p \in Offsets
  BY OffsetIs
<1>2. Holds(v, g, j, k, old[g][p])
  BY DEF Reads
<1>3. /\ Holds(v, g, j, k, S) /\ (g = f /\ p \in Text(start, buf) => x \in S) => Holds(w, g, j, k, S)
      /\ g = f /\ p \in Text(start, buf) /\ j < start \div B + (l + 1) /\ x \in S => Holds(w, g, j, k, S)
  <2>1. Len(buf) \in Nat \ {0}
    OBVIOUS
  <2>2. l \in Nat
    BY <2>1, LastChunkIs
  <2>. QED
    BY <2>2, WritesAt
<1>4. g = f /\ p \in Text(start, buf) => j < start \div B + (l + 1)
  <2>. SUFFICES ASSUME p \in Text(start, buf) PROVE j < start \div B + (l + 1)
    OBVIOUS
  <2>. DEFINE o == start \div B
              size == Len(buf)
              a == B * j
              z == B * (o + l)
  <2>1. size \in Nat \ {0} /\ B \in Nat \ {0} /\ k \in 0 .. B - 1 /\ j \in Nat
    BY Geometry, LogicalIs
  <2>2. l \in Nat /\ z < start + size /\ start + size <= z + B
    BY <2>1, LastChunkIs
  <2>3. o \in Nat
    BY <2>1, DivMod
  <2>4. p <= start + size - 1
    BY DEF Text
  <2>. HIDE DEF o, size
  <2>5. a \in Nat /\ z \in Nat
    <3>1. o + l \in Nat
      BY <2>2, <2>3
    <3>2. \A m, n \in Nat : m * n \in Nat
      OBVIOUS
    <3>. QED
      BY <2>1, <3>1, <3>2
  <2>6. p = a + k
    OBVIOUS
  <2>7. a < z + B => j <= o + l
    <3>1. o + l \in Nat
      BY <2>2, <2>3
    <3>. QED
      BY <2>1, <3>1, BlockOrder
  <2>. HIDE DEF a, z, p
  <2>8. a < z + B
    BY <2>1, <2>2, <2>4, <2>5, <2>6
  <2>9. j < o + (l + 1)
    BY <2>1, <2>2, <2>3, <2>7, <2>8
  <2>. QED
    BY <2>9 DEF o
<1>. HIDE DEF p, x
<1>5. CASE g = f /\ p \in Text(start, buf)
  <2>1. x \in S
    BY <1>1, <1>5 DEF x
  <2>. QED
    BY <1>3, <1>4, <1>5, <2>1 DEF p
<1>6. CASE ~(g = f /\ p \in Text(start, buf))
  <2>1. S = old[g][p]
    BY <1>1, <1>6
  <2>. QED
    BY <1>2, <1>3, <1>6, <2>1 DEF p
<1>. QED
  BY <1>5, <1>6

\* A write that failed.
LEMMA HaltedReads ==
    ASSUME NEW v, NEW w, NEW f \in Files, NEW start \in Nat, NEW buf \in Seq(Int),
           Writes(v, w, f, start, buf, 0),
           NEW old, Reads(v, old), NEW now,
           \A g \in Files : g # f => now[g] = old[g],
           \A p \in Offsets : /\ old[f][p] \subseteq now[f][p]
                              /\ p \in Text(start, buf) => buf[p - start + 1] \in now[f][p]
    PROVE  Reads(w, now)
<1>. SUFFICES ASSUME NEW g \in Files, NEW j \in Logical, NEW k \in Cells
              PROVE  Holds(w, g, j, k, now[g][B * j + k])
  BY DEF Reads
<1>. DEFINE p == B * j + k
            x == buf[p - start + 1]
            S == now[g][p]
<1>1. p \in Offsets
  BY OffsetIs
<1>2. Holds(v, g, j, k, old[g][p])
  BY DEF Reads
<1>3. Holds(v, g, j, k, S) /\ (g = f /\ p \in Text(start, buf) => x \in S) => Holds(w, g, j, k, S)
  BY WritesAt
<1>. HIDE DEF p
<1>4. old[g][p] \subseteq S /\ (g = f /\ p \in Text(start, buf) => x \in S)
  BY <1>1
<1>5. Holds(v, g, j, k, S)
  BY <1>2, <1>4, HoldsMore
<1>6. Holds(w, g, j, k, S)
  BY <1>3, <1>4, <1>5
<1>. QED
  BY <1>6 DEF p

LEMMA CompletedCovers ==
    ASSUME NEW v \in Volume, NEW w, NEW f \in Files, NEW start \in Nat, NEW buf \in Seq(Int) \ {<<>>},
           NEW r, Completed(v, f, start, buf, r), w = r.vol, NEW g \in Files, Covers(v, g)
    PROVE  Covers(w, g)
<1>. DEFINE o == start \div B
            size == Len(buf)
            l == LastChunk(start, size)
            z == start + size
            s == v.inode[g].size
            t == w.inode[g].size
<1>1. size \in Nat \ {0} /\ B \in Nat \ {0}
  BY Geometry
<1>2. l \in Nat /\ B * (o + l) < z /\ z <= B * (o + l) + B
  BY <1>1, LastChunkIs
<1>3. o \in Nat
  BY <1>1, DivMod
<1>4. t = IF g # f \/ v.inode[f].size >= z THEN s ELSE z
  BY DEF Completed
<1>5. /\ \A j \in o .. o + (l + 1) - 1 : j \in Logical
      /\ \A j \in Logical : Physical(w, g, j) # 0 <=>
            Physical(v, g, j) # 0 \/ (g = f /\ j \in o .. o + (l + 1) - 1)
  BY DEF Completed, Fills
<1>6. s \in Nat /\ z \in Nat \ {0}
  <2>1. s \in 0 .. MaxFileSize
    BY VolumeFields
  <2>. HIDE DEF s
  <2>. QED
    BY <1>1, <2>1
<1>7. /\ \A j \in Logical : Physical(v, g, j) # 0 => B * j < s
      /\ s # 0 => \E j \in Logical : Physical(v, g, j) # 0 /\ s <= B * j + B
  BY DEF Covers
<1>8. \A j \in Logical : j \in Nat /\ B * j \in Nat
  BY <1>1, LogicalIs
<1>. HIDE DEF size, o, l, z, s, t
<1>9. CASE g # f
  BY <1>4, <1>5, <1>7, <1>9 DEF Covers, s, t
<1>10. CASE g = f
  <2>1. s <= t /\ z <= t /\ t \in Nat
    BY <1>4, <1>6, <1>10 DEF s
  <2>2. o + l \in Nat /\ B * (o + l) \in Nat
    BY <1>1, <1>2, <1>3
  <2>3. ASSUME NEW j \in Logical, Physical(w, g, j) # 0 PROVE B * j < t
    <3>. DEFINE a == B * j
                b == B * (o + l)
    <3>1. a \in Nat /\ j \in Nat /\ b \in Nat
      BY <1>8, <2>2
    <3>2. CASE Physical(v, g, j) # 0
      <4>1. a < s
        BY <1>7, <3>2
      <4>. HIDE DEF a
      <4>2. a < t
        BY <1>6, <2>1, <3>1, <4>1
      <4>. QED
        BY <4>2 DEF a
    <3>3. CASE j \in o .. o + (l + 1) - 1
      <4>1. j <= o + l
        BY <1>2, <1>3, <3>1, <3>3
      <4>2. a <= b
        BY <2>2, <3>1, <4>1, BlockOrder
      <4>3. b < z
        BY <1>2
      <4>. HIDE DEF a, b
      <4>4. a < t
        BY <1>6, <2>1, <3>1, <4>2, <4>3
      <4>. QED
        BY <4>4 DEF a
    <3>. QED
      BY <1>5, <2>3, <3>2, <3>3
  <2>4. \E j \in Logical : Physical(w, g, j) # 0 /\ t <= B * j + B
    <3>1. CASE s >= z
      <4>1. s # 0 /\ t = s
        BY <1>4, <1>6, <1>10, <3>1 DEF s
      <4>. QED
        BY <1>5, <1>7, <4>1
    <3>2. CASE ~(s >= z)
      <4>1. t = z
        BY <1>4, <1>10, <3>2 DEF s
      <4>2. o + l \in o .. o + (l + 1) - 1
        BY <1>2, <1>3
      <4>3. o + l \in Logical /\ Physical(w, g, o + l) # 0
        BY <1>5, <1>10, <4>2
      <4>. QED
        BY <1>2, <4>1, <4>3
    <3>. QED
      BY <3>1, <3>2
  <2>. QED
    BY <2>3, <2>4 DEF Covers, t
<1>. QED
  BY <1>9, <1>10

LEMMA WriteFileNext ==
    ASSUME IInv, NEW f \in Files, NEW start \in Starts, NEW buf \in Bufs, WriteFile(f, start, buf)
    PROVE  IInv'
<1>1. /\ status = "ok" /\ commands \in Nat /\ MaxCommands \in Nat /\ commands' = commands + 1
      /\ commands < MaxCommands
      /\ content \in [Files -> [Offsets -> SUBSET Int]] /\ failed \subseteq Files
  BY BoundsAssumption DEF IInv, Volumes, WriteFile
<1>2. /\ Sound(fs) /\ Tidy(fs, 0) /\ Reads(fs, content) /\ fs \in Volume
      /\ \A g \in Files \ failed : Covers(fs, g)
  BY <1>1 DEF IInv, Volumes, Sound
<1>3. commands' \in 0 .. MaxCommands
  BY <1>1
<1>4. start \in Nat /\ buf \in Seq(Int) \ {<<>>}
  BY WritesAssumption
<1>. DEFINE r == WriteData(fs, f, start, buf)
            w == r.vol
            done == r.ret >= 0
            W == Written(f, start, buf, done)
<1>5. /\ fs' = w
      /\ status' \in (IF Dangling(w) THEN {"dangling"} ELSE {"ok"})
                     \cup (IF r.ret = Uninitialized THEN {"abort"} ELSE {})
      /\ content' = [content EXCEPT ![f] = W]
      /\ failed' = IF r.ret < 0 THEN failed \cup {f} ELSE failed
  BY DEF WriteFile
<1>6. Completed(fs, f, start, buf, r) \/ Halted(fs, f, start, buf, r)
  BY <1>2, <1>4, WriteDataGood
<1>. HIDE DEF r
<1>7. done \in BOOLEAN
  BY <1>6 DEF Completed, Halted
<1>. HIDE DEF done
<1>8. /\ W \in [Offsets -> SUBSET Int]
      /\ \A p \in Offsets :
            /\ p \notin Text(start, buf) => W[p] = content[f][p]
            /\ p \in Text(start, buf) => buf[p - start + 1] \in W[p]
            /\ ~done => content[f][p] \subseteq W[p]
  BY <1>1, <1>4, <1>7, WrittenIs
<1>. HIDE DEF W
<1>9. /\ content' \in [Files -> [Offsets -> SUBSET Int]]
      /\ content'[f] = W /\ \A g \in Files : g # f => content'[g] = content[g]
  BY <1>1, <1>5, <1>8
<1>10. status' \in {"ok", "abort", "corrupt", "dangling"} /\ (Dangling(w) => status' # "ok")
  BY <1>5
<1>11. failed' \subseteq Files
  BY <1>1, <1>5
<1>. HIDE DEF w
<1>12. CASE Loose(w) /\ Dangling(w)
  <2>1. Volumes'
    BY <1>5, <1>9, <1>10, <1>11, <1>12 DEF Volumes
  <2>. QED
    BY <1>3, <1>10, <2>1 DEF IInv
<1>13. ASSUME Sound(w), Tidy(w, 0), Reads(w, content'), \A g \in Files \ failed' : Covers(w, g)
       PROVE  IInv'
  <2>1. Loose(w)
    BY <1>13, SoundLoose
  <2>2. Volumes'
    BY <1>5, <1>9, <1>11, <1>13, <2>1 DEF Volumes
  <2>. QED
    BY <1>3, <1>10, <2>2 DEF IInv
<1>14. CASE Completed(fs, f, start, buf, r)
  <2>. DEFINE l == LastChunk(start, Len(buf))
              now == content'
  <2>1. Sound(w) /\ Tidy(w, 0) /\ Writes(fs, w, f, start, buf, l + 1) /\ ~(r.ret < 0)
    BY <1>14 DEF Completed, w
  <2>2. failed' = failed
    BY <1>5, <2>1
  <2>3. /\ \A g \in Files : g # f => now[g] = content[g]
        /\ \A p \in Offsets : /\ p \notin Text(start, buf) => now[f][p] = content[f][p]
                              /\ p \in Text(start, buf) => buf[p - start + 1] \in now[f][p]
    BY <1>8, <1>9
  <2>. HIDE DEF l, now
  <2>4. l = LastChunk(start, Len(buf))
    BY DEF l
  <2>5. Reads(w, now)
    BY <1>2, <1>4, <2>1, <2>3, <2>4, CompletedReads
  <2>6. ASSUME NEW g \in Files \ failed PROVE Covers(w, g)
    <3>1. Covers(fs, g) /\ w = r.vol
      BY <1>2 DEF w
    <3>. QED
      BY <1>2, <1>4, <1>14, <3>1, CompletedCovers
  <2>. QED
    BY <1>13, <2>1, <2>2, <2>5, <2>6 DEF now
<1>15. CASE Halted(fs, f, start, buf, r) /\ ~(Loose(w) /\ Dangling(w))
  <2>. DEFINE now == content'
  <2>1. /\ Sound(w) /\ Tidy(w, 0) /\ Writes(fs, w, f, start, buf, 0) /\ r.ret < 0 /\ r.ret \in Int
        /\ \A g \in Files : g # f =>
              /\ w.inode[g].size = fs.inode[g].size
              /\ \A j \in Logical : Physical(w, g, j) # 0 <=> Physical(fs, g, j) # 0
    BY <1>15 DEF Halted, w
  <2>2. failed' = failed \cup {f} /\ ~done
    BY <1>5, <2>1 DEF done
  <2>3. /\ \A g \in Files : g # f => now[g] = content[g]
        /\ \A p \in Offsets : /\ content[f][p] \subseteq now[f][p]
                              /\ p \in Text(start, buf) => buf[p - start + 1] \in now[f][p]
    BY <1>8, <1>9, <2>2
  <2>. HIDE DEF now
  <2>4. Reads(w, now)
    BY <1>2, <1>4, <2>1, <2>3, HaltedReads
  <2>5. ASSUME NEW g \in Files \ failed' PROVE Covers(w, g)
    <3>1. g # f /\ Covers(fs, g)
      BY <1>2, <2>2
    <3>. QED
      BY <2>1, <3>1, CoversKept
  <2>. QED
    BY <1>13, <2>1, <2>4, <2>5 DEF now
<1>. QED
  BY <1>6, <1>12, <1>14, <1>15

LEMMA IInvNext == IInv /\ [Next]_vars => IInv'
<1>. SUFFICES ASSUME IInv, [Next]_vars PROVE IInv'
  OBVIOUS
<1>1. CASE UNCHANGED vars
  BY <1>1 DEF vars, IInv, Volumes
<1>2. CASE Next
  BY <1>2, WriteFileNext, RemoveFileNext DEF Next
<1>. QED
  BY <1>1, <1>2

LEMMA IInvAlways == Spec => []IInv
<1>1. Init => IInv
  BY InitVolumes
<1>. QED
  BY <1>1, IInvNext, PTL DEF Spec

LEMMA IInvTypes == IInv => TypeOK
<1>. SUFFICES ASSUME IInv PROVE TypeOK
  OBVIOUS
<1>1. Loose(fs) /\ fs \in Volume /\ failed \subseteq Files
  BY DEF IInv, Volumes, Loose
<1>2. ASSUME NEW f \in Files
      PROVE  /\ fs.inode[f].size \in 0 .. MaxFileSize
             /\ fs.inode[f].block_count \in 0 .. MaxBlocks
             /\ PointedTo(fs, f) \subseteq Blocks
  BY <1>1, VolumeFields, PointedToIs DEF Loose
<1>3. fs.freemap \subseteq Blocks /\ fs.used \in 0 .. MaxBlocks
  BY <1>1, VolumeFields DEF Loose
<1>. QED
  BY <1>1, <1>2, <1>3 DEF TypeOK, IInv

LEMMA IInvOwned == IInv => BlocksOwnedOnce
<1>. SUFFICES ASSUME IInv, status = "ok" PROVE BlocksOwnedOnce
  BY DEF BlocksOwnedOnce
<1>1. Sound(fs)
  BY DEF IInv, Volumes
<1>2. /\ fs.used = Cardinality(fs.freemap)
      /\ \A f \in Files : fs.inode[f].block_count = Cardinality(Pointers(fs, f))
      /\ fs.used = SumFunctionOnSet(Counts(fs), Files)
  BY <1>1 DEF Sound, Counted
<1>3. \A x : x \in fs.freemap <=> \E f \in Files : x \in PointedTo(fs, f)
  BY <1>1, PointedToIs DEF Sound, InUse, NoneLost
<1>4. fs.freemap = UNION {PointedTo(fs, f) : f \in Files}
  BY <1>3
<1>5. SumFunction(Counts(fs)) = SumFunctionOnSet(Counts(fs), Files)
  <2>1. DOMAIN Counts(fs) = Files
    BY DEF Counts
  <2>. QED
    BY <2>1 DEF SumFunction
<1>6. fs.used = SumFunction([f \in Files |-> fs.inode[f].block_count])
  BY <1>2, <1>5 DEF Counts
<1>. QED
  BY <1>2, <1>4, <1>6 DEF BlocksOwnedOnce

----------------------------------------------------------------------------
(* testfs_read_data.                                                       *)

LEMMA DivIs ==
    ASSUME NEW c \in Nat
    PROVE  c \div B \in Nat /\ c % B \in 0 .. B - 1 /\ c = B * (c \div B) + (c % B)
<1>. DEFINE q == Quot(c, B)
            r == Rem(c, B)
            m == Times(B, q)
<1>1. B \in Nat \ {0}
  BY Geometry
<1>2. q \in Nat /\ r \in 0 .. B - 1 /\ c = m + r
  BY <1>1, QuotRem
<1>. QED
  BY <1>2 DEF Quot, Rem, Times

\* The block a cell of the file is in, and its place there.
LEMMA CellIs ==
    ASSUME NEW c \in Nat, NEW j, j = c \div B, NEW k, k = c % B
    PROVE  /\ j \in Nat /\ k \in Cells /\ c = B * j + k
           /\ c \in Offsets => j \in Logical
           /\ c < (NDirect + NIndirect) * B => Shallow(j)
<1>1. B \in Nat \ {0} /\ Cells = 0 .. B - 1 /\ NDirect + NIndirect \in Nat /\ MaxFileBlocks \in Nat
  BY Geometry, LogicalIs
<1>2. j \in Nat /\ k \in Cells /\ c = B * j + k
  BY <1>1, DivIs
<1>3. ASSUME c \in Offsets PROVE j \in Logical
  <2>. DEFINE m == B * MaxFileBlocks
              M == MaxFileSize
  <2>1. M = m /\ m \in Nat
    BY <1>1 DEF MaxFileSize
  <2>2. c \in 0 .. M - 1
    BY <1>3 DEF Offsets
  <2>. HIDE DEF m, M
  <2>3. c < m
    BY <2>1, <2>2
  <2>4. c \div B < MaxFileBlocks
    BY <1>1, <2>3, LessProduct DEF m
  <2>. QED
    BY <1>1, <1>2, <2>4 DEF Logical
<1>4. ASSUME c < (NDirect + NIndirect) * B PROVE Shallow(j)
  <2>. DEFINE n == NDirect + NIndirect
  <2>1. n \in Nat /\ c < n * B
    BY <1>1, <1>4
  <2>. HIDE DEF n
  <2>2. n * B = B * n
    BY <1>1, <2>1
  <2>3. c \div B < n
    BY <1>1, <2>1, <2>2, LessProduct
  <2>. QED
    BY <2>3 DEF n, Shallow
<1>. QED
  BY <1>2, <1>3, <1>4

\* A chunk of a transfer, from its place in the text.
LEMMA ChunkIs ==
    ASSUME NEW s \in Nat, NEW size \in Nat \ {0}, NEW p \in 1 .. size, NEW c \in Nat, c + 1 = s + p,
           NEW S, \A x : x \in S <=> x \in 0 .. LastChunk(s, size) /\ Skip(s, x) < p,
           NEW i, i = Max(S)
    PROVE  s \div B + i = c \div B /\ From(s, i) + p - 1 - Skip(s, i) = c % B
<1>. DEFINE o == s \div B
            h == s % B
            j == c \div B
            k == c % B
            l == LastChunk(s, size)
            a == B * o
            b == B * j
<1>1. B \in Nat \ {0} /\ Cells = 0 .. B - 1
  BY Geometry
<1>2. c \in Nat /\ c < s + size /\ s <= c /\ p = c - s + 1
  OBVIOUS
<1>3. j \in Nat /\ k \in 0 .. B - 1 /\ c = b + k
  BY <1>2, DivIs
<1>4. o \in Nat /\ h \in 0 .. B - 1 /\ s = a + h
  BY <1>1, DivIs
<1>5. l \in Nat /\ s + size <= B * (o + l) + B
  BY LastChunkIs
<1>0. \A x : x \in S <=> x \in 0 .. l /\ Skip(s, x) < p
  OBVIOUS
<1>6. \A x \in Nat : Skip(s, x) = (IF x = 0 THEN 0 ELSE B * x - h)
                     /\ From(s, x) = (IF x = 0 THEN h ELSE 0)
  BY DEF Skip, From
<1>. HIDE DEF o, h, j, k, l
<1>7. a \in Nat /\ b \in Nat
  BY <1>1, <1>3, <1>4
<1>8. o <= j
  <2>1. a < b + B
    <3>. HIDE DEF a, b
    <3>. QED
      BY <1>1, <1>2, <1>3, <1>4, <1>7
  <2>. QED
    BY <1>3, <1>4, <2>1, BlockOrder
<1>9. j <= o + l
  <2>. DEFINE z == B * (o + l)
  <2>1. z \in Nat /\ s + size <= z + B
    BY <1>1, <1>4, <1>5
  <2>2. b < z + B
    <3>. HIDE DEF a, b, z
    <3>. QED
      BY <1>1, <1>2, <1>3, <1>7, <2>1
  <2>3. o + l \in Nat
    BY <1>4, <1>5
  <2>. QED
    BY <1>3, <2>2, <2>3, BlockOrder
<1>. DEFINE m == j - o
<1>10. m \in 0 .. l /\ m \in Nat
  BY <1>3, <1>4, <1>5, <1>8, <1>9
<1>11. \A x \in Nat : B * (o + x) = a + B * x /\ B * x \in Nat
  BY <1>1, <1>4
<1>12. b = a + B * m
  <2>1. b = B * (o + m)
    BY <1>3, <1>4
  <2>. QED
    BY <1>10, <1>11, <2>1
<1>13. Skip(s, m) = (IF m = 0 THEN 0 ELSE b - a - h) /\ From(s, m) = (IF m = 0 THEN h ELSE 0)
  <2>1. Skip(s, m) = (IF m = 0 THEN 0 ELSE B * m - h) /\ From(s, m) = (IF m = 0 THEN h ELSE 0)
    BY <1>6, <1>10
  <2>. DEFINE y == B * m
  <2>2. y \in Nat /\ b = a + y
    BY <1>10, <1>11, <1>12
  <2>. HIDE DEF a, b, y
  <2>3. y = b - a
    BY <1>7, <2>2
  <2>. QED
    BY <2>1, <2>3 DEF y
<1>14. m \in S
  <2>1. Skip(s, m) < p
    <3>. HIDE DEF a, b, m
    <3>. QED
      BY <1>1, <1>2, <1>3, <1>4, <1>7, <1>13
  <2>. QED
    BY <1>0, <1>10, <2>1
<1>15. ASSUME NEW x \in S PROVE m >= x
  <2>1. x \in Nat /\ Skip(s, x) < p
    BY <1>0, <1>5, <1>15
  <2>2. CASE x = 0
    BY <1>10, <2>2
  <2>3. CASE x # 0
    <3>. DEFINE y == B * x
    <3>1. y - h < p /\ y \in Nat /\ B * (o + x) = a + y
      BY <1>6, <1>11, <2>1, <2>3
    <3>2. a + y < b + B
      <4>. HIDE DEF a, b, y
      <4>. QED
        BY <1>1, <1>2, <1>3, <1>4, <1>7, <3>1
    <3>3. B * (o + x) < B * j + B
      BY <3>1, <3>2
    <3>4. o + x <= j
      <4>1. o + x \in Nat
        BY <1>4, <2>1
      <4>. QED
        BY <1>3, <3>3, <4>1, BlockOrder
    <3>. QED
      BY <1>3, <1>4, <2>1, <3>4
  <2>. QED
    BY <2>2, <2>3
<1>16. i = m
  <2>2. \A x \in S : x \in Nat
    BY <1>0, <1>5
  <2>3. \A x \in S : (\A y \in S : x >= y) => x = m
    BY <1>10, <1>14, <1>15, <2>2
  <2>. HIDE DEF m
  <2>4. Max(S) = m
    BY <1>14, <1>15, <2>3 DEF Max
  <2>. QED
    BY <2>4
<1>17. From(s, m) + p - 1 - Skip(s, m) = k
  <2>1. m = 0 => b = a
    BY <1>3, <1>4
  <2>. HIDE DEF a, b, m
  <2>. QED
    BY <1>1, <1>2, <1>3, <1>4, <1>7, <1>13, <2>1
<1>18. o + m = j
  BY <1>3, <1>4
<1>. HIDE DEF m
<1>. QED
  BY <1>16, <1>17, <1>18 DEF o, j, k

LEMMA IInvReads == IInv => ReadsBack
<1>. SUFFICES ASSUME IInv, status = "ok", NEW f \in Files,
                     NEW s \in 0 .. fs.inode[f].size, NEW e \in 0 .. fs.inode[f].size, s < e,
                     NEW c \in s .. e - 1,
                     0 \notin content[f][c] \/ c < (NDirect + NIndirect) * B
              PROVE  ReadData(fs, f, s, e - s)[c - s + 1] \in content[f][c]
  BY DEF ReadsBack
<1>. DEFINE size == e - s
            p == c - s + 1
            j == c \div B
            k == c % B
            S == content[f][c]
<1>1. Sound(fs) /\ Reads(fs, content) /\ fs.inode[f].size \in 0 .. MaxFileSize
  BY VolumeFields DEF IInv, Volumes, Sound
<1>2. s \in Nat /\ c \in Nat /\ size \in Nat \ {0} /\ p \in 1 .. size /\ c = s + p - 1
  BY <1>1
<1>3. c \in Offsets
  <2>1. MaxFileSize \in Nat
    BY LogicalIs, Geometry DEF MaxFileSize
  <2>. QED
    BY <1>1, <1>2, <2>1 DEF Offsets
<1>4. /\ j \in Logical /\ k \in Cells /\ c = B * j + k
      /\ c < (NDirect + NIndirect) * B => Shallow(j)
  BY <1>2, <1>3, CellIs
<1>. DEFINE T == {x \in 0 .. LastChunk(s, size) : Skip(s, x) < p}
            i == Max(T)
            q == From(s, i) + p - 1 - Skip(s, i)
<1>5. ReadData(fs, f, s, size)[p] = BlockOf(fs, f, s \div B + i)[q]
  BY <1>2 DEF ReadData
<1>6. s \div B + i = j /\ q = k
  <2>1. (\A x : x \in T <=> x \in 0 .. LastChunk(s, size) /\ Skip(s, x) < p) /\ i = Max(T)
    OBVIOUS
  <2>. DEFINE n == s \div B + i
  <2>2. j = c \div B /\ k = c % B /\ n = s \div B + i /\ q = From(s, i) + p - 1 - Skip(s, i)
    OBVIOUS
  <2>. HIDE DEF i, p, size, T, n, q, j, k
  <2>3. c \div B = n /\ c % B = q
    <3>1. s \in Nat /\ size \in Nat \ {0} /\ p \in 1 .. size /\ c \in Nat /\ c + 1 = s + p
      BY <1>2
    <3>. QED
      BY <2>1, <2>2, <3>1, ChunkIs
  <2>. QED
    BY <2>2, <2>3
<1>7. ReadData(fs, f, s, size)[p] = BlockOf(fs, f, j)[k]
  <2>. HIDE DEF i, q, j, k, p, size
  <2>. QED
    BY <1>5, <1>6
<1>8. Holds(fs, f, j, k, S)
  <2>1. Holds(fs, f, j, k, content[f][B * j + k])
    BY <1>1, <1>4 DEF Reads
  <2>. HIDE DEF j, k
  <2>. QED
    BY <1>4, <2>1
<1>9. 0 \notin S \/ Shallow(j)
  BY <1>4
<1>. HIDE DEF j, k, S
<1>10. BlockOf(fs, f, j)[k] \in S
  <2>1. CASE Physical(fs, f, j) # 0
    <3>1. BlockOf(fs, f, j) = fs.disk[Physical(fs, f, j)]
      BY <1>1, <1>4, <2>1, BlockOfIs
    <3>. QED
      BY <1>8, <1>9, <2>1, <3>1 DEF Holds
  <2>2. CASE Physical(fs, f, j) = 0
    <3>1. 0 \in S
      BY <1>8, <2>2 DEF Holds
    <3>2. BlockOf(fs, f, j) = Zero
      BY <1>1, <1>4, <1>9, <2>2, <3>1, BlockOfIs
    <3>. QED
      BY <1>4, <3>1, <3>2 DEF Zero
  <2>. QED
    BY <2>1, <2>2
<1>. QED
  BY <1>7, <1>10 DEF S

----------------------------------------------------------------------------
(* A file whose size covers its blocks.                                    *)

\* DIVROUNDUP.
LEMMA RoundUpIs ==
    ASSUME NEW size \in Nat, NEW n, n = (size + B - 1) \div B
    PROVE  n \in Nat /\ \A j \in Nat : j < n <=> B * j < size
<1>. DEFINE c == size + B - 1
            r == c % B
            a == B * n
<1>1. B \in Nat \ {0}
  BY Geometry
<1>2. c \in Nat
  BY <1>1
<1>3. n \in Nat /\ r \in 0 .. B - 1 /\ c = a + r
  <2>1. n = c \div B
    OBVIOUS
  <2>. HIDE DEF c
  <2>. QED
    BY <1>2, <2>1, DivIs
<1>4. a \in Nat
  BY <1>1, <1>3
<1>5. size = a + r - B + 1
  <2>. HIDE DEF a, r
  <2>. QED
    BY <1>1, <1>3, <1>4
<1>6. ASSUME NEW j \in Nat, j < n PROVE B * j < size
  <2>. DEFINE b == B * j
  <2>1. PICK d \in Nat : n = j + 1 + d
    <3>1. n - j - 1 \in Nat /\ n = j + 1 + (n - j - 1)
      BY <1>3, <1>6
    <3>. QED
      BY <3>1
  <2>. DEFINE y == B * d
  <2>2. a = b + B + y /\ y \in Nat /\ b \in Nat
    BY <1>1, <2>1
  <2>. HIDE DEF a, b, y, r
  <2>3. b < size
    BY <1>1, <1>3, <1>5, <2>2
  <2>. QED
    BY <2>3 DEF b
<1>7. ASSUME NEW j \in Nat, ~(j < n) PROVE ~(B * j < size)
  <2>. DEFINE b == B * j
  <2>1. a <= b /\ b \in Nat
    BY <1>1, <1>3, <1>7, BlockOrder
  <2>. HIDE DEF a, b, r
  <2>2. ~(b < size)
    BY <1>1, <1>3, <1>4, <1>5, <2>1
  <2>. QED
    BY <2>2 DEF b
<1>. QED
  BY <1>3, <1>6, <1>7

\* The logical block of an entry of an index block under the doubly indirect one.
LEMMA LeafOf ==
    ASSUME NEW v, NEW f \in Files, NEW a \in Cells, NEW b \in Cells, v.inode[f].dindirect # 0,
           v.disk[v.inode[f].dindirect][a] # 0, NEW m, m = NIndirect * a + b,
           NEW j, j = NDirect + NIndirect + m
    PROVE  /\ m \in Nat /\ j \in Logical
           /\ Path(v, f, j, v.disk[v.inode[f].dindirect][a], b)
<1>1. NIndirect \in Nat \ {0} /\ a \in 0 .. NIndirect - 1 /\ b \in 0 .. NIndirect - 1 /\ NDirect \in Nat
  BY Geometry
<1>2. NIndirect * a \in Nat
  BY <1>1
<1>3. m \in Nat
  BY <1>1, <1>2
<1>4. Outer(m) = a /\ Inner(m) = b
  <2>1. a \in Nat
    BY <1>1
  <2>2. m \div NIndirect = a /\ m % NIndirect = b
    BY <1>1, <2>1, DivUnique
  <2>. QED
    BY <2>2 DEF Outer, Inner
<1>5. m \in 0 .. NIndirect * NIndirect - 1
  <2>1. PICK d \in Nat : NIndirect = a + 1 + d
    <3>1. NIndirect - a - 1 \in Nat /\ NIndirect = a + 1 + (NIndirect - a - 1)
      BY <1>1
    <3>. QED
      BY <3>1
  <2>2. NIndirect * NIndirect = NIndirect * a + NIndirect + NIndirect * d /\ NIndirect * d \in Nat
    BY <1>1, <2>1
  <2>. DEFINE q == NIndirect * NIndirect
              p == NIndirect * a
              y == NIndirect * d
  <2>3. q = p + NIndirect + y /\ y \in Nat /\ p \in Nat /\ m = p + b /\ q \in Nat
    BY <1>1, <1>2, <2>2
  <2>. HIDE DEF q, p, y
  <2>4. m \in 0 .. q - 1
    BY <1>1, <2>3
  <2>. QED
    BY <2>4 DEF q
<1>6. j \in Logical
  <2>. DEFINE q == NIndirect * NIndirect
  <2>1. q \in Nat /\ MaxFileBlocks = NDirect + NIndirect + q /\ m \in 0 .. q - 1
    BY <1>1, <1>5, LogicalIs
  <2>. HIDE DEF q
  <2>. QED
    BY <1>1, <1>3, <2>1 DEF Logical
<1>7. j - NDirect - NIndirect = m
  BY <1>1, <1>3
<1>8. Path(v, f, j, v.disk[v.inode[f].dindirect][a], b)
  BY <1>4, <1>5, <1>7 DEF Path
<1>. QED
  BY <1>3, <1>6, <1>8

\* A file whose size covers its blocks frees them all.
LEMMA CoveredFreed ==
    ASSUME NEW v, Sound(v), Tidy(v, 0), NEW f \in Files, Covers(v, f)
    PROVE  /\ PointedTo(v, f) \subseteq Freed(v, f)
           /\ ~ReadsSuperBlock(v, f)
<1>. DEFINE in == v.inode[f]
            e == DoubleBlocks(v, f)
            D == v.disk[in.dindirect]
            direct == {in.block_nr[i] : i \in {i \in 0 .. NDirect - 1 : i < e + NDirect + NIndirect}}
            indirect == IF in.indirect = 0 THEN {}
                        ELSE {v.disk[in.indirect][i] : i \in {i \in Cells : i < e + NIndirect}}
                             \cup {in.indirect}
            U == UNION {FreedUnder(v, D[i], i, e) :
                        i \in {i \in Cells : D[i] > 0 /\ i * NIndirect < e}}
            double == IF e < 0 \/ in.dindirect = 0 THEN {} ELSE {in.dindirect} \cup U
            n == (in.size + B - 1) \div B
<1>1. Freed(v, f) = (direct \cup indirect \cup double) \ {0}
  BY DEF Freed
<1>2. /\ n \in Nat /\ in.size \in Nat /\ in.size \in Int
      /\ \A j \in Nat : j < n <=> B * j < in.size
  <2>1. in.size \in 0 .. MaxFileSize
    BY VolumeFields DEF Sound
  <2>2. in.size \in Nat
    <3>. HIDE DEF in
    <3>. QED
      BY <2>1
  <2>. QED
    BY <2>2, RoundUpIs
<1>3. NDirect \in Nat /\ NIndirect \in Nat \ {0} /\ Cells = 0 .. NIndirect - 1
  BY Geometry
<1>4. e = n - NDirect - NIndirect
  BY DEF DoubleBlocks
<1>5. ASSUME NEW j \in Logical, NEW s, NEW c, NEW x, Path(v, f, j, s, c), Points(v, f, s, c, x)
      PROVE  j < n
  <2>1. Physical(v, f, j) # 0
    BY <1>5, LeadsIs DEF Leads
  <2>2. B * j < in.size /\ j \in Nat
    BY <1>5, <2>1, LogicalIs DEF Covers
  <2>. HIDE DEF n, in
  <2>. QED
    BY <1>2, <2>2
<1>. HIDE DEF n, e
<1>6. ASSUME NEW a \in Cells, NEW b \in Cells, NEW x, in.dindirect # 0, D[a] # 0,
             Points(v, f, D[a], b, x)
      PROVE  NIndirect * a + b < e /\ a * NIndirect < e /\ ~(e < 0)
  <2>. DEFINE p == NIndirect * a
              m == p + b
              j == NDirect + NIndirect + m
  <2>1. m \in Nat /\ j \in Logical /\ Path(v, f, j, D[a], b)
    BY <1>6, LeafOf
  <2>2. j < n
    BY <1>5, <1>6, <2>1
  <2>3. p \in Nat /\ p = a * NIndirect
    BY <1>3
  <2>4. b \in Nat
    BY <1>3
  <2>5. p + b < e /\ p < e /\ ~(e < 0)
    <3>. HIDE DEF p
    <3>. QED
      BY <1>2, <1>3, <1>4, <2>2, <2>3, <2>4
  <2>. QED
    BY <2>3, <2>5
\* An index block under the doubly indirect one has an entry.
<1>7. ASSUME NEW a \in Cells, in.dindirect # 0, D[a] # 0
      PROVE  Index(v, f, D[a]) /\ D[a] > 0 /\ \E b \in Cells : \E x : Points(v, f, D[a], b, x)
  <2>1. Index(v, f, D[a]) /\ Index(v, f, in.dindirect)
    BY <1>7, PointsIn
  <2>2. PICK b, x : Points(v, f, D[a], b, x)
    BY <1>7, <2>1 DEF Tidy
  <2>3. D[a] # 0 /\ D[a] # -1 /\ D[a] # -2
    BY <2>1, IndexOwned
  <2>4. b \in Cells
    BY <2>2, <2>3 DEF Points
  <2>5. D[a] > 0
    BY <1>7, <2>1, IndexCells
  <2>. QED
    BY <2>1, <2>2, <2>4, <2>5
<1>8. in.dindirect # 0 => ~(e < 0)
  <2>. SUFFICES ASSUME in.dindirect # 0 PROVE ~(e < 0)
    OBVIOUS
  <2>1. Index(v, f, in.dindirect)
    BY PointsIn
  <2>2. PICK a, y : Points(v, f, in.dindirect, a, y)
    BY <2>1 DEF Tidy
  <2>3. a \in Cells /\ D[a] = y /\ y # 0
    <3>1. in.dindirect # -1 /\ in.dindirect # -2
      BY <2>1, IndexOwned
    <3>. QED
      BY <2>2, <3>1 DEF Points
  <2>4. \E b \in Cells : \E x : Points(v, f, D[a], b, x)
    BY <1>7, <2>3
  <2>. QED
    BY <1>6, <2>3, <2>4
<1>9. ASSUME NEW a \in Cells, NEW x, in.dindirect # 0, D[a] > 0, a * NIndirect < e,
             x \in FreedUnder(v, D[a], a, e)
      PROVE  x \in double
  <2>. DEFINE K == {i \in Cells : D[i] > 0 /\ i * NIndirect < e}
              F(i) == FreedUnder(v, D[i], i, e)
  <2>1. a \in K /\ x \in F(a)
    BY <1>9
  <2>2. (\E i \in K : x \in F(i)) => x \in U
    OBVIOUS
  <2>. HIDE DEF K, F, U, D, in
  <2>3. x \in U
    BY <2>1, <2>2
  <2>. QED
    BY <1>8, <1>9, <2>3 DEF in
<1>10. ASSUME NEW b, NEW c, NEW x, Points(v, f, b, c, x)
       PROVE  x # 0 /\ (x \in direct \/ x \in indirect \/ x \in double)
  <2>1. CASE b = 0 /\ c \in 0 .. NDirect - 1 /\ x = in.block_nr[c]
    <3>1. c \in Logical /\ Path(v, f, c, 0, c)
      <4>1. c \in Logical
        <5>. DEFINE q == NIndirect * NIndirect
        <5>1. q \in Nat /\ MaxFileBlocks = NDirect + NIndirect + q
          BY <1>3, LogicalIs
        <5>. HIDE DEF q
        <5>. QED
          BY <1>3, <2>1, <5>1 DEF Logical
      <4>. QED
        BY <2>1, <4>1 DEF Path
    <3>2. c < n
      BY <1>5, <1>10, <2>1, <3>1
    <3>3. c < e + NDirect + NIndirect
      BY <1>2, <1>3, <1>4, <2>1, <3>2
    <3>. QED
      BY <1>10, <2>1, <3>3 DEF Points
  <2>2. CASE b = -1 /\ x = in.indirect /\ x # 0
    BY <2>2
  <2>3. CASE b = -2 /\ x = in.dindirect /\ x # 0
    BY <1>8, <2>3
  <2>4. CASE Index(v, f, b) /\ c \in Cells /\ x = v.disk[b][c] /\ x # 0
    <3>1. CASE b = in.indirect
      <4>. DEFINE j == NDirect + c
      <4>1. j \in Logical /\ j - NDirect = c
        <5>. DEFINE q == NIndirect * NIndirect
        <5>1. q \in Nat /\ MaxFileBlocks = NDirect + NIndirect + q
          BY <1>3, LogicalIs
        <5>. HIDE DEF q
        <5>. QED
          BY <1>3, <2>4, <5>1 DEF Logical
      <4>2. b # 0
        BY <2>4 DEF Index
      <4>3. Path(v, f, j, b, c)
        BY <2>4, <3>1, <4>1, <4>2 DEF Path
      <4>4. j < n
        BY <1>5, <1>10, <4>1, <4>3
      <4>5. c < e + NIndirect
        BY <1>2, <1>3, <1>4, <2>4, <4>4
      <4>. QED
        BY <2>4, <3>1, <4>2, <4>5
    <3>2. CASE b = in.dindirect
      <4>1. in.dindirect # 0 /\ D[c] = x
        BY <2>4, <3>2 DEF Index
      <4>2. D[c] > 0 /\ \E d \in Cells : \E y : Points(v, f, D[c], d, y)
        BY <1>7, <2>4, <4>1
      <4>3. c * NIndirect < e
        BY <1>6, <2>4, <4>1, <4>2
      <4>4. x \in FreedUnder(v, D[c], c, e)
        BY <4>1 DEF FreedUnder
      <4>. QED
        BY <1>9, <2>4, <4>1, <4>2, <4>3, <4>4
    <3>3. ASSUME in.dindirect # 0, NEW a \in Cells, b = D[a] PROVE x \in double
      <4>1. D[a] # 0
        BY <2>4, <3>3 DEF Index
      <4>2. D[a] > 0
        BY <1>7, <3>3, <4>1
      <4>3. NIndirect * a + c < e /\ a * NIndirect < e
        BY <1>6, <1>10, <2>4, <3>3, <4>1
      <4>4. a * NIndirect + c < e
        <5>. DEFINE p == a * NIndirect
        <5>1. p = NIndirect * a
          BY <1>3
        <5>. HIDE DEF p
        <5>2. p + c < e
          BY <4>3, <5>1
        <5>. QED
          BY <5>2 DEF p
      <4>5. x \in FreedUnder(v, D[a], a, e)
        BY <2>4, <3>3, <4>4 DEF FreedUnder
      <4>. QED
        BY <1>9, <3>3, <4>2, <4>3, <4>5
    <3>4. b = in.indirect \/ b = in.dindirect \/ (in.dindirect # 0 /\ \E a \in Cells : b = D[a])
      BY <2>4 DEF Index
    <3>. HIDE DEF direct, indirect, double, in, D
    <3>. QED
      BY <2>4, <3>1, <3>2, <3>3, <3>4
  <2>5. \/ b = 0 /\ c \in 0 .. NDirect - 1 /\ x = in.block_nr[c]
        \/ b = -1 /\ x = in.indirect /\ x # 0
        \/ b = -2 /\ x = in.dindirect /\ x # 0
        \/ Index(v, f, b) /\ c \in Cells /\ x = v.disk[b][c] /\ x # 0
    BY <1>10 DEF Points
  <2>. HIDE DEF direct, indirect, double, in
  <2>. QED
    BY <2>1, <2>2, <2>3, <2>4, <2>5
<1>11. PointedTo(v, f) \subseteq Freed(v, f)
  <2>. HIDE DEF direct, indirect, double
  <2>. QED
    BY <1>1, <1>10, PointedToIs
<1>12. ~ReadsSuperBlock(v, f)
  <2>. SUFFICES ASSUME e > 0, in.dindirect = 0 PROVE FALSE
    BY DEF ReadsSuperBlock, e
  <2>. DEFINE z == n - 1
  <2>1. n > NDirect + NIndirect /\ z \in Nat /\ z < n /\ 0 < n
    BY <1>2, <1>3, <1>4
  <2>2. B * z < in.size /\ B * 0 < in.size
    BY <1>2, <2>1
  <2>3. B * 0 = 0
    BY <1>3, Geometry
  <2>4. PICK j \in Logical : Physical(v, f, j) # 0 /\ in.size <= B * j + B
    BY <1>2, <2>2, <2>3 DEF Covers
  <2>5. j \in Nat
    BY LogicalIs
  <2>6. B * z < B * j + B
    <3>. DEFINE a == B * z
                b == B * j
    <3>1. a \in Nat /\ b \in Nat /\ B \in Nat
      BY <1>3, <2>1, <2>5, Geometry
    <3>2. a < in.size /\ in.size <= b + B
      BY <2>2, <2>4
    <3>. HIDE DEF a, b, in, z
    <3>3. a < b + B
      BY <1>2, <3>1, <3>2
    <3>. QED
      BY <3>3 DEF a, b
  <2>7. z <= j
    BY <2>1, <2>5, <2>6, BlockOrder
  <2>8. j >= NDirect + NIndirect
    BY <1>2, <1>3, <2>1, <2>5, <2>7
  <2>9. \A s, c : ~Path(v, f, j, s, c)
    BY <1>3, <2>5, <2>8 DEF Path
  <2>10. Physical(v, f, j) = 0
    BY <2>9, PathIs
  <2>. QED
    BY <2>4, <2>10
<1>. QED
  BY <1>11, <1>12

LEMMA IInvRemoves == IInv => RemoveFreesAll
<1>. SUFFICES ASSUME IInv, status = "ok", NEW f \in Files \ failed
              PROVE  /\ MayRemove(fs, f) /\ ~ReadsSuperBlock(fs, f)
                     /\ Freed(fs, f) = PointedTo(fs, f)
  BY DEF RemoveFreesAll
<1>1. Sound(fs) /\ Tidy(fs, 0) /\ Covers(fs, f)
  BY DEF IInv, Volumes
<1>2. Freed(fs, f) = PointedTo(fs, f) /\ ~ReadsSuperBlock(fs, f)
  BY <1>1, CoveredFreed, FreedIn
<1>3. MayRemove(fs, f)
  BY <1>1, <1>2, PointedToCount DEF MayRemove, AllMarked
<1>. QED
  BY <1>2, <1>3

----------------------------------------------------------------------------
(* Theorems.                                                               *)

\* Whatever the geometry and the volume, testfs_alloc_block_for_inode gives
\* out no block beyond the volume, the counters of the super block and of the
\* inodes never exceed it or fall below zero, sizes stay below the greatest
\* size, and every pointer, even one that dangles, is a block number.
THEOREM BlocksTyped == Spec => []TypeOK
BY IInvAlways, IInvTypes, PTL

\* While nothing dangles, the allocator, the index blocks and the removal keep
\* every allocated block in exactly one place of one file, and every counter
\* equal to the number of blocks it counts.
THEOREM BlocksOwned == Spec => []BlocksOwnedOnce
BY IInvAlways, IInvOwned, PTL

\* testfs_read_data finds what testfs_write_data wrote, across direct, indirect
\* and doubly indirect blocks, from any offset and for any size, whatever was
\* written, refused or removed in between.
THEOREM WrittenIsRead == Spec => []ReadsBack
BY IInvAlways, IInvReads, PTL

\* testfs_remove_inode frees exactly the blocks of a file no write of which
\* failed: its assertions hold and it does not take the super block for an
\* index block.
THEOREM RemovalFreesAll == Spec => []RemoveFreesAll
BY IInvAlways, IInvRemoves, PTL
=============================================================================
