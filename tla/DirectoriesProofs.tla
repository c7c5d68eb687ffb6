------------------------- MODULE DirectoriesProofs -------------------------
(***************************************************************************)
(* Proofs about module Directories: for any names and volume, commands     *)
(* keep the links of the directories sound, every directory below the root *)
(* and the references of the inode table balanced, never take more of the  *)
(* volume than it has, and implement a tree of names.                      *)
(***************************************************************************)
EXTENDS Directories, ListProofs

EntryType == [name : AnyName, nr : Inodes \cup {Removed}]

Typed ==
    /\ type \in [Inodes -> {"none", "file", "dir"}] /\ type[NrInodes] = "none"
    /\ entries \in [Inodes -> Seq(EntryType)]
    /\ cwd \in Inodes
    /\ count \in [Inodes -> Int] /\ leaked \in [Inodes -> Int]

\* A directory begins with its dots, and no later entry has such a name.
IsDirectory(i, es) ==
    /\ Len(es) >= 2 /\ es[1] = Entry(".", i)
    /\ es[2].name = ".." /\ es[2].nr \in Inodes
    /\ \A k \in 3 .. Len(es) : es[k].name \in Names

Dotted ==
    \A i \in Inodes :
        /\ type[i] # "dir" => entries[i] = <<>>
        /\ type[i] = "dir" => IsDirectory(i, entries[i])

\* Place k of directory d has an entry that makes the tree.
Link(d, k) == d \in Inodes /\ k \in 3 .. Len(entries[d]) /\ Live(entries[d][k])
Target(d, k) == entries[d][k].nr

\* What is linked is in use, and a directory knows the directory it is in.
LinksToUsed ==
    \A d, k : Link(d, k) =>
        /\ type[Target(d, k)] # "none" /\ Target(d, k) # Root
        /\ type[Target(d, k)] = "dir" => entries[Target(d, k)][2].nr = d

LinkedOnce ==
    /\ \A d, k, e, l : Link(d, k) /\ Link(e, l) /\ Target(d, k) = Target(e, l) => d = e /\ k = l
    /\ \A i \in Inodes \ {Root} : type[i] # "none" => \E d, k : Link(d, k) /\ Target(d, k) = i

NamesDiffer ==
    \A d, k, l : Link(d, k) /\ Link(d, l) /\ entries[d][k].name = entries[d][l].name => k = l

\* The root and the current directory are directories.
Stands == type[Root] = "dir" /\ entries[Root][2].nr = Root /\ type[cwd] = "dir"

IInv == Typed /\ Dotted /\ LinksToUsed /\ LinkedOnce /\ NamesDiffer /\ Stands /\ RefsReturned

(***************************************************************************)
(* The operators.                                                          *)
(***************************************************************************)
LEMMA InodesAre == Inodes \subseteq Nat /\ Root \in Inodes /\ NrInodes \in Inodes /\ Removed \notin Inodes
  BY VolumeAssumption DEF Inodes, Root, Removed

\* The counts after inode_get, of one more reference on i.
LEMMA GotAdds ==
    ASSUME NEW c \in [Inodes -> Int], NEW i \in Inodes
    PROVE  /\ Got(c, i) \in [Inodes -> Int]
           /\ \A j \in Inodes : Got(c, i)[j] = c[j] + (IF j = i THEN 1 ELSE 0)
  BY DEF Got
LEMMA MinOf ==
    ASSUME NEW S \in SUBSET Nat, S # {}
    PROVE  Min(S) \in S /\ \A x \in S : Min(S) <= x
  BY LeastExists DEF Min

\* testfs_get_inode_freemap finds an inode that is not in use.
LEMMA FreeInodeIsFree ==
    ASSUME Typed
    PROVE  FreeInode \in Inodes /\ type[FreeInode] = "none"
<1>. DEFINE S == {i \in Inodes : type[i] = "none"}
<1>1. S \in SUBSET Nat /\ S # {}
  BY InodesAre DEF Typed
<1>. QED
  BY <1>1, MinOf DEF FreeInode

\* testfs_dir_name_to_inode_nr finds a live entry of the name, if there is one.
LEMMA LookupFinds ==
    ASSUME Typed, NEW d \in Inodes, NEW n
    PROVE  /\ Lookup(d, n) # Removed =>
                \E k \in 1 .. Len(entries[d]) :
                    /\ entries[d][k].name = n /\ entries[d][k].nr = Lookup(d, n)
                    /\ Live(entries[d][k]) /\ Lookup(d, n) \in Inodes
           /\ Lookup(d, n) = Removed =>
                \A k \in 1 .. Len(entries[d]) : Live(entries[d][k]) => entries[d][k].name # n
<1>. DEFINE found == {k \in DOMAIN entries[d] : Live(entries[d][k]) /\ entries[d][k].name = n}
<1>1. entries[d] \in Seq(EntryType) /\ DOMAIN entries[d] = 1 .. Len(entries[d])
  BY DEF Typed
<1>2. CASE found = {}
  BY <1>1, <1>2 DEF Lookup
<1>3. CASE found # {}
  <2>1. found \in SUBSET Nat
    BY <1>1
  <2>2. PICK k \in found : k = Min(found)
    BY <1>3, <2>1, MinOf
  <2>3. Lookup(d, n) = entries[d][k].nr
    BY <1>3, <2>2 DEF Lookup
  <2>4. k \in 1 .. Len(entries[d]) /\ Live(entries[d][k]) /\ entries[d][k].name = n
    BY <1>1
  <2>5. entries[d][k] \in EntryType
    BY <1>1, <2>4
  <2>6. entries[d][k].nr \in Inodes \cup {Removed}
    BY <2>5 DEF EntryType
  <2>. QED
    BY <2>3, <2>4, <2>6 DEF Live
<1>. QED
  BY <1>2, <1>3

\* testfs_add_dirent writes one entry, at the end or over a removed one.
LEMMA WithEffect ==
    ASSUME NEW d \in Inodes, NEW es \in Seq(EntryType), IsDirectory(d, es),
           NEW n \in Names, NEW i \in Inodes
    PROVE  LET s == Slot(es, n)  new == With(es, n, i) IN
           /\ new \in Seq(EntryType)
           /\ s \in 3 .. Len(new) /\ Len(es) <= Len(new) /\ new[s] = Entry(n, i)
           /\ \A k \in 1 .. Len(new) : k # s => k \in 1 .. Len(es) /\ new[k] = es[k]
           /\ s \in 1 .. Len(es) => ~Live(es[s])
<1>. DEFINE s == Slot(es, n)
            new == With(es, n, i)
            R == Reusable(es, n)
            L == Len(es)
<1>1. L \in Nat /\ L >= 2 /\ DOMAIN es = 1 .. L
  BY DEF IsDirectory
<1>2. Entry(n, i) \in EntryType
  BY DEF Entry, EntryType, AnyName
<1>3. R \subseteq 3 .. L /\ \A k \in R : ~Live(es[k])
  <2>1. Live(es[1]) /\ Live(es[2])
    BY InodesAre DEF IsDirectory, Live, Entry
  <2>. QED
    BY <1>1, <2>1 DEF Reusable
<1>4. s \in R \cup {L + 1}
  <2>1. R \cup {L + 1} \in SUBSET Nat /\ R \cup {L + 1} # {}
    BY <1>1, <1>3
  <2>. QED
    BY <2>1, MinOf DEF Slot
<1>5. new = IF s > L THEN Append(es, Entry(n, i)) ELSE [es EXCEPT ![s] = Entry(n, i)]
  BY DEF With
<1>. HIDE DEF s, R, new, L
<1>. DEFINE Effect == /\ new \in Seq(EntryType)
                      /\ s \in 3 .. Len(new) /\ L <= Len(new) /\ new[s] = Entry(n, i)
                      /\ \A k \in 1 .. Len(new) : k # s => k \in 1 .. L /\ new[k] = es[k]
                      /\ s \in 1 .. L => ~Live(es[s])
<1>6. ASSUME s = L + 1 PROVE Effect
  <2>1. new = Append(es, Entry(n, i))
    BY <1>1, <1>5, <1>6
  <2>2. /\ new \in Seq(EntryType) /\ Len(new) = L + 1 /\ new[L + 1] = Entry(n, i)
        /\ \A k \in 1 .. L : new[k] = es[k]
    BY <1>2, <2>1, AppendProperties DEF L
  <2>3. s \notin 1 .. L /\ s \in 3 .. Len(new)
    BY <1>1, <1>6, <2>2
  <2>4. \A k \in 1 .. Len(new) : k # s => k \in 1 .. L
    BY <1>1, <1>6, <2>2
  <2>. QED
    BY <1>1, <1>6, <2>2, <2>3, <2>4
<1>7. ASSUME s \in R PROVE Effect
  <2>1. s \in 3 .. L /\ ~Live(es[s])
    BY <1>3, <1>7
  <2>2. new = [es EXCEPT ![s] = Entry(n, i)]
    BY <1>1, <1>5, <2>1
  <2>3. s \in 1 .. L
    BY <1>1, <2>1
  <2>4. /\ new \in Seq(EntryType) /\ Len(new) = L
        /\ \A k \in 1 .. L : new[k] = IF k = s THEN Entry(n, i) ELSE es[k]
    BY <1>2, <2>2, <2>3, ExceptSeq DEF L
  <2>. QED
    BY <1>1, <2>1, <2>3, <2>4
<1>8. Effect
  BY <1>4, <1>6, <1>7
<1>. QED
  BY <1>8 DEF s, new, L

\* testfs_remove_dirent marks the entry that was found.
LEMMA UnlinkEffect ==
    ASSUME Typed, NEW d \in Inodes, IsDirectory(d, entries[d]),
           NEW n \in Names, Lookup(d, n) # Removed
    PROVE  LET es == entries[d]  i == Lookup(d, n)  u == Unlink(es, n, i) IN
           \E p \in 3 .. Len(es) :
               /\ es[p] = Entry(n, i) /\ Live(es[p]) /\ i \in Inodes
               /\ u \in Seq(EntryType) /\ Len(u) = Len(es)
               /\ \A k \in 1 .. Len(es) : u[k] = IF k = p THEN Entry(n, Removed) ELSE es[k]
<1>. DEFINE es == entries[d]
            i == Lookup(d, n)
            I == {j \in 1 .. Len(es) : es[j] = Entry(n, i)}
<1>1. es \in Seq(EntryType) /\ Len(es) \in Nat /\ Len(es) >= 2
  BY DEF Typed, IsDirectory
<1>2. PICK k \in 1 .. Len(es) : es[k].name = n /\ es[k].nr = i /\ Live(es[k]) /\ i \in Inodes
  BY LookupFinds
<1>. HIDE DEF i
<1>3. es[k] = Entry(n, i)
  <2>1. es[k] \in EntryType
    BY <1>1
  <2>. QED
    BY <1>2, <2>1 DEF EntryType, Entry
<1>4. I \in SUBSET Nat /\ I # {}
  BY <1>1, <1>3
<1>5. PICK p \in I : p = Min(I)
  BY <1>4, MinOf
<1>6. SelectInSeq(es, LAMBDA e : e = Entry(n, i)) = p
  BY <1>4, <1>5 DEF SelectInSeq
<1>7. p \in 1 .. Len(es) /\ es[p] = Entry(n, i)
  OBVIOUS
<1>8. p \in 3 .. Len(es)
  <2>1. n # "." /\ n # ".."
    BY NamesAssumption
  <2>2. es[1].name = "." /\ es[2].name = ".." /\ es[p].name = n
    BY <1>7 DEF IsDirectory, Entry
  <2>3. p # 1 /\ p # 2
    BY <2>1, <2>2
  <2>. QED
    BY <1>1, <1>7, <2>3
<1>9. Live(es[p])
  BY <1>2, <1>3, <1>7
<1>10. Unlink(es, n, i) = [es EXCEPT ![p].nr = Removed]
  BY <1>6 DEF Unlink
<1>11. [es[p] EXCEPT !.nr = Removed] = Entry(n, Removed)
  BY <1>7 DEF Entry
<1>12. Unlink(es, n, i) = [es EXCEPT ![p] = Entry(n, Removed)]
  BY <1>10, <1>11
<1>13. Entry(n, Removed) \in EntryType
  BY DEF Entry, EntryType, AnyName
<1>14. /\ Unlink(es, n, i) \in Seq(EntryType) /\ Len(Unlink(es, n, i)) = Len(es)
       /\ \A j \in 1 .. Len(es) :
             Unlink(es, n, i)[j] = IF j = p THEN Entry(n, Removed) ELSE es[j]
  BY <1>1, <1>7, <1>12, <1>13, ExceptSeq
<1>. QED
  BY <1>2, <1>7, <1>8, <1>9, <1>14 DEF i

(***************************************************************************)
(* The commands.                                                           *)
(***************************************************************************)
Sound == Dotted /\ LinksToUsed /\ LinkedOnce /\ NamesDiffer

LEMMA SoundStays ==
    ASSUME Sound, UNCHANGED <<type, entries>>
    PROVE  Sound'
  BY DEF Sound, Dotted, LinksToUsed, LinkedOnce, NamesDiffer, Link, Target

\* The changes of a command that adds n to the current directory, for inode i.
Added(n, kind, i, s) ==
    /\ i \in Inodes \ {NrInodes, Root, cwd} /\ type[i] = "none"
    /\ type' = [type EXCEPT ![i] = kind]
    /\ entries' \in [Inodes -> Seq(EntryType)]
    /\ \A j \in Inodes \ {i, cwd} : entries'[j] = entries[j]
    /\ entries'[i] = IF kind = "dir" THEN Dots(i, cwd) ELSE <<>>
    /\ entries'[cwd] \in Seq(EntryType)
    /\ s \in 3 .. Len(entries'[cwd]) /\ Len(entries[cwd]) <= Len(entries'[cwd])
    /\ entries'[cwd][s] = Entry(n, i)
    /\ \A k \in 1 .. Len(entries'[cwd]) :
          k # s => k \in 1 .. Len(entries[cwd]) /\ entries'[cwd][k] = entries[cwd][k]
    /\ s \in 1 .. Len(entries[cwd]) => ~Live(entries[cwd][s])
    /\ \A k \in 1 .. Len(entries[cwd]) : Live(entries[cwd][k]) => entries[cwd][k].name # n
    /\ UNCHANGED <<written, cwd, count, leaked, status>>

\* The entry of the new name comes after the two entries of the dots.
LEMMA AddedPlace ==
    ASSUME IInv, NEW n, NEW kind, NEW i, NEW s, Added(n, kind, i, s)
    PROVE  /\ IsDirectory(cwd, entries[cwd]) /\ Len(entries[cwd]) \in Nat
           /\ Len(entries'[cwd]) \in Nat /\ Len(entries'[cwd]) >= 2
           /\ s # 1 /\ s # 2 /\ 1 \in 1 .. Len(entries'[cwd]) /\ 2 \in 1 .. Len(entries'[cwd])
<1>1. IsDirectory(cwd, entries[cwd]) /\ cwd \in Inodes /\ entries[cwd] \in Seq(EntryType)
  BY DEF IInv, Stands, Dotted, Typed
<1>2. Len(entries[cwd]) \in Nat /\ Len(entries[cwd]) >= 2
  BY <1>1 DEF IsDirectory
<1>3. /\ entries'[cwd] \in Seq(EntryType) /\ Len(entries[cwd]) <= Len(entries'[cwd])
      /\ s \in 3 .. Len(entries'[cwd])
  BY DEF Added
<1>4. Len(entries'[cwd]) \in Nat
  BY <1>3
<1>. QED
  BY <1>1, <1>2, <1>3, <1>4
LEMMA DotsTyped ==
    ASSUME NEW i \in Inodes, NEW d \in Inodes
    PROVE  Dots(i, d) \in Seq(EntryType) /\ <<>> \in Seq(EntryType)
<1>1. Entry(".", i) \in EntryType /\ Entry("..", d) \in EntryType
  BY DEF Entry, EntryType, AnyName
<1>. QED
  BY <1>1 DEF Dots

LEMMA TargetIsInode ==
    ASSUME Typed, NEW d, NEW k, Link(d, k)
    PROVE  Target(d, k) \in Inodes /\ k \in 1 .. Len(entries[d])
<1>1. entries[d] \in Seq(EntryType) /\ k \in 1 .. Len(entries[d])
  BY DEF Typed, Link
<1>2. entries[d][k] \in EntryType
  BY <1>1
<1>. QED
  BY <1>1, <1>2 DEF EntryType, Link, Live, Target

LEMMA CreateAdds ==
    ASSUME IInv, NEW n \in AnyName, NEW kind \in {"file", "dir"}, Create(n, kind)
    PROVE  \/ UNCHANGED <<type, entries, cwd, count, leaked>>
           \/ n \in Names /\ \E i, s : Added(n, kind, i, s)
<1>. DEFINE i == FreeInode
            new == With(entries[cwd], n, i)
            s == Slot(entries[cwd], n)
<1>1. CASE UNCHANGED <<type, entries, cwd, count, leaked>>
  BY <1>1
<1>2. CASE /\ Lookup(cwd, n) = Removed /\ ~NoInode
           /\ type' = [type EXCEPT ![i] = kind]
           /\ entries' = [entries EXCEPT ![cwd] = new,
                                         ![i] = IF kind = "dir" THEN Dots(i, cwd) ELSE <<>>]
           /\ UNCHANGED <<written, cwd, count, leaked, status>>
  <2>1. i \in Inodes /\ type[i] = "none"
    BY FreeInodeIsFree DEF IInv
  <2>2. i # NrInodes /\ i # Root /\ i # cwd /\ cwd \in Inodes
    <3>1. i < NrInodes /\ i \in Nat
      BY <1>2, <2>1, InodesAre DEF NoInode
    <3>2. type[Root] = "dir" /\ type[cwd] = "dir" /\ cwd \in Inodes
      BY DEF IInv, Stands, Typed
    <3>. QED
      BY <2>1, <3>1, <3>2
  <2>3. entries[cwd] \in Seq(EntryType) /\ IsDirectory(cwd, entries[cwd])
    BY <2>2 DEF IInv, Typed, Stands, Dotted
  <2>4. \A k \in 1 .. Len(entries[cwd]) : Live(entries[cwd][k]) => entries[cwd][k].name # n
    BY <1>2, <2>2, LookupFinds DEF IInv
  <2>5. n \in Names
    <3>1. Live(entries[cwd][1]) /\ Live(entries[cwd][2])
      BY <2>2, <2>3, InodesAre DEF IsDirectory, Live, Entry
    <3>2. entries[cwd][1].name = "." /\ entries[cwd][2].name = ".." /\ Len(entries[cwd]) >= 2
          /\ Len(entries[cwd]) \in Nat
      BY <2>3 DEF IsDirectory, Entry
    <3>3. 1 \in 1 .. Len(entries[cwd]) /\ 2 \in 1 .. Len(entries[cwd])
      BY <3>2
    <3>. QED
      BY <2>4, <3>1, <3>2, <3>3 DEF AnyName
  <2>6. /\ new \in Seq(EntryType)
        /\ s \in 3 .. Len(new) /\ Len(entries[cwd]) <= Len(new) /\ new[s] = Entry(n, i)
        /\ \A k \in 1 .. Len(new) :
              k # s => k \in 1 .. Len(entries[cwd]) /\ new[k] = entries[cwd][k]
        /\ s \in 1 .. Len(entries[cwd]) => ~Live(entries[cwd][s])
    BY <2>1, <2>2, <2>3, <2>5, WithEffect
  <2>. HIDE DEF i, new, s
  <2>7. /\ entries'[cwd] = new
        /\ entries'[i] = IF kind = "dir" THEN Dots(i, cwd) ELSE <<>>
        /\ \A j \in Inodes \ {i, cwd} : entries'[j] = entries[j]
    BY <1>2, <2>1, <2>2 DEF IInv, Typed
  <2>8. entries' \in [Inodes -> Seq(EntryType)]
    <3>1. Dots(i, cwd) \in Seq(EntryType) /\ <<>> \in Seq(EntryType)
      BY <2>1, <2>2, DotsTyped
    <3>. QED
      BY <1>2, <2>6, <3>1 DEF IInv, Typed
  <2>9. Added(n, kind, i, s)
    BY <1>2, <2>1, <2>2, <2>4, <2>6, <2>7, <2>8 DEF Added
  <2>. QED
    BY <2>5, <2>9
<1>. QED
  BY <1>1, <1>2 DEF Create, vars

\* It adds a link to i and changes no other.
LEMMA AddedLinks ==
    ASSUME IInv, NEW n \in Names, NEW kind \in {"file", "dir"}, NEW i, NEW s,
           Added(n, kind, i, s)
    PROVE  /\ \A d, k : Link(d, k)' <=> Link(d, k) \/ (d = cwd /\ k = s)
           /\ ~Link(cwd, s) /\ entries'[cwd][s] = Entry(n, i) /\ cwd \in Inodes
           /\ \A d, k : Link(d, k) => /\ entries'[d][k] = entries[d][k]
                                      /\ d # i /\ Target(d, k) # i
<1>1. i \in Inodes /\ i # cwd /\ type[i] = "none" /\ cwd \in Inodes
  BY DEF Added, IInv, Typed
<1>2. entries[i] = <<>>
  BY <1>1 DEF IInv, Dotted
<1>3. \A k : ~Link(i, k) /\ ~Link(i, k)'
  <2>1. Len(entries[i]) = 0 /\ Len(entries'[i]) \in {0, 2}
    BY <1>2 DEF Added, Dots
  <2>. QED
    BY <2>1 DEF Link
<1>4. \A d, k : Link(d, k) => Target(d, k) # i
  BY <1>1 DEF IInv, LinksToUsed
<1>5. \A d, k : d \notin {i, cwd} => (Link(d, k)' <=> Link(d, k)) /\ (d \in Inodes => entries'[d] = entries[d])
  BY DEF Added, Link
<1>6. /\ ~Link(cwd, s) /\ entries'[cwd][s] = Entry(n, i)
      /\ \A d : d = cwd => Link(d, s)'
  <2>1. Len(entries[cwd]) \in Nat
    BY <1>1 DEF IInv, Typed
  <2>2. i # Removed
    BY <1>1, InodesAre
  <2>. QED
    BY <1>1, <2>1, <2>2 DEF Added, Link, Live, Entry
<1>7. ASSUME NEW k, k # s
      PROVE  (\A d : d = cwd => (Link(d, k)' <=> Link(cwd, k))) /\ (Link(cwd, k) => entries'[cwd][k] = entries[cwd][k])
  <2>1. Len(entries[cwd]) \in Nat /\ Len(entries'[cwd]) \in Nat /\ Len(entries[cwd]) <= Len(entries'[cwd])
    BY <1>1 DEF IInv, Typed, Added
  <2>2. k \in 3 .. Len(entries'[cwd]) => k \in 3 .. Len(entries[cwd]) /\ entries'[cwd][k] = entries[cwd][k]
    BY <1>7, <2>1 DEF Added
  <2>3. k \in 3 .. Len(entries[cwd]) => k \in 3 .. Len(entries'[cwd])
    BY <2>1
  <2>4. cwd' = cwd
    BY DEF Added
  <2>. QED
    BY <2>2, <2>3, <2>4 DEF Link
<1>8. ASSUME NEW d, NEW k
      PROVE  /\ Link(d, k)' <=> Link(d, k) \/ (d = cwd /\ k = s)
             /\ Link(d, k) => entries'[d][k] = entries[d][k] /\ d # i
  <2>1. CASE d = i
    BY <1>1, <1>3, <2>1
  <2>2. CASE d = cwd /\ k = s
    BY <1>6, <2>2
  <2>3. CASE d = cwd /\ k # s
    BY <1>1, <1>7, <2>3
  <2>4. CASE d \notin {i, cwd}
    BY <1>5, <2>4 DEF Link
  <2>. QED
    BY <2>1, <2>2, <2>3, <2>4
<1>. QED
  BY <1>1, <1>4, <1>6, <1>8

LEMMA AddedSound ==
    ASSUME IInv, NEW n \in Names, NEW kind \in {"file", "dir"}, NEW i, NEW s,
           Added(n, kind, i, s)
    PROVE  Typed' /\ Sound' /\ Stands'
<1>1. /\ i \in Inodes \ {NrInodes, Root, cwd} /\ type[i] = "none" /\ cwd \in Inodes /\ cwd' = cwd
      /\ type' = [type EXCEPT ![i] = kind]
      /\ \A j \in Inodes \ {i, cwd} : entries'[j] = entries[j]
      /\ entries'[i] = IF kind = "dir" THEN Dots(i, cwd) ELSE <<>>
  BY DEF Added, IInv, Typed
<1>2. /\ \A d, k : Link(d, k)' <=> Link(d, k) \/ (d = cwd /\ k = s)
      /\ ~Link(cwd, s) /\ entries'[cwd][s] = Entry(n, i)
      /\ \A d, k : Link(d, k) => /\ entries'[d][k] = entries[d][k]
                                 /\ d # i /\ Target(d, k) # i
  BY AddedLinks
<1>3. \A d, k : Link(d, k) => Target(d, k)' = Target(d, k)
  BY <1>2 DEF Target
<1>4. \A d : d = cwd => Target(d, s)' = i
  BY <1>1, <1>2 DEF Target, Entry
<1>5. \A j \in Inodes : type'[j] = IF j = i THEN kind ELSE type[j]
  BY <1>1 DEF IInv, Typed
<1>6. Typed'
  <2>1. entries' \in [Inodes -> Seq(EntryType)] /\ UNCHANGED <<count, leaked>>
    BY DEF Added
  <2>2. /\ type \in [Inodes -> {"none", "file", "dir"}] /\ type[NrInodes] = "none"
        /\ count \in [Inodes -> Int] /\ leaked \in [Inodes -> Int]
    BY DEF IInv, Typed
  <2>3. type' \in [Inodes -> {"none", "file", "dir"}] /\ type'[NrInodes] = "none"
    BY <1>1, <2>2, InodesAre
  <2>. QED
    BY <1>1, <2>1, <2>2, <2>3 DEF Typed
<1>7. Dotted'
  <2>. SUFFICES ASSUME NEW j \in Inodes
                PROVE  /\ type'[j] # "dir" => entries'[j] = <<>>
                       /\ type'[j] = "dir" => IsDirectory(j, entries'[j])
    BY DEF Dotted, IsDirectory
  <2>1. CASE j = i
    <3>1. IsDirectory(i, Dots(i, cwd))
      BY <1>1 DEF IsDirectory, Dots, Entry
    <3>. QED
      BY <1>1, <1>5, <2>1, <3>1
  <2>2. CASE j = cwd
    <3>1. type'[j] = "dir" /\ IsDirectory(j, entries[j]) /\ Len(entries[j]) \in Nat
      BY <1>1, <1>5, <2>2 DEF IInv, Stands, Dotted, Typed
    <3>2. Len(entries'[j]) \in Nat /\ Len(entries'[j]) >= 2
      BY <1>1, <2>2, <3>1 DEF Added, IsDirectory
    <3>3. entries'[j][1] = entries[j][1] /\ entries'[j][2] = entries[j][2]
      <4>1. 1 \in 1 .. Len(entries'[j]) /\ 2 \in 1 .. Len(entries'[j]) /\ s # 1 /\ s # 2
        BY <3>2, <2>2 DEF Added
      <4>. QED
        BY <4>1, <2>2 DEF Added
    <3>4. \A k \in 3 .. Len(entries'[j]) : entries'[j][k].name \in Names
      <4>. SUFFICES ASSUME NEW k \in 3 .. Len(entries'[j]) PROVE entries'[j][k].name \in Names
        OBVIOUS
      <4>1. CASE k = s
        BY <1>2, <2>2, <4>1 DEF Entry
      <4>2. CASE k # s
        <5>1. k \in 3 .. Len(entries[j]) /\ entries'[j][k] = entries[j][k]
          BY <2>2, <3>1, <3>2, <4>2 DEF Added
        <5>. QED
          BY <3>1, <5>1 DEF IsDirectory
      <4>. QED
        BY <4>1, <4>2
    <3>. QED
      BY <3>1, <3>2, <3>3, <3>4 DEF IsDirectory
  <2>3. CASE j # i /\ j # cwd
    BY <1>1, <1>5, <2>3 DEF IInv, Dotted
  <2>. QED
    BY <2>1, <2>2, <2>3
<1>8. \A j \in Inodes : type[j] = "dir" => entries'[j][2] = entries[j][2]
  <2>1. s # 2 /\ 2 \in 1 .. Len(entries'[cwd])
    BY AddedPlace
  <2>2. entries'[cwd][2] = entries[cwd][2]
    BY <2>1 DEF Added
  <2>3. \A j \in Inodes : type[j] = "dir" => j # i
    BY <1>1
  <2>. QED
    BY <1>1, <2>2, <2>3
<1>9. LinksToUsed'
  <2>. SUFFICES ASSUME NEW d, NEW k, Link(d, k)'
                PROVE  /\ type'[Target(d, k)'] # "none" /\ Target(d, k)' # Root
                       /\ type'[Target(d, k)'] = "dir" => entries'[Target(d, k)'][2].nr = d
    BY DEF LinksToUsed
  <2>1. CASE Link(d, k)
    <3>1. Target(d, k)' = Target(d, k) /\ Target(d, k) # i
      BY <1>2, <1>3, <2>1
    <3>2. Target(d, k) \in Inodes
      BY <2>1, TargetIsInode DEF IInv
    <3>. QED
      BY <1>5, <1>8, <2>1, <3>1, <3>2 DEF IInv, LinksToUsed
  <2>2. CASE d = cwd /\ k = s
    BY <1>1, <1>4, <1>5, <2>2 DEF Dots, Entry
  <2>. QED
    BY <1>2, <2>1, <2>2
<1>10. LinkedOnce'
  <2>1. ASSUME NEW d, NEW k, NEW e, NEW l, Link(d, k)', Link(e, l)', Target(d, k)' = Target(e, l)'
        PROVE  d = e /\ k = l
    <3>1. CASE Link(d, k) /\ Link(e, l)
      <4>1. Target(d, k) = Target(e, l)
        BY <1>3, <2>1, <3>1
      <4>. QED
        BY <3>1, <4>1 DEF IInv, LinkedOnce
    <3>2. CASE d = cwd /\ k = s /\ Link(e, l)
      BY <1>2, <1>3, <1>4, <2>1, <3>2
    <3>3. CASE Link(d, k) /\ e = cwd /\ l = s
      BY <1>2, <1>3, <1>4, <2>1, <3>3
    <3>. QED
      BY <1>2, <2>1, <3>1, <3>2, <3>3
  <2>2. ASSUME NEW j \in Inodes \ {Root}, type'[j] # "none"
        PROVE  \E d, k : Link(d, k)' /\ Target(d, k)' = j
    <3>1. CASE j = i
      BY <1>2, <1>4, <3>1
    <3>2. CASE j # i
      <4>1. PICK d, k : Link(d, k) /\ Target(d, k) = j
        BY <1>5, <2>2, <3>2 DEF IInv, LinkedOnce
      <4>. QED
        BY <1>2, <1>3, <4>1
    <3>. QED
      BY <3>1, <3>2
  <2>. QED
    BY <2>1, <2>2 DEF LinkedOnce
<1>11. NamesDiffer'
  <2>1. \A k : Link(cwd, k) => entries[cwd][k].name # n
    <3>1. \A k \in 3 .. Len(entries[cwd]) : k \in 1 .. Len(entries[cwd])
      BY <1>1 DEF IInv, Typed
    <3>. QED
      BY <3>1 DEF Added, Link
  <2>2. entries'[cwd][s].name = n
    BY <1>2 DEF Entry
  <2>. QED
    BY <1>2, <2>1, <2>2 DEF IInv, NamesDiffer
<1>12. Stands'
  <2>1. type[Root] = "dir" /\ Root \in Inodes /\ type[cwd] = "dir"
    BY InodesAre DEF IInv, Stands
  <2>. QED
    BY <1>1, <1>5, <1>8, <2>1 DEF IInv, Stands
<1>. QED
  BY <1>6, <1>7, <1>9, <1>10, <1>11, <1>12 DEF Sound

\* The changes of a command that takes place p, with n for i, out of the
\* current directory.
Dropped(n, i, p) ==
    /\ i \in Inodes \ {Root, cwd} /\ \A k : ~Link(i, k)
    /\ Link(cwd, p) /\ entries[cwd][p] = Entry(n, i)
    /\ type' = [type EXCEPT ![i] = "none"]
    /\ entries' \in [Inodes -> Seq(EntryType)]
    /\ \A j \in Inodes \ {i, cwd} : entries'[j] = entries[j]
    /\ entries'[i] = <<>>
    /\ Len(entries'[cwd]) = Len(entries[cwd])
    /\ \A k \in 1 .. Len(entries[cwd]) :
          entries'[cwd][k] = IF k = p THEN Entry(n, Removed) ELSE entries[cwd][k]
    /\ UNCHANGED <<cwd, count, leaked, status>>

LEMMA RemoveDrops ==
    ASSUME IInv, NEW n \in AnyName, RemoveEntry(n)
    PROVE  n \in Names /\ \E i, p : Dropped(n, i, p)
<1>. DEFINE i == Lookup(cwd, n)
            u == Unlink(entries[cwd], n, i)
<1>1. /\ n \in Names /\ i # Removed
      /\ type[i] = "dir" => Vacant(i)
      /\ type' = [type EXCEPT ![i] = "none"]
      /\ entries' = [entries EXCEPT ![cwd] = u, ![i] = <<>>]
      /\ UNCHANGED <<cwd, count, leaked, status>>
  BY DEF RemoveEntry, AnyName
<1>2. /\ cwd \in Inodes /\ entries[cwd] \in Seq(EntryType) /\ IsDirectory(cwd, entries[cwd])
      /\ type[cwd] = "dir"
  BY DEF IInv, Typed, Stands, Dotted
<1>3. PICK p \in 3 .. Len(entries[cwd]) :
          /\ entries[cwd][p] = Entry(n, i) /\ Live(entries[cwd][p]) /\ i \in Inodes
          /\ u \in Seq(EntryType) /\ Len(u) = Len(entries[cwd])
          /\ \A k \in 1 .. Len(entries[cwd]) :
                u[k] = IF k = p THEN Entry(n, Removed) ELSE entries[cwd][k]
  BY <1>1, <1>2, UnlinkEffect DEF IInv
<1>. HIDE DEF i, u
<1>4. Link(cwd, p) /\ Target(cwd, p) = i
  BY <1>2, <1>3 DEF Link, Target, Entry
<1>5. i # Root
  BY <1>4 DEF IInv, LinksToUsed
<1>6. n \notin {".", ".."} /\ Len(entries[cwd]) \in Nat
  BY <1>1, <1>2, NamesAssumption
<1>7. i # cwd
  <2>1. p \in DOMAIN entries[cwd] /\ entries[cwd][p].name = n
    BY <1>2, <1>3, <1>6 DEF Entry
  <2>. QED
    BY <1>1, <1>2, <1>3, <1>6, <2>1 DEF Vacant
<1>8. ASSUME NEW k PROVE ~Link(i, k)
  <2>1. CASE type[i] # "dir"
    BY <1>3, <2>1 DEF IInv, Dotted, Link
  <2>2. CASE type[i] = "dir"
    <3>1. entries[i] \in Seq(EntryType) /\ IsDirectory(i, entries[i]) /\ Vacant(i)
      BY <1>1, <1>3, <2>2 DEF IInv, Typed, Dotted
    <3>2. ASSUME k \in 3 .. Len(entries[i]) PROVE k \in DOMAIN entries[i] /\ entries[i][k].name \in Names
      BY <3>1, <3>2 DEF IsDirectory
    <3>. QED
      BY <3>1, <3>2, NamesAssumption DEF Link, Vacant
  <2>. QED
    BY <2>1, <2>2
<1>9. /\ entries' \in [Inodes -> Seq(EntryType)]
      /\ \A j \in Inodes \ {i, cwd} : entries'[j] = entries[j]
      /\ entries'[i] = <<>> /\ entries'[cwd] = u
  <2>1. <<>> \in Seq(EntryType)
    BY <1>2, DotsTyped
  <2>. QED
    BY <1>1, <1>2, <1>3, <1>7, <2>1 DEF IInv, Typed
<1>10. Dropped(n, i, p)
  BY <1>1, <1>3, <1>4, <1>5, <1>7, <1>8, <1>9 DEF Dropped
<1>. QED
  BY <1>1, <1>10

\* It takes the only link to i and changes no other.
LEMMA DroppedLinks ==
    ASSUME IInv, NEW n \in Names, NEW i, NEW p, Dropped(n, i, p)
    PROVE  /\ \A d, k : Link(d, k)' <=> Link(d, k) /\ ~(d = cwd /\ k = p)
           /\ Target(cwd, p) = i /\ cwd \in Inodes
           /\ \A d, k : Link(d, k)' => /\ entries'[d][k] = entries[d][k]
                                       /\ d # i /\ Target(d, k) # i
<1>1. i \in Inodes /\ i # cwd /\ cwd \in Inodes /\ cwd' = cwd /\ Target(cwd, p) = i
  BY DEF Dropped, IInv, Typed, Target, Entry
<1>2. \A k : ~Link(i, k) /\ ~Link(i, k)'
  BY <1>1 DEF Dropped, Link
<1>3. ASSUME NEW d, NEW k
      PROVE  /\ Link(d, k)' <=> Link(d, k) /\ ~(d = cwd /\ k = p)
             /\ Link(d, k)' => entries'[d][k] = entries[d][k] /\ d # i
  <2>1. CASE d = i
    BY <1>2, <2>1
  <2>2. CASE d = cwd
    <3>1. Len(entries'[cwd]) = Len(entries[cwd]) /\ Len(entries[cwd]) \in Nat
      BY <1>1 DEF Dropped, IInv, Typed
    <3>2. k \in 3 .. Len(entries[cwd]) =>
             entries'[cwd][k] = IF k = p THEN Entry(n, Removed) ELSE entries[cwd][k]
      BY <3>1 DEF Dropped
    <3>. QED
      BY <1>1, <2>2, <3>1, <3>2 DEF Link, Live, Entry
  <2>3. CASE d \notin {i, cwd}
    <3>1. d \in Inodes => entries'[d] = entries[d]
      BY <2>3 DEF Dropped
    <3>. QED
      BY <2>3, <3>1 DEF Link
  <2>. QED
    BY <2>1, <2>2, <2>3
<1>4. ASSUME NEW d, NEW k, Link(d, k)' PROVE Target(d, k) # i
  <2>1. Link(d, k) /\ ~(d = cwd /\ k = p)
    BY <1>3, <1>4
  <2>. QED
    BY <1>1, <2>1 DEF IInv, LinkedOnce, Dropped
<1>. QED
  BY <1>1, <1>3, <1>4

LEMMA DroppedSound ==
    ASSUME IInv, NEW n \in Names, NEW i, NEW p, Dropped(n, i, p)
    PROVE  Typed' /\ Sound' /\ Stands'
<1>1. /\ i \in Inodes \ {Root, cwd} /\ cwd \in Inodes /\ cwd' = cwd
      /\ type' = [type EXCEPT ![i] = "none"]
      /\ \A j \in Inodes \ {i, cwd} : entries'[j] = entries[j]
      /\ entries'[i] = <<>>
  BY DEF Dropped, IInv, Typed
<1>2. /\ \A d, k : Link(d, k)' <=> Link(d, k) /\ ~(d = cwd /\ k = p)
      /\ Target(cwd, p) = i
      /\ \A d, k : Link(d, k)' => /\ entries'[d][k] = entries[d][k]
                                  /\ d # i /\ Target(d, k) # i
  BY DroppedLinks
<1>3. \A d, k : Link(d, k)' => Target(d, k)' = Target(d, k)
  BY <1>2 DEF Target
<1>4. \A j \in Inodes : type'[j] = IF j = i THEN "none" ELSE type[j]
  BY <1>1 DEF IInv, Typed
<1>5. Typed'
  BY <1>1, InodesAre DEF Dropped, IInv, Typed
<1>6. /\ Len(entries'[cwd]) = Len(entries[cwd]) /\ Len(entries[cwd]) \in Nat
      /\ IsDirectory(cwd, entries[cwd]) /\ type[cwd] = "dir" /\ p \in 3 .. Len(entries[cwd])
      /\ \A k \in 1 .. Len(entries[cwd]) :
            entries'[cwd][k] = IF k = p THEN Entry(n, Removed) ELSE entries[cwd][k]
  BY <1>1 DEF Dropped, Link, IInv, Typed, Stands, Dotted
<1>7. IsDirectory(cwd, entries'[cwd])
  <2>1. entries'[cwd][1] = entries[cwd][1] /\ entries'[cwd][2] = entries[cwd][2]
    <3>1. 1 \in 1 .. Len(entries[cwd]) /\ 2 \in 1 .. Len(entries[cwd]) /\ p # 1 /\ p # 2
      BY <1>6 DEF IsDirectory
    <3>. QED
      BY <1>6, <3>1
  <2>2. ASSUME NEW k \in 3 .. Len(entries'[cwd]) PROVE entries'[cwd][k].name \in Names
    <3>1. k \in 3 .. Len(entries[cwd]) /\ k \in 1 .. Len(entries[cwd])
      BY <1>6
    <3>. QED
      BY <1>6, <3>1 DEF IsDirectory, Entry
  <2>. QED
    BY <1>6, <2>1, <2>2 DEF IsDirectory
<1>8. Dotted'
  <2>1. ASSUME NEW j \in Inodes
        PROVE  /\ type'[j] # "dir" => entries'[j] = <<>>
               /\ type'[j] = "dir" => IsDirectory(j, entries'[j])
    <3>1. CASE j = i
      BY <1>1, <1>4, <3>1
    <3>2. CASE j = cwd
      BY <1>1, <1>4, <1>6, <1>7, <3>2
    <3>3. CASE j # i /\ j # cwd
      BY <1>1, <1>4, <3>3 DEF IInv, Dotted
    <3>. QED
      BY <3>1, <3>2, <3>3
  <2>. QED
    BY <2>1 DEF Dotted, IsDirectory
<1>9. \A j \in Inodes \ {i} : type[j] = "dir" => entries'[j][2] = entries[j][2]
  <2>1. 2 \in 1 .. Len(entries[cwd]) /\ p # 2
    BY <1>6 DEF IsDirectory
  <2>. QED
    BY <1>1, <1>6, <2>1
<1>10. LinksToUsed'
  <2>. SUFFICES ASSUME NEW d, NEW k, Link(d, k)'
                PROVE  /\ type'[Target(d, k)'] # "none" /\ Target(d, k)' # Root
                       /\ type'[Target(d, k)'] = "dir" => entries'[Target(d, k)'][2].nr = d
    BY DEF LinksToUsed
  <2>1. Link(d, k) /\ Target(d, k)' = Target(d, k) /\ Target(d, k) # i
    BY <1>2, <1>3
  <2>2. Target(d, k) \in Inodes
    BY <2>1, TargetIsInode DEF IInv
  <2>. QED
    BY <1>4, <1>9, <2>1, <2>2 DEF IInv, LinksToUsed
<1>11. LinkedOnce'
  <2>1. ASSUME NEW d, NEW k, NEW e, NEW l, Link(d, k)', Link(e, l)', Target(d, k)' = Target(e, l)'
        PROVE  d = e /\ k = l
    <3>1. Link(d, k) /\ Link(e, l) /\ Target(d, k) = Target(e, l)
      BY <1>2, <1>3, <2>1
    <3>. QED
      BY <3>1 DEF IInv, LinkedOnce
  <2>2. ASSUME NEW j \in Inodes \ {Root}, type'[j] # "none"
        PROVE  \E d, k : Link(d, k)' /\ Target(d, k)' = j
    <3>1. j # i
      BY <1>4, <2>2
    <3>2. PICK d, k : Link(d, k) /\ Target(d, k) = j
      BY <1>4, <2>2, <3>1 DEF IInv, LinkedOnce
    <3>. QED
      BY <1>2, <1>3, <3>1, <3>2
  <2>. QED
    BY <2>1, <2>2 DEF LinkedOnce
<1>12. NamesDiffer'
  BY <1>2 DEF IInv, NamesDiffer
<1>13. Stands'
  <2>1. type[Root] = "dir" /\ Root \in Inodes /\ type[cwd] = "dir"
    BY InodesAre DEF IInv, Stands
  <2>. QED
    BY <1>1, <1>4, <1>9, <2>1 DEF IInv, Stands
<1>. QED
  BY <1>5, <1>8, <1>10, <1>11, <1>12, <1>13 DEF Sound

LEMMA InitInv == Init => IInv
<1>. SUFFICES ASSUME Init PROVE IInv
  OBVIOUS
<1>1. /\ type = [i \in Inodes |-> IF i = Root THEN "dir" ELSE "none"]
      /\ entries = [i \in Inodes |-> IF i = Root THEN Dots(Root, Root) ELSE <<>>]
      /\ cwd = Root /\ count = [None EXCEPT ![Root] = 1] /\ leaked = None
      /\ None = [i \in Inodes |-> 0]
  BY DEF Init, None
<1>2. Root \in Inodes /\ NrInodes # Root /\ NrInodes \in Inodes
  BY InodesAre, VolumeAssumption DEF Root
<1>3. Typed
  BY <1>1, <1>2, DotsTyped DEF Typed
<1>4. Dots(Root, Root) = <<Entry(".", Root), Entry("..", Root)>>
  BY DEF Dots
<1>5. IsDirectory(Root, Dots(Root, Root))
  BY <1>2, <1>4 DEF IsDirectory, Entry
<1>6. Dotted
  BY <1>1, <1>5 DEF Dotted
<1>7. \A d, k : ~Link(d, k)
  <2>1. \A d \in Inodes : Len(entries[d]) \in {0, 2}
    BY <1>1, <1>4
  <2>. QED
    BY <2>1 DEF Link
<1>8. LinksToUsed /\ LinkedOnce /\ NamesDiffer
  BY <1>1, <1>7 DEF LinksToUsed, LinkedOnce, NamesDiffer
<1>9. Stands
  BY <1>1, <1>2, <1>4 DEF Stands, Entry
<1>10. RefsReturned
  BY <1>1, <1>2 DEF RefsReturned
<1>. QED
  BY <1>3, <1>6, <1>8, <1>9, <1>10 DEF IInv

LEMMA NextInv == IInv /\ [Next]_vars => IInv'
<1>. SUFFICES ASSUME IInv, [Next]_vars PROVE IInv'
  OBVIOUS
<1>. USE DEF IInv
<1>1. CASE UNCHANGED <<type, entries, cwd, count, leaked>>
  BY <1>1, SoundStays DEF Typed, Sound, Stands, RefsReturned
<1>2. ASSUME NEW n \in AnyName, NEW kind \in {"file", "dir"}, Create(n, kind) PROVE IInv'
  <2>1. CASE UNCHANGED <<type, entries, cwd, count, leaked>>
    BY <1>1, <2>1
  <2>2. CASE n \in Names /\ \E i, s : Added(n, kind, i, s)
    <3>1. PICK i, s : Added(n, kind, i, s)
      BY <2>2
    <3>2. Typed' /\ Sound' /\ Stands'
      BY <2>2, <3>1, AddedSound
    <3>3. i \notin {cwd} /\ UNCHANGED <<cwd, count, leaked>> /\ type' = [type EXCEPT ![i] = kind]
      BY <3>1 DEF Added
    <3>4. RefsReturned'
      BY <3>3 DEF RefsReturned, Typed
    <3>. QED
      BY <3>2, <3>4 DEF Sound
  <2>. QED
    BY <1>2, <2>1, <2>2, CreateAdds
<1>3. ASSUME NEW n \in AnyName, RemoveEntry(n) PROVE IInv'
  <2>1. n \in Names
    BY <1>3, RemoveDrops
  <2>2. PICK i, p : Dropped(n, i, p)
    BY <1>3, RemoveDrops
  <2>3. Typed' /\ Sound' /\ Stands'
    BY <2>1, <2>2, DroppedSound
  <2>4. i \notin {cwd} /\ UNCHANGED <<cwd, count, leaked>> /\ type' = [type EXCEPT ![i] = "none"]
    BY <2>2 DEF Dropped
  <2>5. RefsReturned'
    BY <2>4 DEF RefsReturned, Typed
  <2>. QED
    BY <2>3, <2>5 DEF Sound
<1>4. ASSUME NEW n \in AnyName, Cd(n) PROVE IInv'
  <2>. DEFINE i == Lookup(cwd, n)
  <2>1. /\ i # Removed /\ type[i] = "dir" /\ cwd' = i
        /\ count' = Put(Got(count, i), cwd) /\ UNCHANGED <<type, entries, leaked>>
    BY <1>4 DEF Cd, Moved
  <2>2. i \in Inodes /\ cwd \in Inodes
    BY <2>1, LookupFinds DEF Typed
  <2>. HIDE DEF i
  <2>3. /\ count' \in [Inodes -> Int]
        /\ \A j \in Inodes : count'[j] = count[j] + (IF j = i THEN 1 ELSE 0) - (IF j = cwd THEN 1 ELSE 0)
    <3>. DEFINE g == Got(count, i)
    <3>1. g \in [Inodes -> Int] /\ \A j \in Inodes : g[j] = count[j] + (IF j = i THEN 1 ELSE 0)
      BY <2>2, GotAdds DEF Typed
    <3>2. count' = Put(g, cwd)
      BY <2>1
    <3>. HIDE DEF g
    <3>3. count' \in [Inodes -> Int] /\ \A j \in Inodes : count'[j] = g[j] - (IF j = cwd THEN 1 ELSE 0)
      BY <2>2, <3>1, <3>2 DEF Put
    <3>4. \A j \in Inodes : count[j] \in Int
      BY DEF Typed
    <3>. QED
      BY <3>1, <3>3, <3>4
  <2>4. Typed' /\ Stands' /\ Sound'
    <3>1. Typed' /\ Stands'
      BY <2>1, <2>2, <2>3 DEF Typed, Stands
    <3>. QED
      BY <2>1, <3>1, SoundStays DEF Sound
  <2>5. RefsReturned'
    <3>1. ASSUME NEW j \in Inodes PROVE count'[j] = leaked'[j] + (IF j = cwd' THEN 1 ELSE 0)
      <4>1. leaked[j] \in Int /\ count[j] = leaked[j] + (IF j = cwd THEN 1 ELSE 0)
        BY DEF Typed, RefsReturned
      <4>2. leaked'[j] = leaked[j] /\ cwd' = i
        BY <2>1
      <4>. QED
        BY <2>3, <4>1, <4>2
    <3>2. type'[cwd'] = "dir"
      BY <2>1
    <3>. QED
      BY <3>1, <3>2 DEF RefsReturned
  <2>. QED
    BY <2>4, <2>5 DEF Sound
<1>5. ASSUME NEW n \in AnyName, LsFile(n) PROVE IInv'
  <2>. DEFINE i == Lookup(cwd, n)
  <2>1. /\ i # Removed /\ count' = Got(count, i) /\ leaked' = [leaked EXCEPT ![i] = @ + 1]
        /\ UNCHANGED <<type, entries, cwd>>
    BY <1>5 DEF LsFile
  <2>2. i \in Inodes
    BY <2>1, LookupFinds DEF Typed
  <2>. HIDE DEF i
  <2>3. /\ count' \in [Inodes -> Int] /\ leaked' \in [Inodes -> Int]
        /\ \A j \in Inodes : /\ count'[j] = count[j] + (IF j = i THEN 1 ELSE 0)
                             /\ leaked'[j] = leaked[j] + (IF j = i THEN 1 ELSE 0)
    <3>1. Got(count, i) \in [Inodes -> Int]
             /\ \A j \in Inodes : Got(count, i)[j] = count[j] + (IF j = i THEN 1 ELSE 0)
      BY <2>2, GotAdds DEF Typed
    <3>2. /\ leaked' \in [Inodes -> Int]
          /\ \A j \in Inodes : leaked'[j] = leaked[j] + (IF j = i THEN 1 ELSE 0)
      BY <2>1, <2>2 DEF Typed
    <3>. QED
      BY <2>1, <3>1, <3>2
  <2>4. Typed' /\ Stands' /\ Sound'
    <3>1. Typed' /\ Stands'
      BY <2>1, <2>3 DEF Typed, Stands
    <3>. QED
      BY <2>1, <3>1, SoundStays DEF Sound
  <2>5. RefsReturned'
    <3>1. ASSUME NEW j \in Inodes PROVE count'[j] = leaked'[j] + (IF j = cwd THEN 1 ELSE 0)
      <4>1. leaked[j] \in Int /\ count[j] = leaked[j] + (IF j = cwd THEN 1 ELSE 0)
        BY DEF Typed, RefsReturned
      <4>. QED
        BY <2>3, <4>1
    <3>2. type'[cwd'] = "dir" /\ cwd' = cwd
      BY <2>1 DEF RefsReturned
    <3>. QED
      BY <3>1, <3>2 DEF RefsReturned
  <2>. QED
    BY <2>4, <2>5 DEF Sound
<1>6. ASSUME NEW n \in AnyName, WriteBlock(n) PROVE IInv'
  BY <1>1, <1>6 DEF WriteBlock
<1>7. CASE Quit
  <2>1. CASE TableEmpty(Put(count, cwd)) /\ cwd' = Root /\ count' = Got(None, Root)
    <3>1. UNCHANGED <<type, entries, leaked>>
      BY <1>7 DEF Quit
    <3>2. Root \in Inodes /\ cwd \in Inodes
      BY InodesAre DEF Typed
    <3>3. \A j \in Inodes : leaked[j] = 0
      <4>. SUFFICES ASSUME NEW j \in Inodes PROVE leaked[j] = 0
        OBVIOUS
      <4>1. Put(count, cwd)[j] = count[j] - (IF j = cwd THEN 1 ELSE 0) /\ count[j] \in Int
        BY <3>2 DEF Put, Typed
      <4>2. Put(count, cwd)[j] = 0
        BY <2>1 DEF TableEmpty
      <4>3. leaked[j] \in Int /\ count[j] = leaked[j] + (IF j = cwd THEN 1 ELSE 0)
        BY DEF Typed, RefsReturned
      <4>. QED
        BY <4>1, <4>2, <4>3
    <3>4. /\ count' \in [Inodes -> Int]
          /\ \A j \in Inodes : count'[j] = IF j = Root THEN 1 ELSE 0
      BY <2>1, <3>2 DEF Got, None
    <3>5. Typed' /\ Stands' /\ Sound'
      BY <2>1, <3>1, <3>2, <3>4, SoundStays DEF Typed, Stands, Sound
    <3>6. RefsReturned'
      BY <2>1, <3>1, <3>3, <3>4 DEF RefsReturned, Stands
    <3>. QED
      BY <3>5, <3>6 DEF Sound
  <2>2. CASE UNCHANGED <<type, entries, cwd, count, leaked>>
    BY <1>1, <2>2
  <2>. QED
    BY <1>7, <2>1, <2>2 DEF Quit
<1>. QED
  BY <1>1, <1>2, <1>3, <1>4, <1>5, <1>6, <1>7 DEF Next, vars

LEMMA Inductive == Spec => []IInv
  BY InitInv, NextInv, PTL DEF Spec

(***************************************************************************)
(* What follows from it.                                                   *)
(***************************************************************************)
LEMMA LinksAre ==
    ASSUME Typed, Dotted
    PROVE  /\ \A d, k : <<d, k>> \in Links <=> Link(d, k)
           /\ \A l \in Links : l = <<l[1], l[2]>>
<1>1. ASSUME NEW d, NEW k PROVE <<d, k>> \in Links <=> Link(d, k)
  <2>1. Link(d, k) => d \in Allocated
    BY DEF Link, Dotted, Allocated
  <2>. QED
    BY <2>1 DEF Links, Link, Allocated
<1>2. \A l \in Links : l = <<l[1], l[2]>>
  BY DEF Links
<1>. QED
  BY <1>1, <1>2

\* The entries of the directories make sound links (testfs_add_dirent,
\* testfs_remove_dirent, testfs_create_empty_dir).
LEMMA LinksAreSound == IInv => LinksSound
<1>. SUFFICES ASSUME IInv PROVE LinksSound
  OBVIOUS
<1>1. /\ \A d, k : <<d, k>> \in Links <=> Link(d, k)
      /\ \A l \in Links : l = <<l[1], l[2]>> /\ Link(l[1], l[2])
  BY LinksAre DEF IInv
<1>2. ASSUME NEW l \in Links
      PROVE  LinkedTo(l).nr = Target(l[1], l[2]) /\ LinkedTo(l).nr \in Inodes
  BY <1>1, TargetIsInode DEF LinkedTo, Target, IInv
<1>3. {LinkedTo(l).nr : l \in Links} = Allocated \ {Root}
  <2>1. ASSUME NEW l \in Links PROVE LinkedTo(l).nr \in Allocated \ {Root}
    BY <1>1, <1>2 DEF IInv, LinksToUsed, Allocated
  <2>2. ASSUME NEW i \in Allocated \ {Root} PROVE \E l \in Links : LinkedTo(l).nr = i
    <3>1. PICK d, k : Link(d, k) /\ Target(d, k) = i
      BY DEF IInv, LinkedOnce, Allocated
    <3>2. <<d, k>> \in Links /\ LinkedTo(<<d, k>>).nr = i
      BY <1>1, <3>1 DEF LinkedTo, Target
    <3>. QED
      BY <3>2
  <2>. QED
    BY <2>1, <2>2
<1>4. \A l, m \in Links : LinkedTo(l).nr = LinkedTo(m).nr => l = m
  BY <1>1, <1>2 DEF IInv, LinkedOnce
<1>5. \A l, m \in Links : l[1] = m[1] /\ LinkedTo(l).name = LinkedTo(m).name => l = m
  BY <1>1 DEF IInv, NamesDiffer, LinkedTo
<1>6. \A i \in Inodes : type[i] # "dir" => entries[i] = <<>>
  BY DEF IInv, Dotted
<1>7. ASSUME NEW l \in Links, type[LinkedTo(l).nr] = "dir"
      PROVE  SubSeq(entries[LinkedTo(l).nr], 1, 2) = Dots(LinkedTo(l).nr, l[1])
  <2>. DEFINE i == LinkedTo(l).nr
              es == entries[i]
  <2>1. i \in Inodes /\ es \in Seq(EntryType) /\ IsDirectory(i, es) /\ es[2].nr = l[1]
    BY <1>1, <1>2, <1>7 DEF IInv, Typed, Dotted, LinksToUsed
  <2>. HIDE DEF i
  <2>2. es[2] = Entry("..", l[1])
    <3>1. 2 \in 1 .. Len(es)
      BY <2>1 DEF IsDirectory
    <3>2. es[2] \in EntryType
      BY <2>1, <3>1
    <3>. QED
      BY <2>1, <3>2 DEF EntryType, IsDirectory, Entry
  <2>3. SubSeq(es, 1, 2) = <<es[1], es[2]>>
    <3>1. Len(es) \in Nat /\ Len(es) >= 2
      BY <2>1 DEF IsDirectory
    <3>2. es[1] \in EntryType /\ es[2] \in EntryType
      BY <2>1, <3>1
    <3>3. /\ SubSeq(es, 1, 2) \in Seq(EntryType) /\ Len(SubSeq(es, 1, 2)) = 2
          /\ SubSeq(es, 1, 2)[1] = es[1] /\ SubSeq(es, 1, 2)[2] = es[2]
      <4>1. \A j \in 1 .. 2 : es[j] \in EntryType
        BY <3>2
      <4>2. /\ SubSeq(es, 1, 2) \in Seq(EntryType)
            /\ Len(SubSeq(es, 1, 2)) = IF 1 <= 2 THEN 2 - 1 + 1 ELSE 0
            /\ \A j \in 1 .. 2 - 1 + 1 : SubSeq(es, 1, 2)[j] = es[1 + j - 1]
        BY <4>1, SubSeqProperties
      <4>. QED
        BY <4>2
    <3>4. /\ <<es[1], es[2]>> \in Seq(EntryType) /\ Len(<<es[1], es[2]>>) = 2
      BY <3>2
    <3>5. \A j \in 1 .. 2 : SubSeq(es, 1, 2)[j] = <<es[1], es[2]>>[j]
      <4>1. <<es[1], es[2]>>[1] = es[1] /\ <<es[1], es[2]>>[2] = es[2]
        OBVIOUS
      <4>2. \A j \in 1 .. 2 : j = 1 \/ j = 2
        OBVIOUS
      <4>. QED
        BY <3>3, <4>1, <4>2, Zenon
    <3>. HIDE DEF es
    <3>. DEFINE u == SubSeq(es, 1, 2)
                v == <<es[1], es[2]>>
    <3>6. u \in Seq(EntryType) /\ v \in Seq(EntryType) /\ Len(u) = Len(v)
          /\ \A j \in 1 .. Len(u) : u[j] = v[j]
      BY <3>3, <3>4, <3>5
    <3>. HIDE DEF u, v
    <3>7. u = v
      BY <3>6, SeqEqual
    <3>. QED
      BY <3>7 DEF u, v
  <2>. QED
    BY <2>1, <2>2, <2>3 DEF Dots, IsDirectory, i
<1>. QED
  BY <1>3, <1>4, <1>5, <1>6, <1>7 DEF LinksSound

\* Every inode in use but the root is named by exactly one entry, no
\* directory has a name twice, and ".." is the directory a directory is in,
\* however often entries are removed and their places used again.
THEOREM DirectoryLinksSound == Spec => []LinksSound
  BY Inductive, LinksAreSound, PTL

\* Between commands the references of the inode table are that of the current
\* directory, a directory still, and those cmd_ls_internal did not put.
THEOREM ReferencesBalance == Spec => []RefsReturned
<1>1. IInv => RefsReturned
  BY DEF IInv
<1>. QED
  BY <1>1, Inductive, PTL

(***************************************************************************)
(* The directories implement DirectoryTree.                                *)
(***************************************************************************)
\* The node of the tree that place k of directory d makes.
Node(d, k) ==
    [parent |-> d, name |-> entries[d][k].name, node |-> Target(d, k), kind |-> type[Target(d, k)]]

TreeReads == \A t : t \in TreeOf <=> \E d, k : Link(d, k) /\ t = Node(d, k)

LEMMA TreeIs == Typed /\ Dotted => TreeReads
<1>. SUFFICES ASSUME Typed, Dotted, NEW t
              PROVE  t \in TreeOf <=> \E d, k : Link(d, k) /\ t = Node(d, k)
  BY DEF TreeReads
<1>1. /\ \A d, k : <<d, k>> \in Links <=> Link(d, k)
      /\ \A l \in Links : l = <<l[1], l[2]>> /\ Link(l[1], l[2])
  BY LinksAre
<1>2. ASSUME t \in TreeOf PROVE \E d, k : Link(d, k) /\ t = Node(d, k)
  <2>1. PICK l \in Links :
           t = [parent |-> l[1], name |-> LinkedTo(l).name, node |-> LinkedTo(l).nr,
                kind |-> type[LinkedTo(l).nr]]
    BY <1>2 DEF TreeOf
  <2>2. t = Node(l[1], l[2])
    BY <2>1 DEF Node, LinkedTo, Target
  <2>. QED
    BY <1>1, <2>2
<1>3. ASSUME NEW d, NEW k, Link(d, k), t = Node(d, k) PROVE t \in TreeOf
  <2>1. <<d, k>> \in Links
    BY <1>1, <1>3
  <2>2. LinkedTo(<<d, k>>) = entries[d][k] /\ <<d, k>>[1] = d
    BY DEF LinkedTo
  <2>. QED
    BY <1>3, <2>1, <2>2 DEF TreeOf, Node, Target
<1>. QED
  BY <1>2, <1>3

LEMMA TreeIsNext == (Typed /\ Dotted)' => TreeReads'
  BY TreeIs, PTL

\* testfs_create_file_or_dir adds one leaf.
LEMMA AddedToTree ==
    ASSUME IInv, NEW n \in Names, NEW kind \in {"file", "dir"}, NEW i, NEW s,
           Added(n, kind, i, s)
    PROVE  Tree!Next
<1>. DEFINE t == [parent |-> cwd, name |-> n, node |-> i, kind |-> kind]
<1>1. /\ \A u : u \in TreeOf <=> \E d, k : Link(d, k) /\ u = Node(d, k)
      /\ \A u : u \in TreeOf' <=> \E d, k : Link(d, k)' /\ u = Node(d, k)'
  <2>1. Typed' /\ Dotted'
    BY AddedSound DEF Sound
  <2>. QED
    BY <2>1, TreeIs, TreeIsNext DEF IInv, TreeReads
<1>2. /\ \A d, k : Link(d, k)' <=> Link(d, k) \/ (d = cwd /\ k = s)
      /\ entries'[cwd][s] = Entry(n, i)
      /\ \A d, k : Link(d, k) => entries'[d][k] = entries[d][k] /\ Target(d, k) # i
  BY AddedLinks
<1>3. /\ i \in Inodes /\ i # Root /\ cwd \in Inodes /\ cwd' = cwd
      /\ \A j \in Inodes : type'[j] = IF j = i THEN kind ELSE type[j]
  BY DEF Added, IInv, Typed
<1>4. \A d, k : Link(d, k) => Node(d, k)' = Node(d, k)
  <2>. SUFFICES ASSUME NEW d, NEW k, Link(d, k) PROVE Node(d, k)' = Node(d, k)
    OBVIOUS
  <2>1. Target(d, k) \in Inodes
    BY TargetIsInode DEF IInv
  <2>. QED
    BY <1>2, <1>3, <2>1 DEF Node, Target
<1>5. \A d : d = cwd => Node(d, s)' = t
  BY <1>2, <1>3 DEF Node, Target, Entry
<1>6. TreeOf' = TreeOf \cup {t}
  <2>1. ASSUME NEW u PROVE u \in TreeOf' <=> u \in TreeOf \/ u = t
    <3>1. ASSUME u \in TreeOf' PROVE u \in TreeOf \/ u = t
      <4>1. PICK d, k : Link(d, k)' /\ u = Node(d, k)'
        BY <1>1, <3>1
      <4>. QED
        BY <1>1, <1>2, <1>4, <1>5, <4>1
    <3>2. ASSUME u \in TreeOf PROVE u \in TreeOf'
      <4>1. PICK d, k : Link(d, k) /\ u = Node(d, k)
        BY <1>1, <3>2
      <4>. QED
        BY <1>1, <1>2, <1>4, <4>1
    <3>3. t \in TreeOf'
      <4>1. PICK d : d = cwd
        OBVIOUS
      <4>2. Link(d, s)' /\ Node(d, s)' = t
        BY <1>2, <1>5, <4>1
      <4>. QED
        BY <1>1, <4>2
    <3>. QED
      BY <3>1, <3>2, <3>3
  <2>. QED
    BY <2>1
<1>7. \A u \in TreeOf : u.parent = cwd => u.name # n
  <2>. SUFFICES ASSUME NEW d, NEW k, Link(d, k), Node(d, k).parent = cwd
                PROVE  Node(d, k).name # n
    BY <1>1
  <2>1. d = cwd /\ k \in 1 .. Len(entries[cwd]) /\ Live(entries[cwd][k])
    BY TargetIsInode DEF Node, IInv, Link
  <2>. QED
    BY <2>1 DEF Added, Node
<1>8. \A u \in TreeOf : u.node # i
  BY <1>1, <1>2 DEF Node
<1>9. Tree!Add(t)
  BY <1>3, <1>6, <1>7, <1>8 DEF Tree!Add, Tree!Children
<1>10. t \in [parent : Inodes, name : Names, node : Inodes, kind : {"file", "dir"}]
  BY <1>3
<1>. QED
  BY <1>9, <1>10 DEF Tree!Next

\* cmd_rm takes one leaf.
LEMMA DroppedFromTree ==
    ASSUME IInv, NEW n \in Names, NEW i, NEW p, Dropped(n, i, p)
    PROVE  Tree!Next
<1>. DEFINE t == [parent |-> cwd, name |-> n, node |-> i, kind |-> type[i]]
<1>1. /\ \A u : u \in TreeOf <=> \E d, k : Link(d, k) /\ u = Node(d, k)
      /\ \A u : u \in TreeOf' <=> \E d, k : Link(d, k)' /\ u = Node(d, k)'
  <2>1. Typed' /\ Dotted'
    BY DroppedSound DEF Sound
  <2>. QED
    BY <2>1, TreeIs, TreeIsNext DEF IInv, TreeReads
<1>2. /\ \A d, k : Link(d, k)' <=> Link(d, k) /\ ~(d = cwd /\ k = p)
      /\ Link(cwd, p) /\ Target(cwd, p) = i /\ entries[cwd][p] = Entry(n, i)
      /\ \A d, k : Link(d, k)' => entries'[d][k] = entries[d][k] /\ Target(d, k) # i
  <2>1. Link(cwd, p) /\ entries[cwd][p] = Entry(n, i)
    BY DEF Dropped
  <2>. QED
    BY <2>1, DroppedLinks
<1>3. /\ i \in Inodes /\ cwd \in Inodes /\ cwd' = cwd
      /\ \A k : ~Link(i, k)
      /\ \A j \in Inodes : type'[j] = IF j = i THEN "none" ELSE type[j]
  BY DEF Dropped, IInv, Typed
<1>4. \A d, k : Link(d, k)' => Node(d, k)' = Node(d, k)
  <2>. SUFFICES ASSUME NEW d, NEW k, Link(d, k)' PROVE Node(d, k)' = Node(d, k)
    OBVIOUS
  <2>1. Target(d, k) \in Inodes
    BY <1>2, TargetIsInode DEF IInv
  <2>. QED
    BY <1>2, <1>3, <2>1 DEF Node, Target
<1>5. Node(cwd, p) = t
  BY <1>2 DEF Node, Entry
<1>6. TreeOf' = TreeOf \ {t}
  <2>1. ASSUME NEW u PROVE u \in TreeOf' <=> u \in TreeOf /\ u # t
    <3>1. ASSUME u \in TreeOf' PROVE u \in TreeOf /\ u # t
      <4>1. PICK d, k : Link(d, k)' /\ u = Node(d, k)'
        BY <1>1, <3>1
      <4>2. u = Node(d, k) /\ Link(d, k) /\ Target(d, k) # i
        BY <1>2, <1>4, <4>1
      <4>. QED
        BY <1>1, <4>2 DEF Node
    <3>2. ASSUME u \in TreeOf, u # t PROVE u \in TreeOf'
      <4>1. PICK d, k : Link(d, k) /\ u = Node(d, k)
        BY <1>1, <3>2
      <4>2. Link(d, k)'
        BY <1>2, <1>5, <3>2, <4>1
      <4>. QED
        BY <1>1, <1>4, <4>1, <4>2
    <3>. QED
      BY <3>1, <3>2
  <2>. QED
    BY <2>1
<1>7. t \in TreeOf
  BY <1>1, <1>2, <1>5
<1>8. \A u \in TreeOf : u.parent # i
  BY <1>1, <1>3 DEF Node
<1>9. Tree!Take(t)
  BY <1>3, <1>6, <1>7, <1>8 DEF Tree!Take, Tree!Children
<1>10. type[i] \in {"file", "dir"}
  BY <1>2, <1>3 DEF IInv, Typed, LinksToUsed
<1>11. t \in [parent : Inodes, name : Names, node : Inodes, kind : {"file", "dir"}]
  BY <1>3, <1>10
<1>. QED
  BY <1>9, <1>11 DEF Tree!Next

\* cmd_cd moves to a directory in this one, to the one it is in, or nowhere.
LEMMA CdMoves ==
    ASSUME IInv, NEW n \in AnyName, Cd(n)
    PROVE  [Tree!Next]_<<TreeOf, cwd>>
<1>. DEFINE i == Lookup(cwd, n)
<1>1. i # Removed /\ type[i] = "dir" /\ cwd' = i /\ UNCHANGED <<type, entries>>
  BY DEF Cd
<1>2. TreeOf' = TreeOf
  BY <1>1 DEF TreeOf, Links, LinkedTo, Allocated
<1>3. /\ \A u : u \in TreeOf <=> \E d, k : Link(d, k) /\ u = Node(d, k)
      /\ cwd \in Inodes /\ IsDirectory(cwd, entries[cwd]) /\ Len(entries[cwd]) \in Nat
  BY TreeIs DEF IInv, Typed, Stands, Dotted, TreeReads
<1>4. PICK k \in 1 .. Len(entries[cwd]) : entries[cwd][k].nr = i /\ Live(entries[cwd][k])
  BY <1>1, <1>3, LookupFinds DEF IInv
<1>. HIDE DEF i
<1>5. CASE k = 1
  BY <1>1, <1>2, <1>3, <1>4, <1>5 DEF IsDirectory, Entry
<1>6. CASE k = 2 /\ cwd = Root
  <2>1. cwd' = Root
    BY <1>1, <1>4, <1>6 DEF IInv, Stands
  <2>. QED
    BY <1>2, <2>1 DEF Tree!Next, Tree!Move
<1>7. CASE k = 2 /\ cwd # Root
  <2>1. PICK d, l : Link(d, l) /\ Target(d, l) = cwd
    BY <1>3, <1>7 DEF IInv, LinkedOnce, Stands
  <2>2. i = d
    BY <1>4, <1>7, <2>1 DEF IInv, LinksToUsed, Stands
  <2>3. Node(d, l) \in TreeOf /\ Node(d, l).node = cwd /\ Node(d, l).parent = d
    BY <1>3, <2>1 DEF Node
  <2>. QED
    BY <1>1, <1>2, <2>2, <2>3 DEF Tree!Next, Tree!Move
<1>8. CASE k \notin {1, 2}
  <2>1. Link(cwd, k) /\ Target(cwd, k) = i
    BY <1>3, <1>4, <1>8 DEF Link, Target
  <2>2. Node(cwd, k) \in TreeOf /\ Node(cwd, k).parent = cwd /\ Node(cwd, k).node = i
        /\ Node(cwd, k).kind = "dir"
    BY <1>1, <1>3, <2>1 DEF Node
  <2>. QED
    BY <1>1, <1>2, <2>2 DEF Tree!Next, Tree!Move, Tree!Children
<1>. QED
  BY <1>5, <1>6, <1>7, <1>8

\* Whatever fails half way, every command of testfs is a step of the tree of
\* names or leaves it alone.
THEOREM DirectoriesImplementTree == Spec => ImplementsTree
<1>1. Init => Tree!Init
  <2>. SUFFICES ASSUME Init PROVE Tree!Init
    OBVIOUS
  <2>1. IInv
    BY InitInv
  <2>2. \A d, k : ~Link(d, k)
    <3>1. \A d \in Inodes : Len(entries[d]) \in {0, 2}
      BY DEF Init, Dots
    <3>. QED
      BY <3>1 DEF Link
  <2>3. TreeOf = {}
    BY <2>1, <2>2, TreeIs DEF IInv, TreeReads
  <2>. QED
    BY <2>3 DEF Init, Tree!Init
<1>2. IInv /\ [Next]_vars => [Tree!Next]_<<TreeOf, cwd>>
  <2>. SUFFICES ASSUME IInv, [Next]_vars PROVE [Tree!Next]_<<TreeOf, cwd>>
    OBVIOUS
  <2>1. UNCHANGED <<type, entries>> => TreeOf' = TreeOf
    BY DEF TreeOf, Links, LinkedTo, Allocated
  <2>2. ASSUME NEW n \in AnyName, NEW kind \in {"file", "dir"}, Create(n, kind)
        PROVE  [Tree!Next]_<<TreeOf, cwd>>
    BY <2>1, <2>2, CreateAdds, AddedToTree
  <2>3. ASSUME NEW n \in AnyName, RemoveEntry(n) PROVE [Tree!Next]_<<TreeOf, cwd>>
    BY <2>3, RemoveDrops, DroppedFromTree
  <2>4. ASSUME NEW n \in AnyName, LsFile(n) \/ WriteBlock(n) PROVE [Tree!Next]_<<TreeOf, cwd>>
    BY <2>1, <2>4 DEF LsFile, WriteBlock
  <2>5. ASSUME Quit PROVE [Tree!Next]_<<TreeOf, cwd>>
    <3>1. TreeOf' = TreeOf /\ (cwd' = Root \/ cwd' = cwd)
      BY <2>1, <2>5 DEF Quit
    <3>. QED
      BY <3>1 DEF Tree!Next, Tree!Move
  <2>. QED
    BY <2>1, <2>2, <2>3, <2>4, <2>5, CdMoves DEF Next, vars
<1>. QED
  BY <1>1, <1>2, Inductive, PTL DEF Spec, ImplementsTree, Tree!Spec


(***************************************************************************)
(* Every directory is below the root.                                      *)
(***************************************************************************)
IsSubdirectory(j) == j \in Inodes \ {Root} /\ type[j] = "dir"

\* No directories are in one another in a circle.
Acyclic ==
    \A S \in SUBSET Inodes :
        S # {} /\ (\A j \in S : IsSubdirectory(j)) => \E j \in S : Parent(j) \notin S

LEMMA ParentIsDirectory ==
    ASSUME IInv, NEW j, IsSubdirectory(j)
    PROVE  Parent(j) \in Inodes /\ type[Parent(j)] = "dir"
<1>1. PICK d, k : Link(d, k) /\ Target(d, k) = j
  BY DEF IInv, LinkedOnce, IsSubdirectory
<1>2. Parent(j) = d
  BY <1>1 DEF IInv, LinksToUsed, IsSubdirectory, Parent
<1>3. d \in Inodes /\ type[d] = "dir"
  BY <1>1 DEF IInv, Dotted, Link
<1>. QED
  BY <1>2, <1>3

\* Steps that give no directory another parent and make none.
LEMMA AcyclicStays ==
    ASSUME Acyclic, \A j : IsSubdirectory(j)' => IsSubdirectory(j) /\ Parent(j)' = Parent(j)
    PROVE  Acyclic'
<1>. SUFFICES ASSUME NEW S \in SUBSET Inodes, S # {}, \A j \in S : IsSubdirectory(j)'
              PROVE  \E j \in S : Parent(j)' \notin S
  BY DEF Acyclic
<1>. QED
  BY DEF Acyclic

\* A new directory is in the current one, and none is in it yet.
LEMMA AddedAcyclic ==
    ASSUME IInv, Acyclic, NEW n \in Names, NEW kind \in {"file", "dir"}, NEW i, NEW s,
           Added(n, kind, i, s)
    PROVE  Acyclic'
<1>1. /\ i \in Inodes \ {Root, cwd} /\ type[i] = "none" /\ cwd \in Inodes
      /\ type' = [type EXCEPT ![i] = kind]
      /\ \A j \in Inodes \ {i, cwd} : entries'[j] = entries[j]
      /\ entries'[i] = IF kind = "dir" THEN Dots(i, cwd) ELSE <<>>
  BY DEF Added, IInv, Typed
<1>2. \A j : IsSubdirectory(j)' => j = i \/ IsSubdirectory(j)
  BY <1>1 DEF IsSubdirectory, IInv, Typed
<1>3. ASSUME NEW j, IsSubdirectory(j) PROVE Parent(j)' = Parent(j) /\ Parent(j) # i
  <2>1. Parent(j) # i
    BY <1>1, <1>3, ParentIsDirectory
  <2>2. Parent(j)' = Parent(j)
    <3>1. CASE j # cwd
      BY <1>1, <1>3, <3>1 DEF IsSubdirectory, Parent
    <3>2. CASE j = cwd
      <4>1. s # 2 /\ 2 \in 1 .. Len(entries'[cwd])
        BY AddedPlace
      <4>2. entries'[cwd][2] = entries[cwd][2]
        BY <4>1 DEF Added
      <4>. QED
        BY <3>2, <4>2 DEF Parent
    <3>. QED
      BY <3>1, <3>2
  <2>. QED
    BY <2>1, <2>2
<1>. SUFFICES ASSUME NEW S \in SUBSET Inodes, S # {}, \A j \in S : IsSubdirectory(j)'
              PROVE  \E j \in S : Parent(j)' \notin S
  BY DEF Acyclic
<1>4. CASE S = {i}
  <2>1. type'[i] = "dir"
    BY <1>4 DEF IsSubdirectory
  <2>2. Parent(i)' = cwd
    BY <1>1, <2>1 DEF Parent, Dots, Entry, IInv, Typed
  <2>. QED
    BY <1>1, <1>4, <2>2
<1>5. CASE S # {i}
  <2>1. S \ {i} # {} /\ \A j \in S \ {i} : IsSubdirectory(j)
    BY <1>2, <1>5
  <2>2. PICK j \in S \ {i} : Parent(j) \notin S \ {i}
    BY <2>1 DEF Acyclic
  <2>3. Parent(j)' \notin S
    BY <1>3, <2>1, <2>2
  <2>. QED
    BY <2>3
<1>. QED
  BY <1>4, <1>5

LEMMA DroppedAcyclic ==
    ASSUME IInv, Acyclic, NEW n \in Names, NEW i, NEW p, Dropped(n, i, p)
    PROVE  Acyclic'
<1>1. /\ i \in Inodes \ {Root, cwd} /\ cwd \in Inodes
      /\ type' = [type EXCEPT ![i] = "none"]
      /\ \A j \in Inodes \ {i, cwd} : entries'[j] = entries[j]
  BY DEF Dropped, IInv, Typed
<1>2. \A j : IsSubdirectory(j)' => IsSubdirectory(j) /\ j # i
  BY <1>1 DEF IsSubdirectory, IInv, Typed
<1>3. entries'[cwd][2] = entries[cwd][2]
  <2>1. IsDirectory(cwd, entries[cwd]) /\ Len(entries[cwd]) \in Nat /\ p \in 3 .. Len(entries[cwd])
    BY <1>1 DEF IInv, Stands, Dotted, Typed, Dropped, Link
  <2>2. 2 \in 1 .. Len(entries[cwd]) /\ p # 2
    BY <2>1
  <2>. QED
    BY <2>2 DEF Dropped
<1>4. \A j : IsSubdirectory(j)' => IsSubdirectory(j) /\ Parent(j)' = Parent(j)
  <2>. SUFFICES ASSUME NEW j, IsSubdirectory(j)' PROVE IsSubdirectory(j) /\ Parent(j)' = Parent(j)
    OBVIOUS
  <2>1. IsSubdirectory(j) /\ j # i /\ j \in Inodes
    BY <1>2 DEF IsSubdirectory
  <2>2. entries'[j][2] = entries[j][2]
    BY <1>1, <1>3, <2>1
  <2>. QED
    BY <2>1, <2>2 DEF Parent
<1>. QED
  BY <1>4, AcyclicStays

LEMMA InitAcyclic == Init => Acyclic
  BY DEF Init, Acyclic, IsSubdirectory

LEMMA NextAcyclic == IInv /\ Acyclic /\ [Next]_vars => Acyclic'
<1>. SUFFICES ASSUME IInv, Acyclic, [Next]_vars PROVE Acyclic'
  OBVIOUS
<1>1. CASE UNCHANGED <<type, entries>>
  BY <1>1, AcyclicStays DEF IsSubdirectory, Parent
<1>2. ASSUME NEW n \in AnyName, NEW kind \in {"file", "dir"}, Create(n, kind) PROVE Acyclic'
  BY <1>1, <1>2, CreateAdds, AddedAcyclic
<1>3. ASSUME NEW n \in AnyName, RemoveEntry(n) PROVE Acyclic'
  BY <1>3, RemoveDrops, DroppedAcyclic
<1>4. ASSUME NEW n \in AnyName, Cd(n) \/ LsFile(n) \/ WriteBlock(n) PROVE Acyclic'
  BY <1>1, <1>4 DEF Cd, LsFile, WriteBlock
<1>5. CASE Quit
  BY <1>1, <1>5 DEF Quit
<1>. QED
  BY <1>1, <1>2, <1>3, <1>4, <1>5 DEF Next, vars

\* The way up from a directory, one step after another.
Way(up, i, n) == up = [k \in 0 .. n |-> IF k = 0 THEN i ELSE Parent(up[k - 1])]

LEMMA WayExists ==
    ASSUME NEW i
    PROVE  \A n \in Nat : \E up : Way(up, i, n)
<1>. DEFINE N == {n \in Nat : \E up : Way(up, i, n)}
<1>1. 0 \in N
  <2>1. Way([k \in 0 .. 0 |-> i], i, 0)
    BY DEF Way
  <2>. QED
    BY <2>1
<1>2. ASSUME NEW n \in Nat, n \in N PROVE n + 1 \in N
  <2>1. PICK up : Way(up, i, n)
    BY <1>2
  <2>. DEFINE F(f, k) == IF k = 0 THEN i ELSE Parent(f[k - 1])
              on == [k \in 0 .. n + 1 |-> F(up, k)]
  <2>2. \A k \in 0 .. n : on[k] = up[k]
    <3>1. \A k \in 0 .. n : k \in 0 .. n + 1
      OBVIOUS
    <3>2. \A k \in 0 .. n : up[k] = F(up, k)
      <4>. HIDE DEF F
      <4>. DEFINE v == [k \in 0 .. n |-> F(up, k)]
      <4>1. up = v
        BY <2>1, Zenon DEF Way, F
      <4>2. \A k \in 0 .. n : v[k] = F(up, k)
        OBVIOUS
      <4>. QED
        BY <4>1, <4>2, Zenon
    <3>. QED
      BY <3>1, <3>2
  <2>3. \A k \in 0 .. n + 1 : F(up, k) = F(on, k)
    <3>1. \A k \in 0 .. n + 1 : k # 0 => k - 1 \in 0 .. n
      OBVIOUS
    <3>. HIDE DEF on
    <3>. QED
      BY <2>2, <3>1
  <2>4. on = [k \in 0 .. n + 1 |-> F(on, k)]
    <3>. HIDE DEF F
    <3>1. [k \in 0 .. n + 1 |-> F(up, k)] = [k \in 0 .. n + 1 |-> F(on, k)]
      BY <2>3
    <3>. QED
      BY <3>1, Zenon
  <2>5. Way(on, i, n + 1)
    BY <2>4, Zenon DEF Way, F
  <2>. HIDE DEF on
  <2>. QED
    BY <2>5
<1>. HIDE DEF N
<1>3. \A n \in Nat : n \in N
  BY <1>1, <1>2, NatSet
<1>. QED
  BY <1>3 DEF N

LEMMA WayEndsAtRoot ==
    ASSUME IInv, Acyclic, NEW i \in Inodes, type[i] = "dir", NEW up, Way(up, i, NrInodes)
    PROVE  up[NrInodes] = Root
<1>. DEFINE N == {k \in Nat : k \in 0 .. NrInodes => up[k] \in Inodes /\ type[up[k]] = "dir"}
            D == {j \in Inodes : IsSubdirectory(j)}
<1>1. NrInodes \in Nat /\ Root \in Inodes /\ Parent(Root) = Root
  BY VolumeAssumption DEF IInv, Stands, Inodes, Root, Parent
<1>2. /\ up[0] = i
      /\ \A k \in 0 .. NrInodes : k # 0 => up[k] = Parent(up[k - 1])
  <2>. DEFINE v == [k \in 0 .. NrInodes |-> IF k = 0 THEN i ELSE Parent(up[k - 1])]
  <2>1. up = v
    BY Zenon DEF Way
  <2>2. \A k \in 0 .. NrInodes : v[k] = IF k = 0 THEN i ELSE Parent(up[k - 1])
    OBVIOUS
  <2>3. 0 \in 0 .. NrInodes
    BY <1>1
  <2>. HIDE DEF v
  <2>. QED
    BY <2>1, <2>2, <2>3
<1>3. \A k \in 0 .. NrInodes : up[k] \in Inodes /\ type[up[k]] = "dir"
  <2>1. 0 \in N
    BY <1>2
  <2>2. ASSUME NEW k \in Nat, k \in N PROVE k + 1 \in N
    <3>. SUFFICES ASSUME k + 1 \in 0 .. NrInodes
                  PROVE  up[k + 1] \in Inodes /\ type[up[k + 1]] = "dir"
      OBVIOUS
    <3>1. k \in 0 .. NrInodes /\ k + 1 # 0 /\ (k + 1) - 1 = k
      BY <1>1
    <3>2. up[k + 1] = Parent(up[k]) /\ up[k] \in Inodes /\ type[up[k]] = "dir"
      BY <1>2, <2>2, <3>1
    <3>3. CASE up[k] = Root
      BY <1>1, <3>2, <3>3
    <3>4. CASE up[k] # Root
      <4>1. IsSubdirectory(up[k])
        BY <3>2, <3>4 DEF IsSubdirectory
      <4>. QED
        BY <3>2, <4>1, ParentIsDirectory
    <3>. QED
      BY <3>3, <3>4
  <2>3. \A k \in Nat : k \in N
    <3>. HIDE DEF N
    <3>. QED
      BY <2>1, <2>2, NatSet
  <2>. QED
    BY <1>1, <2>3
<1>. SUFFICES ASSUME up[NrInodes] # Root PROVE FALSE
  OBVIOUS
<1>4. \A k \in 0 .. NrInodes : up[k] # Root
  <2>. SUFFICES ASSUME NEW k \in 0 .. NrInodes, up[k] = Root PROVE FALSE
    OBVIOUS
  <2>. DEFINE M == {m \in Nat : k + m \in 0 .. NrInodes => up[k + m] = Root}
  <2>1. 0 \in M
    BY <1>1
  <2>2. ASSUME NEW m \in Nat, m \in M PROVE m + 1 \in M
    <3>. SUFFICES ASSUME k + (m + 1) \in 0 .. NrInodes PROVE up[k + (m + 1)] = Root
      OBVIOUS
    <3>1. k + m \in 0 .. NrInodes /\ k + (m + 1) # 0 /\ (k + (m + 1)) - 1 = k + m
      BY <1>1
    <3>2. up[k + m] = Root
      BY <2>2, <3>1
    <3>3. up[k + (m + 1)] = Parent(up[(k + (m + 1)) - 1])
      BY <1>2, <3>1
    <3>. QED
      BY <1>1, <3>1, <3>2, <3>3
  <2>3. \A m \in Nat : m \in M
    <3>. HIDE DEF M
    <3>. QED
      BY <2>1, <2>2, NatSet
  <2>4. NrInodes - k \in M /\ k + (NrInodes - k) = NrInodes
    BY <1>1, <2>3
  <2>5. NrInodes \in 0 .. NrInodes
    BY <1>1
  <2>. QED
    BY <2>4, <2>5
<1>5. \A k \in 0 .. NrInodes : up[k] \in D
  BY <1>3, <1>4 DEF IsSubdirectory
<1>6. \A x, y \in 0 .. NrInodes : x < y => up[x] # up[y]
  <2>. SUFFICES ASSUME NEW x \in 0 .. NrInodes, NEW y \in 0 .. NrInodes, x < y, up[x] = up[y]
                PROVE  FALSE
    OBVIOUS
  <2>. DEFINE S == {up[k] : k \in x .. y - 1}
  <2>1. \A k \in x .. y - 1 : /\ k \in 0 .. NrInodes /\ k + 1 \in 0 .. NrInodes /\ k + 1 # 0
                              /\ (k + 1) - 1 = k /\ (k + 1 = y \/ k + 1 \in x .. y - 1)
    BY <1>1
  <2>2. x \in x .. y - 1
    OBVIOUS
  <2>3. S \in SUBSET Inodes /\ S # {} /\ \A j \in S : IsSubdirectory(j)
    BY <1>5, <2>1, <2>2
  <2>4. \A k \in x .. y - 1 : Parent(up[k]) \in S
    <3>. SUFFICES ASSUME NEW k \in x .. y - 1 PROVE Parent(up[k]) \in S
      OBVIOUS
    <3>1. Parent(up[k]) = up[k + 1]
      BY <1>2, <2>1
    <3>2. CASE k + 1 = y
      BY <2>2, <3>1, <3>2
    <3>3. CASE k + 1 \in x .. y - 1
      BY <3>1, <3>3
    <3>. QED
      BY <2>1, <3>2, <3>3
  <2>5. \A j \in S : Parent(j) \in S
    BY <2>4
  <2>. HIDE DEF S
  <2>. QED
    BY <2>3, <2>5 DEF Acyclic
<1>7. IsFiniteSet(0 .. NrInodes) /\ Cardinality(0 .. NrInodes) = NrInodes + 1
  <2>1. 0 \in Int /\ NrInodes \in Int
    BY <1>1
  <2>2. IsFiniteSet(0 .. NrInodes) /\ Cardinality(0 .. NrInodes) = IF 0 > NrInodes THEN 0 ELSE NrInodes - 0 + 1
    BY <2>1, FS_Interval
  <2>. QED
    BY <1>1, <2>2
<1>8. IsFiniteSet(D) /\ Cardinality(D) < NrInodes + 1
  <2>1. D \subseteq Inodes \ {Root} /\ Inodes = 0 .. NrInodes
    BY DEF IsSubdirectory, Inodes
  <2>2. IsFiniteSet(Inodes \ {Root}) /\ Cardinality(Inodes \ {Root}) = NrInodes
    <3>1. IsFiniteSet(Inodes) /\ Cardinality(Inodes) = NrInodes + 1
      BY <1>7, <2>1
    <3>2. IsFiniteSet(Inodes \ {Root}) /\ Cardinality(Inodes \ {Root}) = Cardinality(Inodes) - 1
      BY <1>1, <3>1, FS_RemoveElement
    <3>. QED
      BY <1>1, <3>1, <3>2
  <2>3. IsFiniteSet(D) /\ Cardinality(D) <= Cardinality(Inodes \ {Root}) /\ Cardinality(D) \in Nat
    BY <2>1, <2>2, FS_Subset, FS_CardinalityType
  <2>. QED
    BY <1>1, <2>2, <2>3
<1>. DEFINE f == [k \in 0 .. NrInodes |-> up[k]]
<1>9. f \in [0 .. NrInodes -> D]
  BY <1>5
<1>10. PICK x, y \in 0 .. NrInodes : x # y /\ f[x] = f[y]
  <2>. DEFINE K == 0 .. NrInodes
  <2>1. IsFiniteSet(K) /\ IsFiniteSet(D) /\ Cardinality(D) < Cardinality(K)
    BY <1>7, <1>8
  <2>2. f \in [K -> D]
    BY <1>9
  <2>. HIDE DEF D, f, K
  <2>3. \E x, y \in K : x # y /\ f[x] = f[y]
    BY <2>1, <2>2, FS_PigeonHole
  <2>. QED
    BY <2>3 DEF K
<1>11. up[x] = up[y] /\ (x < y \/ y < x)
  BY <1>1, <1>10
<1>. QED
  BY <1>6, <1>11

LEMMA DirectoriesBelowRoot == IInv /\ Acyclic => BelowRoot
<1>. SUFFICES ASSUME IInv, Acyclic, NEW i \in Allocated, type[i] = "dir"
              PROVE  LET up[k \in 0 .. NrInodes] == IF k = 0 THEN i ELSE Parent(up[k - 1])
                     IN up[NrInodes] = Root
  BY DEF BelowRoot
<1>. DEFINE up[k \in 0 .. NrInodes] == IF k = 0 THEN i ELSE Parent(up[k - 1])
<1>1. \E u : Way(u, i, NrInodes)
  BY WayExists, VolumeAssumption
<1>2. Way(up, i, NrInodes)
  BY <1>1 DEF Way
<1>3. i \in Inodes
  BY DEF Allocated
<1>. HIDE DEF up
<1>4. up[NrInodes] = Root
  BY <1>2, <1>3, WayEndsAtRoot
<1>. QED
  BY <1>4 DEF up

\* A command moves no directory, and a directory that is not empty stays: the
\* directories remain one tree below the root.
THEOREM DirectoriesStayTree == Spec => []TreeSound
<1>1. IInv /\ Acyclic => TreeSound
  BY LinksAreSound, DirectoriesBelowRoot DEF TreeSound
<1>. QED
  BY <1>1, InitInv, NextInv, InitAcyclic, NextAcyclic, PTL DEF Spec


(***************************************************************************)
(* The volume is not overfilled, and the counters stay in range.           *)
(***************************************************************************)
LEMMA BlocksOfCells ==
    /\ \A n \in Nat : (n + BlockCells - 1) \div BlockCells \in Nat
    /\ \A n \in 0 .. BlockCells : (n + BlockCells - 1) \div BlockCells = IF n = 0 THEN 0 ELSE 1
<1>. DEFINE b == BlockCells
<1>1. b \in Nat \ {0}
  BY VolumeAssumption
<1>. HIDE DEF b
<1>2. \A n \in Nat : (n + b - 1) \div b \in Nat
  BY <1>1
<1>3. ASSUME NEW n \in 0 .. b, n # 0 PROVE (n + b - 1) \div b = 1
  <2>1. n + b - 1 = b * 1 + (n - 1) /\ n - 1 \in 0 .. b - 1
    BY <1>1, <1>3
  <2>. QED
    BY <1>1, <1>3, <2>1
<1>4. (0 + b - 1) \div b = 0
  BY <1>1
<1>. QED
  BY <1>2, <1>3, <1>4 DEF b

CellsIn(es) == [k \in 1 .. Len(es) |-> EntrySize[es[k].name]]

LEMMA CellsInWeighted ==
    ASSUME NEW es \in Seq(EntryType)
    PROVE  /\ Weighted(CellsIn(es), 1 .. Len(es)) /\ \A k \in 1 .. Len(es) : CellsIn(es)[k] \in Nat
           /\ CellsOf(es) = SumFunctionOnSet(CellsIn(es), 1 .. Len(es))
<1>1. 1 \in Int /\ Len(es) \in Int /\ DOMAIN es = 1 .. Len(es)
  OBVIOUS
<1>2. IsFiniteSet(1 .. Len(es))
  BY <1>1, FS_Interval
<1>3. \A k \in 1 .. Len(es) : es[k].name \in Names \cup {".", ".."}
  <2>1. \A k \in 1 .. Len(es) : es[k] \in EntryType
    OBVIOUS
  <2>2. \A e \in EntryType : e.name \in Names \cup {".", ".."}
    BY DEF EntryType, AnyName
  <2>. QED
    BY <2>1, <2>2
<1>4. \A k \in 1 .. Len(es) : CellsIn(es)[k] \in 1 .. BlockCells
  <2>1. \A k \in 1 .. Len(es) : CellsIn(es)[k] = EntrySize[es[k].name]
    BY DEF CellsIn
  <2>. QED
    BY <1>3, <2>1, EntriesAssumption
<1>5. \A k \in 1 .. Len(es) : CellsIn(es)[k] \in Nat
  BY <1>4, VolumeAssumption
<1>6. CellsOf(es) = SumFunctionOnSet(CellsIn(es), 1 .. Len(es))
  <2>1. [k \in DOMAIN es |-> EntrySize[es[k].name]] = CellsIn(es) /\ DOMAIN CellsIn(es) = 1 .. Len(es)
    BY <1>1 DEF CellsIn
  <2>2. CellsOf(es) = SumFunction(CellsIn(es))
    BY <2>1 DEF CellsOf
  <2>. QED
    BY <2>1, <2>2 DEF SumFunction
<1>. QED
  BY <1>2, <1>5, <1>6 DEF Weighted

LEMMA CellsType ==
    ASSUME NEW es \in Seq(EntryType)
    PROVE  CellsOf(es) \in Nat /\ BlocksOf(es) \in Nat
<1>. DEFINE w == CellsIn(es)
            S == 1 .. Len(es)
<1>1. Weighted(w, S) /\ (\A k \in S : w[k] >= 0) /\ CellsOf(es) = SumFunctionOnSet(w, S)
  BY CellsInWeighted
<1>. HIDE DEF w, S
<1>2. SumFunctionOnSet(w, S) \in Int /\ 0 <= SumFunctionOnSet(w, S)
  <2>1. S \in SUBSET S
    OBVIOUS
  <2>. QED
    BY <1>1, <2>1, SumType, SumPart
<1>. QED
  BY <1>1, <1>2, BlocksOfCells DEF BlocksOf

\* A directory without entries takes no block, and one with its dots takes one.
LEMMA FirstBlocks ==
    /\ BlocksOf(<<>>) = 0
    /\ \A i, d \in Inodes : BlocksOf(Dots(i, d)) = 1
<1>1. BlocksOf(<<>>) = 0
  <2>1. <<>> \in Seq(EntryType) /\ 1 .. Len(<<>>) = {}
    OBVIOUS
  <2>2. CellsOf(<<>>) = SumFunctionOnSet(CellsIn(<<>>), {})
    BY <2>1, CellsInWeighted
  <2>3. CellsOf(<<>>) = 0
    BY <2>2, SumStep, FS_EmptySet
  <2>4. 0 \in 0 .. BlockCells
    BY VolumeAssumption
  <2>. QED
    BY <2>3, <2>4, BlocksOfCells DEF BlocksOf
<1>2. ASSUME NEW i \in Inodes, NEW d \in Inodes PROVE BlocksOf(Dots(i, d)) = 1
  <2>. DEFINE es == Dots(i, d)
              w == CellsIn(es)
  <2>1. es \in Seq(EntryType) /\ Len(es) = 2 /\ es[1].name = "." /\ es[2].name = ".."
    BY DotsTyped DEF Dots, Entry
  <2>. HIDE DEF es
  <2>2. w[1] = EntrySize["."] /\ w[2] = EntrySize[".."] /\ 1 .. Len(es) = {1} \cup {2}
    BY <2>1 DEF CellsIn
  <2>3. Weighted(w, {1} \cup {2}) /\ CellsOf(es) = SumFunctionOnSet(w, {1} \cup {2})
    BY <2>1, <2>2, CellsInWeighted
  <2>. HIDE DEF w
  <2>4. SumFunctionOnSet(w, {1} \cup {2}) = w[2] + SumFunctionOnSet(w, {1})
    <3>1. 2 \notin {1}
      OBVIOUS
    <3>. QED
      BY <2>3, <3>1, SumAdd
  <2>5. Weighted(w, {} \cup {1})
    BY <2>3, WeightedPart
  <2>6. SumFunctionOnSet(w, {} \cup {1}) = w[1] + SumFunctionOnSet(w, {})
    BY <2>5, SumAdd
  <2>7. SumFunctionOnSet(w, {}) = 0 /\ {} \cup {1} = {1}
    BY SumStep, FS_EmptySet
  <2>8. EntrySize["."] \in 1 .. BlockCells /\ EntrySize[".."] \in 1 .. BlockCells
    BY EntriesAssumption
  <2>9. CellsOf(es) = EntrySize[".."] + EntrySize["."]
    <3>1. SumFunctionOnSet(w, {1}) = w[1] + 0
      BY <2>6, <2>7
    <3>2. CellsOf(es) = w[2] + (w[1] + 0)
      BY <2>2, <2>3, <2>4, <3>1
    <3>. QED
      BY <2>2, <2>8, <3>2
  <2>10. CellsOf(es) \in 0 .. BlockCells /\ CellsOf(es) # 0
    BY <2>8, <2>9, EntriesAssumption, VolumeAssumption
  <2>11. BlocksOf(es) = 1
    BY <2>10, BlocksOfCells DEF BlocksOf
  <2>. QED
    BY <2>11 DEF es
<1>. QED
  BY <1>1, <1>2

\* A removed entry keeps its name, so its directory keeps its size.
LEMMA SameNamesSameBlocks ==
    ASSUME NEW es \in Seq(EntryType), NEW u \in Seq(EntryType), Len(u) = Len(es),
           \A k \in 1 .. Len(es) : u[k].name = es[k].name
    PROVE  BlocksOf(u) = BlocksOf(es)
<1>1. DOMAIN es = 1 .. Len(es) /\ DOMAIN u = 1 .. Len(es)
  OBVIOUS
<1>2. [k \in DOMAIN u |-> EntrySize[u[k].name]] = [k \in DOMAIN es |-> EntrySize[es[k].name]]
  BY <1>1
<1>. QED
  BY <1>2 DEF BlocksOf, CellsOf

LEMMA SumOfTwo ==
    ASSUME NEW S, NEW w, NEW v, Weighted(w, S), Weighted(v, S), NEW a \in S, NEW b \in S, a # b,
           \A x \in S \ {a, b} : v[x] = w[x]
    PROVE  SumFunctionOnSet(v, S) - SumFunctionOnSet(w, S) = (v[a] - w[a]) + (v[b] - w[b])
<1>. DEFINE T == (S \ {a}) \ {b}
<1>1. SumFunctionOnSet(v, S) = v[a] + SumFunctionOnSet(v, S \ {a})
  BY SumTake
<1>2. SumFunctionOnSet(w, S) = w[a] + SumFunctionOnSet(w, S \ {a})
  BY SumTake
<1>3. Weighted(v, S \ {a}) /\ Weighted(w, S \ {a}) /\ Weighted(v, T) /\ Weighted(w, T) /\ b \in S \ {a}
  BY WeightedPart
<1>4. SumFunctionOnSet(v, S \ {a}) = v[b] + SumFunctionOnSet(v, T)
  BY <1>3, SumTake
<1>5. SumFunctionOnSet(w, S \ {a}) = w[b] + SumFunctionOnSet(w, T)
  BY <1>3, SumTake
<1>6. \A x \in T : v[x] = w[x]
  OBVIOUS
<1>7. SumFunctionOnSet(v, T) = SumFunctionOnSet(w, T)
  BY <1>3, <1>6, SumSame
<1>8. SumFunctionOnSet(w, T) \in Int
  BY <1>3, SumType
<1>9. v[a] \in Int /\ v[b] \in Int /\ w[a] \in Int /\ w[b] \in Int
  BY DEF Weighted
<1>. HIDE DEF T
<1>. QED
  BY <1>1, <1>2, <1>4, <1>5, <1>7, <1>8, <1>9

UsedBy == [i \in Inodes |-> BlocksOf(entries[i]) + written[i]]
Filled == entries \in [Inodes -> Seq(EntryType)] /\ written \in [Inodes -> Nat]
UsedIs ==
    /\ Weighted(UsedBy, Inodes) /\ Used = SumFunctionOnSet(UsedBy, Inodes)
    /\ \A i \in Inodes : UsedBy[i] = BlocksOf(entries[i]) + written[i] /\ BlocksOf(entries[i]) \in Nat
    /\ Used \in Nat

LEMMA UsedNow == Filled => UsedIs
<1>. SUFFICES ASSUME Filled PROVE UsedIs
  OBVIOUS
<1>1. IsFiniteSet(Inodes)
  <2>1. 0 \in Int /\ NrInodes \in Int
    BY VolumeAssumption
  <2>. QED
    BY <2>1, FS_Interval DEF Inodes
<1>2. \A i \in Inodes : entries[i] \in Seq(EntryType) /\ written[i] \in Nat
  BY DEF Filled
<1>3. \A i \in Inodes : BlocksOf(entries[i]) \in Nat
  BY <1>2, CellsType
<1>4. \A i \in Inodes : UsedBy[i] = BlocksOf(entries[i]) + written[i]
  BY DEF UsedBy
<1>5. Weighted(UsedBy, Inodes) /\ \A i \in Inodes : UsedBy[i] >= 0
  BY <1>1, <1>2, <1>3, <1>4 DEF Weighted
<1>6. Used = SumFunctionOnSet(UsedBy, Inodes)
  BY DEF Used, UsedBy, SumFunction
<1>7. SumFunctionOnSet(UsedBy, Inodes) \in Nat
  <2>1. Inodes \in SUBSET Inodes
    OBVIOUS
  <2>2. SumFunctionOnSet(UsedBy, Inodes) \in Int /\ 0 <= SumFunctionOnSet(UsedBy, Inodes)
    BY <1>5, <2>1, SumType, SumPart
  <2>. QED
    BY <2>2
<1>. QED
  BY <1>3, <1>4, <1>5, <1>6, <1>7 DEF UsedIs
LEMMA UsedNext == Filled' => UsedIs'
  BY UsedNow, PTL

\* A command changes the blocks of two inodes at most.
LEMMA UsedChange ==
    ASSUME Filled, Filled', NEW a \in Inodes, NEW b \in Inodes, a # b,
           \A i \in Inodes \ {a, b} : entries'[i] = entries[i] /\ written'[i] = written[i]
    PROVE  Used' - Used = ((BlocksOf(entries'[a]) + written'[a]) - (BlocksOf(entries[a]) + written[a]))
                        + ((BlocksOf(entries'[b]) + written'[b]) - (BlocksOf(entries[b]) + written[b]))
<1>1. UsedIs /\ UsedIs'
  BY UsedNow, UsedNext
<1>2. \A i \in Inodes : /\ UsedBy[i] = BlocksOf(entries[i]) + written[i]
                        /\ UsedBy'[i] = BlocksOf(entries'[i]) + written'[i]
  BY DEF UsedBy
<1>3. \A i \in Inodes \ {a, b} : UsedBy'[i] = UsedBy[i]
  BY <1>2
<1>4. /\ Weighted(UsedBy, Inodes) /\ Weighted(UsedBy', Inodes)
      /\ Used = SumFunctionOnSet(UsedBy, Inodes) /\ Used' = SumFunctionOnSet(UsedBy', Inodes)
  BY <1>1 DEF UsedIs, Weighted, Inodes
<1>5. SumFunctionOnSet(UsedBy', Inodes) - SumFunctionOnSet(UsedBy, Inodes)
         = (UsedBy'[a] - UsedBy[a]) + (UsedBy'[b] - UsedBy[b])
  BY <1>3, <1>4, SumOfTwo
<1>. QED
  BY <1>2, <1>4, <1>5

Space ==
    /\ written \in [Inodes -> Nat] /\ Used <= MaxBlocks
    /\ leaked \in [Inodes -> 0 .. MaxRefs]
    /\ status \in {"ok", "abort", "broken"}

LEMMA FilledIs == IInv /\ Space => Filled
  BY DEF IInv, Typed, Space, Filled

LEMMA InitSpace == Init => Space
<1>. SUFFICES ASSUME Init PROVE Space
  OBVIOUS
<1>1. /\ entries = [i \in Inodes |-> IF i = Root THEN Dots(Root, Root) ELSE <<>>]
      /\ written = [i \in Inodes |-> 0] /\ leaked = [i \in Inodes |-> 0] /\ status = "ok"
  BY DEF Init, None
<1>2. entries \in [Inodes -> Seq(EntryType)] /\ Root \in Inodes
  BY InitInv, InodesAre DEF IInv, Typed
<1>3. UsedIs
  BY <1>1, <1>2, UsedNow DEF Filled
<1>4. \A i \in Inodes : UsedBy[i] = IF i = Root THEN 1 ELSE 0
  <2>1. UsedBy[Root] = BlocksOf(Dots(Root, Root)) + 0
    BY <1>1, <1>2 DEF UsedBy
  <2>2. \A i \in Inodes \ {Root} : UsedBy[i] = BlocksOf(<<>>) + 0
    BY <1>1 DEF UsedBy
  <2>. QED
    BY <1>2, <2>1, <2>2, FirstBlocks
<1>5. SumFunctionOnSet(UsedBy, Inodes) = UsedBy[Root] + SumFunctionOnSet(UsedBy, Inodes \ {Root})
  <2>1. Weighted(UsedBy, Inodes)
    BY <1>3 DEF UsedIs
  <2>. QED
    <3>1. Root \in Inodes
      BY <1>2
    <3>. QED
      BY <2>1, <3>1, SumTake
<1>6. SumFunctionOnSet(UsedBy, Inodes \ {Root}) = 0
  <2>1. Weighted(UsedBy, Inodes \ {Root})
    BY <1>3, WeightedPart DEF UsedIs
  <2>. QED
    BY <1>4, <2>1, SumZero
<1>7. Used = 1
  BY <1>2, <1>3, <1>4, <1>5, <1>6 DEF UsedIs
<1>8. written \in [Inodes -> Nat] /\ leaked \in [Inodes -> 0 .. MaxRefs]
  BY <1>1, VolumeAssumption
<1>. QED
  BY <1>1, <1>7, <1>8, VolumeAssumption DEF Space

\* What testfs_create_file_or_dir takes it has counted before.
LEMMA CreateFits ==
    ASSUME IInv, IInv', Space, NEW n \in AnyName, NEW kind \in {"file", "dir"}, Create(n, kind)
    PROVE  Space'
<1>1. CASE UNCHANGED <<type, entries, written, cwd, count, leaked>> /\ status' \in {"ok", "broken", status}
  BY <1>1 DEF Space, Used, BlocksOf, CellsOf
<1>. DEFINE i == FreeInode
            new == With(entries[cwd], n, i)
            own == IF kind = "dir" THEN 1 ELSE 0
<1>2. CASE /\ ~(own + (BlocksOf(new) - BlocksOf(entries[cwd])) > Left)
           /\ entries' = [entries EXCEPT ![cwd] = new,
                                         ![i] = IF kind = "dir" THEN Dots(i, cwd) ELSE <<>>]
           /\ UNCHANGED <<written, leaked, status>>
  <2>1. i \in Inodes /\ type[i] = "none" /\ cwd \in Inodes /\ type[cwd] = "dir"
    BY FreeInodeIsFree DEF IInv, Stands, Typed
  <2>2. i # cwd /\ entries[i] = <<>> /\ DOMAIN entries = Inodes
    BY <2>1 DEF IInv, Dotted, Typed
  <2>. HIDE DEF i
  <2>3. /\ \A j \in Inodes \ {cwd, i} : entries'[j] = entries[j] /\ written'[j] = written[j]
        /\ entries'[cwd] = new /\ entries'[i] = IF kind = "dir" THEN Dots(i, cwd) ELSE <<>>
    BY <1>2, <2>1, <2>2
  <2>4. BlocksOf(entries'[i]) = own /\ BlocksOf(entries[i]) = 0
    BY <2>1, <2>2, <2>3, FirstBlocks
  <2>5. Filled /\ Filled'
    BY <1>2, FilledIs DEF IInv, Typed, Filled, Space
  <2>6. Used' - Used = ((BlocksOf(entries'[cwd]) + written'[cwd]) - (BlocksOf(entries[cwd]) + written[cwd]))
                     + ((BlocksOf(entries'[i]) + written'[i]) - (BlocksOf(entries[i]) + written[i]))
    BY <2>1, <2>2, <2>3, <2>5, UsedChange
  <2>7. UsedIs /\ UsedIs'
    BY <2>5, UsedNow, UsedNext
  <2>8. Used \in Nat /\ Used' \in Nat
    BY <2>7 DEF UsedIs
  <2>9. /\ BlocksOf(entries'[cwd]) \in Nat /\ BlocksOf(entries[cwd]) \in Nat
        /\ written[cwd] \in Nat /\ written[i] \in Nat
        /\ written'[cwd] = written[cwd] /\ written'[i] = written[i]
    BY <1>2, <2>1, <2>7, <2>5 DEF UsedIs, Filled
  <2>10. own + (BlocksOf(entries'[cwd]) - BlocksOf(entries[cwd])) <= MaxBlocks - Used
    <3>1. Left = MaxBlocks - Used /\ MaxBlocks \in Int /\ own \in Int
      BY VolumeAssumption DEF Left
    <3>. HIDE DEF own, new
    <3>. QED
      BY <1>2, <2>3, <2>8, <2>9, <3>1
  <2>11. Used' <= MaxBlocks
    <3>1. own \in Int /\ MaxBlocks \in Int
      BY VolumeAssumption
    <3>. HIDE DEF own
    <3>. QED
      BY <2>4, <2>6, <2>8, <2>9, <2>10, <3>1
  <2>. QED
    BY <1>2, <2>11 DEF Space
<1>. QED
  <2>1. \/ UNCHANGED <<type, entries, written, cwd, count, leaked>> /\ status' \in {"ok", "broken", status}
        \/ /\ ~(own + (BlocksOf(new) - BlocksOf(entries[cwd])) > Left)
           /\ entries' = [entries EXCEPT ![cwd] = new,
                                         ![i] = IF kind = "dir" THEN Dots(i, cwd) ELSE <<>>]
           /\ UNCHANGED <<written, leaked, status>>
    BY DEF Create, vars
  <2>. QED
    BY <1>1, <1>2, <2>1

LEMMA RemoveFits ==
    ASSUME IInv, IInv', Space, NEW n \in AnyName, RemoveEntry(n)
    PROVE  Space'
<1>1. PICK i, p : Dropped(n, i, p) /\ n \in Names
  BY RemoveDrops
<1>2. /\ i \in Inodes /\ i # cwd /\ cwd \in Inodes
      /\ \A j \in Inodes \ {i, cwd} : entries'[j] = entries[j]
      /\ entries'[i] = <<>> /\ Len(entries'[cwd]) = Len(entries[cwd])
      /\ UNCHANGED <<leaked, status>>
  <2>1. cwd \in Inodes
    BY DEF IInv, Typed
  <2>. QED
    BY <1>1, <2>1 DEF Dropped
<1>3. \A k \in 1 .. Len(entries[cwd]) : entries'[cwd][k].name = entries[cwd][k].name
  <2>1. entries[cwd][p] = Entry(n, i)
    BY <1>1 DEF Dropped
  <2>2. \A k \in 1 .. Len(entries[cwd]) :
            entries'[cwd][k] = IF k = p THEN Entry(n, Removed) ELSE entries[cwd][k]
    BY <1>1 DEF Dropped
  <2>3. Entry(n, Removed).name = n /\ Entry(n, i).name = n
    BY DEF Entry
  <2>4. ASSUME NEW k \in 1 .. Len(entries[cwd])
        PROVE  entries'[cwd][k].name = entries[cwd][k].name
    <3>1. CASE k = p
      BY <2>1, <2>2, <2>3, <3>1
    <3>2. CASE k # p
      BY <2>2, <3>2
    <3>. QED
      BY <3>1, <3>2
  <2>. QED
    BY <2>4
<1>4. entries[cwd] \in Seq(EntryType) /\ entries'[cwd] \in Seq(EntryType)
  BY <1>2 DEF IInv, Typed
<1>5. BlocksOf(entries'[cwd]) = BlocksOf(entries[cwd])
  BY <1>2, <1>3, <1>4, SameNamesSameBlocks
<1>6. /\ written' \in [Inodes -> Nat] /\ written \in [Inodes -> Nat]
      /\ \A j \in Inodes : written'[j] = written[j] \/ written'[j] = 0
      /\ \A j \in Inodes \ {i} : written'[j] = written[j]
  <2>1. written' = [written EXCEPT ![Lookup(cwd, n)] = 0] /\ entries' = [entries EXCEPT ![cwd] = Unlink(@, n, Lookup(cwd, n)), ![Lookup(cwd, n)] = <<>>]
    BY DEF RemoveEntry
  <2>2. type' = [type EXCEPT ![i] = "none"] /\ type' = [type EXCEPT ![Lookup(cwd, n)] = "none"]
    BY <1>1 DEF Dropped, RemoveEntry
  <2>3. type[i] # "none" /\ DOMAIN type = Inodes
    <3>1. Link(cwd, p) /\ Target(cwd, p) = i
      BY <1>1 DEF Dropped, Target, Entry
    <3>. QED
      BY <3>1 DEF IInv, LinksToUsed, Typed
  <2>4. Lookup(cwd, n) = i
    BY <1>2, <2>2, <2>3
  <2>. QED
    BY <2>1, <2>4 DEF Space
<1>7. Filled /\ Filled'
  BY <1>6, FilledIs DEF IInv, Typed, Filled
<1>8. Used' - Used = ((BlocksOf(entries'[i]) + written'[i]) - (BlocksOf(entries[i]) + written[i]))
                   + ((BlocksOf(entries'[cwd]) + written'[cwd]) - (BlocksOf(entries[cwd]) + written[cwd]))
  BY <1>2, <1>6, <1>7, UsedChange
<1>9. UsedIs /\ UsedIs'
  BY <1>7, UsedNow, UsedNext
<1>10. /\ Used \in Nat /\ Used' \in Nat /\ BlocksOf(entries[i]) \in Nat /\ BlocksOf(entries[cwd]) \in Nat
       /\ BlocksOf(entries'[i]) = 0
  BY <1>2, <1>9, FirstBlocks DEF UsedIs
<1>11. /\ written[i] \in Nat /\ written'[i] \in Nat /\ written'[i] <= written[i]
       /\ written'[cwd] = written[cwd] /\ written[cwd] \in Nat
  BY <1>2, <1>6
<1>12. Used <= MaxBlocks /\ MaxBlocks \in Nat
  BY VolumeAssumption DEF Space
<1>13. Used' <= MaxBlocks
  BY <1>5, <1>8, <1>10, <1>11, <1>12
<1>. QED
  BY <1>2, <1>6, <1>13 DEF Space

LEMMA WriteFits ==
    ASSUME IInv, IInv', Space, NEW n \in AnyName, WriteBlock(n)
    PROVE  Space'
<1>. DEFINE i == Lookup(cwd, n)
<1>1. /\ i # Removed /\ Left > 0 /\ written' = [written EXCEPT ![i] = @ + 1] /\ type[i] = "file"
      /\ UNCHANGED <<type, entries, cwd, count, leaked, status>>
  BY DEF WriteBlock
<1>2. i \in Inodes /\ cwd \in Inodes /\ type[cwd] = "dir"
  BY <1>1, LookupFinds DEF IInv, Typed, Stands
<1>. HIDE DEF i
<1>3. i # cwd
  BY <1>1, <1>2
<1>4. Filled /\ Filled'
  <2>1. Filled
    BY FilledIs
  <2>2. entries' = entries /\ written' = [written EXCEPT ![i] = @ + 1]
    BY <1>1
  <2>. QED
    BY <1>2, <2>1, <2>2 DEF Filled
<1>5. \A j \in Inodes \ {i, cwd} : entries'[j] = entries[j] /\ written'[j] = written[j]
  BY <1>1, <1>4 DEF Filled
<1>6. Used' - Used = ((BlocksOf(entries'[i]) + written'[i]) - (BlocksOf(entries[i]) + written[i]))
                   + ((BlocksOf(entries'[cwd]) + written'[cwd]) - (BlocksOf(entries[cwd]) + written[cwd]))
  BY <1>2, <1>3, <1>4, <1>5, UsedChange
<1>7. UsedIs /\ UsedIs'
  BY <1>4, UsedNow, UsedNext
<1>8. /\ Used \in Nat /\ Used' \in Nat /\ BlocksOf(entries[i]) \in Nat /\ BlocksOf(entries[cwd]) \in Nat
      /\ entries' = entries
  BY <1>1, <1>2, <1>7 DEF UsedIs
<1>9. written[i] \in Nat /\ written'[i] = written[i] + 1 /\ written'[cwd] = written[cwd] /\ written[cwd] \in Nat
  BY <1>1, <1>2, <1>3, <1>4 DEF Filled
<1>10. MaxBlocks - Used > 0 /\ MaxBlocks \in Nat
  BY <1>1, VolumeAssumption DEF Left
<1>11. Used' <= MaxBlocks
  BY <1>6, <1>8, <1>9, <1>10
<1>. QED
  BY <1>1, <1>4, <1>11 DEF Space, Filled

LEMMA SpaceStays ==
    ASSUME Space, UNCHANGED <<entries, written>>, leaked' \in [Inodes -> 0 .. MaxRefs],
           status' \in {status, "abort"}
    PROVE  Space'
  BY DEF Space, Used, BlocksOf, CellsOf

LEMMA NextSpace == IInv /\ Space /\ [Next]_vars => Space'
<1>. SUFFICES ASSUME IInv, Space, [Next]_vars PROVE Space'
  OBVIOUS
<1>1. IInv'
  BY NextInv
<1>2. leaked \in [Inodes -> 0 .. MaxRefs]
  BY DEF Space
<1>3. CASE UNCHANGED vars
  BY <1>2, <1>3, SpaceStays DEF vars
<1>4. ASSUME NEW n \in AnyName, Cd(n) PROVE Space'
  <2>1. UNCHANGED <<type, entries, written, leaked, status>>
    BY <1>4 DEF Cd
  <2>. QED
    BY <1>2, <2>1, SpaceStays
<1>5. ASSUME NEW n \in AnyName, LsFile(n) PROVE Space'
  <2>. DEFINE i == Lookup(cwd, n)
  <2>1. /\ i # Removed /\ count[i] < MaxRefs /\ leaked' = [leaked EXCEPT ![i] = @ + 1]
        /\ UNCHANGED <<type, entries, written, cwd, status>>
    BY <1>5 DEF LsFile
  <2>2. i \in Inodes
    BY <2>1, LookupFinds DEF IInv, Typed
  <2>3. leaked[i] \in Nat /\ count[i] >= leaked[i]
    <3>1. leaked[i] \in Nat
      BY <1>2, <2>2
    <3>. QED
      BY <2>2, <3>1 DEF IInv, RefsReturned
  <2>4. leaked[i] + 1 \in 0 .. MaxRefs
    <3>1. count[i] \in Int
      BY <2>2 DEF IInv, Typed
    <3>. QED
      BY <2>1, <2>3, <3>1, VolumeAssumption
  <2>. HIDE DEF i
  <2>5. leaked' \in [Inodes -> 0 .. MaxRefs]
    BY <1>2, <2>1, <2>2, <2>4
  <2>. QED
    BY <2>1, <2>5, SpaceStays
<1>6. ASSUME Quit PROVE Space'
  <2>1. UNCHANGED <<type, entries, written, leaked>> /\ status' \in {status, "abort"}
    BY <1>6 DEF Quit
  <2>. QED
    BY <1>2, <2>1, SpaceStays
<1>. QED
  BY <1>1, <1>3, <1>4, <1>5, <1>6, CreateFits, RemoveFits, WriteFits DEF Next

\* Whatever the names, their lengths and the volume, no inode is given out
\* that the inode blocks have no place for, no block that the volume has not,
\* and no reference more than the bound.
THEOREM DirectoryTypes == Spec => []TypeOK
<1>1. IInv /\ Space => TypeOK
  <2>. SUFFICES ASSUME IInv, Space PROVE TypeOK
    OBVIOUS
  <2>1. Allocated \subseteq 0 .. NrInodes - 1
    BY VolumeAssumption DEF IInv, Typed, Allocated, Inodes
  <2>2. \A i \in Inodes : \A k \in DOMAIN entries[i] :
            entries[i][k].name \in AnyName /\ entries[i][k].nr \in Inodes \cup {Removed}
    <3>1. \A i \in Inodes : entries[i] \in Seq(EntryType)
      BY DEF IInv, Typed
    <3>2. \A i \in Inodes : \A k \in DOMAIN entries[i] : entries[i][k] \in EntryType
      BY <3>1
    <3>. QED
      BY <3>2 DEF EntryType
  <2>3. Left \in 0 .. MaxBlocks
    <3>1. UsedIs
      BY FilledIs, UsedNow
    <3>. QED
      BY <3>1, VolumeAssumption DEF UsedIs, Space, Left
  <2>4. count \in [Inodes -> 0 .. MaxRefs + 1]
    <3>1. \A i \in Inodes : leaked[i] \in 0 .. MaxRefs /\ count[i] = leaked[i] + (IF i = cwd THEN 1 ELSE 0)
      BY DEF IInv, RefsReturned, Space
    <3>2. \A i \in Inodes : count[i] \in 0 .. MaxRefs + 1
      BY <3>1, VolumeAssumption
    <3>. QED
      BY <3>2 DEF IInv, Typed
  <2>. QED
    BY <2>1, <2>2, <2>3, <2>4 DEF IInv, Typed, Space, TypeOK
<1>. QED
  BY <1>1, InitInv, NextInv, InitSpace, NextSpace, PTL DEF Spec
=============================================================================
