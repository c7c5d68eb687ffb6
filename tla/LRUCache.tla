------------------------------ MODULE LRUCache ------------------------------
(***************************************************************************)
(* What the file cache of the web server promises: files in the order of   *)
(* their last use, no name twice, never more than Capacity in size; a file *)
(* of more than half the capacity is not kept; room is made by dropping    *)
(* the least recently used files, and no more of them than is necessary.   *)
(***************************************************************************)
EXTENDS Integers, Sequences, SequencesExt

CONSTANTS Readers, Names, Sizes, Capacity, Nothing

VARIABLES
    cache,      \* the cached files, the least recently used first
    given       \* given[r]: the file reader r was given and still uses

TotalSize(s) == SumFunction([i \in DOMAIN s |-> s[i].size])
Room(s) == Capacity - TotalSize(s)
Cached(n) == \E i \in DOMAIN cache : cache[i].name = n

Suffix(s, k) == SubSeq(s, k + 1, Len(s))

\* The files left when as few as possible are dropped to make room for size.
MakeRoom(s, size) ==
    CHOOSE t \in {Suffix(s, k) : k \in 0 .. Len(s)} :
        /\ Room(t) >= size
        /\ \A k \in 0 .. Len(s) :
             Room(Suffix(s, k)) >= size => Len(Suffix(s, k)) <= Len(t)

Init == cache = <<>> /\ given = [r \in Readers |-> Nothing]

\* Reader r asks for a file that is cached: to be given it is to use it.
Use(r, i) ==
    /\ given[r] = Nothing
    /\ given' = [given EXCEPT ![r] = cache[i]]
    /\ cache' = Append(RemoveAt(cache, i), cache[i])

Finish(r) ==
    /\ given' = [given EXCEPT ![r] = Nothing]
    /\ UNCHANGED cache

Keep(f) ==
    /\ ~Cached(f.name)
    /\ 2 * f.size <= Capacity
    /\ cache' = Append(MakeRoom(cache, f.size), f)
    /\ UNCHANGED given

Next ==
    \/ \E r \in Readers : Finish(r) \/ \E i \in DOMAIN cache : Use(r, i)
    \/ \E f \in [name : Names, size : Sizes] : Keep(f)

Spec == Init /\ [][Next]_<<cache, given>>
=============================================================================
