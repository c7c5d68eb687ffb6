----------------------------- MODULE FileCache ------------------------------
(***************************************************************************)
(* The file cache of webserver/server_thread.c and the requests that use   *)
(* it (do_server_request, with request.c's request_init, request_readfile  *)
(* and request_sendfile).  The threads are the nr_threads workers, or the  *)
(* master alone when nr_threads is 0: they run the same function.          *)
(*                                                                         *)
(* A file_data is named by an address in Data: malloc returns an address   *)
(* that is not in use.  Data is finite, so a behaviour makes as many       *)
(* requests as the addresses last: the code frees a file_data only when    *)
(* the method is not GET.  A hash chain is the sequence of the file_datas  *)
(* of its entries.  The disk may change between any two steps; stat and    *)
(* read of one file are one step.                                          *)
(*                                                                         *)
(* A use of a freed entry or of NULL is undefined: fault is set and the    *)
(* behaviour ends.                                                         *)
(*                                                                         *)
(* Definitions marked "fault" are variants of the next definition with a   *)
(* plausible bug; no specification uses them.                              *)
(***************************************************************************)
EXTENDS Integers, Sequences, SequencesExt, FiniteSetsExt

CONSTANTS
    Threads,
    Data,           \* addresses malloc can give a file_data
    Names,          \* file names
    Sizes,          \* sizes a file can have
    Bucket,         \* Bucket[n]: hash(n)
    CacheSize,      \* max_cache_size, and ht->cache_size
    MaxChanges,     \* bound: how often the disk changes
    None            \* no address, no thread

ASSUME NamesAssumption == Names # {}
ASSUME SizesAssumption == Sizes \subseteq Nat
ASSUME CacheSizeAssumption == CacheSize \in Nat
ASSUME MaxChangesAssumption == MaxChanges \in Nat
ASSUME NoneAssumption == None \notin Data /\ None \notin Threads

Buckets == {Bucket[n] : n \in Names}
Refused == -1       \* on disk: not there, or request_readfile does not serve it

VARIABLES
    disk, changes,  \* disk[n]: the size of file n, or Refused; changes so far
    live,           \* addresses malloc has handed out and nobody freed
    data,           \* data[d]: the fields of the file_data at d
    table,          \* table[b]: the chain of bucket b
    stale,          \* buckets whose table entry points to a freed entry
    LRU,            \* ht->LRU, the least recently used first
    available,      \* ht->available_cache_size
    ht_lock,        \* the thread that has the lock, or None
    pc, mine,       \* where a thread is; the file_data it made
    rqdata,         \* its rq->data
    sent,           \* the status lines it has sent on its connection
    fault

cacheVars == <<table, stale, LRU, available>>
threadVars == <<pc, mine, rqdata, sent>>
vars == <<disk, changes, live, data, cacheVars, ht_lock, threadVars, fault>>

TypeOK ==
    /\ disk \in [Names -> Sizes \cup {Refused}] /\ changes \in 0 .. MaxChanges
    /\ live \subseteq Data /\ data \in [Data -> [name : Names, size : Sizes \cup {0}]]
    /\ table \in [Buckets -> Seq(Data)] /\ stale \subseteq Buckets
    /\ LRU \in Seq(Data)
    /\ available \in 0 .. CacheSize
    /\ ht_lock \in Threads \cup {None}
    /\ pc \in [Threads -> {"idle", "lookup", "read", "send_hit", "send", "insert", "evict", "close"}]
    /\ mine \in [Threads -> Data \cup {None}] /\ rqdata \in [Threads -> Data \cup {None}]
    /\ sent \in [Threads -> Seq({"200", "404", "501"})]
    /\ fault \in {"none", "freed", "null"}

Init ==
    /\ disk \in [Names -> Sizes \cup {Refused}] /\ changes = 0
    /\ live = {} /\ data = [d \in Data |-> [name |-> CHOOSE n \in Names : TRUE, size |-> 0]]
    /\ table = [b \in Buckets |-> <<>>] /\ stale = {} /\ LRU = <<>>
    /\ available = CacheSize
    /\ ht_lock = None
    /\ pc = [t \in Threads |-> "idle"]
    /\ mine = [t \in Threads |-> None] /\ rqdata = [t \in Threads |-> None]
    /\ sent = [t \in Threads |-> <<>>]
    /\ fault = "none"

Goto(t, l) == pc' = [pc EXCEPT ![t] = l]
Reply(t, status) == sent' = [sent EXCEPT ![t] = Append(@, status)]

Name(d) == data[d].name
Size(d) == data[d].size
Chain(n) == table[Bucket[n]]

----------------------------------------------------------------------------
(* The hash table and the LRU list.                                        *)

\* update_LRU: f is moved to the end of the list, or put there.
UpdateLRU_Stays(s, f) ==                \* fault: a file found is not moved
    IF \E i \in DOMAIN s : s[i] = f THEN s ELSE Append(s, f)
UpdateLRU_Again(s, f) == Append(s, f)   \* fault: a file found is listed again
UpdateLRU(s, f) == Append(RemoveFirst(s, f), f)

\* cache_lookup: the chain entries for a name; the first is returned.
Matches_AnyName(n) == DOMAIN Chain(n)   \* fault: the name is not compared
Matches(n) == {i \in DOMAIN Chain(n) : Name(Chain(n)[i]) = n}
Found(n) == Chain(n)[Min(Matches(n))]

AvailableWithout_Same(d) == available   \* fault: the size is not given back
AvailableWithout(d) == available + Size(d)

\* Whether file size s fits without an eviction.
Fits_OffByOne(s) == s <= available + 1  \* fault
Fits(s) == s <= available
TooLarge(s) == 2 * s > CacheSize

\* delete_entry: an entry that is alone in its chain leaves the table empty,
\* one with a predecessor is unlinked.  The first of several is freed, but
\* the table still points to it.
DeleteEntry(d) ==
    LET b == Bucket[Name(d)] IN
    /\ table' = [table EXCEPT ![b] = IF Len(@) = 1 THEN <<>> ELSE RemoveFirst(@, d)]
    /\ stale' = IF Len(table[b]) > 1 /\ Head(table[b]) = d THEN stale \cup {b} ELSE stale

\* What cache_evict frees besides the entries: nothing.
FreedWith_Data(d) == {d}                \* fault: the file_data too
FreedWith(d) == {}

Crash(kind) == fault' = kind /\ UNCHANGED <<disk, changes, live, data, cacheVars, ht_lock, threadVars>>

----------------------------------------------------------------------------
(* do_server_request.                                                      *)

Running == fault = "none"

\* file_data_init and request_init.  A method other than GET is answered
\* with 501, and request_destroy and file_data_free clean up.
Begin(t) == \E d \in Data \ live, n \in Names :
    /\ Running /\ pc[t] = "idle"
    /\ data' = [data EXCEPT ![d] = [name |-> n, size |-> 0]]
    /\ live' = live \cup {d}
    /\ mine' = [mine EXCEPT ![t] = d] /\ rqdata' = [rqdata EXCEPT ![t] = d]
    /\ sent' = [sent EXCEPT ![t] = <<>>]
    /\ Goto(t, IF CacheSize > 0 THEN "lookup" ELSE "read")
    /\ UNCHANGED <<disk, changes, cacheVars, ht_lock, fault>>

NotGet(t) ==
    /\ Running /\ pc[t] = "idle"
    /\ sent' = [sent EXCEPT ![t] = <<"501">>]
    /\ UNCHANGED <<disk, changes, live, data, cacheVars, ht_lock, pc, mine, rqdata, fault>>

\* cache_lookup(data, 0) under ht_lock.
Lookup(t) ==
    LET n == Name(mine[t]) IN
    /\ Running /\ pc[t] = "lookup" /\ ht_lock = None
    /\ IF Bucket[n] \in stale THEN Crash("freed") ELSE
       \/ /\ Matches(n) # {}
          /\ LRU' = UpdateLRU(LRU, Found(n))
          /\ rqdata' = [rqdata EXCEPT ![t] = Found(n)]
          /\ Goto(t, "send_hit")
          /\ UNCHANGED <<disk, changes, live, data, table, stale, available, ht_lock, mine, sent, fault>>
       \/ /\ Matches(n) = {}
          /\ Goto(t, "read")
          /\ UNCHANGED <<disk, changes, live, data, cacheVars, ht_lock, mine, rqdata, sent, fault>>

\* request_readfile; its result is ignored by the caller.
ReadFile(t) ==
    LET n == Name(mine[t]) IN
    /\ Running /\ pc[t] = "read"
    /\ \/ disk[n] = Refused /\ Reply(t, "404") /\ UNCHANGED data
       \/ disk[n] # Refused /\ data' = [data EXCEPT ![mine[t]].size = disk[n]] /\ UNCHANGED sent
    /\ Goto(t, "send")
    /\ UNCHANGED <<disk, changes, live, cacheVars, ht_lock, mine, rqdata, fault>>

\* request_sendfile, with the cached file_data or with the one just read.
SendFile(t) ==
    /\ Running /\ pc[t] \in {"send_hit", "send"}
    /\ Reply(t, "200")
    /\ Goto(t, IF pc[t] = "send" /\ CacheSize > 0 THEN "insert" ELSE "close")
    /\ UNCHANGED <<disk, changes, live, data, cacheVars, ht_lock, mine, rqdata, fault>>

\* cache_insert_ht: the chain is walked to its end, unless it is empty.
InsertHT(d) ==
    /\ table' = [table EXCEPT ![Bucket[Name(d)]] = Append(@, d)]
    /\ LRU' = UpdateLRU(LRU, d)
    /\ available' = available - Size(d)

\* The second critical section: cache_lookup(data, 1), which leaves LRU
\* alone, and cache_insert.  If room must be made the thread goes on to
\* cache_evict and keeps the lock.
SecondLookup_None(n) == {}              \* fault: another's insertion not seen
SecondLookup(n) == Matches(n)

Insert(t) ==
    LET d == mine[t] n == Name(mine[t]) IN
    /\ Running /\ pc[t] = "insert" /\ ht_lock = None
    /\ IF Bucket[n] \in stale THEN Crash("freed") ELSE
       \/ /\ SecondLookup(n) # {} \/ TooLarge(Size(d))
          /\ Goto(t, "close")
          /\ UNCHANGED <<disk, changes, live, data, cacheVars, ht_lock, mine, rqdata, sent, fault>>
       \/ /\ SecondLookup(n) = {} /\ ~TooLarge(Size(d)) /\ Fits(Size(d))
          /\ InsertHT(d)
          /\ Goto(t, "close")
          /\ UNCHANGED <<disk, changes, live, data, stale, ht_lock, mine, rqdata, sent, fault>>
       \/ /\ SecondLookup(n) = {} /\ ~TooLarge(Size(d)) /\ ~Fits(Size(d))
          /\ ht_lock' = t
          /\ Goto(t, "evict")
          /\ UNCHANGED <<disk, changes, live, data, cacheVars, mine, rqdata, sent, fault>>

\* One round of cache_evict.  delete_entry reads the first entry of the
\* chain, and the ones after it if there are any.
Evict(t) ==
    /\ Running /\ pc[t] = "evict" /\ ~Fits(Size(mine[t]))
    /\ IF LRU = <<>> THEN Crash("null")
       ELSE IF Bucket[Name(Head(LRU))] \in stale THEN Crash("freed")
       ELSE
          /\ available' = AvailableWithout(Head(LRU))
          /\ LRU' = Tail(LRU)
          /\ DeleteEntry(Head(LRU))
          /\ live' = live \ FreedWith(Head(LRU))
          /\ UNCHANGED <<disk, changes, data, ht_lock, threadVars, fault>>

\* cache_evict returns and cache_insert_ht follows.
InsertAfterEvict(t) ==
    /\ Running /\ pc[t] = "evict" /\ Fits(Size(mine[t]))
    /\ IF Bucket[Name(mine[t])] \in stale THEN Crash("freed") ELSE
          /\ InsertHT(mine[t])
          /\ ht_lock' = None
          /\ Goto(t, "close")
          /\ UNCHANGED <<disk, changes, live, data, stale, mine, rqdata, sent, fault>>

\* request_destroy closes the connection.
Close(t) ==
    /\ Running /\ pc[t] = "close"
    /\ Goto(t, "idle")
    /\ mine' = [mine EXCEPT ![t] = None] /\ rqdata' = [rqdata EXCEPT ![t] = None]
    /\ UNCHANGED <<disk, changes, live, data, cacheVars, ht_lock, sent, fault>>

\* The environment writes or removes a file.
ChangeDisk(n, s) ==
    /\ Running /\ changes < MaxChanges
    /\ disk' = [disk EXCEPT ![n] = s] /\ changes' = changes + 1
    /\ UNCHANGED <<live, data, cacheVars, ht_lock, threadVars, fault>>

Step(t) ==
    \/ Begin(t) \/ NotGet(t) \/ Lookup(t) \/ ReadFile(t) \/ SendFile(t)
    \/ Insert(t) \/ Evict(t) \/ InsertAfterEvict(t) \/ Close(t)

Next ==
    \/ \E t \in Threads : Step(t)
    \/ \E n \in Names, s \in Sizes \cup {Refused} : ChangeDisk(n, s)

Spec == Init /\ [][Next]_vars

----------------------------------------------------------------------------
(* Properties.                                                             *)

Entries == UNION {{b} \X (DOMAIN table[b]) : b \in Buckets \ stale}
At(e) == table[e[1]][e[2]]

\* The hash table and the LRU list hold the same files, each file once and in
\* the chain of its name: insertion, eviction and the two lookups update two
\* structures, with other threads in between.
TableMatchesLRU ==
    /\ \A e, f \in Entries : At(e) = At(f) => e = f
    /\ \A e \in Entries : Bucket[Name(At(e))] = e[1]
    /\ IsInjective(LRU)
    /\ {At(e) : e \in Entries} = {LRU[i] : i \in {j \in DOMAIN LRU : Bucket[Name(LRU[j])] \notin stale}}

\* Two threads that miss on one name at a time both read it, and only one
\* file_data of that name is inserted.
OneCopyPerName == \A i, j \in DOMAIN LRU : Name(LRU[i]) = Name(LRU[j]) => i = j

\* The sizes of the files of a list together: a list has none twice.
Total(s) == SumFunctionOnSet([d \in Data |-> Size(d)], Range(s))

\* The space left is the limit less the files kept, and never negative:
\* sizes are subtracted in cache_insert_ht and given back in cache_evict.
SpaceAccounted ==
    /\ available = CacheSize - Total(LRU)
    /\ available >= 0

\* A reply carries the file that was asked for, also when it comes from the
\* cache and whatever else hashes to the same bucket.
RightFile == \A t \in Threads : pc[t] \in {"send_hit", "send"} => Name(rqdata[t]) = Name(mine[t])

\* do_server_request sends a cached file after it released the lock: another
\* thread may evict the file meanwhile, but nobody frees it.
NoUseAfterFree == \A t \in Threads : pc[t] \in {"send_hit", "send"} => rqdata[t] \in live

\* A table entry is not used after it was freed.
NoFault == fault = "none"

\* The cache the promise is about.  When a thread starts to evict, the
\* promise drops the files and keeps the new one at once.
File(d) == data[d]
Files(s) == [i \in DOMAIN s |-> File(s[i])]
Evicting == \E t \in Threads : pc[t] = "evict"
Evictor == CHOOSE t \in Threads : pc[t] = "evict"
\* The files the loop of cache_evict will leave: all but the first k.
Rest(k) == SubSeq(LRU, k + 1, Len(LRU))
RoomAfter(k) == CacheSize - Total(Rest(k))
LeftByEvict ==
    Rest(CHOOSE k \in 0 .. Len(LRU) :
            /\ RoomAfter(k) >= Size(mine[Evictor])
            /\ \A j \in 0 .. k - 1 : RoomAfter(j) < Size(mine[Evictor]))

Kept == IF Evicting THEN Append(Files(LeftByEvict), File(mine[Evictor])) ELSE Files(LRU)
Given == [t \in Threads |-> IF pc[t] = "send_hit" THEN File(rqdata[t]) ELSE None]

Promised == INSTANCE LRUCache WITH
    Capacity <- CacheSize, Sizes <- Sizes \cup {0}, Readers <- Threads, Nothing <- None,
    given <- Given, cache <- Kept

\* The two structures implement a least-recently-used cache: see LRUCache.
ImplementsLRU == Promised!Spec
=============================================================================
