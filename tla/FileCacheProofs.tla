-------------------------- MODULE FileCacheProofs --------------------------
(***************************************************************************)
(* Proofs about module FileCache: for any threads, files, hash function    *)
(* and limit, the hash table and the LRU list hold the same files, no file *)
(* twice, a request is answered with the file it asked for, the space left *)
(* is what the files kept do not take, and the cache implements LRUCache.  *)
(***************************************************************************)
EXTENDS FileCache, ListProofs

FileData == [name : Names, size : Sizes \cup {0}]
Places == {"idle", "lookup", "read", "send_hit", "send", "insert", "evict", "close"}

Typed ==
    /\ disk \in [Names -> Sizes \cup {Refused}]
    /\ live \subseteq Data /\ data \in [Data -> FileData]
    /\ DOMAIN table = Buckets
    /\ pc \in [Threads -> Places]
    /\ mine \in [Threads -> Data \cup {None}] /\ rqdata \in [Threads -> Data \cup {None}]

\* What the LRU list holds was never freed, and no two have one name.
Listed ==
    /\ IsListOf(LRU, Data) /\ Range(LRU) \subseteq live
    /\ \A d, e \in Range(LRU) : Name(d) = Name(e) => d = e

InBucket(b) == {d \in Range(LRU) : Bucket[Name(d)] = b}

\* A chain that can be walked holds what the list has for its bucket.
Chained ==
    \A b \in Buckets : IsListOf(table[b], Data) /\ (b \notin stale => Range(table[b]) = InBucket(b))

\* A thread with a request has its own file_data and uses one of that name.
Owned ==
    \A t \in Threads : pc[t] # "idle" =>
        mine[t] \in live /\ rqdata[t] \in live /\ Name(rqdata[t]) = Name(mine[t])

\* A thread that evicts has the lock, and its file is not cached.
Evictors ==
    \A t \in Threads : pc[t] = "evict" =>
        ht_lock = t /\ \A d \in Range(LRU) : Name(d) # Name(mine[t])

IInv == Typed /\ Listed /\ Chained /\ Owned /\ Evictors

(***************************************************************************)
(* The operators.                                                          *)
(***************************************************************************)
LEMMA UpdateLRUList ==
    ASSUME NEW s, IsListOf(s, Data), NEW d \in Data
    PROVE  /\ IsListOf(UpdateLRU(s, d), Data)
           /\ Range(UpdateLRU(s, d)) = Range(s) \cup {d}
<1>1. /\ IsListOf(RemoveFirst(s, d), Data)
      /\ Range(RemoveFirst(s, d)) = Range(s) \ {d}
  BY RemoveFirstOfList
<1>2. d \notin Range(RemoveFirst(s, d))
  BY <1>1
<1>. QED
  BY <1>1, <1>2, AppendList DEF UpdateLRU

\* cache_lookup returns an entry of the name, if the chain has one.
LEMMA FoundHasName ==
    ASSUME IInv, NEW n \in Names
    PROVE  /\ Matches(n) = {} => \A d \in Range(Chain(n)) : Name(d) # n
           /\ Matches(n) # {} => Found(n) \in Range(Chain(n)) /\ Name(Found(n)) = n
<1>1. Bucket[n] \in Buckets
  BY DEF Buckets
<1>2. Chain(n) \in Seq(Data)
  BY <1>1 DEF IInv, Chained, IsListOf, Chain
<1>3. /\ \A d : d \in Range(Chain(n)) <=> \E i \in 1 .. Len(Chain(n)) : Chain(n)[i] = d
      /\ DOMAIN Chain(n) = 1 .. Len(Chain(n))
  BY <1>2, ListRange
<1>4. ASSUME Matches(n) # {}
      PROVE  Min(Matches(n)) \in Matches(n)
  <2>1. Matches(n) \in SUBSET Nat
    BY <1>2, <1>3 DEF Matches
  <2>. QED
    BY <1>4, <2>1, LeastExists DEF Min
<1>. QED
  BY <1>3, <1>4 DEF Matches, Found

\* If the chain of a name has no entry of it, neither has the LRU list.
LEMMA NotListed ==
    ASSUME IInv, NEW n \in Names, Bucket[n] \notin stale, Matches(n) = {}
    PROVE  \A d \in Range(LRU) : Name(d) # n
<1>1. Bucket[n] \in Buckets
  BY DEF Buckets
<1>2. Range(Chain(n)) = InBucket(Bucket[n])
  BY <1>1 DEF IInv, Chained, Chain
<1>. QED
  BY <1>2, FoundHasName DEF InBucket

(***************************************************************************)
(* The steps.  No step gives a file_data in use another name, so those     *)
(* that leave table and list alone keep what is said of them.              *)
(***************************************************************************)
NamesStay == live \subseteq live' /\ \A d \in live : Name(d)' = Name(d)

LEMMA CacheStays ==
    ASSUME IInv, NamesStay, UNCHANGED <<table, stale, LRU>>
    PROVE  Listed' /\ Chained' /\ InBucket(1)' = InBucket(1)
<1>1. Range(LRU) \subseteq live /\ Range(LRU)' = Range(LRU)
  BY DEF IInv, Listed
<1>2. \A d \in Range(LRU) : Name(d)' = Name(d)
  BY <1>1 DEF NamesStay
<1>3. Listed'
  BY <1>1, <1>2 DEF IInv, Listed, NamesStay
<1>4. \A b : InBucket(b)' = InBucket(b)
  BY <1>1, <1>2 DEF InBucket
<1>5. Chained'
  BY <1>4 DEF IInv, Chained
<1>. QED
  BY <1>3, <1>4, <1>5

LEMMA InitInv == Init => IInv
<1>. SUFFICES ASSUME Init PROVE IInv
  OBVIOUS
<1>1. Range(LRU) = {} /\ IsListOf(LRU, Data)
  BY EmptyList DEF Init
<1>2. Typed
  BY NamesAssumption DEF Init, Typed, FileData, Places
<1>3. Listed
  BY <1>1 DEF Init, Listed
<1>4. Chained
  BY <1>1, EmptyList DEF Init, Chained, InBucket
<1>. QED
  BY <1>2, <1>3, <1>4 DEF Init, IInv, Owned, Evictors

LEMMA BeginInv ==
    ASSUME IInv, NEW t \in Threads, Begin(t)
    PROVE  IInv'
<1>1. PICK d \in Data \ live, n \in Names :
        /\ data' = [data EXCEPT ![d] = [name |-> n, size |-> 0]]
        /\ live' = live \cup {d}
        /\ mine' = [mine EXCEPT ![t] = d] /\ rqdata' = [rqdata EXCEPT ![t] = d]
        /\ pc' = [pc EXCEPT ![t] = IF CacheSize > 0 THEN "lookup" ELSE "read"]
        /\ UNCHANGED <<disk, changes, cacheVars, ht_lock, fault>>
  BY DEF Begin, Goto
<1>2. Typed'
  BY <1>1 DEF IInv, Typed, FileData, Places, cacheVars
<1>3. NamesStay /\ \A e \in live : data'[e] = data[e]
  BY <1>1 DEF IInv, Typed, NamesStay, Name
<1>4. Listed' /\ Chained'
  BY <1>1, <1>3, CacheStays DEF cacheVars
<1>5. Owned'
  BY <1>1, <1>3 DEF IInv, Typed, Owned, Name
<1>6. Evictors'
  BY <1>1, <1>3 DEF IInv, Typed, Listed, Owned, Evictors, Name, cacheVars
<1>. QED
  BY <1>2, <1>4, <1>5, <1>6 DEF IInv

\* Steps that touch neither table nor list, nor the lock, nor what a thread has.
LEMMA QuietInv ==
    ASSUME IInv, Typed', NamesStay, NEW t \in Threads, NEW l \in Places \ {"evict"},
           UNCHANGED <<live, cacheVars, ht_lock, mine, rqdata>>,
           l # "idle" => pc[t] # "idle", pc' = [pc EXCEPT ![t] = l]
    PROVE  IInv'
<1>1. Listed' /\ Chained'
  BY CacheStays DEF cacheVars
<1>2. \A u \in Threads : /\ pc'[u] # "idle" => pc[u] # "idle"
                         /\ pc'[u] = "evict" => pc[u] = "evict"
  BY DEF IInv, Typed
<1>3. Owned'
  BY <1>2 DEF IInv, Owned, NamesStay
<1>4. Evictors'
  BY <1>2 DEF IInv, Listed, Owned, Evictors, NamesStay, cacheVars
<1>. QED
  BY <1>1, <1>3, <1>4 DEF IInv

\* A crash, and steps that change the disk or replies only.
LEMMA StutterInv ==
    ASSUME IInv, Typed', UNCHANGED <<live, data, cacheVars, ht_lock, pc, mine, rqdata>>
    PROVE  IInv'
  BY DEF IInv, Listed, Chained, InBucket, Owned, Evictors, Name, cacheVars

LEMMA CrashInv ==
    ASSUME IInv, NEW kind, Crash(kind)
    PROVE  IInv'
<1>1. Typed'
  BY DEF IInv, Typed, Crash, cacheVars, threadVars
<1>. QED
  BY <1>1, StutterInv DEF Crash, threadVars

LEMMA NotGetInv ==
    ASSUME IInv, NEW t \in Threads, NotGet(t)
    PROVE  IInv'
<1>1. Typed'
  BY DEF IInv, Typed, NotGet, cacheVars
<1>. QED
  BY <1>1, StutterInv DEF NotGet

LEMMA ChangeDiskInv ==
    ASSUME IInv, NEW n \in Names, NEW s \in Sizes \cup {Refused}, ChangeDisk(n, s)
    PROVE  IInv'
<1>1. Typed'
  BY DEF IInv, Typed, ChangeDisk, cacheVars, threadVars
<1>. QED
  BY <1>1, StutterInv DEF ChangeDisk, threadVars

LEMMA LookupInv ==
    ASSUME IInv, NEW t \in Threads, Lookup(t)
    PROVE  IInv'
<1>. DEFINE n == Name(mine[t])
<1>1. pc[t] = "lookup" /\ ht_lock = None
  BY DEF Lookup
<1>2. mine[t] \in live /\ mine[t] \in Data /\ n \in Names
  BY <1>1 DEF IInv, Typed, Owned, FileData, Name
<1>3. Bucket[n] \in Buckets
  BY <1>2 DEF Buckets
<1>4. CASE Bucket[n] \in stale
  BY <1>4, CrashInv DEF Lookup
<1>5. CASE Bucket[n] \notin stale /\ Matches(n) # {}
  <2>1. /\ LRU' = UpdateLRU(LRU, Found(n))
        /\ rqdata' = [rqdata EXCEPT ![t] = Found(n)]
        /\ pc' = [pc EXCEPT ![t] = "send_hit"]
        /\ UNCHANGED <<disk, changes, live, data, table, stale, available, ht_lock, mine, sent, fault>>
    BY <1>5 DEF Lookup, Goto
  <2>2. Found(n) \in Range(LRU) /\ Name(Found(n)) = n
    BY <1>2, <1>3, <1>5, FoundHasName DEF IInv, Chained, Chain, InBucket
  <2>3. Found(n) \in Data /\ Found(n) \in live
    BY <2>2 DEF IInv, Typed, Listed
  <2>4. IsListOf(LRU', Data) /\ Range(LRU') = Range(LRU)
    BY <2>1, <2>2, <2>3, UpdateLRUList DEF IInv, Listed
  <2>5. Typed'
    BY <2>1, <2>3 DEF IInv, Typed, Places
  <2>6. Listed'
    BY <2>1, <2>4 DEF IInv, Listed, Name
  <2>7. Chained'
    BY <2>1, <2>4 DEF IInv, Chained, InBucket, Name
  <2>8. Owned'
    BY <1>1, <2>1, <2>2, <2>3 DEF IInv, Typed, Owned, Name
  <2>9. Evictors'
    BY <2>1, <2>4 DEF IInv, Typed, Evictors, Name
  <2>. QED
    BY <2>5, <2>6, <2>7, <2>8, <2>9 DEF IInv
<1>6. CASE Bucket[n] \notin stale /\ Matches(n) = {}
  <2>1. /\ pc' = [pc EXCEPT ![t] = "read"]
        /\ UNCHANGED <<disk, changes, live, data, cacheVars, ht_lock, mine, rqdata, sent, fault>>
    BY <1>6 DEF Lookup, Goto
  <2>2. Typed'
    BY <2>1 DEF IInv, Typed, Places, cacheVars
  <2>3. NamesStay
    BY <2>1 DEF NamesStay, Name
  <2>. QED
    BY <1>1, <2>1, <2>2, <2>3, QuietInv DEF Places
<1>. QED
  BY <1>4, <1>5, <1>6

LEMMA ReadFileInv ==
    ASSUME IInv, NEW t \in Threads, ReadFile(t)
    PROVE  IInv'
<1>. DEFINE n == Name(mine[t])
<1>1. /\ pc[t] = "read" /\ pc' = [pc EXCEPT ![t] = "send"]
      /\ \/ UNCHANGED data
         \/ disk[n] # Refused /\ data' = [data EXCEPT ![mine[t]].size = disk[n]]
      /\ UNCHANGED <<disk, changes, live, cacheVars, ht_lock, mine, rqdata, fault>>
  BY DEF ReadFile, Goto
<1>2. mine[t] \in Data /\ n \in Names
  BY <1>1 DEF IInv, Typed, Owned, FileData, Name
<1>3. CASE UNCHANGED data
  <2>1. Typed' /\ NamesStay
    BY <1>1, <1>3 DEF IInv, Typed, NamesStay, Name, Places, cacheVars
  <2>. QED
    BY <1>1, <2>1, QuietInv DEF Places
<1>4. CASE disk[n] # Refused /\ data' = [data EXCEPT ![mine[t]].size = disk[n]]
  <2>1. disk[n] \in Sizes
    BY <1>2, <1>4 DEF IInv, Typed
  <2>2. data' \in [Data -> FileData] /\ \A d \in Data : data'[d].name = data[d].name
    BY <1>2, <1>4, <2>1 DEF IInv, Typed, FileData
  <2>3. Typed'
    BY <1>1, <2>2 DEF IInv, Typed, Places, cacheVars
  <2>4. NamesStay
    BY <1>1, <2>2 DEF IInv, Typed, NamesStay, Name
  <2>. QED
    BY <1>1, <2>3, <2>4, QuietInv DEF Places
<1>. QED
  BY <1>1, <1>3, <1>4

LEMMA SendFileInv ==
    ASSUME IInv, NEW t \in Threads, SendFile(t)
    PROVE  IInv'
<1>1. PICK l \in {"insert", "close"} :
        /\ pc[t] \in {"send_hit", "send"} /\ pc' = [pc EXCEPT ![t] = l]
        /\ UNCHANGED <<disk, changes, live, data, cacheVars, ht_lock, mine, rqdata, fault>>
  BY DEF SendFile, Goto
<1>2. Typed' /\ NamesStay
  BY <1>1 DEF IInv, Typed, NamesStay, Name, Places, cacheVars
<1>3. l \in Places \ {"evict"} /\ (l # "idle" => pc[t] # "idle")
  BY <1>1 DEF Places
<1>. QED
  BY <1>1, <1>2, <1>3, QuietInv

LEMMA CloseInv ==
    ASSUME IInv, NEW t \in Threads, Close(t)
    PROVE  IInv'
<1>1. /\ pc[t] = "close" /\ pc' = [pc EXCEPT ![t] = "idle"]
      /\ mine' = [mine EXCEPT ![t] = None] /\ rqdata' = [rqdata EXCEPT ![t] = None]
      /\ UNCHANGED <<disk, changes, live, data, cacheVars, ht_lock, sent, fault>>
  BY DEF Close, Goto
<1>2. Typed' /\ NamesStay
  BY <1>1 DEF IInv, Typed, NamesStay, Name, Places, cacheVars
<1>3. Listed' /\ Chained'
  BY <1>1, <1>2, CacheStays DEF cacheVars
<1>4. Owned'
  BY <1>1 DEF IInv, Typed, Owned, Name
<1>5. Evictors'
  BY <1>1 DEF IInv, Typed, Evictors, Name, cacheVars
<1>. QED
  BY <1>2, <1>3, <1>4, <1>5 DEF IInv

\* cache_insert_ht, by a thread that holds the lock and knows that the name is
\* not in the list, and the unlock after it.
LEMMA InsertHTInv ==
    ASSUME IInv, NEW t \in Threads, pc[t] \in {"insert", "evict"},
           ht_lock \in {None, t}, ht_lock' = None,
           Bucket[Name(mine[t])] \notin stale,
           \A d \in Range(LRU) : Name(d) # Name(mine[t]),
           InsertHT(mine[t]), pc' = [pc EXCEPT ![t] = "close"],
           UNCHANGED <<disk, live, data, stale, mine, rqdata>>
    PROVE  IInv'
<1>. DEFINE d == mine[t]
            b == Bucket[Name(d)]
<1>1. d \in live /\ d \in Data /\ Name(d) \in Names
  BY DEF IInv, Typed, Owned, FileData, Name
<1>2. b \in Buckets
  BY <1>1 DEF Buckets
<1>3. /\ table' = [table EXCEPT ![b] = Append(@, d)]
      /\ LRU' = UpdateLRU(LRU, d)
  BY DEF InsertHT
<1>4. IsListOf(LRU', Data) /\ Range(LRU') = Range(LRU) \cup {d} /\ d \notin Range(LRU)
  BY <1>1, <1>3, UpdateLRUList DEF IInv, Listed
<1>5. Typed'
  BY <1>3 DEF IInv, Typed, Places
<1>6. Listed'
  BY <1>1, <1>4 DEF IInv, Listed, Name
<1>7. Chained'
  <2>. SUFFICES ASSUME NEW c \in Buckets
                PROVE  /\ IsListOf(table'[c], Data)
                       /\ c \notin stale' => Range(table'[c]) = InBucket(c)'
    BY DEF Chained
  <2>1. InBucket(c)' = IF c = b THEN InBucket(c) \cup {d} ELSE InBucket(c)
    BY <1>4 DEF InBucket, Name
  <2>2. IsListOf(table[c], Data) /\ (c \notin stale => Range(table[c]) = InBucket(c))
    BY DEF IInv, Chained
  <2>3. CASE c = b
    <3>1. Range(table[b]) = InBucket(b) /\ d \notin Range(table[b])
      BY <1>4, <2>2, <2>3 DEF InBucket
    <3>2. table'[c] = Append(table[c], d)
      BY <1>2, <1>3, <2>3 DEF IInv, Typed
    <3>. QED
      BY <1>1, <2>1, <2>2, <2>3, <3>1, <3>2, AppendList
  <2>4. CASE c # b
    <3>1. table'[c] = table[c]
      BY <1>3, <2>4 DEF IInv, Typed
    <3>. QED
      BY <2>1, <2>2, <2>4, <3>1
  <2>. QED
    BY <2>3, <2>4
<1>8. Owned'
  BY DEF IInv, Typed, Owned, Name
<1>9. Evictors'
  BY NoneAssumption DEF IInv, Typed, Evictors
<1>. QED
  BY <1>5, <1>6, <1>7, <1>8, <1>9 DEF IInv

LEMMA InsertInv ==
    ASSUME IInv, NEW t \in Threads, Insert(t)
    PROVE  IInv'
<1>. DEFINE n == Name(mine[t])
<1>1. pc[t] = "insert" /\ ht_lock = None
  BY DEF Insert
<1>2. n \in Names
  BY <1>1 DEF IInv, Typed, Owned, FileData, Name
<1>3. CASE Bucket[n] \in stale
  BY <1>3, CrashInv DEF Insert
<1>4. CASE pc' = [pc EXCEPT ![t] = "close"]
           /\ UNCHANGED <<disk, changes, live, data, cacheVars, ht_lock, mine, rqdata, sent, fault>>
  <2>1. Typed' /\ NamesStay
    BY <1>4 DEF IInv, Typed, NamesStay, Name, Places, cacheVars
  <2>. QED
    BY <1>1, <1>4, <2>1, QuietInv DEF Places
<1>5. CASE /\ Bucket[n] \notin stale /\ SecondLookup(n) = {}
           /\ InsertHT(mine[t]) /\ pc' = [pc EXCEPT ![t] = "close"]
           /\ UNCHANGED <<disk, changes, live, data, stale, ht_lock, mine, rqdata, sent, fault>>
  <2>1. \A d \in Range(LRU) : Name(d) # n
    BY <1>2, <1>5, NotListed DEF SecondLookup
  <2>. QED
    BY <1>1, <1>5, <2>1, InsertHTInv
<1>6. CASE /\ Bucket[n] \notin stale /\ SecondLookup(n) = {}
           /\ ht_lock' = t /\ pc' = [pc EXCEPT ![t] = "evict"]
           /\ UNCHANGED <<disk, changes, live, data, cacheVars, mine, rqdata, sent, fault>>
  <2>1. Typed' /\ NamesStay
    BY <1>6 DEF IInv, Typed, NamesStay, Name, Places, cacheVars
  <2>2. Listed' /\ Chained'
    BY <1>6, <2>1, CacheStays DEF cacheVars
  <2>3. Owned'
    BY <1>1, <1>6 DEF IInv, Typed, Owned, Name
  <2>4. \A d \in Range(LRU) : Name(d) # n
    BY <1>2, <1>6, NotListed DEF SecondLookup
  <2>5. Evictors'
    BY <1>1, <1>6, <2>4, NoneAssumption DEF IInv, Typed, Evictors, Name, cacheVars
  <2>. QED
    BY <2>1, <2>2, <2>3, <2>5 DEF IInv
<1>. QED
  BY <1>3, <1>4, <1>5, <1>6 DEF Insert, Goto

LEMMA InsertAfterEvictInv ==
    ASSUME IInv, NEW t \in Threads, InsertAfterEvict(t)
    PROVE  IInv'
<1>1. CASE Bucket[Name(mine[t])] \in stale
  BY <1>1, CrashInv DEF InsertAfterEvict
<1>2. CASE Bucket[Name(mine[t])] \notin stale
  <2>1. /\ pc[t] = "evict" /\ InsertHT(mine[t]) /\ ht_lock' = None
        /\ pc' = [pc EXCEPT ![t] = "close"]
        /\ UNCHANGED <<disk, changes, live, data, stale, mine, rqdata, sent, fault>>
    BY <1>2 DEF InsertAfterEvict, Goto
  <2>2. ht_lock = t /\ \A d \in Range(LRU) : Name(d) # Name(mine[t])
    BY <2>1 DEF IInv, Evictors
  <2>. QED
    BY <1>2, <2>1, <2>2, InsertHTInv
<1>. QED
  BY <1>1, <1>2

\* delete_entry leaves in a chain all but the evicted file, or leaves the
\* chain one that cannot be walked.
LEMMA DeleteEntryList ==
    ASSUME NEW s, IsListOf(s, Data), NEW d \in Range(s)
    PROVE  LET u == IF Len(s) = 1 THEN <<>> ELSE RemoveFirst(s, d)
           IN IsListOf(u, Data) /\ Range(u) = Range(s) \ {d}
<1>1. s \in Seq(Data)
  BY DEF IsListOf
<1>2. CASE Len(s) = 1
  <2>1. \A a : a \in Range(s) <=> \E i \in 1 .. 1 : s[i] = a
    BY <1>1, <1>2, ListRange
  <2>2. Range(s) \ {d} = {}
    BY <2>1
  <2>. QED
    BY <1>2, <2>2, EmptyList
<1>3. CASE Len(s) # 1
  BY <1>3, RemoveFirstOfList
<1>. QED
  BY <1>2, <1>3

LEMMA EvictInv ==
    ASSUME IInv, NEW t \in Threads, Evict(t)
    PROVE  IInv'
<1>1. CASE LRU = <<>> \/ Bucket[Name(Head(LRU))] \in stale
  <2>1. PICK kind \in {"null", "freed"} : Crash(kind)
    BY <1>1 DEF Evict
  <2>. QED
    BY <2>1, CrashInv
<1>2. CASE LRU # <<>> /\ Bucket[Name(Head(LRU))] \notin stale
  <2>. DEFINE d == Head(LRU)
              b == Bucket[Name(d)]
              u == IF Len(table[b]) = 1 THEN <<>> ELSE RemoveFirst(table[b], d)
  <2>1. /\ LRU' = Tail(LRU) /\ DeleteEntry(d) /\ live' = live
        /\ UNCHANGED <<disk, changes, data, ht_lock, threadVars, fault>>
    BY <1>2 DEF Evict, FreedWith
  <2>2. /\ IsListOf(LRU', Data) /\ Range(LRU') = Range(LRU) \ {d}
        /\ d \in Range(LRU) /\ d \in Data
    BY <1>2, <2>1, TailOfList DEF IInv, Listed
  <2>3. b \in Buckets /\ b \notin stale
    BY <1>2, <2>2 DEF IInv, Typed, FileData, Buckets, Name
  <2>4. IsListOf(table[b], Data) /\ Range(table[b]) = InBucket(b) /\ d \in Range(table[b])
    BY <2>2, <2>3 DEF IInv, Chained, InBucket
  <2>5. table' = [table EXCEPT ![b] = u] /\ stale \subseteq stale'
    BY <2>1 DEF DeleteEntry
  <2>6. IsListOf(u, Data) /\ Range(u) = Range(table[b]) \ {d}
    BY <2>4, DeleteEntryList
  <2>. HIDE DEF u
  <2>7. Typed'
    BY <2>1, <2>5 DEF IInv, Typed, threadVars
  <2>8. Listed'
    BY <2>1, <2>2 DEF IInv, Listed, Name
  <2>9. Chained'
    <3>. SUFFICES ASSUME NEW c \in Buckets
                  PROVE  /\ IsListOf(table'[c], Data)
                         /\ c \notin stale' => Range(table'[c]) = InBucket(c)'
      BY DEF Chained
    <3>1. InBucket(c)' = InBucket(c) \ {d} /\ (c # b => d \notin InBucket(c))
      BY <2>1, <2>2 DEF InBucket, Name
    <3>2. IsListOf(table[c], Data) /\ (c \notin stale => Range(table[c]) = InBucket(c))
      BY DEF IInv, Chained
    <3>3. table'[c] = IF c = b THEN u ELSE table[c]
      BY <2>5 DEF IInv, Typed
    <3>. QED
      BY <2>4, <2>5, <2>6, <3>1, <3>2, <3>3
  <2>10. Owned' /\ Evictors'
    BY <2>1, <2>2 DEF IInv, Owned, Evictors, Name, threadVars
  <2>. QED
    BY <2>7, <2>8, <2>9, <2>10 DEF IInv
<1>. QED
  BY <1>1, <1>2

LEMMA NextInv == IInv /\ [Next]_vars => IInv'
<1>. SUFFICES ASSUME IInv, [Next]_vars PROVE IInv'
  OBVIOUS
<1>1. CASE UNCHANGED vars
  <2>1. Typed'
    BY <1>1 DEF IInv, Typed, vars, cacheVars, threadVars
  <2>. QED
    BY <1>1, <2>1, StutterInv DEF vars, threadVars
<1>2. ASSUME NEW t \in Threads, Step(t) PROVE IInv'
  BY <1>2, BeginInv, NotGetInv, LookupInv, ReadFileInv, SendFileInv, InsertInv,
     EvictInv, InsertAfterEvictInv, CloseInv DEF Step
<1>3. ASSUME NEW n \in Names, NEW s \in Sizes \cup {Refused}, ChangeDisk(n, s) PROVE IInv'
  BY <1>3, ChangeDiskInv
<1>. QED
  BY <1>1, <1>2, <1>3 DEF Next

(***************************************************************************)
(* The space.                                                              *)
(***************************************************************************)
\* A thread with a file_data that nobody else has: from malloc until the file
\* is in the cache, or is not put there.
Fresh(t) == pc[t] \in {"lookup", "read", "send", "insert", "evict"}

\* What a thread fills or inserts no other thread has, and no reader uses.
Private ==
    \A t \in Threads : Fresh(t) =>
        /\ mine[t] \notin Range(LRU)
        /\ \A u \in Threads : u # t => /\ Fresh(u) => mine[u] # mine[t]
                                       /\ pc[u] = "send_hit" => rqdata[u] # mine[t]

\* cache_evict ends: the file it makes room for fits in an empty cache.
Room == \A t \in Threads : pc[t] = "evict" => ~TooLarge(Size(mine[t]))

JInv == IInv /\ Private /\ SpaceAccounted /\ Room

Sized == [d \in Data |-> Size(d)]

\* The sizes of the files of a list, position by position.
SizesIn(s) == [i \in 1 .. Len(s) |-> Size(s[i])]

LEMMA SizeType == Typed => \A d \in Data : Sized[d] = Size(d) /\ Size(d) \in Nat
<1>. SUFFICES ASSUME Typed, NEW d \in Data PROVE Sized[d] = Size(d) /\ Size(d) \in Nat
  OBVIOUS
<1>1. data[d] \in FileData
  BY DEF Typed
<1>2. data[d].size \in Sizes \cup {0}
  BY <1>1 DEF FileData
<1>3. \A k \in Sizes \cup {0} : k \in Nat
  BY SizesAssumption
<1>4. Size(d) \in Nat
  BY <1>2, <1>3 DEF Size
<1>5. Sized[d] = Size(d)
  BY DEF Sized
<1>. QED
  BY <1>4, <1>5

LEMMA TotalIs ==
    ASSUME Typed, NEW s, IsListOf(s, Data)
    PROVE  /\ Weighted(Sized, Range(s))
           /\ Total(s) = SumFunctionOnSet(Sized, Range(s))
           /\ Total(s) = SumFunctionOnSet(SizesIn(s), 1 .. Len(s))
<1>1. s \in Seq(Data) /\ Len(s) \in Nat /\ \A i \in 1 .. Len(s) : s[i] \in Data
  BY DEF IsListOf
<1>2. Range(s) = {s[i] : i \in 1 .. Len(s)} /\ \A i, j \in 1 .. Len(s) : s[i] = s[j] => i = j
  BY <1>1, ListRange DEF Range, IsListOf
<1>3. \A i \in 1 .. Len(s) : Sized[s[i]] = SizesIn(s)[i] /\ SizesIn(s)[i] \in Nat
  BY <1>1, SizeType DEF SizesIn
<1>4. Weighted(SizesIn(s), 1 .. Len(s))
  <2>1. 1 \in Int /\ Len(s) \in Int
    BY <1>1
  <2>2. IsFiniteSet(1 .. Len(s))
    BY <2>1, FS_Interval
  <2>. QED
    BY <1>3, <2>2 DEF Weighted
<1>5. /\ Weighted(Sized, Range(s))
      /\ SumFunctionOnSet(Sized, Range(s)) = SumFunctionOnSet(SizesIn(s), 1 .. Len(s))
  <2>. DEFINE S == 1 .. Len(s)
              w == SizesIn(s)
              v == Sized
              T == {s[i] : i \in S}
  <2>1. /\ Weighted(w, S) /\ \A i, j \in S : s[i] = s[j] => i = j
        /\ \A i \in S : v[s[i]] = w[i]
    BY <1>2, <1>3, <1>4
  <2>. HIDE DEF S, w, v
  <2>2. Weighted(v, T) /\ SumFunctionOnSet(v, T) = SumFunctionOnSet(w, S)
    BY <2>1, SumImage
  <2>3. Range(s) = T
    BY <1>2 DEF S
  <2>. HIDE DEF T
  <2>. QED
    BY <2>2, <2>3 DEF S, w, v
<1>6. Total(s) = SumFunctionOnSet(Sized, Range(s))
  BY DEF Total, Sized
<1>. QED
  BY <1>5, <1>6

LEMMA TotalType ==
    ASSUME Typed, NEW s, IsListOf(s, Data)
    PROVE  Total(s) \in Nat
<1>1. Range(s) \in SUBSET Data /\ Range(s) \in SUBSET Range(s)
  BY DEF IsListOf, Range
<1>2. \A d \in Range(s) : Sized[d] >= 0
  BY <1>1, SizeType
<1>3. Weighted(Sized, Range(s)) /\ Total(s) = SumFunctionOnSet(Sized, Range(s))
  BY TotalIs
<1>4. SumFunctionOnSet(Sized, Range(s)) \in Int /\ 0 <= SumFunctionOnSet(Sized, Range(s))
  BY <1>1, <1>2, <1>3, SumType, SumPart
<1>. QED
  BY <1>3, <1>4

\* A file more, and a file less.
LEMMA TotalAdd ==
    ASSUME Typed, NEW s, IsListOf(s, Data), NEW u, IsListOf(u, Data),
           NEW d \in Data, d \notin Range(s), Range(u) = Range(s) \cup {d}
    PROVE  Total(u) = Size(d) + Total(s)
<1>1. Weighted(Sized, Range(s) \cup {d}) /\ Total(u) = SumFunctionOnSet(Sized, Range(s) \cup {d})
  BY TotalIs
<1>2. SumFunctionOnSet(Sized, Range(s) \cup {d}) = Sized[d] + SumFunctionOnSet(Sized, Range(s))
  BY <1>1, SumAdd
<1>. QED
  BY <1>1, <1>2, TotalIs, SizeType

LEMMA TotalStays ==
    ASSUME IInv, IInv', Range(LRU)' = Range(LRU), \A d \in Range(LRU) : Size(d)' = Size(d)
    PROVE  Total(LRU)' = Total(LRU)
<1>. DEFINE v == Sized'
<1>1. Weighted(Sized, Range(LRU)) /\ Total(LRU) = SumFunctionOnSet(Sized, Range(LRU))
  BY TotalIs DEF IInv, Listed
<1>2. \A d \in Range(LRU) : v[d] = Sized[d]
  BY DEF IInv, Listed, IsListOf, Sized, Range
<1>3. Total(LRU)' = SumFunctionOnSet(v, Range(LRU))
  BY DEF Total, Sized
<1>. HIDE DEF v
<1>. QED
  BY <1>1, <1>2, <1>3, SumSame

\* A step that leaves the list and the files in it, and gives nobody a file_data.
LEMMA SpaceStays ==
    ASSUME JInv, IInv', Range(LRU)' = Range(LRU), available' = available,
           \A d \in Range(LRU) : Size(d)' = Size(d),
           \A t \in Threads :
               /\ Fresh(t)' => Fresh(t) /\ mine'[t] = mine[t]
               /\ pc'[t] = "evict" => pc[t] = "evict" /\ Size(mine[t])' = Size(mine[t])
               /\ pc'[t] = "send_hit" => pc[t] = "send_hit" /\ rqdata'[t] = rqdata[t]
    PROVE  JInv'
<1>1. Private'
  BY DEF JInv, Private
<1>2. SpaceAccounted'
  <2>1. Total(LRU)' = Total(LRU)
    BY TotalStays DEF JInv
  <2>. QED
    BY <2>1 DEF JInv, SpaceAccounted
<1>3. Room'
  <2>. SUFFICES ASSUME NEW t \in Threads, pc'[t] = "evict"
                PROVE  ~(TooLarge(Size(mine[t])))'
    BY DEF Room
  <2>1. Fresh(t)' /\ pc[t] = "evict"
    BY DEF Fresh
  <2>2. Size(mine[t])' = Size(mine[t]) /\ mine'[t] = mine[t]
    BY <2>1
  <2>3. ~TooLarge(Size(mine[t]))
    BY <2>1 DEF JInv, Room
  <2>. QED
    BY <2>2, <2>3 DEF TooLarge
<1>. QED
  BY <1>1, <1>2, <1>3 DEF JInv

LEMMA BeginSpace ==
    ASSUME JInv, IInv', NEW t \in Threads, Begin(t)
    PROVE  JInv'
<1>1. PICK d \in Data \ live, n \in Names :
        /\ pc[t] = "idle"
        /\ data' = [data EXCEPT ![d] = [name |-> n, size |-> 0]]
        /\ mine' = [mine EXCEPT ![t] = d] /\ rqdata' = [rqdata EXCEPT ![t] = d]
        /\ pc' = [pc EXCEPT ![t] = IF CacheSize > 0 THEN "lookup" ELSE "read"]
        /\ UNCHANGED <<LRU, available>>
  BY DEF Begin, Goto, cacheVars
<1>2. \A e \in live : data'[e] = data[e] /\ e # d
  BY <1>1 DEF JInv, IInv, Typed
<1>3. Range(LRU) \subseteq live /\ d \notin Range(LRU) /\ Range(LRU)' = Range(LRU)
  BY <1>1 DEF JInv, IInv, Listed
<1>4. \A u \in Threads : /\ u # t => pc'[u] = pc[u] /\ mine'[u] = mine[u] /\ rqdata'[u] = rqdata[u]
                         /\ pc[u] # "idle" => mine[u] \in live /\ rqdata[u] \in live
  BY <1>1 DEF JInv, IInv, Typed, Owned
<1>5. pc'[t] \in {"lookup", "read"} /\ mine'[t] = d
  BY <1>1 DEF JInv, IInv, Typed
<1>6. Private'
  <2>. SUFFICES ASSUME NEW u \in Threads, Fresh(u)'
                PROVE  /\ mine'[u] \notin Range(LRU)'
                       /\ \A v \in Threads : v # u =>
                            /\ Fresh(v)' => mine'[v] # mine'[u]
                            /\ pc'[v] = "send_hit" => rqdata'[v] # mine'[u]
    BY DEF Private
  <2>1. CASE u = t
    BY <1>2, <1>3, <1>4, <1>5, <2>1 DEF Fresh
  <2>2. CASE u # t
    <3>1. Fresh(u) /\ mine'[u] = mine[u] /\ mine[u] \in live
      BY <1>4, <2>2 DEF Fresh
    <3>2. \A v \in Threads : v # t /\ Fresh(v)' => Fresh(v)
      BY <1>4 DEF Fresh
    <3>. QED
      BY <1>2, <1>3, <1>4, <1>5, <3>1, <3>2 DEF JInv, Private
  <2>. QED
    BY <2>1, <2>2
<1>7. SpaceAccounted'
  <2>1. \A e \in Range(LRU) : Size(e)' = Size(e)
    BY <1>2, <1>3 DEF Size
  <2>2. Total(LRU)' = Total(LRU)
    BY <1>3, <2>1, TotalStays DEF JInv
  <2>. QED
    BY <1>1, <2>2 DEF JInv, SpaceAccounted
<1>8. Room'
  <2>. SUFFICES ASSUME NEW u \in Threads, pc'[u] = "evict"
                PROVE  ~(TooLarge(Size(mine[u])))'
    BY DEF Room
  <2>1. u # t /\ pc[u] = "evict"
    BY <1>4, <1>5
  <2>2. mine'[u] = mine[u] /\ data'[mine[u]] = data[mine[u]]
    BY <1>2, <1>4, <2>1
  <2>. QED
    BY <2>1, <2>2 DEF JInv, Room, TooLarge, Size
<1>. QED
  BY <1>6, <1>7, <1>8 DEF JInv

LEMMA LookupSpace ==
    ASSUME JInv, IInv', NEW t \in Threads, Lookup(t)
    PROVE  JInv'
<1>. DEFINE n == Name(mine[t])
<1>1. pc[t] = "lookup" /\ ht_lock = None
  BY DEF Lookup
<1>2. mine[t] \in live /\ mine[t] \in Data /\ n \in Names
  BY <1>1 DEF JInv, IInv, Typed, Owned, FileData, Name
<1>3. Bucket[n] \in Buckets
  BY <1>2 DEF Buckets
<1>4. CASE \E kind : Crash(kind)
  <2>1. UNCHANGED <<data, LRU, available, pc, mine, rqdata>>
    BY <1>4 DEF Crash, cacheVars, threadVars
  <2>. QED
    BY <2>1, SpaceStays DEF Fresh, Size
<1>5. CASE Bucket[n] \notin stale /\ Matches(n) # {}
  <2>1. /\ LRU' = UpdateLRU(LRU, Found(n))
        /\ rqdata' = [rqdata EXCEPT ![t] = Found(n)]
        /\ pc' = [pc EXCEPT ![t] = "send_hit"]
        /\ UNCHANGED <<data, available, mine>>
    BY <1>5, NoneAssumption DEF Lookup, Goto, Crash
  <2>2. Found(n) \in Range(LRU) /\ Found(n) \in Data
    BY <1>2, <1>3, <1>5, FoundHasName DEF JInv, IInv, Typed, Listed, Chained, Chain, InBucket
  <2>3. Range(LRU') = Range(LRU)
    <3>1. IsListOf(LRU, Data)
      BY DEF JInv, IInv, Listed
    <3>2. Range(UpdateLRU(LRU, Found(n))) = Range(LRU) \cup {Found(n)}
      BY <2>2, <3>1, UpdateLRUList
    <3>. QED
      BY <2>1, <2>2, <3>2
  <2>4. \A u \in Threads : /\ u # t => pc'[u] = pc[u] /\ rqdata'[u] = rqdata[u]
                           /\ u = t => pc'[u] = "send_hit" /\ rqdata'[u] = Found(n)
    BY <2>1 DEF JInv, IInv, Typed
  <2>5. Private'
    BY <2>1, <2>2, <2>3, <2>4 DEF JInv, Private, Fresh
  <2>6. SpaceAccounted'
    <3>1. Total(LRU)' = Total(LRU)
      BY <2>1, <2>3, TotalStays DEF JInv, Size
    <3>. QED
      BY <2>1, <3>1 DEF JInv, SpaceAccounted
  <2>7. Room'
    BY <2>1, <2>4 DEF JInv, Room, TooLarge, Size
  <2>. QED
    BY <2>5, <2>6, <2>7 DEF JInv
<1>6. CASE Bucket[n] \notin stale /\ Matches(n) = {}
  <2>1. pc' = [pc EXCEPT ![t] = "read"] /\ UNCHANGED <<data, LRU, available, mine, rqdata>>
    BY <1>6 DEF Lookup, Goto, cacheVars
  <2>2. \A u \in Threads : /\ u # t => pc'[u] = pc[u]
                           /\ u = t => pc'[u] = "read"
    BY <2>1 DEF JInv, IInv, Typed
  <2>. QED
    BY <1>1, <2>1, <2>2, SpaceStays DEF Fresh, Size
<1>. QED
  BY <1>4, <1>5, <1>6 DEF Lookup

LEMMA ReadFileSpace ==
    ASSUME JInv, IInv', NEW t \in Threads, ReadFile(t)
    PROVE  JInv'
<1>1. /\ pc[t] = "read" /\ pc' = [pc EXCEPT ![t] = "send"]
      /\ \/ UNCHANGED data
         \/ data' = [data EXCEPT ![mine[t]].size = disk[Name(mine[t])]]
      /\ UNCHANGED <<LRU, available, mine, rqdata>>
  BY DEF ReadFile, Goto, cacheVars
<1>2. \A d \in Data : d # mine[t] => data'[d] = data[d]
  BY <1>1 DEF JInv, IInv, Typed
<1>3. Fresh(t)
  BY <1>1 DEF Fresh
<1>4. \A d \in Range(LRU) : Size(d)' = Size(d)
  BY <1>2, <1>3 DEF JInv, IInv, Listed, IsListOf, Private, Range, Size
<1>5. \A u \in Threads : /\ u # t => pc'[u] = pc[u]
                         /\ u = t => pc'[u] = "send"
  BY <1>1 DEF JInv, IInv, Typed
<1>6. \A u \in Threads : pc'[u] = "evict" => pc[u] = "evict" /\ Size(mine[u])' = Size(mine[u])
  <2>. SUFFICES ASSUME NEW u \in Threads, pc'[u] = "evict"
                PROVE  pc[u] = "evict" /\ Size(mine[u])' = Size(mine[u])
    OBVIOUS
  <2>1. u # t /\ pc[u] = "evict" /\ Fresh(u)
    BY <1>5 DEF Fresh
  <2>2. mine[u] # mine[t] /\ mine[u] \in Data
    BY <1>3, <2>1 DEF JInv, IInv, Private, Owned, Typed
  <2>. QED
    BY <1>1, <1>2, <2>1, <2>2 DEF Size
<1>. QED
  BY <1>1, <1>3, <1>4, <1>5, <1>6, SpaceStays DEF Fresh

\* Steps that only move a thread on.
LEMMA MovedSpace ==
    ASSUME JInv, IInv', NEW t \in Threads, NEW l \in Places \ {"evict", "send_hit"},
           Fresh(t) \/ l \in {"close", "idle"}, pc' = [pc EXCEPT ![t] = l],
           UNCHANGED <<data, LRU, available>>,
           \A u \in Threads : u # t \/ l # "idle" => mine'[u] = mine[u] /\ rqdata'[u] = rqdata[u]
    PROVE  JInv'
<1>1. \A u \in Threads : /\ u # t => pc'[u] = pc[u]
                         /\ u = t => pc'[u] = l
  BY DEF JInv, IInv, Typed
<1>2. \A u \in Threads : Fresh(u)' => Fresh(u) /\ mine'[u] = mine[u]
  BY <1>1 DEF Fresh
<1>3. \A u \in Threads : /\ pc'[u] = "evict" => pc[u] = "evict" /\ mine'[u] = mine[u]
                         /\ pc'[u] = "send_hit" => pc[u] = "send_hit" /\ rqdata'[u] = rqdata[u]
  BY <1>1
<1>. QED
  BY <1>2, <1>3, SpaceStays DEF Size

\* Steps that leave all of it alone.
LEMMA StutterSpace ==
    ASSUME JInv, IInv', UNCHANGED <<data, LRU, available, pc, mine, rqdata>>
    PROVE  JInv'
  BY SpaceStays DEF Fresh, Size

\* cache_insert_ht.
LEMMA InsertHTSpace ==
    ASSUME JInv, IInv', NEW t \in Threads, Fresh(t), Fits(Size(mine[t])),
           InsertHT(mine[t]), pc' = [pc EXCEPT ![t] = "close"], UNCHANGED <<data, mine, rqdata>>
    PROVE  JInv'
<1>. DEFINE d == mine[t]
<1>1. d \notin Range(LRU) /\ d \in Data /\ IsListOf(LRU, Data) /\ Typed
  BY DEF JInv, Private, IInv, Typed, Owned, Listed, Fresh
<1>2. LRU' = UpdateLRU(LRU, d) /\ available' = available - Size(d)
  BY DEF InsertHT
<1>3. Range(LRU') = Range(LRU) \cup {d} /\ IsListOf(LRU', Data)
  BY <1>1, <1>2, UpdateLRUList DEF IInv, Listed
<1>4. \A u \in Threads : /\ u # t => pc'[u] = pc[u]
                         /\ u = t => pc'[u] = "close"
  BY DEF JInv, IInv, Typed
<1>5. Private'
  BY <1>3, <1>4 DEF JInv, Private, Fresh
<1>6. SpaceAccounted'
  <2>1. Total(LRU') = Size(d) + Total(LRU)
    BY <1>1, <1>3, TotalAdd
  <2>2. Total(LRU)' = Total(LRU')
    BY DEF Total, Size
  <2>3. Size(d) <= available /\ Size(d) \in Nat /\ Total(LRU) \in Nat /\ available \in Int
    BY <1>1, SizeType, TotalType, CacheSizeAssumption DEF Fits, JInv, SpaceAccounted
  <2>. QED
    BY <1>2, <2>1, <2>2, <2>3, CacheSizeAssumption DEF JInv, SpaceAccounted
<1>7. Room'
  BY <1>4 DEF JInv, Room, TooLarge, Size
<1>. QED
  BY <1>5, <1>6, <1>7 DEF JInv

LEMMA InsertSpace ==
    ASSUME JInv, IInv', NEW t \in Threads, Insert(t)
    PROVE  JInv'
<1>1. pc[t] = "insert" /\ Fresh(t)
  BY DEF Insert, Fresh
<1>2. CASE \E kind : Crash(kind)
  BY <1>2, StutterSpace DEF Crash, cacheVars, threadVars
<1>3. CASE /\ pc' = [pc EXCEPT ![t] = "close"]
           /\ UNCHANGED <<disk, changes, live, data, cacheVars, ht_lock, mine, rqdata, sent, fault>>
  <2>1. "close" \in Places \ {"evict", "send_hit"}
    BY DEF Places
  <2>. QED
    BY <1>1, <1>3, <2>1, MovedSpace DEF cacheVars
<1>4. CASE /\ Fits(Size(mine[t])) /\ InsertHT(mine[t]) /\ pc' = [pc EXCEPT ![t] = "close"]
           /\ UNCHANGED <<disk, changes, live, data, stale, ht_lock, mine, rqdata, sent, fault>>
  BY <1>1, <1>4, InsertHTSpace
<1>5. CASE /\ ~TooLarge(Size(mine[t])) /\ pc' = [pc EXCEPT ![t] = "evict"]
           /\ UNCHANGED <<disk, changes, live, data, cacheVars, mine, rqdata, sent, fault>>
  <2>1. UNCHANGED <<data, LRU, available, mine, rqdata>>
    BY <1>5 DEF cacheVars
  <2>2. \A u \in Threads : /\ u # t => pc'[u] = pc[u]
                           /\ u = t => pc'[u] = "evict"
    BY <1>5 DEF JInv, IInv, Typed
  <2>3. Private'
    BY <1>1, <2>1, <2>2 DEF JInv, Private, Fresh
  <2>4. SpaceAccounted'
    BY <2>1 DEF JInv, SpaceAccounted, Total, Size
  <2>5. Room'
    BY <1>5, <2>1, <2>2 DEF JInv, Room, TooLarge, Size
  <2>. QED
    BY <2>3, <2>4, <2>5 DEF JInv
<1>. QED
  BY <1>2, <1>3, <1>4, <1>5 DEF Insert, Goto

LEMMA InsertAfterEvictSpace ==
    ASSUME JInv, IInv', NEW t \in Threads, InsertAfterEvict(t)
    PROVE  JInv'
<1>1. CASE \E kind : Crash(kind)
  BY <1>1, StutterSpace DEF Crash, cacheVars, threadVars
<1>2. CASE /\ InsertHT(mine[t]) /\ pc' = [pc EXCEPT ![t] = "close"]
           /\ UNCHANGED <<disk, changes, live, data, stale, mine, rqdata, sent, fault>>
  <2>1. Fresh(t) /\ Fits(Size(mine[t]))
    BY DEF InsertAfterEvict, Fresh
  <2>. QED
    BY <1>2, <2>1, InsertHTSpace
<1>. QED
  BY <1>1, <1>2 DEF InsertAfterEvict, Goto

LEMMA EvictSpace ==
    ASSUME JInv, IInv', NEW t \in Threads, Evict(t)
    PROVE  JInv'
<1>1. CASE \E kind : Crash(kind)
  BY <1>1, StutterSpace DEF Crash, cacheVars, threadVars
<1>2. CASE /\ LRU # <<>> /\ available' = AvailableWithout(Head(LRU)) /\ LRU' = Tail(LRU)
           /\ UNCHANGED <<disk, changes, data, ht_lock, threadVars, fault>>
  <2>. DEFINE d == Head(LRU)
  <2>1. IsListOf(LRU, Data) /\ Typed
    BY DEF JInv, IInv, Listed
  <2>2. /\ IsListOf(LRU', Data) /\ Range(LRU') = Range(LRU) \ {d}
        /\ d \in Range(LRU) /\ d \in Data
    BY <1>2, <2>1, TailOfList
  <2>3. UNCHANGED <<data, pc, mine, rqdata>> /\ available' = available + Size(d)
    BY <1>2 DEF threadVars, AvailableWithout
  <2>4. Private'
    BY <2>2, <2>3 DEF JInv, Private, Fresh
  <2>5. SpaceAccounted'
    <3>1. Range(LRU) = Range(LRU') \cup {d} /\ d \notin Range(LRU')
      BY <2>2
    <3>2. Total(LRU) = Size(d) + Total(LRU')
      BY <2>1, <2>2, <3>1, TotalAdd
    <3>3. Total(LRU)' = Total(LRU')
      BY <2>3 DEF Total, Size
    <3>4. Size(d) \in Nat /\ Total(LRU) \in Nat /\ Total(LRU') \in Nat
      BY <2>1, <2>2, SizeType, TotalType
    <3>. QED
      BY <2>3, <3>2, <3>3, <3>4, CacheSizeAssumption DEF JInv, SpaceAccounted
  <2>6. Room'
    BY <2>3 DEF JInv, Room, TooLarge, Size
  <2>. QED
    BY <2>4, <2>5, <2>6 DEF JInv
<1>. QED
  BY <1>1, <1>2 DEF Evict

LEMMA NextSpace == JInv /\ [Next]_vars => JInv'
<1>. SUFFICES ASSUME JInv, [Next]_vars PROVE JInv'
  OBVIOUS
<1>1. IInv'
  BY NextInv DEF JInv
<1>2. CASE UNCHANGED vars
  BY <1>1, <1>2, StutterSpace DEF vars, cacheVars, threadVars
<1>3. ASSUME NEW t \in Threads, NotGet(t) PROVE JInv'
  BY <1>1, <1>3, StutterSpace DEF NotGet, cacheVars
<1>4. ASSUME NEW t \in Threads, SendFile(t) PROVE JInv'
  <2>1. PICK l \in {"insert", "close"} :
          /\ pc' = [pc EXCEPT ![t] = l] /\ (l = "close" \/ pc[t] = "send")
          /\ UNCHANGED <<data, LRU, available, mine, rqdata>>
    BY <1>4 DEF SendFile, Goto, cacheVars
  <2>2. l \in Places \ {"evict", "send_hit"} /\ (Fresh(t) \/ l \in {"close", "idle"})
    BY <2>1 DEF Places, Fresh
  <2>. QED
    BY <1>1, <2>1, <2>2, MovedSpace
<1>5. ASSUME NEW t \in Threads, Close(t) PROVE JInv'
  <2>1. /\ pc' = [pc EXCEPT ![t] = "idle"] /\ UNCHANGED <<data, LRU, available>>
        /\ mine' = [mine EXCEPT ![t] = None] /\ rqdata' = [rqdata EXCEPT ![t] = None]
    BY <1>5 DEF Close, Goto, cacheVars
  <2>2. \A u \in Threads : u # t => mine'[u] = mine[u] /\ rqdata'[u] = rqdata[u]
    BY <2>1 DEF JInv, IInv, Typed
  <2>3. "idle" \in Places \ {"evict", "send_hit"}
    BY DEF Places
  <2>. QED
    BY <1>1, <2>1, <2>2, <2>3, MovedSpace
<1>6. ASSUME NEW t \in Threads, Step(t) PROVE JInv'
  BY <1>1, <1>3, <1>4, <1>5, <1>6, BeginSpace, LookupSpace, ReadFileSpace, InsertSpace,
     EvictSpace, InsertAfterEvictSpace DEF Step
<1>7. ASSUME NEW n \in Names, NEW s \in Sizes \cup {Refused}, ChangeDisk(n, s) PROVE JInv'
  BY <1>1, <1>7, StutterSpace DEF ChangeDisk, cacheVars, threadVars
<1>. QED
  BY <1>2, <1>6, <1>7 DEF Next

LEMMA InitSpace == Init => JInv
<1>. SUFFICES ASSUME Init PROVE JInv
  OBVIOUS
<1>1. IInv /\ Range(LRU) = {}
  BY InitInv, EmptyList DEF Init
<1>2. Total(LRU) = 0
  BY <1>1, SumStep, FS_EmptySet DEF Total
<1>. QED
  BY <1>1, <1>2, CacheSizeAssumption DEF Init, JInv, Private, SpaceAccounted, Room, Fresh

LEMMA AvailableType == JInv => available \in 0 .. CacheSize
<1>. SUFFICES ASSUME JInv PROVE available \in 0 .. CacheSize
  OBVIOUS
<1>1. Total(LRU) \in Nat
  BY TotalType DEF JInv, IInv, Listed
<1>. QED
  BY <1>1, CacheSizeAssumption DEF JInv, SpaceAccounted

\* What Typed leaves out.
Counted ==
    /\ changes \in 0 .. MaxChanges /\ stale \subseteq Buckets
    /\ table = [b \in Buckets |-> table[b]]
    /\ ht_lock \in Threads \cup {None}
    /\ sent \in [Threads -> Seq({"200", "404", "501"})]
    /\ fault \in {"none", "freed", "null"}

LEMMA TableStays ==
    ASSUME Counted, NEW b, NEW u, table' = [table EXCEPT ![b] = u]
    PROVE  table' = [c \in Buckets |-> table'[c]]
<1>1. DOMAIN table = Buckets
  BY Zenon DEF Counted
<1>. QED
  BY <1>1, Zenon

LEMMA NextCounted ==
    ASSUME JInv, Counted, Next
    PROVE  Counted'
<1>. DEFINE Statuses == {"200", "404", "501"}
<1>1. ASSUME NEW t \in Threads, NEW s \in Seq(Statuses)
      PROVE  [sent EXCEPT ![t] = s] \in [Threads -> Seq(Statuses)]
  BY DEF Counted
<1>2. ASSUME NEW t \in Threads, NEW s \in Statuses, Reply(t, s) 
      PROVE  sent' \in [Threads -> Seq(Statuses)]
  <2>1. Append(sent[t], s) \in Seq(Statuses)
    BY DEF Counted
  <2>. QED
    BY <1>1, <1>2, <2>1 DEF Reply, Counted
<1>3. ASSUME NEW kind \in {"freed", "null"}, Crash(kind) PROVE Counted'
  BY <1>3 DEF Crash, cacheVars, threadVars, Counted
<1>4. ASSUME NEW t \in Threads, Begin(t) \/ NotGet(t) PROVE Counted'
  <2>1. sent' = [sent EXCEPT ![t] = <<>>] \/ sent' = [sent EXCEPT ![t] = <<"501">>]
    BY <1>4 DEF Begin, NotGet
  <2>2. <<>> \in Seq(Statuses) /\ <<"501">> \in Seq(Statuses)
    OBVIOUS
  <2>3. sent' \in [Threads -> Seq(Statuses)]
    BY <1>1, <2>1, <2>2
  <2>. QED
    BY <1>4, <2>3 DEF Begin, NotGet, Counted, cacheVars
<1>5. ASSUME NEW t \in Threads, Lookup(t) PROVE Counted'
  BY <1>3, <1>5 DEF Lookup, Counted, cacheVars
<1>6. ASSUME NEW t \in Threads, ReadFile(t) PROVE Counted'
  BY <1>2, <1>6 DEF ReadFile, Counted, cacheVars
<1>7. ASSUME NEW t \in Threads, SendFile(t) PROVE Counted'
  BY <1>2, <1>7 DEF SendFile, Counted, cacheVars
<1>8. ASSUME NEW t \in Threads, Insert(t) \/ InsertAfterEvict(t) PROVE Counted'
  <2>1. \/ \E kind \in {"freed", "null"} : Crash(kind)
        \/ /\ UNCHANGED table \/ InsertHT(mine[t])
           /\ ht_lock' \in Threads \cup {None}
           /\ UNCHANGED <<changes, stale, sent, fault>>
    BY <1>8 DEF Insert, InsertAfterEvict, cacheVars, Counted
  <2>2. ASSUME InsertHT(mine[t]) PROVE table' = [b \in Buckets |-> table'[b]]
    BY <2>2, TableStays DEF InsertHT
  <2>. QED
    BY <1>3, <2>1, <2>2 DEF Counted
<1>9. ASSUME NEW t \in Threads, Evict(t) PROVE Counted'
  <2>1. CASE LRU = <<>> \/ Bucket[Name(Head(LRU))] \in stale
    BY <1>3, <1>9, <2>1 DEF Evict
  <2>2. CASE LRU # <<>> /\ Bucket[Name(Head(LRU))] \notin stale
    <3>1. Head(LRU) \in Data
      BY <2>2, TailOfList DEF JInv, IInv, Listed
    <3>2. Bucket[Name(Head(LRU))] \in Buckets
      BY <3>1 DEF JInv, IInv, Typed, FileData, Name, Buckets
    <3>3. DeleteEntry(Head(LRU)) /\ UNCHANGED <<changes, ht_lock, sent, fault>>
      BY <1>9, <2>2 DEF Evict, threadVars
    <3>4. stale' \subseteq Buckets
      BY <3>2, <3>3 DEF DeleteEntry, Counted
    <3>5. table' = [b \in Buckets |-> table'[b]]
      BY <3>3, TableStays DEF DeleteEntry
    <3>. QED
      BY <3>3, <3>4, <3>5 DEF Counted
  <2>. QED
    BY <2>1, <2>2
<1>10. ASSUME NEW t \in Threads, Close(t) PROVE Counted'
  BY <1>10 DEF Close, Counted, cacheVars
<1>11. ASSUME NEW n \in Names, NEW s \in Sizes \cup {Refused}, ChangeDisk(n, s) PROVE Counted'
  BY <1>11, MaxChangesAssumption DEF ChangeDisk, Counted, cacheVars, threadVars
<1>12. ASSUME NEW t \in Threads, Step(t) PROVE Counted'
  BY <1>4, <1>5, <1>6, <1>7, <1>8, <1>9, <1>10, <1>12 DEF Step
<1>. QED
  BY <1>11, <1>12 DEF Next

LEMMA FilesOf ==
    ASSUME Typed, NEW s \in Seq(Data)
    PROVE  /\ Files(s) \in Seq(FileData) /\ Len(Files(s)) = Len(s)
           /\ \A i \in 1 .. Len(s) : Files(s)[i] = File(s[i])
<1>1. DOMAIN s = 1 .. Len(s) /\ Len(s) \in Nat /\ \A i \in 1 .. Len(s) : s[i] \in Data
  OBVIOUS
<1>2. Files(s) = [i \in 1 .. Len(s) |-> File(s[i])]
  BY <1>1 DEF Files
<1>3. \A i \in 1 .. Len(s) : File(s[i]) \in FileData
  BY <1>1 DEF File, Typed
<1>. QED
  BY <1>1, <1>2, <1>3

LEMMA FilesAppend ==
    ASSUME Typed, NEW s \in Seq(Data), NEW d \in Data
    PROVE  Files(Append(s, d)) = Append(Files(s), File(d))
<1>. DEFINE t == Append(s, d)
            u == Append(Files(s), File(d))
<1>1. /\ t \in Seq(Data) /\ Len(t) = Len(s) + 1 /\ t[Len(s) + 1] = d
      /\ \A i \in 1 .. Len(s) : t[i] = s[i]
  BY AppendProperties
<1>2. File(d) \in FileData /\ Files(s) \in Seq(FileData) /\ Len(Files(s)) = Len(s)
  BY FilesOf DEF File, Typed
<1>3. /\ u \in Seq(FileData) /\ Len(u) = Len(s) + 1 /\ u[Len(s) + 1] = File(d)
      /\ \A i \in 1 .. Len(s) : u[i] = Files(s)[i]
  BY <1>2, AppendProperties
<1>4. Files(t) \in Seq(FileData) /\ Len(Files(t)) = Len(t)
      /\ \A i \in 1 .. Len(t) : Files(t)[i] = File(t[i])
  BY <1>1, FilesOf
<1>. HIDE DEF t, u
<1>5. \A i \in 1 .. Len(s) + 1 : i \in 1 .. Len(s) \/ i = Len(s) + 1
  OBVIOUS
<1>6. \A i \in 1 .. Len(u) : Files(t)[i] = u[i]
  BY <1>1, <1>3, <1>4, <1>5, FilesOf
<1>7. Files(t) = u
  BY <1>1, <1>3, <1>4, <1>6, SeqEqual
<1>. QED
  BY <1>7 DEF t, u

LEMMA FilesPart ==
    ASSUME Typed, NEW s \in Seq(Data), NEW l \in Nat, l >= 1, NEW h \in Nat, h <= Len(s)
    PROVE  /\ SubSeq(s, l, h) \in Seq(Data)
           /\ Files(SubSeq(s, l, h)) = SubSeq(Files(s), l, h)
<1>. DEFINE t == SubSeq(s, l, h)
            u == SubSeq(Files(s), l, h)
            n == IF l <= h THEN h - l + 1 ELSE 0
<1>1. /\ Files(s) \in Seq(FileData) /\ Len(Files(s)) = Len(s)
      /\ \A i \in 1 .. Len(s) : Files(s)[i] = File(s[i])
  BY FilesOf
<1>2. \A j \in l .. h : j \in 1 .. Len(s) /\ s[j] \in Data /\ Files(s)[j] \in FileData
  BY <1>1
<1>3. t \in Seq(Data) /\ Len(t) = n /\ \A i \in 1 .. h - l + 1 : t[i] = s[l + i - 1]
  BY <1>2, SubSeqProperties
<1>4. u \in Seq(FileData) /\ Len(u) = n /\ \A i \in 1 .. h - l + 1 : u[i] = Files(s)[l + i - 1]
  BY <1>1, <1>2, SubSeqProperties
<1>5. Files(t) \in Seq(FileData) /\ Len(Files(t)) = Len(t)
      /\ \A i \in 1 .. Len(t) : Files(t)[i] = File(t[i])
  BY <1>3, FilesOf
<1>6. \A i \in 1 .. n : i \in 1 .. h - l + 1 /\ l + i - 1 \in 1 .. Len(s)
  OBVIOUS
<1>. HIDE DEF t, u, n
<1>7. \A i \in 1 .. Len(u) : Files(t)[i] = u[i]
  BY <1>1, <1>3, <1>4, <1>5, <1>6
<1>8. Files(t) = u
  BY <1>3, <1>4, <1>5, <1>7, SeqEqual
<1>. QED
  BY <1>3, <1>8 DEF t, u

LEMMA FilesConcat ==
    ASSUME Typed, NEW s \in Seq(Data), NEW r \in Seq(Data)
    PROVE  Files(s \o r) = Files(s) \o Files(r)
<1>. DEFINE t == s \o r
            u == Files(s) \o Files(r)
<1>1. /\ Files(s) \in Seq(FileData) /\ Len(Files(s)) = Len(s)
      /\ \A i \in 1 .. Len(s) : Files(s)[i] = File(s[i])
      /\ Files(r) \in Seq(FileData) /\ Len(Files(r)) = Len(r)
      /\ \A i \in 1 .. Len(r) : Files(r)[i] = File(r[i])
  BY FilesOf
<1>2. /\ t \in Seq(Data) /\ Len(t) = Len(s) + Len(r)
      /\ \A i \in 1 .. Len(s) + Len(r) : t[i] = IF i <= Len(s) THEN s[i] ELSE r[i - Len(s)]
  BY ConcatProperties
<1>3. /\ u \in Seq(FileData) /\ Len(u) = Len(s) + Len(r)
      /\ \A i \in 1 .. Len(s) + Len(r) :
             u[i] = IF i <= Len(s) THEN Files(s)[i] ELSE Files(r)[i - Len(s)]
  <2>. DEFINE a == Files(s)
              b == Files(r)
  <2>1. a \in Seq(FileData) /\ b \in Seq(FileData) /\ Len(a) = Len(s) /\ Len(b) = Len(r)
    BY <1>1
  <2>. HIDE DEF a, b
  <2>2. /\ a \o b \in Seq(FileData) /\ Len(a \o b) = Len(a) + Len(b)
        /\ \A i \in 1 .. Len(a) + Len(b) : (a \o b)[i] = IF i <= Len(a) THEN a[i] ELSE b[i - Len(a)]
    BY <2>1, ConcatProperties
  <2>. QED
    BY <2>1, <2>2 DEF a, b
<1>4. Files(t) \in Seq(FileData) /\ Len(Files(t)) = Len(t)
      /\ \A i \in 1 .. Len(t) : Files(t)[i] = File(t[i])
  BY <1>2, FilesOf
<1>5. \A i \in 1 .. Len(s) + Len(r) : IF i <= Len(s) THEN i \in 1 .. Len(s)
                                                     ELSE i - Len(s) \in 1 .. Len(r)
  OBVIOUS
<1>. HIDE DEF t, u
<1>6. \A i \in 1 .. Len(u) : Files(t)[i] = u[i]
  <2>. SUFFICES ASSUME NEW i \in 1 .. Len(s) + Len(r) PROVE Files(t)[i] = u[i]
    BY <1>3
  <2>1. Files(t)[i] = File(t[i])
    BY <1>2, <1>4
  <2>2. CASE i <= Len(s)
    BY <1>1, <1>2, <1>3, <1>5, <2>1, <2>2
  <2>3. CASE ~(i <= Len(s))
    BY <1>1, <1>2, <1>3, <1>5, <2>1, <2>3
  <2>. QED
    BY <2>2, <2>3
<1>7. Files(t) = u
  BY <1>2, <1>3, <1>4, <1>6, SeqEqual
<1>. QED
  BY <1>7 DEF t, u

LEMMA FilesRemoved ==
    ASSUME Typed, NEW s \in Seq(Data), NEW i \in 1 .. Len(s)
    PROVE  Files(RemoveAt(s, i)) = RemoveAt(Files(s), i)
<1>1. /\ i - 1 \in Nat /\ i - 1 <= Len(s) /\ 1 \in Nat /\ 1 >= 1 /\ Len(s) \in Nat
      /\ i + 1 \in Nat /\ i + 1 >= 1 /\ Len(s) <= Len(s)
  OBVIOUS
<1>2. /\ SubSeq(s, 1, i - 1) \in Seq(Data)
      /\ Files(SubSeq(s, 1, i - 1)) = SubSeq(Files(s), 1, i - 1)
  BY <1>1, FilesPart
<1>3. /\ SubSeq(s, i + 1, Len(s)) \in Seq(Data)
      /\ Files(SubSeq(s, i + 1, Len(s))) = SubSeq(Files(s), i + 1, Len(s))
  BY <1>1, FilesPart
<1>4. Len(Files(s)) = Len(s)
  BY FilesOf
<1>. QED
  BY <1>2, <1>3, <1>4, FilesConcat DEF RemoveAt

\* The promise counts the space as the cache does.
LEMMA TotalSizeIs ==
    ASSUME Typed, NEW s, IsListOf(s, Data)
    PROVE  Promised!TotalSize(Files(s)) = Total(s)
<1>1. /\ s \in Seq(Data) /\ Files(s) \in Seq(FileData) /\ Len(Files(s)) = Len(s)
      /\ \A i \in 1 .. Len(s) : Files(s)[i] = File(s[i])
  BY FilesOf DEF IsListOf
<1>2. DOMAIN Files(s) = 1 .. Len(s)
  BY <1>1
<1>3. [i \in DOMAIN Files(s) |-> Files(s)[i].size] = SizesIn(s)
  <2>1. \A i \in 1 .. Len(s) : Files(s)[i].size = Size(s[i])
    BY <1>1 DEF Size, File
  <2>. QED
    BY <1>2, <2>1 DEF SizesIn
<1>4. DOMAIN SizesIn(s) = 1 .. Len(s)
  BY DEF SizesIn
<1>5. SumFunction(SizesIn(s)) = Total(s)
  BY <1>4, TotalIs DEF SumFunction
<1>6. Promised!TotalSize(Files(s)) = Promised!SumFunction(SizesIn(s))
  BY <1>3 DEF Promised!TotalSize
<1>7. Promised!SumFunction(SizesIn(s)) = SumFunction(SizesIn(s))
  BY DEF SumFunction, SumFunctionOnSet, FoldFunctionOnSet, MapThenFoldSet,
         Promised!SumFunction, Promised!SumFunctionOnSet, Promised!FoldFunctionOnSet,
         Promised!MapThenFoldSet
<1>. QED
  BY <1>5, <1>6, <1>7

\* As few as possible are dropped: the first number of them that is enough.
LEMMA MakeRoomIs ==
    ASSUME NEW A, NEW c \in Seq(A), NEW k \in 0 .. Len(c), NEW size,
           Promised!Room(Promised!Suffix(c, k)) >= size,
           \A j \in 0 .. k - 1 : ~(Promised!Room(Promised!Suffix(c, j)) >= size)
    PROVE  Promised!MakeRoom(c, size) = Promised!Suffix(c, k)
<1>. DEFINE P(j) == Promised!Suffix(c, j)
            Good(t) == /\ Promised!Room(t) >= size
                       /\ \A j \in 0 .. Len(c) :
                            Promised!Room(P(j)) >= size => Len(P(j)) <= Len(t)
<1>1. \A j \in 0 .. Len(c) : Len(P(j)) = Len(c) - j
  <2>. SUFFICES ASSUME NEW j \in 0 .. Len(c) PROVE Len(P(j)) = Len(c) - j
    OBVIOUS
  <2>1. \A i \in j + 1 .. Len(c) : c[i] \in A
    OBVIOUS
  <2>2. Len(SubSeq(c, j + 1, Len(c))) = IF j + 1 <= Len(c) THEN Len(c) - (j + 1) + 1 ELSE 0
    BY <2>1, SubSeqProperties
  <2>. QED
    BY <2>2 DEF Promised!Suffix
<1>2. P(k) \in {P(j) : j \in 0 .. Len(c)}
  OBVIOUS
<1>3. \A j \in 0 .. Len(c) : Promised!Room(P(j)) >= size => k <= j
  OBVIOUS
<1>. HIDE DEF P
<1>4. Good(P(k))
  BY <1>1, <1>3 DEF P
<1>5. \A t \in {P(j) : j \in 0 .. Len(c)} : Good(t) => t = P(k)
  <2>. SUFFICES ASSUME NEW j \in 0 .. Len(c), Good(P(j)) PROVE P(j) = P(k)
    OBVIOUS
  <2>1. k <= j
    BY <1>3
  <2>2. Len(P(k)) <= Len(P(j))
    BY DEF P
  <2>3. j = k
    BY <1>1, <2>1, <2>2
  <2>. QED
    BY <2>3
<1>6. Promised!MakeRoom(c, size) = CHOOSE t \in {P(j) : j \in 0 .. Len(c)} : Good(t)
  BY DEF Promised!MakeRoom, P
<1>. HIDE DEF Good
<1>7. Promised!MakeRoom(c, size) = P(k)
  BY <1>2, <1>4, <1>5, <1>6
<1>. QED
  BY <1>7 DEF P

(***************************************************************************)
(* The promise: what the mapping makes of a state in which a thread evicts.*)
(***************************************************************************)
\* cache_evict of thread t ends when the first k files are gone.
Stops(t, k) ==
    /\ k \in 0 .. Len(LRU)
    /\ RoomAfter(k) >= Size(mine[t])
    /\ \A j \in 0 .. k - 1 : RoomAfter(j) < Size(mine[t])

LEMMA RestOfList ==
    ASSUME IInv, NEW k \in 0 .. Len(LRU)
    PROVE  /\ IsListOf(Rest(k), Data) /\ Range(Rest(k)) \subseteq Range(LRU)
           /\ RoomAfter(k) \in Int
<1>1. IsListOf(LRU, Data) /\ Typed
  BY DEF IInv, Listed
<1>2. LRU \in Seq(Data) /\ Len(LRU) \in Nat /\ \A a : a \in Range(LRU) <=> \E i \in 1 .. Len(LRU) : LRU[i] = a
  BY <1>1, ListRange DEF IsListOf
<1>3. k + 1 \in Nat /\ k + 1 >= 1 /\ Len(LRU) \in Nat /\ Len(LRU) <= Len(LRU)
  BY <1>2
<1>4. /\ IsListOf(Rest(k), Data)
      /\ \A a : a \in Range(Rest(k)) <=> \E j \in k + 1 .. Len(LRU) : LRU[j] = a
  BY <1>1, <1>3, PartOfList DEF Rest
<1>5. \A j \in k + 1 .. Len(LRU) : j \in 1 .. Len(LRU)
  BY <1>2
<1>6. Total(Rest(k)) \in Nat
  BY <1>1, <1>4, TotalType
<1>. QED
  BY <1>2, <1>4, <1>5, <1>6, CacheSizeAssumption DEF RoomAfter

LEMMA RestOfAll ==
    ASSUME JInv
    PROVE  /\ Rest(0) = LRU /\ RoomAfter(0) = available
           /\ Rest(Len(LRU)) = <<>> /\ RoomAfter(Len(LRU)) = CacheSize
<1>1. LRU \in Seq(Data) /\ Len(LRU) \in Nat /\ IsListOf(LRU, Data) /\ Typed
  BY DEF JInv, IInv, Listed, IsListOf
<1>2. Rest(0) = LRU
  BY <1>1, SubSeqFull DEF Rest
<1>3. Rest(Len(LRU)) = <<>>
  BY <1>1, SubSeqEmpty DEF Rest
<1>4. Total(<<>>) = 0
  BY SumStep, FS_EmptySet, EmptyList DEF Total
<1>5. Total(LRU) \in Nat
  BY <1>1, TotalType
<1>. QED
  BY <1>2, <1>3, <1>4, <1>5, CacheSizeAssumption DEF RoomAfter, JInv, SpaceAccounted

EachStops == \A t \in Threads : pc[t] = "evict" => \E k : Stops(t, k)

LEMMA StopsExists == JInv => EachStops
<1>. SUFFICES ASSUME JInv, NEW t \in Threads, pc[t] = "evict"
              PROVE  \E k : Stops(t, k)
  BY DEF EachStops
<1>. DEFINE K == {k \in 0 .. Len(LRU) : RoomAfter(k) >= Size(mine[t])}
<1>1. Len(LRU) \in Nat
  BY DEF JInv, IInv, Listed, IsListOf
<1>2. Size(mine[t]) \in Nat
  BY SizeType DEF JInv, IInv, Owned, Typed
<1>3. CacheSize >= Size(mine[t])
  BY <1>2, CacheSizeAssumption DEF JInv, Room, TooLarge
<1>4. Len(LRU) \in K /\ K \in SUBSET Nat
  BY <1>1, <1>3, RestOfAll
<1>5. PICK k \in K : \A j \in K : k <= j
  BY <1>4, LeastExists
<1>6. \A j \in 0 .. k - 1 : RoomAfter(j) < Size(mine[t])
  <2>. SUFFICES ASSUME NEW j \in 0 .. k - 1 PROVE RoomAfter(j) < Size(mine[t])
    OBVIOUS
  <2>1. j \in 0 .. Len(LRU) /\ j \notin K
    BY <1>1, <1>5
  <2>2. RoomAfter(j) \in Int
    BY <2>1, RestOfList DEF JInv
  <2>. QED
    BY <1>2, <2>1, <2>2
<1>. QED
  BY <1>5, <1>6 DEF Stops

LEMMA StopsNext == JInv' => EachStops'
  BY StopsExists, PTL

LEMMA EvictorIs ==
    ASSUME IInv, NEW t \in Threads, pc[t] = "evict"
    PROVE  Evicting /\ Evictor = t
  BY DEF IInv, Evictors, Evicting, Evictor

KeptWhenEvicting ==
    \A t \in Threads : pc[t] = "evict" =>
        \A k : Stops(t, k) => Kept = Append(Files(Rest(k)), File(mine[t]))

LEMMA KeptIs == JInv => KeptWhenEvicting
<1>. SUFFICES ASSUME JInv, NEW t \in Threads, pc[t] = "evict", NEW k, Stops(t, k)
              PROVE  Kept = Append(Files(Rest(k)), File(mine[t]))
  BY DEF KeptWhenEvicting
<1>. DEFINE Good(i) == /\ RoomAfter(i) >= Size(mine[t])
                       /\ \A j \in 0 .. i - 1 : RoomAfter(j) < Size(mine[t])
<1>1. Evicting /\ Evictor = t
  BY EvictorIs DEF JInv
<1>2. k \in 0 .. Len(LRU) /\ Good(k)
  BY DEF Stops
<1>3. \A i \in 0 .. Len(LRU) : Good(i) => i = k
  <2>. SUFFICES ASSUME NEW i \in 0 .. Len(LRU), Good(i) PROVE i = k
    OBVIOUS
  <2>1. RoomAfter(i) \in Int /\ RoomAfter(k) \in Int /\ Size(mine[t]) \in Nat
    BY <1>2, RestOfList, SizeType DEF JInv, IInv, Owned, Typed
  <2>2. ~(i < k) /\ ~(k < i)
    <3>1. ASSUME i < k PROVE FALSE
      <4>1. i \in 0 .. k - 1
        BY <1>2, <3>1
      <4>2. RoomAfter(i) < Size(mine[t])
        BY <1>2, <4>1
      <4>. QED
        BY <2>1, <4>2
    <3>2. ASSUME k < i PROVE FALSE
      <4>1. k \in 0 .. i - 1
        BY <1>2, <3>2
      <4>2. RoomAfter(k) < Size(mine[t])
        BY <4>1
      <4>. QED
        BY <1>2, <2>1, <4>2
    <3>. QED
      BY <3>1, <3>2
  <2>3. Len(LRU) \in Nat
    BY DEF JInv, IInv, Listed, IsListOf
  <2>. QED
    BY <1>2, <2>2, <2>3
<1>4. LeftByEvict = Rest(CHOOSE i \in 0 .. Len(LRU) : Good(i))
  BY <1>1 DEF LeftByEvict
<1>. HIDE DEF Good
<1>5. (CHOOSE i \in 0 .. Len(LRU) : Good(i)) = k
  BY <1>2, <1>3
<1>. QED
  BY <1>1, <1>4, <1>5 DEF Kept

LEMMA KeptNext == JInv' => KeptWhenEvicting'
  BY KeptIs, PTL

\* A step that leaves the list, the files in it and the thread that evicts.
LEMMA KeptStays ==
    ASSUME JInv, JInv', LRU' = LRU, \A d \in Range(LRU) : data'[d] = data[d],
           \A t \in Threads :
               /\ pc'[t] = "evict" <=> pc[t] = "evict"
               /\ pc[t] = "evict" => mine'[t] = mine[t] /\ data'[mine[t]] = data[mine[t]]
    PROVE  Kept' = Kept
<1>1. ASSUME NEW k \in 0 .. Len(LRU)
      PROVE  Rest(k)' = Rest(k) /\ RoomAfter(k)' = RoomAfter(k) /\ Files(Rest(k))' = Files(Rest(k))
  <2>. DEFINE v == Sized'
              s == Rest(k)
  <2>1. Rest(k)' = s
    BY DEF Rest
  <2>2. IsListOf(s, Data) /\ Range(s) \subseteq Range(LRU) /\ Typed
    BY RestOfList DEF JInv, IInv
  <2>3. s \in Seq(Data) /\ DOMAIN s = 1 .. Len(s) /\ \A i \in DOMAIN s : s[i] \in Range(s)
    BY <2>2 DEF IsListOf, Range
  <2>4. Weighted(Sized, Range(s)) /\ Total(s) = SumFunctionOnSet(Sized, Range(s))
    BY <2>2, TotalIs
  <2>5. \A d \in Range(s) : v[d] = Sized[d]
    <3>1. ASSUME NEW d \in Range(s)
          PROVE  d \in Data /\ data'[d] = data[d]
      <4>1. d \in Range(LRU) /\ \E i \in DOMAIN s : s[i] = d
        BY <2>2 DEF Range
      <4>2. Range(s) \subseteq Data
        BY <2>2, <2>3 DEF Range
      <4>. QED
        BY <4>1, <4>2
    <3>2. \A d \in Range(s) : d \in Data /\ Size(d)' = Size(d)
      BY <3>1 DEF Size
    <3>. QED
      BY <3>2 DEF Sized
  <2>6. Files(Rest(k))' = Files(Rest(k))
    <3>1. Files(Rest(k))' = [i \in DOMAIN s |-> data'[s[i]]]
      BY <2>1 DEF Files, File
    <3>2. \A i \in DOMAIN s : data'[s[i]] = data[s[i]]
      <4>1. \A i \in DOMAIN s : s[i] \in Range(LRU)
        BY <2>2, <2>3
      <4>. QED
        BY <4>1
    <3>. QED
      BY <3>1, <3>2 DEF Files, File
  <2>7. Total(Rest(k))' = SumFunctionOnSet(v, Range(s))
    BY <2>1 DEF Total, Sized
  <2>. HIDE DEF v, s
  <2>8. SumFunctionOnSet(v, Range(s)) = SumFunctionOnSet(Sized, Range(s))
    BY <2>4, <2>5, SumSame
  <2>. QED
    BY <2>1, <2>4, <2>6, <2>7, <2>8 DEF RoomAfter, s
<1>2. CASE \A t \in Threads : pc[t] # "evict"
  <2>1. ~Evicting /\ ~Evicting'
    BY <1>2 DEF Evicting
  <2>2. \A i \in DOMAIN LRU : data'[LRU[i]] = data[LRU[i]]
    BY DEF Range
  <2>3. Files(LRU)' = Files(LRU)
    BY <2>2 DEF Files, File
  <2>. QED
    BY <2>1, <2>3 DEF Kept
<1>3. ASSUME NEW t \in Threads, pc[t] = "evict" PROVE Kept' = Kept
  <2>1. PICK k : Stops(t, k)
    BY <1>3, StopsExists DEF EachStops
  <2>2. pc'[t] = "evict" /\ mine'[t] = mine[t] /\ data'[mine[t]] = data[mine[t]]
    BY <1>3
  <2>3. Size(mine[t])' = Size(mine[t]) /\ File(mine[t])' = File(mine[t])
    BY <2>2 DEF Size, File
  <2>4. k \in 0 .. Len(LRU) /\ \A j \in 0 .. k - 1 : j \in 0 .. Len(LRU)
    BY <2>1 DEF Stops, JInv, IInv, Listed, IsListOf
  <2>5. Stops(t, k)'
    BY <1>1, <2>1, <2>3, <2>4 DEF Stops
  <2>6. Kept' = Append(Files(Rest(k))', File(mine[t])')
    BY <2>2, <2>5, KeptNext DEF KeptWhenEvicting
  <2>7. Kept = Append(Files(Rest(k)), File(mine[t]))
    BY <1>3, <2>1, KeptIs DEF KeptWhenEvicting
  <2>. QED
    BY <1>1, <2>3, <2>4, <2>6, <2>7
<1>. QED
  BY <1>2, <1>3

LEMMA GivenStays ==
    ASSUME \A t \in Threads :
               /\ pc'[t] = "send_hit" <=> pc[t] = "send_hit"
               /\ pc[t] = "send_hit" => rqdata'[t] = rqdata[t] /\ data'[rqdata[t]] = data[rqdata[t]]
    PROVE  Given' = Given
  BY DEF Given, File

\* Steps the promise does not see.
LEMMA Unseen ==
    ASSUME JInv, JInv', LRU' = LRU, \A d \in Range(LRU) : data'[d] = data[d],
           \A t \in Threads :
               /\ pc'[t] = "evict" <=> pc[t] = "evict"
               /\ pc[t] = "evict" => mine'[t] = mine[t] /\ data'[mine[t]] = data[mine[t]]
               /\ pc'[t] = "send_hit" <=> pc[t] = "send_hit"
               /\ pc[t] = "send_hit" => rqdata'[t] = rqdata[t] /\ data'[rqdata[t]] = data[rqdata[t]]
    PROVE  UNCHANGED <<Kept, Given>>
<1>1. Kept' = Kept
  BY KeptStays
<1>2. Given' = Given
  BY GivenStays
<1>. QED
  BY <1>1, <1>2

LEMMA UnseenStutter ==
    ASSUME JInv, JInv', UNCHANGED <<data, LRU, pc, mine, rqdata>>
    PROVE  UNCHANGED <<Kept, Given>>
  BY Unseen

LEMMA UnseenMove ==
    ASSUME JInv, JInv', UNCHANGED <<data, LRU>>, NEW t \in Threads, NEW l \in Places \ {"evict", "send_hit"},
           pc[t] \notin {"evict", "send_hit"}, pc' = [pc EXCEPT ![t] = l],
           \A u \in Threads : u # t => mine'[u] = mine[u] /\ rqdata'[u] = rqdata[u]
    PROVE  UNCHANGED <<Kept, Given>>
<1>1. \A u \in Threads : /\ u # t => pc'[u] = pc[u]
                         /\ u = t => pc'[u] = l
  BY DEF JInv, IInv, Typed
<1>. QED
  BY <1>1, Unseen

LEMMA UnseenBegin ==
    ASSUME JInv, JInv', NEW t \in Threads, Begin(t)
    PROVE  UNCHANGED <<Kept, Given>>
<1>1. PICK d \in Data \ live, n \in Names :
        /\ pc[t] = "idle"
        /\ data' = [data EXCEPT ![d] = [name |-> n, size |-> 0]]
        /\ mine' = [mine EXCEPT ![t] = d] /\ rqdata' = [rqdata EXCEPT ![t] = d]
        /\ pc' = [pc EXCEPT ![t] = IF CacheSize > 0 THEN "lookup" ELSE "read"]
        /\ UNCHANGED LRU
  BY DEF Begin, Goto, cacheVars
<1>2. \A e \in live : data'[e] = data[e]
  BY <1>1 DEF JInv, IInv, Typed
<1>3. Range(LRU) \subseteq live
  BY DEF JInv, IInv, Listed
<1>4. \A u \in Threads :
        /\ u # t => pc'[u] = pc[u] /\ mine'[u] = mine[u] /\ rqdata'[u] = rqdata[u]
        /\ u = t => pc'[u] \in {"lookup", "read"}
        /\ pc[u] # "idle" => mine[u] \in live /\ rqdata[u] \in live
  BY <1>1 DEF JInv, IInv, Typed, Owned
<1>. QED
  BY <1>1, <1>2, <1>3, <1>4, Unseen

LEMMA UnseenRead ==
    ASSUME JInv, JInv', NEW t \in Threads, ReadFile(t)
    PROVE  UNCHANGED <<Kept, Given>>
<1>1. /\ pc[t] = "read" /\ pc' = [pc EXCEPT ![t] = "send"]
      /\ \/ UNCHANGED data
         \/ data' = [data EXCEPT ![mine[t]].size = disk[Name(mine[t])]]
      /\ UNCHANGED <<LRU, mine, rqdata>>
  BY DEF ReadFile, Goto, cacheVars
<1>2. \A d \in Data : d # mine[t] => data'[d] = data[d]
  BY <1>1 DEF JInv, IInv, Typed
<1>3. Fresh(t)
  BY <1>1 DEF Fresh
<1>4. \A d \in Range(LRU) : data'[d] = data[d]
  BY <1>2, <1>3 DEF JInv, IInv, Listed, IsListOf, Private, Range
<1>5. \A u \in Threads : /\ u # t => pc'[u] = pc[u]
                         /\ u = t => pc'[u] = "send"
  BY <1>1 DEF JInv, IInv, Typed
<1>6. \A u \in Threads : /\ pc[u] = "evict" => mine[u] \in Data /\ mine[u] # mine[t]
                         /\ pc[u] = "send_hit" => rqdata[u] \in Data /\ rqdata[u] # mine[t]
  BY <1>1, <1>3 DEF JInv, IInv, Typed, Owned, Private, Fresh
<1>. QED
  BY <1>1, <1>2, <1>4, <1>5, <1>6, Unseen

\* A round of cache_evict: the promise has dropped the file already.
LEMMA UnseenEvict ==
    ASSUME JInv, JInv', NEW t \in Threads, Evict(t)
    PROVE  UNCHANGED <<Kept, Given>>
<1>1. CASE \E kind : Crash(kind)
  BY <1>1, UnseenStutter DEF Crash, cacheVars, threadVars
<1>2. CASE /\ LRU # <<>> /\ LRU' = Tail(LRU)
           /\ UNCHANGED <<disk, changes, data, ht_lock, threadVars, fault>>
  <2>1. UNCHANGED <<data, pc, mine, rqdata>>
    BY <1>2 DEF threadVars
  <2>2. pc[t] = "evict" /\ ~Fits(Size(mine[t]))
    BY DEF Evict
  <2>3. PICK k : Stops(t, k)
    BY <2>2, StopsExists DEF EachStops
  <2>4. LRU \in Seq(Data) /\ Len(LRU) \in Nat /\ Len(LRU) # 0
    BY <1>2 DEF JInv, IInv, Listed, IsListOf
  <2>5. k # 0
    <3>1. RoomAfter(0) = available /\ available \in Int /\ Size(mine[t]) \in Nat
      BY <2>2, RestOfAll, AvailableType, SizeType DEF JInv, IInv, Owned, Typed
    <3>. QED
      BY <2>2, <2>3, <3>1 DEF Stops, Fits
  <2>6. /\ LRU' \in Seq(Data) /\ Len(LRU') = Len(LRU) - 1
        /\ \A i \in 1 .. Len(LRU) - 1 : LRU'[i] = LRU[i + 1]
    BY <1>2, <2>4
  <2>7. ASSUME NEW j \in 0 .. Len(LRU) - 1
        PROVE  Rest(j)' = Rest(j + 1)
    <3>. DEFINE a == SubSeq(LRU', j + 1, Len(LRU) - 1)
                b == SubSeq(LRU, j + 2, Len(LRU))
                n == IF j + 1 <= Len(LRU) - 1 THEN Len(LRU) - 1 - (j + 1) + 1 ELSE 0
    <3>1. \A i \in j + 1 .. Len(LRU) - 1 : i \in 1 .. Len(LRU') /\ LRU'[i] \in Data
      BY <2>4, <2>6
    <3>2. \A i \in j + 2 .. Len(LRU) : i \in 1 .. Len(LRU) /\ LRU[i] \in Data
      BY <2>4
    <3>3. /\ a \in Seq(Data) /\ Len(a) = n
          /\ \A i \in 1 .. Len(LRU) - 1 - (j + 1) + 1 : a[i] = LRU'[j + 1 + i - 1]
      BY <2>4, <3>1, SubSeqProperties
    <3>4. /\ b \in Seq(Data)
          /\ Len(b) = IF j + 2 <= Len(LRU) THEN Len(LRU) - (j + 2) + 1 ELSE 0
          /\ \A i \in 1 .. Len(LRU) - (j + 2) + 1 : b[i] = LRU[j + 2 + i - 1]
      BY <2>4, <3>2, SubSeqProperties
    <3>5. Len(b) = n
      BY <2>4, <3>4
    <3>6. \A i \in 1 .. n : /\ i \in 1 .. Len(LRU) - 1 - (j + 1) + 1
                            /\ i \in 1 .. Len(LRU) - (j + 2) + 1
                            /\ j + 1 + i - 1 \in 1 .. Len(LRU) - 1
                            /\ (j + 1 + i - 1) + 1 = j + 2 + i - 1
      BY <2>4
    <3>. HIDE DEF a, b, n
    <3>7. ASSUME NEW i \in 1 .. n PROVE a[i] = b[i]
      <4>. DEFINE m == j + 1 + i - 1
      <4>1. m \in 1 .. Len(LRU) - 1 /\ m + 1 = j + 2 + i - 1
        BY <3>6
      <4>2. a[i] = LRU'[m]
        BY <3>3, <3>6
      <4>3. b[i] = LRU[j + 2 + i - 1]
        BY <3>4, <3>6
      <4>. HIDE DEF m
      <4>4. LRU'[m] = LRU[m + 1]
        BY <2>6, <4>1
      <4>. QED
        BY <4>1, <4>2, <4>3, <4>4
    <3>8. a = b
      BY <3>3, <3>4, <3>5, <3>7, SeqEqual
    <3>9. j + 1 + 1 = j + 2
      OBVIOUS
    <3>. QED
      BY <2>6, <3>8, <3>9 DEF Rest, a, b
  <2>8. \A j \in 0 .. Len(LRU) - 1 : RoomAfter(j)' = RoomAfter(j + 1)
    <3>. SUFFICES ASSUME NEW j \in 0 .. Len(LRU) - 1 PROVE RoomAfter(j)' = RoomAfter(j + 1)
      OBVIOUS
    <3>1. Total(Rest(j))' = Total(Rest(j + 1))
      BY <2>1, <2>7 DEF Total, Size
    <3>. QED
      BY <3>1 DEF RoomAfter
  <2>9. Stops(t, k - 1)'
    <3>1. k - 1 \in 0 .. Len(LRU) - 1 /\ (k - 1) + 1 = k
      BY <2>3, <2>4, <2>5 DEF Stops
    <3>2. \A j \in 0 .. (k - 1) - 1 : j \in 0 .. Len(LRU) - 1 /\ j + 1 \in 0 .. k - 1
      BY <3>1
    <3>3. Size(mine[t])' = Size(mine[t])
      BY <2>1 DEF Size
    <3>. QED
      BY <2>3, <2>6, <2>8, <3>1, <3>2, <3>3 DEF Stops
  <2>10. Kept' = Append(Files(Rest(k - 1))', File(mine[t])')
    BY <2>1, <2>2, <2>9, KeptNext DEF KeptWhenEvicting
  <2>11. Rest(k - 1)' = Rest(k)
    BY <2>3, <2>4, <2>5, <2>7 DEF Stops
  <2>12. Files(Rest(k - 1))' = Files(Rest(k)) /\ File(mine[t])' = File(mine[t])
    BY <2>1, <2>11 DEF Files, File
  <2>13. Kept = Append(Files(Rest(k)), File(mine[t]))
    BY <2>2, <2>3, KeptIs DEF KeptWhenEvicting
  <2>14. Given' = Given
    BY <2>1, GivenStays
  <2>. QED
    BY <2>10, <2>12, <2>13, <2>14
<1>. QED
  BY <1>1, <1>2 DEF Evict

LEMMA RemoveFirstIs ==
    ASSUME NEW s, IsListOf(s, Data), NEW f \in Range(s)
    PROVE  \E i \in 1 .. Len(s) : s[i] = f /\ RemoveFirst(s, f) = RemoveAt(s, i)
<1>. DEFINE I == {i \in 1 .. Len(s) : s[i] = f}
<1>1. s \in Seq(Data) /\ \A a : a \in Range(s) <=> \E i \in 1 .. Len(s) : s[i] = a
  BY ListRange DEF IsListOf
<1>2. I \in SUBSET Nat /\ I # {}
  BY <1>1
<1>3. Min(I) \in I
  BY <1>2, LeastExists DEF Min
<1>4. RemoveFirst(s, f) = RemoveAt(s, Min(I))
  BY <1>1, <1>2 DEF RemoveFirst, SelectInSeq
<1>. QED
  BY <1>3, <1>4

LEMMA NotEvicting ==
    ASSUME \A t \in Threads : pc[t] # "evict"
    PROVE  Kept = Files(LRU)
  BY DEF Evicting, Kept

LEMMA NotEvictingNext ==
    ASSUME \A t \in Threads : pc'[t] # "evict"
    PROVE  Kept' = Files(LRU)'
  BY DEF Evicting, Kept, Files

\* cache_lookup that finds the file is a use of it.
LEMMA LookupUses ==
    ASSUME JInv, JInv', NEW t \in Threads, Lookup(t)
    PROVE  [Promised!Next]_<<Kept, Given>>
<1>. DEFINE n == Name(mine[t])
<1>1. pc[t] = "lookup" /\ ht_lock = None
  BY DEF Lookup
<1>2. mine[t] \in Data /\ n \in Names
  BY <1>1 DEF JInv, IInv, Typed, Owned, FileData, Name
<1>3. Bucket[n] \in Buckets
  BY <1>2 DEF Buckets
<1>4. \A u \in Threads : pc[u] # "evict"
  BY <1>1, NoneAssumption DEF JInv, IInv, Evictors
<1>5. CASE \E kind : Crash(kind)
  BY <1>5, UnseenStutter DEF Crash, cacheVars, threadVars
<1>6. CASE Bucket[n] \notin stale /\ Matches(n) # {}
  <2>. DEFINE f == Found(n)
  <2>1. /\ LRU' = UpdateLRU(LRU, f)
        /\ rqdata' = [rqdata EXCEPT ![t] = f]
        /\ pc' = [pc EXCEPT ![t] = "send_hit"]
        /\ UNCHANGED <<data, mine>>
    BY <1>6 DEF Lookup, Goto
  <2>2. f \in Range(LRU) /\ f \in Data
    BY <1>2, <1>3, <1>6, FoundHasName DEF JInv, IInv, Typed, Listed, Chained, Chain, InBucket
  <2>3. LRU \in Seq(Data) /\ IsListOf(LRU, Data) /\ Typed
    BY DEF JInv, IInv, Listed, IsListOf
  <2>. HIDE DEF f
  <2>4. PICK i \in 1 .. Len(LRU) : LRU[i] = f /\ RemoveFirst(LRU, f) = RemoveAt(LRU, i)
    BY <2>2, <2>3, RemoveFirstIs
  <2>5. /\ Files(LRU) \in Seq(FileData) /\ Len(Files(LRU)) = Len(LRU)
        /\ Files(LRU)[i] = File(f) /\ i \in DOMAIN Files(LRU)
    BY <2>3, <2>4, FilesOf
  <2>6. Files(LRU') = Append(RemoveAt(Files(LRU), i), Files(LRU)[i])
    <3>1. RemoveAt(LRU, i) \in Seq(Data)
      BY <2>3, RemoveAtList DEF IsListOf
    <3>2. Files(Append(RemoveAt(LRU, i), f)) = Append(Files(RemoveAt(LRU, i)), File(f))
      BY <2>2, <2>3, <3>1, FilesAppend
    <3>. QED
      BY <2>1, <2>3, <2>4, <2>5, <3>2, FilesRemoved DEF UpdateLRU
  <2>7. \A u \in Threads : /\ u # t => pc'[u] = pc[u] /\ rqdata'[u] = rqdata[u]
                           /\ u = t => pc'[u] = "send_hit" /\ rqdata'[u] = f
    BY <2>1 DEF JInv, IInv, Typed
  <2>8. Kept = Files(LRU)
    BY <1>4, NotEvicting
  <2>9. Kept' = Append(RemoveAt(Kept, i), Kept[i])
    <3>1. \A u \in Threads : pc'[u] # "evict"
      BY <1>4, <2>7
    <3>2. Kept' = Files(LRU)'
      BY <3>1, NotEvictingNext
    <3>3. Files(LRU)' = Files(LRU')
      BY <2>1 DEF Files, File
    <3>. QED
      BY <2>6, <2>8, <3>2, <3>3
  <2>10. Given[t] = None /\ Given' = [Given EXCEPT ![t] = Kept[i]]
    <3>1. Given[t] = None
      BY <1>1 DEF Given
    <3>2. \A u \in Threads : Given'[u] = IF u = t THEN File(f) ELSE Given[u]
      BY <2>1, <2>7 DEF Given, File
    <3>3. DOMAIN Given' = Threads /\ Given' = [u \in Threads |-> Given'[u]]
      BY DEF Given
    <3>4. Given = [u \in Threads |-> Given[u]]
      BY DEF Given
    <3>. QED
      BY <2>5, <2>8, <3>1, <3>2, <3>3, <3>4
  <2>11. Promised!Use(t, i)
    BY <2>9, <2>10 DEF Promised!Use, Promised!RemoveAt, RemoveAt
  <2>12. i \in DOMAIN Kept
    BY <2>5, <2>8
  <2>. QED
    BY <2>11, <2>12 DEF Promised!Next
<1>7. CASE Bucket[n] \notin stale /\ Matches(n) = {}
  <2>1. pc' = [pc EXCEPT ![t] = "read"] /\ UNCHANGED <<data, LRU, mine, rqdata>>
    BY <1>7 DEF Lookup, Goto, cacheVars
  <2>2. "read" \in Places \ {"evict", "send_hit"}
    BY DEF Places
  <2>. QED
    BY <1>1, <2>1, <2>2, UnseenMove
<1>. QED
  BY <1>5, <1>6, <1>7 DEF Lookup

\* A file sent from the cache is done with.
LEMMA SendFinishes ==
    ASSUME JInv, JInv', NEW t \in Threads, SendFile(t)
    PROVE  [Promised!Next]_<<Kept, Given>>
<1>1. PICK l \in {"insert", "close"} :
        /\ pc' = [pc EXCEPT ![t] = l] /\ pc[t] \in {"send_hit", "send"}
        /\ UNCHANGED <<data, LRU, mine, rqdata>>
  BY DEF SendFile, Goto, cacheVars
<1>2. l \in Places \ {"evict", "send_hit"}
  BY DEF Places
<1>3. CASE pc[t] = "send"
  BY <1>1, <1>2, <1>3, UnseenMove
<1>4. CASE pc[t] = "send_hit"
  <2>1. \A u \in Threads : /\ u # t => pc'[u] = pc[u]
                           /\ u = t => pc'[u] = l
    BY <1>1 DEF JInv, IInv, Typed
  <2>2. Kept' = Kept
    BY <1>1, <1>4, <2>1, KeptStays
  <2>3. \A u \in Threads : Given'[u] = IF u = t THEN None ELSE Given[u]
    BY <1>1, <2>1 DEF Given, File
  <2>4. Given' = [Given EXCEPT ![t] = None]
    <3>1. Given' = [u \in Threads |-> Given'[u]] /\ Given = [u \in Threads |-> Given[u]]
      BY DEF Given
    <3>. QED
      BY <2>3, <3>1
  <2>. QED
    BY <2>2, <2>4 DEF Promised!Next, Promised!Finish
<1>. QED
  BY <1>1, <1>3, <1>4

\* What the promise keeps when a file is to be kept.
LEMMA MakeRoomStops ==
    ASSUME JInv, NEW t \in Threads, pc[t] # "idle", NEW k, Stops(t, k)
    PROVE  Promised!MakeRoom(Files(LRU), Size(mine[t])) = Files(Rest(k))
<1>. DEFINE c == Files(LRU)
<1>1. LRU \in Seq(Data) /\ Len(LRU) \in Nat /\ Typed
  BY DEF JInv, IInv, Listed, IsListOf
<1>2. c \in Seq(FileData) /\ Len(c) = Len(LRU)
  BY <1>1, FilesOf
<1>3. ASSUME NEW j \in 0 .. Len(LRU)
      PROVE  /\ Promised!Suffix(c, j) = Files(Rest(j))
             /\ Promised!Room(Promised!Suffix(c, j)) = RoomAfter(j)
  <2>1. j + 1 \in Nat /\ j + 1 >= 1 /\ Len(LRU) <= Len(LRU)
    BY <1>1
  <2>2. Files(SubSeq(LRU, j + 1, Len(LRU))) = SubSeq(Files(LRU), j + 1, Len(LRU))
    BY <1>1, <2>1, FilesPart
  <2>3. Promised!Suffix(c, j) = Files(Rest(j))
    BY <1>2, <2>2 DEF Promised!Suffix, Rest
  <2>4. Promised!TotalSize(Files(Rest(j))) = Total(Rest(j))
    BY <1>1, RestOfList, TotalSizeIs DEF JInv
  <2>. QED
    BY <2>3, <2>4 DEF Promised!Room, RoomAfter
<1>4. k \in 0 .. Len(c) /\ \A j \in 0 .. k - 1 : j \in 0 .. Len(LRU)
  BY <1>1, <1>2 DEF Stops
<1>5. Promised!Room(Promised!Suffix(c, k)) >= Size(mine[t])
  BY <1>2, <1>3, <1>4 DEF Stops
<1>6. \A j \in 0 .. k - 1 : ~(Promised!Room(Promised!Suffix(c, j)) >= Size(mine[t]))
  <2>. SUFFICES ASSUME NEW j \in 0 .. k - 1
                PROVE  ~(Promised!Room(Promised!Suffix(c, j)) >= Size(mine[t]))
    OBVIOUS
  <2>1. RoomAfter(j) < Size(mine[t]) /\ RoomAfter(j) \in Int
    BY <1>4, RestOfList DEF Stops, JInv
  <2>2. Size(mine[t]) \in Nat
    BY SizeType DEF JInv, IInv, Owned, Typed
  <2>3. Promised!Room(Promised!Suffix(c, j)) = RoomAfter(j)
    BY <1>3, <1>4
  <2>. QED
    BY <2>1, <2>2, <2>3
<1>. HIDE DEF c
<1>7. Promised!MakeRoom(c, Size(mine[t])) = Promised!Suffix(c, k)
  BY <1>2, <1>4, <1>5, <1>6, MakeRoomIs
<1>. QED
  BY <1>2, <1>3, <1>4, <1>7 DEF c

\* cache_insert of a file that is not cached and not too large.
LEMMA InsertKeeps ==
    ASSUME JInv, JInv', NEW t \in Threads, pc[t] = "insert", ht_lock = None,
           \A d \in Range(LRU) : Name(d) # Name(mine[t]), ~TooLarge(Size(mine[t])),
           NEW k, Stops(t, k), Given' = Given,
           Kept' = Append(Files(Rest(k)), File(mine[t]))
    PROVE  Promised!Next
<1>. DEFINE f == File(mine[t])
<1>1. mine[t] \in Data /\ f \in FileData /\ Size(mine[t]) = f.size /\ Name(mine[t]) = f.name
  BY DEF JInv, IInv, Owned, Typed, File, Size, Name
<1>2. \A u \in Threads : pc[u] # "evict"
  BY NoneAssumption DEF JInv, IInv, Evictors
<1>3. Kept = Files(LRU)
  BY <1>2, NotEvicting
<1>4. ~Promised!Cached(f.name)
  <2>1. LRU \in Seq(Data) /\ Typed
    BY DEF JInv, IInv, Listed, IsListOf
  <2>2. DOMAIN Files(LRU) = DOMAIN LRU /\ \A i \in DOMAIN LRU : Files(LRU)[i].name = Name(LRU[i])
    BY DEF Files, File, Name
  <2>3. \A i \in DOMAIN LRU : LRU[i] \in Range(LRU)
    BY DEF Range
  <2>. QED
    BY <1>1, <1>3, <2>2, <2>3 DEF Promised!Cached
<1>5. 2 * f.size <= CacheSize
  <2>1. Size(mine[t]) \in Nat
    BY <1>1, SizeType DEF JInv, IInv
  <2>. QED
    BY <1>1, <2>1, CacheSizeAssumption DEF TooLarge
<1>6. Kept' = Append(Promised!MakeRoom(Kept, f.size), f)
  BY <1>1, <1>3, MakeRoomStops
<1>7. f \in [name : Names, size : Sizes \cup {0}]
  BY <1>1 DEF FileData
<1>. HIDE DEF f
<1>8. Promised!Keep(f)
  BY <1>4, <1>5, <1>6 DEF Promised!Keep
<1>. QED
  BY <1>7, <1>8 DEF Promised!Next

\* A file that fits is kept in a list that loses nothing.
LEMMA InsertHTFiles ==
    ASSUME JInv, NEW t \in Threads, Fresh(t), InsertHT(mine[t]), UNCHANGED <<data, mine>>
    PROVE  Files(LRU)' = Append(Files(LRU), File(mine[t]))
<1>. DEFINE d == mine[t]
<1>1. d \notin Range(LRU) /\ d \in Data /\ LRU \in Seq(Data) /\ Typed
  BY DEF JInv, Private, IInv, Typed, Owned, Listed, IsListOf, Fresh
<1>2. RemoveFirst(LRU, d) = LRU
  BY <1>1 DEF RemoveFirst, Range
<1>3. LRU' = Append(LRU, d)
  BY <1>2 DEF InsertHT, UpdateLRU
<1>4. Files(Append(LRU, d)) = Append(Files(LRU), File(d))
  BY <1>1, FilesAppend
<1>5. Files(LRU)' = Files(LRU')
  BY DEF Files, File
<1>. QED
  BY <1>3, <1>4, <1>5

LEMMA InsertIsKeep ==
    ASSUME JInv, JInv', NEW t \in Threads, Insert(t)
    PROVE  [Promised!Next]_<<Kept, Given>>
<1>. DEFINE n == Name(mine[t])
<1>1. pc[t] = "insert" /\ ht_lock = None /\ Fresh(t)
  BY DEF Insert, Fresh
<1>2. n \in Names /\ mine[t] \in Data
  BY <1>1 DEF JInv, IInv, Typed, Owned, FileData, Name
<1>3. \A u \in Threads : pc[u] # "evict"
  BY <1>1, NoneAssumption DEF JInv, IInv, Evictors
<1>4. CASE \E kind : Crash(kind)
  BY <1>4, UnseenStutter DEF Crash, cacheVars, threadVars
<1>5. CASE /\ pc' = [pc EXCEPT ![t] = "close"]
           /\ UNCHANGED <<disk, changes, live, data, cacheVars, ht_lock, mine, rqdata, sent, fault>>
  <2>1. "close" \in Places \ {"evict", "send_hit"} /\ UNCHANGED <<data, LRU, mine, rqdata>>
    BY <1>5 DEF Places, cacheVars
  <2>. QED
    BY <1>1, <1>5, <2>1, UnseenMove
<1>6. CASE /\ Bucket[n] \notin stale /\ SecondLookup(n) = {} /\ ~TooLarge(Size(mine[t]))
           /\ Fits(Size(mine[t])) /\ InsertHT(mine[t]) /\ pc' = [pc EXCEPT ![t] = "close"]
           /\ UNCHANGED <<disk, changes, live, data, stale, ht_lock, mine, rqdata, sent, fault>>
  <2>1. \A u \in Threads : /\ u # t => pc'[u] = pc[u]
                           /\ u = t => pc'[u] = "close"
    BY <1>6 DEF JInv, IInv, Typed
  <2>2. Given' = Given
    BY <1>1, <1>6, <2>1, GivenStays
  <2>3. Kept' = Append(Files(LRU), File(mine[t]))
    <3>1. Kept' = Files(LRU)'
      BY <1>3, <2>1, NotEvictingNext
    <3>2. Files(LRU)' = Append(Files(LRU), File(mine[t]))
      BY <1>1, <1>6, InsertHTFiles
    <3>. QED
      BY <3>1, <3>2
  <2>4. Stops(t, 0) /\ Rest(0) = LRU
    <3>1. available \in Int /\ Size(mine[t]) \in Nat /\ Len(LRU) \in Nat
      BY <1>2, AvailableType, SizeType DEF JInv, IInv, Listed, IsListOf
    <3>2. RoomAfter(0) >= Size(mine[t])
      BY <1>6, <3>1, RestOfAll DEF Fits
    <3>. QED
      BY <3>1, <3>2, RestOfAll DEF Stops
  <2>5. \A d \in Range(LRU) : Name(d) # n
    BY <1>2, <1>6, NotListed DEF SecondLookup, JInv
  <2>. QED
    BY <1>1, <1>6, <2>2, <2>3, <2>4, <2>5, InsertKeeps
<1>7. CASE /\ Bucket[n] \notin stale /\ SecondLookup(n) = {} /\ ~TooLarge(Size(mine[t]))
           /\ pc' = [pc EXCEPT ![t] = "evict"]
           /\ UNCHANGED <<disk, changes, live, data, cacheVars, mine, rqdata, sent, fault>>
  <2>1. \A u \in Threads : /\ u # t => pc'[u] = pc[u]
                           /\ u = t => pc'[u] = "evict"
    BY <1>7 DEF JInv, IInv, Typed
  <2>2. Given' = Given
    BY <1>1, <1>7, <2>1, GivenStays
  <2>3. UNCHANGED <<data, LRU, mine>>
    BY <1>7 DEF cacheVars
  <2>4. PICK k : Stops(t, k)'
    BY <2>1, StopsNext DEF EachStops
  <2>5. Stops(t, k)
    BY <2>3, <2>4 DEF Stops, RoomAfter, Total, Rest, Size
  <2>6. Kept' = Append(Files(Rest(k))', File(mine[t])')
    BY <2>1, <2>4, KeptNext DEF KeptWhenEvicting
  <2>7. Files(Rest(k))' = Files(Rest(k)) /\ File(mine[t])' = File(mine[t])
    BY <2>3 DEF Files, File, Rest
  <2>8. \A d \in Range(LRU) : Name(d) # n
    BY <1>2, <1>7, NotListed DEF SecondLookup, JInv
  <2>. QED
    BY <1>1, <1>7, <2>2, <2>5, <2>6, <2>7, <2>8, InsertKeeps
<1>. QED
  BY <1>4, <1>5, <1>6, <1>7 DEF Insert, Goto

\* cache_insert_ht after the loop: the promise has kept the file already.
LEMMA UnseenInsert ==
    ASSUME JInv, JInv', NEW t \in Threads, InsertAfterEvict(t)
    PROVE  UNCHANGED <<Kept, Given>>
<1>1. CASE \E kind : Crash(kind)
  BY <1>1, UnseenStutter DEF Crash, cacheVars, threadVars
<1>2. CASE /\ InsertHT(mine[t]) /\ pc' = [pc EXCEPT ![t] = "close"]
           /\ UNCHANGED <<disk, changes, live, data, stale, mine, rqdata, sent, fault>>
  <2>1. pc[t] = "evict" /\ Fits(Size(mine[t])) /\ Fresh(t)
    BY DEF InsertAfterEvict, Fresh
  <2>2. \A u \in Threads : /\ u # t => pc'[u] = pc[u] /\ pc[u] # "evict"
                           /\ u = t => pc'[u] = "close"
    BY <1>2, <2>1 DEF JInv, IInv, Typed, Evictors
  <2>3. Stops(t, 0) /\ Rest(0) = LRU
    <3>1. available \in Int /\ Size(mine[t]) \in Nat /\ Len(LRU) \in Nat
      BY <2>1, AvailableType, SizeType DEF JInv, IInv, Owned, Typed, Listed, IsListOf
    <3>2. RoomAfter(0) >= Size(mine[t])
      BY <2>1, <3>1, RestOfAll DEF Fits
    <3>. QED
      BY <3>1, <3>2, RestOfAll DEF Stops
  <2>4. Kept = Append(Files(LRU), File(mine[t]))
    BY <2>1, <2>3, KeptIs DEF KeptWhenEvicting
  <2>5. Kept' = Files(LRU)'
    BY <2>2, NotEvictingNext
  <2>6. Files(LRU)' = Append(Files(LRU), File(mine[t]))
    BY <1>2, <2>1, InsertHTFiles
  <2>7. Given' = Given
    BY <1>2, <2>1, <2>2, GivenStays
  <2>. QED
    BY <2>4, <2>5, <2>6, <2>7
<1>. QED
  BY <1>1, <1>2 DEF InsertAfterEvict, Goto

(***************************************************************************)
(* The theorems.                                                           *)
(***************************************************************************)
\* The hash table and the LRU list agree: cache_insert_ht, update_LRU,
\* cache_evict and delete_entry keep the same files in both, each once and in
\* the chain of its name, in all buckets whose table entry was not freed.
THEOREM CacheTablesMatch == Spec => []TableMatchesLRU
<1>1. IInv => TableMatchesLRU
  <2>. SUFFICES ASSUME IInv PROVE TableMatchesLRU
    OBVIOUS
  <2>1. \A b \in Buckets \ stale :
          /\ table[b] \in Seq(Data) /\ DOMAIN table[b] = 1 .. Len(table[b])
          /\ \A a : a \in Range(table[b]) <=> \E i \in 1 .. Len(table[b]) : table[b][i] = a
          /\ \A i, j \in 1 .. Len(table[b]) : table[b][i] = table[b][j] => i = j
          /\ Range(table[b]) = InBucket(b)
    BY ListRange DEF IInv, Chained, IsListOf
  <2>2. \A e : e \in Entries <=> \E b \in Buckets \ stale : \E i \in 1 .. Len(table[b]) : e = <<b, i>>
    BY <2>1 DEF Entries
  <2>3. ASSUME NEW b \in Buckets \ stale, NEW i \in 1 .. Len(table[b])
        PROVE  At(<<b, i>>) = table[b][i] /\ table[b][i] \in Range(LRU) /\ Bucket[Name(table[b][i])] = b
    <3>1. table[b][i] \in Range(table[b])
      BY <2>1
    <3>2. Range(table[b]) = InBucket(b)
      BY <2>1
    <3>3. table[b][i] \in InBucket(b)
      BY <3>1, <3>2
    <3>. QED
      BY <3>3 DEF At, InBucket
  <2>4. ASSUME NEW e \in Entries
        PROVE  At(e) \in Range(LRU) /\ Bucket[Name(At(e))] = e[1]
    <3>1. PICK b \in Buckets \ stale : \E i \in 1 .. Len(table[b]) : e = <<b, i>>
      BY <2>2
    <3>2. PICK i \in 1 .. Len(table[b]) : e = <<b, i>>
      BY <3>1
    <3>. QED
      BY <2>3, <3>2
  <2>5. ASSUME NEW e \in Entries, NEW f \in Entries, At(e) = At(f)
        PROVE  e = f
    <3>1. PICK b \in Buckets \ stale : \E i \in 1 .. Len(table[b]) : e = <<b, i>>
      BY <2>2
    <3>2. PICK i \in 1 .. Len(table[b]) : e = <<b, i>>
      BY <3>1
    <3>3. PICK c \in Buckets \ stale : \E j \in 1 .. Len(table[c]) : f = <<c, j>>
      BY <2>2
    <3>4. PICK j \in 1 .. Len(table[c]) : f = <<c, j>>
      BY <3>3
    <3>5. b = c
      BY <2>3, <2>5, <3>2, <3>4
    <3>6. table[b][i] = table[b][j]
      BY <2>3, <2>5, <3>2, <3>4, <3>5
    <3>. QED
      BY <2>1, <3>2, <3>4, <3>5, <3>6
  <2>6. LRU \in Seq(Data) /\ IsInjective(LRU)
    BY DEF IInv, Listed, IsListOf
  <2>7. {At(e) : e \in Entries} = {d \in Range(LRU) : Bucket[Name(d)] \notin stale}
    <3>1. ASSUME NEW d \in Range(LRU), Bucket[Name(d)] \notin stale
          PROVE  \E e \in Entries : At(e) = d
      <4>1. PICK b \in Buckets \ stale : b = Bucket[Name(d)]
        BY <3>1 DEF IInv, Listed, Typed, FileData, Buckets, Name
      <4>2. d \in Range(table[b])
        BY <2>1, <3>1, <4>1 DEF InBucket
      <4>3. PICK i \in 1 .. Len(table[b]) : table[b][i] = d
        BY <2>1, <4>2
      <4>4. <<b, i>> \in Entries
        BY <2>2
      <4>5. At(<<b, i>>) = d
        BY <4>3 DEF At
      <4>. QED
        BY <4>4, <4>5
    <3>2. \A e \in Entries : e[1] \notin stale
      BY <2>2
    <3>. QED
      BY <2>4, <3>1, <3>2
  <2>8. {d \in Range(LRU) : Bucket[Name(d)] \notin stale}
          = {LRU[i] : i \in {j \in DOMAIN LRU : Bucket[Name(LRU[j])] \notin stale}}
    BY <2>6 DEF Range
  <2>. QED
    BY <2>4, <2>5, <2>6, <2>7, <2>8 DEF TableMatchesLRU
<1>. QED
  BY <1>1, InitInv, NextInv, PTL DEF Spec

\* Of two threads that miss on one name only one inserts its file: the second
\* cache_lookup of do_server_request is under the lock of the insertion.
THEOREM CacheHasOneCopy == Spec => []OneCopyPerName
<1>1. IInv => OneCopyPerName
  <2>. SUFFICES ASSUME IInv, NEW i \in DOMAIN LRU, NEW j \in DOMAIN LRU,
                       Name(LRU[i]) = Name(LRU[j])
                PROVE  i = j
    BY DEF OneCopyPerName
  <2>1. LRU[i] \in Range(LRU) /\ LRU[j] \in Range(LRU)
    BY DEF Range
  <2>. QED
    BY <2>1 DEF IInv, Listed, IsListOf, IsInjective
<1>. QED
  BY <1>1, InitInv, NextInv, PTL DEF Spec

\* A reply carries the file that was asked for, whatever hash() does.
THEOREM CacheGivesRightFile == Spec => []RightFile
<1>1. IInv => RightFile
  BY DEF IInv, Owned, RightFile
<1>. QED
  BY <1>1, InitInv, NextInv, PTL DEF Spec

\* A cached file_data sent after the unlock is not freed, though it may be
\* evicted meanwhile.
THEOREM CacheSendsLiveFiles == Spec => []NoUseAfterFree
<1>1. IInv => NoUseAfterFree
  BY DEF IInv, Owned, NoUseAfterFree
<1>. QED
  BY <1>1, InitInv, NextInv, PTL DEF Spec

\* The types, and with them the bounds of the space left.
THEOREM CacheTypes == Spec => []TypeOK
<1>1. Init => Counted
  BY MaxChangesAssumption DEF Init, Counted
<1>2. JInv /\ Counted /\ [Next]_vars => Counted'
  <2>1. UNCHANGED vars /\ Counted => Counted'
    BY DEF vars, cacheVars, threadVars, Counted
  <2>. QED
    BY <2>1, NextCounted
<1>3. JInv /\ Counted => TypeOK
  <2>. SUFFICES ASSUME JInv, Counted PROVE TypeOK
    OBVIOUS
  <2>1. table \in [Buckets -> Seq(Data)]
    <3>1. table = [b \in Buckets |-> table[b]]
      BY DEF Counted
    <3>2. \A b \in Buckets : table[b] \in Seq(Data)
      BY DEF JInv, IInv, Chained, IsListOf
    <3>3. [b \in Buckets |-> table[b]] \in [Buckets -> Seq(Data)]
      BY <3>2
    <3>. QED
      BY <3>1, <3>3, Zenon
  <2>2. LRU \in Seq(Data)
    BY DEF JInv, IInv, Listed, IsListOf
  <2>. QED
    BY <2>1, <2>2, AvailableType DEF TypeOK, Counted, JInv, IInv, Typed, FileData, Places
<1>. QED
  BY <1>1, <1>2, <1>3, InitSpace, NextSpace, PTL DEF Spec

\* The hash table, the list and the loop that makes room, with other threads
\* between any two steps of a request, are a cache that drops the least
\* recently used files, no more of them than it must.
THEOREM CacheIsLRU == Spec => ImplementsLRU
<1>1. Init => Promised!Init
  <2>. SUFFICES ASSUME Init PROVE Promised!Init
    OBVIOUS
  <2>1. \A t \in Threads : pc[t] = "idle"
    BY DEF Init
  <2>2. Kept = <<>>
    BY <2>1, NotEvicting DEF Init, Files
  <2>3. Given = [t \in Threads |-> None]
    BY <2>1 DEF Given
  <2>. QED
    BY <2>2, <2>3 DEF Promised!Init
<1>2. JInv /\ JInv' /\ [Next]_vars => [Promised!Next]_<<Kept, Given>>
  <2>. SUFFICES ASSUME JInv, JInv', [Next]_vars PROVE [Promised!Next]_<<Kept, Given>>
    OBVIOUS
  <2>1. CASE UNCHANGED vars
    BY <2>1, UnseenStutter DEF vars, cacheVars, threadVars
  <2>2. ASSUME NEW t \in Threads, NotGet(t) PROVE UNCHANGED <<Kept, Given>>
    BY <2>2, UnseenStutter DEF NotGet, cacheVars
  <2>3. ASSUME NEW t \in Threads, Close(t) PROVE UNCHANGED <<Kept, Given>>
    <3>1. /\ pc[t] = "close" /\ pc' = [pc EXCEPT ![t] = "idle"] /\ UNCHANGED <<data, LRU>>
          /\ mine' = [mine EXCEPT ![t] = None] /\ rqdata' = [rqdata EXCEPT ![t] = None]
      BY <2>3 DEF Close, Goto, cacheVars
    <3>2. \A u \in Threads : u # t => mine'[u] = mine[u] /\ rqdata'[u] = rqdata[u]
      BY <3>1 DEF JInv, IInv, Typed
    <3>3. "idle" \in Places \ {"evict", "send_hit"}
      BY DEF Places
    <3>. QED
      BY <3>1, <3>2, <3>3, UnseenMove
  <2>4. ASSUME NEW t \in Threads, Step(t) PROVE [Promised!Next]_<<Kept, Given>>
    BY <2>2, <2>3, <2>4, UnseenBegin, LookupUses, UnseenRead, SendFinishes, InsertIsKeep,
       UnseenEvict, UnseenInsert DEF Step
  <2>5. ASSUME NEW n \in Names, NEW s \in Sizes \cup {Refused}, ChangeDisk(n, s)
        PROVE  UNCHANGED <<Kept, Given>>
    BY <2>5, UnseenStutter DEF ChangeDisk, cacheVars, threadVars
  <2>. QED
    BY <2>1, <2>4, <2>5 DEF Next
<1>. QED
  BY <1>1, <1>2, InitSpace, NextSpace, PTL DEF Spec, ImplementsLRU, Promised!Spec

\* What is left of the limit is what the cached files do not take, whatever
\* the order in which threads insert and evict.
THEOREM CacheAccountsSpace == Spec => []SpaceAccounted
<1>1. JInv => SpaceAccounted
  BY DEF JInv
<1>. QED
  BY <1>1, InitSpace, NextSpace, PTL DEF Spec
=============================================================================
