--------------------------- MODULE ThreadsProofs ---------------------------
(***************************************************************************)
(* Proofs about module Threads: for any number of threads, identifiers and *)
(* wait queues, and whatever arguments a program passes, a thread is in    *)
(* one place at a time, identifiers agree with the threads that have them, *)
(* and the state fields tell the returns of getcontext apart.              *)
(***************************************************************************)
EXTENDS Threads, ListProofs

(***************************************************************************)
(* Lists of addresses: ListProofs, in the terms of Threads.                *)
(***************************************************************************)
IsList(s) == s \in Seq(Addr) /\ IsInjective(s)

LEMMA OnList ==
    ASSUME NEW s \in Seq(Addr)
    PROVE  /\ On(s) \subseteq Addr
           /\ \A a : a \in On(s) <=> \E i \in 1 .. Len(s) : s[i] = a
           /\ IsInjective(s) <=> \A i, j \in 1 .. Len(s) : s[i] = s[j] => i = j
  BY ListRange DEF On, IsList, IsListOf, Range

LEMMA OnEmpty == On(<<>>) = {} /\ IsList(<<>>)
  BY EmptyList DEF On, IsList, IsListOf, Range

LEMMA OnAppend ==
    ASSUME NEW s, IsList(s), NEW x \in Addr
    PROVE  /\ Append(s, x) \in Seq(Addr) /\ On(Append(s, x)) = On(s) \cup {x}
           /\ x \notin On(s) => IsList(Append(s, x))
  BY AppendList DEF On, IsList, IsListOf, Range

LEMMA OnConcat ==
    ASSUME NEW s, IsList(s), NEW t, IsList(t)
    PROVE  /\ s \o t \in Seq(Addr) /\ On(s \o t) = On(s) \cup On(t)
           /\ On(s) \cap On(t) = {} => IsList(s \o t)
  BY ConcatList DEF On, IsList, IsListOf, Range

LEMMA OnPart ==
    ASSUME NEW s, IsList(s), NEW l \in Nat, l >= 1, NEW h \in Nat, h <= Len(s)
    PROVE  /\ IsList(SubSeq(s, l, h))
           /\ \A a : a \in On(SubSeq(s, l, h)) <=> \E j \in l .. h : s[j] = a
<1>1. IsListOf(s, Addr)
  BY DEF IsList, IsListOf
<1>2. /\ IsListOf(SubSeq(s, l, h), Addr)
      /\ \A a : a \in Range(SubSeq(s, l, h)) <=> \E j \in l .. h : s[j] = a
  BY <1>1, PartOfList
<1>3. On(SubSeq(s, l, h)) = Range(SubSeq(s, l, h))
  BY DEF On, Range
<1>. QED
  BY <1>2, <1>3 DEF IsList, IsListOf

LEMMA OnRemoveAt ==
    ASSUME NEW s, IsList(s), NEW i \in 1 .. Len(s)
    PROVE  /\ IsList(RemoveAt(s, i)) /\ On(RemoveAt(s, i)) = On(s) \ {s[i]}
           /\ s[i] \in On(s) /\ s[i] \in Addr
  BY RemoveAtList DEF On, IsList, IsListOf, Range

LEMMA OnTail ==
    ASSUME NEW s, IsList(s), s # <<>>
    PROVE  /\ IsList(Tail(s)) /\ On(Tail(s)) = On(s) \ {Head(s)}
           /\ Head(s) \in On(s) /\ Head(s) \in Addr
           /\ Tail(s) = RemoveAt(s, 1) /\ Head(s) = s[1] /\ 1 \in 1 .. Len(s)
  BY TailOfList DEF On, IsList, IsListOf, Range

(***************************************************************************)
(* The least element of a set of naturals: the lowest free identifier, and *)
(* the first position at which a search of the ready list stops.           *)
(***************************************************************************)
LEMMA NextTidFree == FreeTids # {} => NextTid \in FreeTids /\ NextTid \in Tids
<1>. SUFFICES ASSUME FreeTids # {} PROVE NextTid \in FreeTids
  BY DEF FreeTids
<1>1. FreeTids \in SUBSET Nat
  BY MaxThreadsAssumption DEF FreeTids, Tids
<1>2. \E n \in FreeTids : \A m \in FreeTids : n <= m
  BY <1>1, LeastExists
<1>. QED
  BY <1>2 DEF NextTid

LEMMA FirstIsPosition ==
    ASSUME NEW t, ready \in Seq(Addr), Positions(t) # {}
    PROVE  First(Positions(t)) \in 1 .. Len(ready)
<1>1. Positions(t) \in SUBSET (1 .. Len(ready)) /\ Positions(t) \in SUBSET Nat
  BY DEF Positions
<1>2. \E n \in Positions(t) : \A m \in Positions(t) : n <= m
  BY <1>1, LeastExists
<1>3. First(Positions(t)) \in Positions(t)
  BY <1>2 DEF First
<1>. QED
  BY <1>1, <1>3

(***************************************************************************)
(* The kinds of steps.                                                     *)
(***************************************************************************)
Stops == \E f \in {"exited", "null_deref", "corrupt"} : Fault(f)

\* The interrupt mask alone changes.
Masks ==
    /\ \E e \in BOOLEAN : on' = [on EXCEPT ![running] = e]
    /\ UNCHANGED <<thread_id_array, lists, fields, pc, leaked, status>>

\* The running thread switches to the thread at position i, and is put at the
\* tail of the ready list, or of q.
SwitchesFromReady(i) ==
    /\ ready' = Append(RemoveAt(ready, i), running)
    /\ SwitchTo(ready[i])
    /\ UNCHANGED <<wait, size>>

SwitchesFromWait(q) ==
    /\ ready # <<>>
    /\ ready' = Tail(ready)
    /\ wait' = [wait EXCEPT ![q] = Append(@, running)]
    /\ size' = [size EXCEPT ![q] = size[q] + 1]
    /\ SwitchTo(Head(ready))

\* A call returns in the thread switched to.
Returns ==
    /\ to_delete' = <<>>
    /\ leaked' = leaked \cup ReapLeak
    /\ pc' = [Reaped(pc) EXCEPT ![running] = "user"]
    /\ UNCHANGED <<thread_id_array, ready, running, wait, size, fields, on,
                   status>>

\* A wait queue is destroyed; by a careful program, when it is empty.
Destroys(q) == QueueDestroy(q) /\ (Disciplined => wait[q] = <<>>)

Step ==
    \/ Stops \/ Masks \/ CreateNoStack \/ YieldSelf \/ Returns \/ Start
    \/ ready # <<>> /\ ExitSwitch
    \/ \E a \in Addr : Create(a) \/ SetFlag(a)
    \/ \E i \in 1 .. Len(ready) : SwitchesFromReady(i)
    \/ \E q \in Queues : \/ SwitchesFromWait(q)
                         \/ WakeupOne(q) \/ WakeupAll(q) \/ Destroys(q)

LEMMA YieldToSteps ==
    ASSUME NEW i \in 1 .. Len(ready), YieldTo(i)
    PROVE  Step
<1>1. CASE flag[running]
  BY <1>1 DEF YieldTo, Step, Stops
<1>2. CASE ~flag[running]
  BY <1>2 DEF YieldTo, Insert, Unlinked, SwitchesFromReady, Step
<1>. QED
  BY <1>1, <1>2

LEMMA SleepSteps ==
    ASSUME NEW q \in Queues, Sleep(q)
    PROVE  Step
<1>1. CASE flag[running] /\ Tail(ready) # <<>>
  BY <1>1 DEF Sleep, Step, Stops
<1>2. CASE ~(flag[running] /\ Tail(ready) # <<>>)
  BY <1>2 DEF Sleep, Insert, Counted, SwitchesFromWait, Step
<1>. QED
  BY <1>1, <1>2

LEMMA MaskSteps == ReturnMasked => Step
  BY DEF ReturnMasked, Masks, Step

LEMMA ResumeSteps == Resume => Step
<1>. SUFFICES ASSUME Resume PROVE Step
  OBVIOUS
<1>1. CASE flag[running] /\ ready # <<>>
  BY <1>1 DEF Resume, Step
<1>2. CASE ~(flag[running] /\ ready # <<>>)
  BY <1>2 DEF Resume, Returns, Step
<1>. QED
  BY <1>1, <1>2

LEMMA FrontIsPosition == ready \in Seq(Addr) /\ ready # <<>> => 1 \in 1 .. Len(ready)
  OBVIOUS

LEMMA InterruptSteps == ready \in Seq(Addr) /\ Interrupt => Step
  BY FrontIsPosition, YieldToSteps DEF Interrupt

\* Every step of a program is of one of these kinds.
LEMMA NextSteps ==
    ASSUME ready \in Seq(Addr), [Next]_vars
    PROVE  Step \/ UNCHANGED vars
<1>1. ASSUME NEW a \in Addr, Create(a) PROVE Step
  BY <1>1 DEF Step
<1>2. CASE CreateFails
  BY <1>2, MaskSteps DEF CreateFails
<1>3. CASE CreateNoStack \/ YieldSelf
  BY <1>3 DEF Step
<1>4. CASE YieldAny
  BY <1>4, FrontIsPosition, YieldToSteps DEF YieldAny
<1>5. ASSUME NEW t \in Names, YieldTid(t) PROVE Step
  <2>1. CASE Positions(t) # {}
    BY <1>5, <2>1, FirstIsPosition, YieldToSteps DEF YieldTid
  <2>2. CASE Positions(t) = {}
    BY <1>5, <2>2 DEF YieldTid, Step, Stops
  <2>. QED
    BY <2>1, <2>2
<1>6. ASSUME NEW t \in Names, ExitTid(t) PROVE Step
  <2>1. CASE ReturnMasked
    BY <2>1, MaskSteps
  <2>2. CASE ~ReturnMasked /\ Positions(t) # {}
    <3>1. SetFlag(ready[First(Positions(t))])
      BY <1>6, <2>2 DEF ExitTid
    <3>2. ready[First(Positions(t))] \in Addr
      BY <2>2, FirstIsPosition
    <3>. QED
      BY <3>1, <3>2 DEF Step
  <2>3. CASE ~ReturnMasked /\ Positions(t) = {}
    BY <1>6, <2>3 DEF ExitTid, Step, Stops
  <2>. QED
    BY <2>1, <2>2, <2>3
<1>7. CASE ExitSelf
  BY <1>7, MaskSteps DEF ExitSelf, Step
<1>8. CASE ExitAny
  <2>1. ready # <<>> => Head(ready) \in Addr
    OBVIOUS
  <2>. QED
    BY <1>8, <2>1, MaskSteps DEF ExitAny, Step
<1>9. CASE Return
  BY <1>9 DEF Return, Step, Stops
<1>10. ASSUME NEW q \in Queues, Sleep(q) PROVE Step
  BY <1>10, SleepSteps
<1>11. ASSUME NEW q \in Queues, WakeupOne(q) \/ WakeupAll(q) \/ Destroys(q)
       PROVE  Step
  BY <1>11 DEF Step, Destroys
<1>12. ASSUME NEW e \in BOOLEAN, InterruptsSet(e) PROVE Step
  BY <1>12 DEF InterruptsSet, Masks, Step
<1>13. CASE Call
  BY <1>1, <1>2, <1>3, <1>4, <1>5, <1>6, <1>7, <1>8, <1>9, <1>10, <1>11, <1>12,
     <1>13 DEF Call, Destroys
<1>14. CASE Interrupt
  BY <1>14, InterruptSteps
<1>15. CASE Resume
  BY <1>15, ResumeSteps
<1>16. CASE Start
  BY <1>16 DEF Step
<1>. QED
  BY <1>13, <1>14, <1>15, <1>16 DEF Next

(***************************************************************************)
(* The place of each thread.                                               *)
(***************************************************************************)
Codes == {"free", "stub", "switched", "user", "dead"}

Placed ==
    /\ IsList(ready) /\ IsList(to_delete) /\ running \in Addr
    /\ wait \in [Queues -> Seq(Addr)] /\ \A q \in Queues : IsList(wait[q])
    /\ pc \in [Addr -> Codes]
    /\ running \notin On(ready) /\ running \notin On(to_delete)
    /\ \A a \in On(ready) : a \notin On(to_delete)
    /\ \A q \in Queues : \A a \in On(wait[q]) :
          /\ a # running /\ a \notin On(ready) /\ a \notin On(to_delete)
          /\ \A p \in Queues : a \in On(wait[p]) => p = q
    /\ \A a \in Addr : pc[a] = "dead" <=> a \in On(to_delete)
    /\ \A a \in Addr : pc[a] = "free" <=>
          /\ a # running /\ a \notin On(ready) /\ a \notin On(to_delete)
          /\ \A q \in Queues : a \notin On(wait[q])

LEMMA PlacedInit == Init => Placed
  BY OnEmpty, MainAssumption DEF Init, Placed, Codes

LEMMA PlacedStays ==
    ASSUME Placed, UNCHANGED <<ready, running, to_delete, wait, pc>>
    PROVE  Placed'
  BY DEF Placed, IsList, On

\* The dead are freed, and the running thread's place in the code is c.
LEMMA PlacedReturns ==
    ASSUME Placed, NEW c \in Codes \ {"free", "dead"},
           to_delete' = <<>>, pc' = [Reaped(pc) EXCEPT ![running] = c],
           UNCHANGED <<ready, running, wait>>
    PROVE  Placed'
<1>1. /\ IsList(ready') /\ IsList(to_delete') /\ On(to_delete') = {}
      /\ On(ready') = On(ready)
      /\ running' \in Addr /\ running' = running
      /\ wait' \in [Queues -> Seq(Addr)] /\ \A q \in Queues : IsList(wait'[q])
      /\ \A q \in Queues : On(wait'[q]) = On(wait[q])
  BY OnEmpty DEF Placed
<1>2. /\ pc' \in [Addr -> Codes]
      /\ \A a \in Addr : pc'[a] = IF a = running THEN c
                                  ELSE IF a \in On(to_delete) THEN "free" ELSE pc[a]
  BY DEF Placed, Reaped, Codes
<1>. QED
  BY <1>1, <1>2 DEF Placed, Codes

\* The running thread is put on q.
Joins(q) == \A p \in Queues : On(wait'[p]) = IF p = q THEN On(wait[p]) \cup {running}
                                                      ELSE On(wait[p])

\* A thread leaves the ready list for the processor; the caller is at the end
\* of a list.
LEMMA PlacedSwitch ==
    ASSUME Placed, NEW i \in 1 .. Len(ready), SwitchTo(ready[i]),
           IsList(ready'),
           wait' \in [Queues -> Seq(Addr)], \A q \in Queues : IsList(wait'[q]),
           \/ /\ On(ready') = (On(ready) \ {ready[i]}) \cup {running}
              /\ wait' = wait
           \/ /\ On(ready') = On(ready) \ {ready[i]}
              /\ \E q \in Queues : Joins(q)
    PROVE  Placed'
<1>1. /\ IsList(to_delete') /\ On(to_delete') = {}
      /\ running' = ready[i] /\ ready[i] \in On(ready) /\ ready[i] \in Addr
  BY OnEmpty, OnRemoveAt DEF SwitchTo, Placed
<1>2. /\ pc' \in [Addr -> Codes]
      /\ \A a \in Addr : pc'[a] = IF a = running THEN "switched"
                                  ELSE IF a \in On(to_delete) THEN "free" ELSE pc[a]
  BY DEF SwitchTo, Placed, Reaped, Codes
<1>3. On(ready) \subseteq Addr /\ \A q \in Queues : On(wait[q]) \subseteq Addr
  BY OnList DEF Placed, IsList
<1>4. CASE /\ On(ready') = (On(ready) \ {ready[i]}) \cup {running}
           /\ wait' = wait
  BY <1>1, <1>2, <1>3, <1>4 DEF Placed, Codes
<1>5. ASSUME On(ready') = On(ready) \ {ready[i]}, NEW q \in Queues, Joins(q)
      PROVE  Placed'
  <2>1. \A p \in Queues : \A a \in On(wait'[p]) :
           a \in On(wait[p]) \/ (a = running /\ p = q)
    BY <1>5 DEF Joins
  <2>2. /\ running \in On(wait'[q])
        /\ \A p \in Queues : On(wait[p]) \subseteq On(wait'[p])
    BY <1>5 DEF Joins
  <2>3. \A p \in Queues : \A a \in On(wait'[p]) :
           /\ a # running' /\ a \notin On(ready') /\ a \notin On(to_delete')
           /\ \A r \in Queues : a \in On(wait'[r]) => r = p
    BY <1>1, <1>5, <2>1 DEF Placed
  <2>4. \A a \in Addr : pc'[a] = "dead" <=> a \in On(to_delete')
    BY <1>1, <1>2 DEF Placed, Codes
  <2>5. ASSUME NEW a \in Addr
        PROVE  pc'[a] = "free" <=>
                  /\ a # running' /\ a \notin On(ready') /\ a \notin On(to_delete')
                  /\ \A p \in Queues : a \notin On(wait'[p])
    <3>1. CASE a = running
      BY <1>2, <2>2, <3>1
    <3>2. CASE a # running
      BY <1>1, <1>2, <1>5, <2>1, <2>2, <3>2 DEF Placed
    <3>. QED
      BY <3>1, <3>2
  <2>. QED
    BY <1>1, <1>2, <1>5, <2>3, <2>4, <2>5 DEF Placed
<1>. QED
  BY <1>4, <1>5

LEMMA PlacedFromReady ==
    ASSUME Placed, NEW i \in 1 .. Len(ready), SwitchesFromReady(i)
    PROVE  Placed'
<1>. DEFINE r == RemoveAt(ready, i)
<1>1. IsList(r) /\ On(r) = On(ready) \ {ready[i]} /\ running \notin On(r)
  BY OnRemoveAt DEF Placed
<1>2. ready' = Append(r, running) /\ wait' = wait /\ SwitchTo(ready[i])
  BY DEF SwitchesFromReady
<1>. HIDE DEF r
<1>3. IsList(ready') /\ On(ready') = (On(ready) \ {ready[i]}) \cup {running}
  BY <1>1, <1>2, OnAppend DEF Placed
<1>4. wait' \in [Queues -> Seq(Addr)] /\ \A q \in Queues : IsList(wait'[q])
  BY <1>2 DEF Placed
<1>. QED
  BY <1>2, <1>3, <1>4, PlacedSwitch

LEMMA PlacedFromWait ==
    ASSUME Placed, NEW q \in Queues, SwitchesFromWait(q)
    PROVE  Placed'
<1>. DEFINE w == Append(wait[q], running)
<1>1. /\ ready # <<>> /\ wait' = [wait EXCEPT ![q] = w]
      /\ ready' = Tail(ready) /\ SwitchTo(Head(ready))
  BY DEF SwitchesFromWait
<1>2. IsList(w) /\ w \in Seq(Addr) /\ On(w) = On(wait[q]) \cup {running}
  BY OnAppend DEF Placed
<1>3. /\ IsList(ready') /\ On(ready') = On(ready) \ {ready[1]}
      /\ 1 \in 1 .. Len(ready) /\ Head(ready) = ready[1]
  BY <1>1, OnTail DEF Placed
<1>. HIDE DEF w
<1>4. /\ wait' \in [Queues -> Seq(Addr)] /\ \A p \in Queues : IsList(wait'[p])
      /\ Joins(q)
  <2>1. wait \in [Queues -> Seq(Addr)] /\ \A p \in Queues : IsList(wait[p])
    BY DEF Placed
  <2>2. wait' \in [Queues -> Seq(Addr)] /\ wait'[q] = w /\ \A p \in Queues : p # q => wait'[p] = wait[p]
    BY <1>1, <1>2, <2>1
  <2>3. \A p \in Queues : IsList(wait'[p])
    BY <1>2, <2>1, <2>2
  <2>4. Joins(q)
    BY <1>2, <2>2 DEF Joins
  <2>. QED
    BY <2>2, <2>3, <2>4
<1>. QED
  BY <1>1, <1>3, <1>4, PlacedSwitch

LEMMA PlacedExit ==
    ASSUME Placed, ready # <<>>, ExitSwitch
    PROVE  Placed'
<1>1. /\ IsList(ready') /\ On(ready') = On(ready) \ {Head(ready)}
      /\ running' = Head(ready) /\ Head(ready) \in On(ready) /\ Head(ready) \in Addr
  BY OnTail DEF ExitSwitch, Placed
<1>2. IsList(to_delete') /\ On(to_delete') = On(to_delete) \cup {running}
  BY OnAppend DEF ExitSwitch, Placed
<1>3. wait' = wait /\ pc' \in [Addr -> Codes]
      /\ \A a \in Addr : pc'[a] = IF a = running THEN "dead" ELSE pc[a]
  BY DEF ExitSwitch, Placed, Codes
<1>. QED
  BY <1>1, <1>2, <1>3 DEF Placed, Codes

LEMMA PlacedCreate ==
    ASSUME Placed, NEW a \in Addr, Create(a)
    PROVE  Placed'
<1>1. /\ pc[a] = "free" /\ ready' = Append(ready, a)
      /\ running' = running /\ to_delete' = to_delete /\ wait' = wait
      /\ pc' = [pc EXCEPT ![a] = "stub"]
  BY DEF Create, Insert
<1>2. a \notin On(ready)
  BY <1>1 DEF Placed
<1>3. IsList(ready') /\ On(ready') = On(ready) \cup {a}
  BY <1>1, <1>2, OnAppend DEF Placed
<1>4. /\ pc' \in [Addr -> Codes]
      /\ \A b \in Addr : pc'[b] = IF b = a THEN "stub" ELSE pc[b]
      /\ a # running /\ a \notin On(to_delete)
      /\ \A q \in Queues : a \notin On(wait[q])
  BY <1>1 DEF Placed, Codes
<1>5. /\ \A b \in On(ready') : b \notin On(to_delete')
      /\ \A b \in Addr : pc'[b] = "dead" <=> b \in On(to_delete')
      /\ \A b \in Addr : pc'[b] = "free" <=>
            /\ b # running' /\ b \notin On(ready') /\ b \notin On(to_delete')
            /\ \A q \in Queues : b \notin On(wait'[q])
  BY <1>1, <1>3, <1>4 DEF Placed
<1>. QED
  BY <1>1, <1>3, <1>4, <1>5 DEF Placed

\* The whole of a wait queue is moved to the ready list.
LEMMA PlacedMovesAll ==
    ASSUME Placed, NEW q \in Queues,
           ready' = ready \o wait[q], wait' = [wait EXCEPT ![q] = <<>>],
           UNCHANGED <<running, to_delete, pc>>
    PROVE  Placed'
<1>1. On(ready) \cap On(wait[q]) = {}
  BY DEF Placed
<1>2. IsList(ready') /\ On(ready') = On(ready) \cup On(wait[q])
  BY <1>1, OnConcat DEF Placed
<1>3. /\ wait' \in [Queues -> Seq(Addr)] /\ \A p \in Queues : IsList(wait'[p])
      /\ On(wait'[q]) = {} /\ \A p \in Queues : p # q => On(wait'[p]) = On(wait[p])
  BY OnEmpty DEF Placed
<1>4. /\ \A p \in Queues : \A a \in On(wait'[p]) : p # q /\ a \in On(wait[p])
      /\ \A p \in Queues : \A a \in On(wait[p]) : p # q => a \in On(wait'[p])
  BY <1>3
<1>5. \A a \in On(ready') : a # running /\ a \notin On(to_delete)
  BY <1>2 DEF Placed
<1>6. \A p \in Queues : \A a \in On(wait'[p]) :
          /\ a # running /\ a \notin On(ready') /\ a \notin On(to_delete)
          /\ \A r \in Queues : a \in On(wait'[r]) => r = p
  BY <1>2, <1>4 DEF Placed
<1>7. \A a \in Addr :
          a \notin On(ready') /\ (\A p \in Queues : a \notin On(wait'[p]))
          <=> a \notin On(ready) /\ (\A p \in Queues : a \notin On(wait[p]))
  BY <1>2, <1>4
<1>. QED
  <2>1. pc' \in [Addr -> Codes] /\ running' \in Addr /\ wait' \in [Queues -> Seq(Addr)]
    BY <1>2 DEF Placed
  <2>2. \A a \in Addr : pc'[a] = "dead" <=> a \in On(to_delete')
    BY <1>2 DEF Placed
  <2>3. \A a \in Addr : pc'[a] = "free" <=>
            /\ a # running' /\ a \notin On(ready') /\ a \notin On(to_delete')
            /\ \A p \in Queues : a \notin On(wait'[p])
    BY <1>2, <1>7 DEF Placed
  <2>. QED
    BY <1>2, <1>3, <1>5, <1>6, <2>1, <2>2, <2>3 DEF Placed

\* The first thread of a wait queue is moved to the ready list.
LEMMA PlacedMovesOne ==
    ASSUME Placed, NEW q \in Queues, wait[q] # <<>>,
           ready' = Append(ready, Head(wait[q])),
           wait' = [wait EXCEPT ![q] = Tail(wait[q])],
           UNCHANGED <<running, to_delete, pc>>
    PROVE  Placed'
<1>. DEFINE h == Head(wait[q])
            w == Tail(wait[q])
<1>1. /\ IsList(w) /\ w \in Seq(Addr) /\ On(w) = On(wait[q]) \ {h}
      /\ h \in On(wait[q]) /\ h \in Addr
  BY OnTail DEF Placed, IsList
<1>2. ready' = Append(ready, h) /\ wait' = [wait EXCEPT ![q] = w]
  OBVIOUS
<1>. HIDE DEF h, w
<1>3. h \notin On(ready)
  BY <1>1 DEF Placed
<1>4. IsList(ready') /\ On(ready') = On(ready) \cup {h}
  <2>1. IsList(ready)
    BY DEF Placed
  <2>2. IsList(Append(ready, h)) /\ On(Append(ready, h)) = On(ready) \cup {h}
    BY <1>1, <1>3, <2>1, OnAppend
  <2>. QED
    BY <1>2, <2>2
<1>5. /\ wait' \in [Queues -> Seq(Addr)] /\ \A p \in Queues : IsList(wait'[p])
      /\ On(wait'[q]) = On(wait[q]) \ {h}
      /\ \A p \in Queues : p # q => On(wait'[p]) = On(wait[p])
  <2>1. /\ wait' \in [Queues -> Seq(Addr)] /\ wait'[q] = w
        /\ \A p \in Queues : p # q => wait'[p] = wait[p]
    BY <1>1, <1>2 DEF Placed
  <2>2. ASSUME NEW p \in Queues PROVE IsList(wait'[p])
    BY <1>1, <2>1 DEF Placed
  <2>. QED
    BY <1>1, <2>1, <2>2
<1>6. \A p \in Queues : \A a \in On(wait'[p]) : a \in On(wait[p]) /\ a # h
  BY <1>1, <1>5 DEF Placed
<1>7. \A p \in Queues : \A a \in On(wait[p]) : a \in On(wait'[p]) \/ a = h
  BY <1>5
<1>8. h # running /\ h \notin On(to_delete)
  BY <1>1 DEF Placed
<1>. QED
  BY <1>1, <1>4, <1>5, <1>6, <1>7, <1>8 DEF Placed

LEMMA PlacedDestroy ==
    ASSUME Placed, NEW q \in Queues, QueueDestroy(q)
    PROVE  Placed'
<1>1. /\ ready' = ready /\ running' = running /\ to_delete' = to_delete
      /\ wait' \in [Queues -> Seq(Addr)] /\ \A p \in Queues : IsList(wait'[p])
      /\ On(wait'[q]) = {} /\ \A p \in Queues : p # q => On(wait'[p]) = On(wait[p])
  BY OnEmpty DEF QueueDestroy, Placed
<1>2. /\ pc' \in [Addr -> Codes]
      /\ \A a \in Addr : pc'[a] = IF a \in On(wait[q]) THEN "free" ELSE pc[a]
  BY DEF QueueDestroy, Placed, Codes
<1>3. \A a \in Addr : pc'[a] = "dead" <=> a \in On(to_delete')
  BY <1>1, <1>2 DEF Placed
<1>4. \A a \in Addr : pc'[a] = "free" <=>
          /\ a # running' /\ a \notin On(ready') /\ a \notin On(to_delete')
          /\ \A p \in Queues : a \notin On(wait'[p])
  BY <1>1, <1>2 DEF Placed
<1>. QED
  BY <1>1, <1>2, <1>3, <1>4 DEF Placed

LEMMA PlacedStep ==
    ASSUME Placed, Step \/ UNCHANGED vars
    PROVE  Placed'
<1>1. CASE UNCHANGED vars \/ Stops \/ Masks \/ CreateNoStack \/ YieldSelf
  BY <1>1, PlacedStays
     DEF vars, Stops, Fault, Masks, CreateNoStack, YieldSelf, lists
<1>2. CASE Returns
  BY <1>2, PlacedReturns DEF Returns, Codes
<1>3. CASE Start
  <2>1. /\ ready' = ready /\ running' = running /\ to_delete' = to_delete
        /\ wait' = wait /\ pc[running] = "stub" /\ pc' = [pc EXCEPT ![running] = "user"]
    BY <1>3 DEF Start, lists
  <2>2. /\ pc' \in [Addr -> Codes]
        /\ \A a \in Addr : pc'[a] = IF a = running THEN "user" ELSE pc[a]
    BY <2>1 DEF Placed, Codes
  <2>. QED
    BY <2>1, <2>2 DEF Placed
<1>4. CASE ready # <<>> /\ ExitSwitch
  BY <1>4, PlacedExit
<1>5. ASSUME NEW a \in Addr, Create(a) PROVE Placed'
  BY <1>5, PlacedCreate
<1>6. ASSUME NEW a \in Addr, SetFlag(a) PROVE Placed'
  BY <1>6, PlacedStays DEF SetFlag, lists
<1>7. ASSUME NEW i \in 1 .. Len(ready), SwitchesFromReady(i) PROVE Placed'
  BY <1>7, PlacedFromReady
<1>8. ASSUME NEW q \in Queues, SwitchesFromWait(q) PROVE Placed'
  BY <1>8, PlacedFromWait
<1>9. ASSUME NEW q \in Queues, WakeupOne(q) PROVE Placed'
  BY <1>9, PlacedMovesAll, PlacedMovesOne DEF WakeupOne
<1>10. ASSUME NEW q \in Queues, WakeupAll(q) PROVE Placed'
  BY <1>10, PlacedMovesAll DEF WakeupAll
<1>11. ASSUME NEW q \in Queues, QueueDestroy(q) PROVE Placed'
  BY <1>11, PlacedDestroy
<1>. QED
  BY <1>1, <1>2, <1>3, <1>4, <1>5, <1>6, <1>7, <1>8, <1>9, <1>10, <1>11 DEF Step, Destroys

(***************************************************************************)
(* The types of the variables that Placed leaves out.                      *)
(***************************************************************************)
Fields ==
    /\ thread_id_array \in [Tids -> BOOLEAN]
    /\ size \in [Queues -> Nat]
    /\ tid \in [Addr -> Tids]
    /\ state \in [Addr -> {NEW_STATE, RECOVER_STATE}]
    /\ flag \in [Addr -> BOOLEAN]
    /\ sp \in [Addr -> BOOLEAN]
    /\ on \in [Addr -> BOOLEAN]
    /\ leaked \subseteq {"stack", "tid", "struct"}
    /\ status \in {"running", "exited", "null_deref", "corrupt"}

LEMMA TypesAre == Placed /\ Fields => TypeOK
  BY DEF Placed, Fields, TypeOK, IsList, Codes

LEMMA FieldsInit == Init => Fields
  BY MaxThreadsAssumption DEF Init, Fields, Tids, NEW_STATE

\* A flag of one thread, or one identifier, changes at a time.
LEMMA SetsOne ==
    ASSUME NEW S, NEW f \in [S -> BOOLEAN], NEW x, NEW b \in BOOLEAN
    PROVE  [f EXCEPT ![x] = b] \in [S -> BOOLEAN]
  BY Zenon

LEMMA FieldsStep ==
    ASSUME Placed, Fields, Step \/ UNCHANGED vars
    PROVE  Fields'
<1>1. running \in Addr
  BY DEF Placed
<1>2. CASE UNCHANGED vars \/ Stops
  BY <1>2 DEF vars, Stops, Fault, lists, fields, Fields
<1>3. CASE Masks
  <2>1. PICK e \in BOOLEAN : on' = [on EXCEPT ![running] = e]
    BY <1>3 DEF Masks
  <2>2. on' \in [Addr -> BOOLEAN]
    BY <2>1, SetsOne, Zenon DEF Fields
  <2>. QED
    BY <1>3, <2>2 DEF Masks, lists, fields, Fields
<1>4. CASE CreateNoStack
  <2>1. NextTid \in Tids
    BY <1>4, NextTidFree DEF CreateNoStack
  <2>2. /\ thread_id_array' \in [Tids -> BOOLEAN]
        /\ on' \in [Addr -> BOOLEAN]
    BY <1>4, SetsOne, Zenon DEF Fields, CreateNoStack
  <2>. QED
    BY <1>4, <2>2 DEF CreateNoStack, lists, fields, Fields
<1>5. CASE YieldSelf
  BY <1>5 DEF YieldSelf, lists, Fields, RECOVER_STATE
<1>6. CASE Returns
  BY <1>6 DEF Returns, ReapLeak, fields, Fields
<1>7. CASE Start
  <2>1. on' \in [Addr -> BOOLEAN]
    BY <1>7, SetsOne, Zenon DEF Fields, Start, Unmasked
  <2>. QED
    BY <1>7, <2>1 DEF Start, lists, fields, Fields
<1>8. CASE ready # <<>> /\ ExitSwitch
  <2>1. thread_id_array' \in [Tids -> BOOLEAN]
    BY <1>8, SetsOne, Zenon DEF Fields, ExitSwitch, Released
  <2>. QED
    BY <1>8, <2>1 DEF ExitSwitch, Fields, RECOVER_STATE
<1>9. ASSUME NEW a \in Addr, Create(a) PROVE Fields'
  <2>1. NextTid \in Tids
    BY <1>9, NextTidFree DEF Create
  <2>2. /\ thread_id_array' \in [Tids -> BOOLEAN]
        /\ flag' \in [Addr -> BOOLEAN] /\ sp' \in [Addr -> BOOLEAN]
        /\ on' \in [Addr -> BOOLEAN]
    BY <1>9, SetsOne, Zenon DEF Fields, Create
  <2>. QED
    BY <1>9, <2>1, <2>2 DEF Create, Fields, NEW_STATE
<1>10. ASSUME NEW a \in Addr, SetFlag(a) PROVE Fields'
  <2>1. flag' \in [Addr -> BOOLEAN]
    BY <1>10, SetsOne, Zenon DEF Fields, SetFlag
  <2>. QED
    BY <1>10, <2>1 DEF SetFlag, lists, Fields
<1>11. ASSUME NEW a \in Addr, SwitchTo(a), size' \in [Queues -> Nat] PROVE Fields'
  BY <1>11 DEF SwitchTo, Switched, ReapLeak, Fields, NEW_STATE, RECOVER_STATE
<1>12. ASSUME NEW i \in 1 .. Len(ready), SwitchesFromReady(i) PROVE Fields'
  <2>1. ready[i] \in Addr
    BY OnRemoveAt DEF Placed
  <2>. QED
    BY <1>11, <1>12, <2>1 DEF SwitchesFromReady, Fields
<1>13. ASSUME NEW q \in Queues, SwitchesFromWait(q) PROVE Fields'
  <2>1. Head(ready) \in Addr
    BY <1>13, OnTail DEF Placed, SwitchesFromWait
  <2>2. size' \in [Queues -> Nat]
    BY <1>13 DEF SwitchesFromWait, Fields
  <2>. QED
    BY <1>11, <1>13, <2>1, <2>2 DEF SwitchesFromWait
<1>14. ASSUME NEW q \in Queues, WakeupOne(q) \/ WakeupAll(q) \/ QueueDestroy(q)
       PROVE  Fields'
  <2>1. UNCHANGED <<thread_id_array, tid, state, flag, sp, on, status>>
    BY <1>14 DEF WakeupOne, WakeupAll, QueueDestroy, fields
  <2>2. size' = size \/ size' = [size EXCEPT ![q] = 0]
    BY <1>14 DEF WakeupOne, WakeupAll, QueueDestroy
  <2>3. leaked' = leaked \/ leaked' \subseteq leaked \cup {"stack", "tid"}
    BY <1>14 DEF WakeupOne, WakeupAll, QueueDestroy
  <2>4. size' \in [Queues -> Nat]
    BY <2>2 DEF Fields
  <2>5. leaked' \subseteq {"stack", "tid", "struct"}
    BY <2>3 DEF Fields
  <2>. QED
    BY <2>1, <2>4, <2>5 DEF Fields
<1>. QED
  BY <1>2, <1>3, <1>4, <1>5, <1>6, <1>7, <1>8, <1>9, <1>10, <1>12, <1>13, <1>14
     DEF Step, Destroys

(***************************************************************************)
(* The state fields.                                                       *)
(***************************************************************************)
States ==
    /\ \A a \in On(ready) : state[a] = NEW_STATE
    /\ \A q \in Queues : \A a \in On(wait[q]) : state[a] = NEW_STATE
    /\ pc[running] = "switched" => state[running] = RECOVER_STATE

LEMMA StatesInit == Init => States
  BY OnEmpty, MainAssumption DEF Init, States

\* Whatever joins a list is NEW, and the thread that runs next is RECOVER.
LEMMA StatesStep ==
    ASSUME Placed, Fields, States, Step \/ UNCHANGED vars
    PROVE  States'
<1>1. /\ state \in [Addr -> {NEW_STATE, RECOVER_STATE}] /\ running \in Addr
      /\ On(ready) \subseteq Addr /\ \A q \in Queues : On(wait[q]) \subseteq Addr
      /\ pc \in [Addr -> Codes]
  BY OnList DEF Placed, Fields, IsList
<1>2. CASE UNCHANGED vars \/ Stops \/ Masks \/ CreateNoStack
           \/ (\E a \in Addr : SetFlag(a))
  <2>1. UNCHANGED <<ready, running, wait, state, pc>>
    BY <1>2 DEF vars, Stops, Fault, Masks, CreateNoStack, SetFlag, lists, fields
  <2>. QED
    BY <2>1 DEF States, On
<1>3. CASE YieldSelf
  BY <1>1, <1>3 DEF YieldSelf, lists, States, Placed
<1>4. CASE Returns \/ Start
  BY <1>1, <1>4 DEF Returns, Start, Reaped, lists, fields, States, Placed, Codes
<1>5. CASE ready # <<>> /\ ExitSwitch
  <2>1. /\ On(ready') = On(ready) \ {Head(ready)} /\ Head(ready) \in On(ready)
        /\ wait' = wait
        /\ state' = [state EXCEPT ![Head(ready)] = RECOVER_STATE]
        /\ running' = Head(ready)
    BY <1>5, OnTail DEF ExitSwitch, Placed
  <2>2. \A q \in Queues : Head(ready) \notin On(wait[q])
    BY <2>1 DEF Placed
  <2>. QED
    BY <1>1, <2>1, <2>2 DEF States
<1>6. ASSUME NEW a \in Addr, Create(a) PROVE States'
  <2>1. /\ On(ready') = On(ready) \cup {a} /\ wait' = wait /\ running' = running
        /\ state' = [state EXCEPT ![a] = NEW_STATE]
        /\ pc' = [pc EXCEPT ![a] = "stub"] /\ pc[a] = "free"
    BY <1>6, OnAppend DEF Create, Insert, Placed
  <2>2. a # running
    BY <2>1 DEF Placed
  <2>. QED
    BY <1>1, <2>1, <2>2 DEF States
<1>7. ASSUME NEW n \in On(ready), On(ready') \subseteq (On(ready) \ {n}) \cup {running},
             \A q \in Queues : On(wait'[q]) \subseteq On(wait[q]) \cup {running},
             SwitchTo(n)
      PROVE  States'
  <2>1. /\ n \in Addr /\ n # running /\ running' = n
        /\ state'[n] = RECOVER_STATE
        /\ \A a \in Addr \ {n} : state'[a] = IF a = running THEN NEW_STATE ELSE state[a]
    BY <1>1, <1>7 DEF SwitchTo, Switched, Placed
  <2>2. \A q \in Queues : n \notin On(wait[q])
    BY <1>7 DEF Placed
  <2>. QED
    BY <1>1, <1>7, <2>1, <2>2 DEF States
<1>8. ASSUME NEW i \in 1 .. Len(ready), SwitchesFromReady(i) PROVE States'
  <2>1. /\ IsList(RemoveAt(ready, i)) /\ On(RemoveAt(ready, i)) = On(ready) \ {ready[i]}
        /\ ready[i] \in On(ready)
    BY OnRemoveAt DEF Placed
  <2>2. On(ready') = (On(ready) \ {ready[i]}) \cup {running}
    BY <1>1, <1>8, <2>1, OnAppend DEF SwitchesFromReady
  <2>. QED
    BY <1>7, <1>8, <2>1, <2>2 DEF SwitchesFromReady
<1>9. ASSUME NEW q \in Queues, SwitchesFromWait(q) PROVE States'
  <2>1. On(ready') = On(ready) \ {Head(ready)} /\ Head(ready) \in On(ready)
    BY <1>9, OnTail DEF SwitchesFromWait, Placed
  <2>2. On(Append(wait[q], running)) = On(wait[q]) \cup {running}
    BY <1>1, OnAppend DEF Placed
  <2>3. \A p \in Queues : wait'[p] = IF p = q THEN Append(wait[q], running) ELSE wait[p]
    BY <1>9 DEF SwitchesFromWait, Placed
  <2>4. \A p \in Queues : On(wait'[p]) \subseteq On(wait[p]) \cup {running}
    BY <2>2, <2>3
  <2>. QED
    BY <1>7, <1>9, <2>1, <2>4 DEF SwitchesFromWait
<1>10. ASSUME NEW q \in Queues, WakeupOne(q) \/ WakeupAll(q) \/ QueueDestroy(q)
       PROVE  States'
  <2>1. UNCHANGED <<running, state>> /\ pc'[running] \in {pc[running], "free"}
    BY <1>1, <1>10 DEF WakeupOne, WakeupAll, QueueDestroy, fields
  <2>2. /\ On(<<>>) = {} /\ On(ready \o wait[q]) = On(ready) \cup On(wait[q])
        /\ wait[q] # <<>> =>
              /\ Head(wait[q]) \in On(wait[q]) /\ Head(wait[q]) \in Addr
              /\ On(Tail(wait[q])) \subseteq On(wait[q])
    BY OnEmpty, OnConcat, OnTail DEF Placed
  <2>3. wait[q] # <<>> =>
           On(Append(ready, Head(wait[q]))) = On(ready) \cup {Head(wait[q])}
    BY <2>2, OnAppend DEF Placed
  <2>4. On(ready') \subseteq On(ready) \cup On(wait[q])
    BY <1>10, <2>2, <2>3 DEF WakeupOne, WakeupAll, QueueDestroy
  <2>5. /\ wait' \in {[wait EXCEPT ![q] = <<>>], [wait EXCEPT ![q] = Tail(wait[q])]}
        /\ wait[q] = <<>> => wait' = [wait EXCEPT ![q] = <<>>]
    BY <1>10 DEF WakeupOne, WakeupAll, QueueDestroy
  <2>6. \A p \in Queues : On(wait'[p]) \subseteq On(wait[p])
    <3>1. PICK w : /\ wait' = [wait EXCEPT ![q] = w]
                   /\ w \in {<<>>, Tail(wait[q])}
                   /\ wait[q] = <<>> => w = <<>>
      BY <2>5
    <3>2. On(w) \subseteq On(wait[q])
      BY <2>2, <3>1
    <3>3. \A p \in Queues : wait'[p] = IF p = q THEN w ELSE wait[p]
      BY <3>1 DEF Placed
    <3>. QED
      BY <3>2, <3>3
  <2>. QED
    BY <2>1, <2>4, <2>6 DEF States
<1>. QED
  BY <1>2, <1>3, <1>4, <1>5, <1>6, <1>8, <1>9, <1>10 DEF Step, Destroys

(***************************************************************************)
(* The identifiers.                                                        *)
(***************************************************************************)
Taken == {t \in Tids : thread_id_array[t]}

Ids ==
    /\ \A a, b \in Live : tid[a] = tid[b] => a = b
    /\ \A a \in Live : tid[a] \in Taken
    /\ "tid" \notin leaked => \A t \in Taken : \E a \in Live : tid[a] = t

LEMMA IdsInit == Init => Ids
<1>. SUFFICES ASSUME Init PROVE Ids
  OBVIOUS
<1>1. Live = {Main} /\ tid[Main] = 0
  BY MainAssumption DEF Init, Live
<1>2. \A t \in Tids : thread_id_array[t] <=> t = 0
  BY Zenon DEF Init
<1>3. 0 \in Tids
  BY MaxThreadsAssumption DEF Tids
<1>4. \A t : t \in Taken <=> t = 0
  BY <1>2, <1>3, Zenon DEF Taken
<1>. QED
  BY <1>1, <1>4 DEF Ids

LEMMA ExceptAt ==
    ASSUME NEW S, NEW R, NEW f \in [S -> R], NEW x \in S, NEW b
    PROVE  /\ [f EXCEPT ![x] = b][x] = b
           /\ \A u \in S : u # x => [f EXCEPT ![x] = b][u] = f[u]
  OBVIOUS

LEMMA TakenSet ==
    ASSUME thread_id_array \in [Tids -> BOOLEAN], NEW t \in Tids
    PROVE  /\ thread_id_array' = [thread_id_array EXCEPT ![t] = TRUE]
                 => Taken' = Taken \cup {t}
           /\ thread_id_array' = [thread_id_array EXCEPT ![t] = FALSE]
                 => Taken' = Taken \ {t}
<1>1. ASSUME NEW b \in BOOLEAN, thread_id_array' = [thread_id_array EXCEPT ![t] = b]
      PROVE  /\ thread_id_array'[t] = b
             /\ \A u \in Tids : u # t => thread_id_array'[u] = thread_id_array[u]
  BY <1>1, ExceptAt, Zenon
<1>2. \A u : u \in Taken <=> u \in Tids /\ thread_id_array[u]
  BY DEF Taken
<1>3. \A u : u \in Taken' <=> u \in Tids /\ thread_id_array'[u]
  BY DEF Taken, Tids
<1>4. ASSUME thread_id_array' = [thread_id_array EXCEPT ![t] = TRUE]
      PROVE  Taken' = Taken \cup {t}
  <2>1. \A u : u \in Taken' <=> u \in Taken \/ u = t
    BY <1>1, <1>2, <1>3, <1>4, Zenon
  <2>. QED
    BY <2>1
<1>5. ASSUME thread_id_array' = [thread_id_array EXCEPT ![t] = FALSE]
      PROVE  Taken' = Taken \ {t}
  <2>1. \A u : u \in Taken' <=> u \in Taken /\ u # t
    BY <1>1, <1>2, <1>3, <1>5, Zenon
  <2>. QED
    BY <2>1
<1>. QED
  BY <1>4, <1>5

LEMMA IdsStay ==
    ASSUME Ids, Live' = Live, UNCHANGED tid, Taken' = Taken, leaked \subseteq leaked'
    PROVE  Ids'
  BY DEF Ids

LEMMA LiveOf ==
    ASSUME Placed
    PROVE  /\ running \in Live /\ Live \subseteq Addr
           /\ \A c \in Codes \ {"free", "dead"} :
                 pc' = [Reaped(pc) EXCEPT ![running] = c] => Live' = Live
<1>1. running \in Live /\ Live \subseteq Addr
  BY DEF Placed, Live
<1>2. ASSUME NEW c \in Codes \ {"free", "dead"},
             pc' = [Reaped(pc) EXCEPT ![running] = c]
      PROVE  Live' = Live
  <2>1. \A a \in Addr : pc'[a] = IF a = running THEN c
                                 ELSE IF a \in On(to_delete) THEN "free" ELSE pc[a]
    BY <1>2 DEF Reaped
  <2>. QED
    BY <1>1, <2>1 DEF Placed, Live
<1>. QED
  BY <1>1, <1>2

LEMMA IdsStep ==
    ASSUME Placed, Fields, Ids, Step \/ UNCHANGED vars
    PROVE  Ids'
<1>1. running \in Live /\ running \in Addr /\ Live \subseteq Addr /\ pc \in [Addr -> Codes]
  BY LiveOf DEF Placed
<1>2. thread_id_array \in [Tids -> BOOLEAN] /\ tid \in [Addr -> Tids]
  BY DEF Fields
<1>3. CASE \/ UNCHANGED vars \/ Stops \/ Masks \/ YieldSelf
           \/ \E a \in Addr : SetFlag(a)
           \/ \E q \in Queues : WakeupOne(q) \/ WakeupAll(q)
  <2>1. UNCHANGED <<pc, tid, thread_id_array, leaked>>
    BY <1>3 DEF vars, Stops, Fault, Masks, YieldSelf, SetFlag, WakeupOne, WakeupAll,
                lists, fields
  <2>. QED
    BY <2>1, IdsStay DEF Live, Taken
<1>4. CASE Returns
  BY <1>4, LiveOf, IdsStay DEF Returns, fields, Codes, Taken
<1>5. CASE Start
  <2>1. Live' = Live
    BY <1>1, <1>5 DEF Start, Live
  <2>. QED
    BY <1>5, <2>1, IdsStay DEF Start, fields, Taken
<1>6. CASE (\E i \in 1 .. Len(ready) : SwitchesFromReady(i))
           \/ \E q \in Queues : SwitchesFromWait(q)
  <2>1. PICK n : SwitchTo(n)
    BY <1>6 DEF SwitchesFromReady, SwitchesFromWait
  <2>. QED
    BY <2>1, LiveOf, IdsStay DEF SwitchTo, Codes, Taken
<1>7. CASE CreateNoStack
  <2>1. NextTid \in Tids
    BY <1>7, NextTidFree DEF CreateNoStack
  <2>2. Taken' = Taken \cup {NextTid}
    BY <1>2, <1>7, <2>1, TakenSet DEF CreateNoStack
  <2>. QED
    BY <1>7, <2>2 DEF CreateNoStack, fields, Ids, Live
<1>8. CASE ready # <<>> /\ ExitSwitch
  <2>1. Taken' = Taken \ {tid[running]}
    BY <1>1, <1>2, <1>8, TakenSet DEF ExitSwitch, Released
  <2>2. Live' = Live \ {running}
    BY <1>1, <1>8 DEF ExitSwitch, Live
  <2>. QED
    BY <1>1, <1>8, <2>1, <2>2 DEF ExitSwitch, Ids
<1>9. ASSUME NEW a \in Addr, Create(a) PROVE Ids'
  <2>1. NextTid \in Tids /\ NextTid \notin Taken
    BY <1>9, NextTidFree DEF Create, FreeTids, Taken
  <2>2. Taken' = Taken \cup {NextTid}
    BY <1>2, <1>9, <2>1, TakenSet DEF Create
  <2>3. Live' = Live \cup {a} /\ a \notin Live
    BY <1>1, <1>9 DEF Create, Live
  <2>4. tid' = [tid EXCEPT ![a] = NextTid] /\ leaked' = leaked
    BY <1>9 DEF Create
  <2>5. tid'[a] = NextTid /\ \A b \in Live : tid'[b] = tid[b]
    BY <1>1, <1>2, <2>3, <2>4
  <2>. QED
    BY <2>1, <2>2, <2>3, <2>4, <2>5 DEF Ids
<1>10. ASSUME NEW q \in Queues, QueueDestroy(q) PROVE Ids'
  <2>1. UNCHANGED <<tid, thread_id_array>> /\ leaked \subseteq leaked'
    BY <1>10 DEF QueueDestroy, fields
  <2>2. Live' = Live \ On(wait[q])
    BY <1>1, <1>10 DEF QueueDestroy, Live
  <2>3. CASE wait[q] = <<>>
    BY <2>1, <2>2, <2>3, OnEmpty, IdsStay DEF Taken
  <2>4. CASE wait[q] # <<>>
    BY <1>10, <2>1, <2>2, <2>4 DEF QueueDestroy, Ids, Taken
  <2>. QED
    BY <2>3, <2>4
<1>. QED
  BY <1>3, <1>4, <1>5, <1>6, <1>7, <1>8, <1>9, <1>10 DEF Step, Destroys

(***************************************************************************)
(* The sizes of the wait queues.                                           *)
(***************************************************************************)
LEMMA CoversInit == Init => SizeCoversQueue
  BY DEF Init, SizeCoversQueue

LEMMA CoversStep ==
    ASSUME Placed, Fields, SizeCoversQueue, Step \/ UNCHANGED vars
    PROVE  SizeCoversQueue'
<1>1. /\ wait \in [Queues -> Seq(Addr)] /\ size \in [Queues -> Nat] /\ running \in Addr
      /\ \A q \in Queues : wait[q] \in Seq(Addr) /\ Len(wait[q]) \in Nat
      /\ \A q \in Queues : size[q] >= Len(wait[q])
  BY DEF Placed, Fields, SizeCoversQueue
<1>2. CASE UNCHANGED <<wait, size>>
  BY <1>2 DEF SizeCoversQueue
<1>3. ASSUME NEW q \in Queues, SwitchesFromWait(q) PROVE SizeCoversQueue'
  <2>1. Len(Append(wait[q], running)) = Len(wait[q]) + 1
    BY <1>1
  <2>2. \A p \in Queues : /\ p # q => wait'[p] = wait[p] /\ size'[p] = size[p]
                          /\ p = q => /\ wait'[p] = Append(wait[q], running)
                                      /\ size'[p] = size[q] + 1
    BY <1>1, <1>3 DEF SwitchesFromWait
  <2>. QED
    <3>1. ASSUME NEW p \in Queues PROVE size'[p] >= Len(wait'[p])
      <4>1. CASE p = q
        BY <1>1, <2>1, <2>2, <4>1
      <4>2. CASE p # q
        BY <1>1, <2>2, <4>2
      <4>. QED
        BY <4>1, <4>2
    <3>. QED
      BY <3>1 DEF SizeCoversQueue
<1>4. ASSUME NEW q \in Queues, WakeupOne(q) \/ WakeupAll(q) \/ QueueDestroy(q)
      PROVE  SizeCoversQueue'
  <2>1. wait[q] # <<>> => Len(Tail(wait[q])) = Len(wait[q]) - 1
    BY <1>1
  <2>2. Len(<<>>) = 0
    OBVIOUS
  <2>3. PICK w, n : /\ wait' = [wait EXCEPT ![q] = w] /\ size' = [size EXCEPT ![q] = n]
                    /\ \/ w = <<>> /\ n \in {0, size[q]}
                       \/ w = Tail(wait[q]) /\ wait[q] # <<>> /\ n = size[q]
    <3>1. size' = size => size' = [size EXCEPT ![q] = size[q]]
      BY <1>1
    <3>. QED
      BY <1>4, <3>1 DEF WakeupOne, WakeupAll, QueueDestroy
  <2>4. \A p \in Queues : /\ p # q => wait'[p] = wait[p] /\ size'[p] = size[p]
                          /\ p = q => wait'[p] = w /\ size'[p] = n
    BY <1>1, <2>3
  <2>5. n >= Len(w)
    BY <1>1, <2>1, <2>2, <2>3
  <2>. QED
    BY <1>1, <2>4, <2>5 DEF SizeCoversQueue
<1>5. \/ UNCHANGED <<wait, size>>
      \/ \E q \in Queues : \/ SwitchesFromWait(q)
                           \/ WakeupOne(q) \/ WakeupAll(q) \/ QueueDestroy(q)
  BY DEF Step, Destroys, vars, Stops, Fault, Masks, CreateNoStack, YieldSelf, Returns, Start,
         ExitSwitch, Create, SetFlag, SwitchesFromReady, lists
<1>. QED
  BY <1>2, <1>3, <1>4, <1>5

(***************************************************************************)
(* The inductive invariant.  No part of it depends on the status: a call   *)
(* that fails changes nothing else.                                        *)
(***************************************************************************)
IInv == Placed /\ Fields /\ States /\ Ids /\ SizeCoversQueue

LEMMA InvInit == Init => IInv
  BY PlacedInit, FieldsInit, StatesInit, IdsInit, CoversInit DEF IInv

LEMMA InvStep == IInv /\ (Step \/ UNCHANGED vars) => IInv'
  BY PlacedStep, FieldsStep, StatesStep, IdsStep, CoversStep DEF IInv

LEMMA InvNext == IInv /\ [Next]_vars => IInv'
<1>. SUFFICES ASSUME IInv, [Next]_vars PROVE IInv'
  OBVIOUS
<1>1. ready \in Seq(Addr)
  BY DEF IInv, Placed, IsList
<1>. QED
  BY <1>1, NextSteps, InvStep

LEMMA InvPlaces == IInv => OnePlace
<1>. SUFFICES ASSUME IInv PROVE OnePlace
  OBVIOUS
<1>1. Placed
  BY DEF IInv
<1>2. /\ IsInjective(ready) /\ IsInjective(to_delete)
      /\ \A q \in Queues : IsInjective(wait[q])
  BY <1>1 DEF Placed, IsList
<1>3. \A a : a \in Sleeping <=> \E q \in Queues : a \in On(wait[q])
  BY DEF Sleeping
<1>4. /\ running \notin On(ready) \cup On(to_delete) \cup Sleeping
      /\ On(ready) \cap On(to_delete) = {}
      /\ Sleeping \cap (On(ready) \cup On(to_delete)) = {}
      /\ \A p, q \in Queues : p # q => On(wait[p]) \cap On(wait[q]) = {}
  BY <1>1, <1>3 DEF Placed
<1>5. \A a \in Addr : pc[a] = "dead" <=> a \in On(to_delete)
  BY <1>1 DEF Placed
<1>6. \A a \in Addr : a \in Live <=> a \in {running} \cup On(ready) \cup Sleeping
  <2>1. \A a \in Addr : a \in Live <=> pc[a] # "free" /\ pc[a] # "dead"
    BY DEF Live
  <2>2. \A a \in Addr : pc[a] = "free" <=>
           /\ a # running /\ a \notin On(ready) /\ a \notin On(to_delete)
           /\ a \notin Sleeping
    BY <1>1, <1>3 DEF Placed
  <2>. QED
    BY <1>4, <1>5, <2>1, <2>2
<1>. QED
  BY <1>2, <1>4, <1>5, <1>6 DEF OnePlace

LEMMA InvIds == IInv => TidsAgree
<1>. SUFFICES ASSUME IInv PROVE TidsAgree
  OBVIOUS
<1>1. Ids
  BY DEF IInv
<1>2. \A t : t \in Taken <=> t \in Tids /\ thread_id_array[t]
  BY DEF Taken
<1>3. \A a \in Live : thread_id_array[tid[a]]
  BY <1>1, <1>2, Zenon DEF Ids
<1>4. "tid" \notin leaked =>
         \A t \in Tids : thread_id_array[t] => \E a \in Live : tid[a] = t
  BY <1>1, <1>2, Zenon DEF Ids
<1>5. \A a, b \in Live : tid[a] = tid[b] => a = b
  BY <1>1 DEF Ids
<1>. QED
  BY <1>3, <1>4, <1>5, Zenon DEF TidsAgree

LEMMA InvStates == IInv => StatesTellReturns
<1>1. \A a : a \in Sleeping <=> \E q \in Queues : a \in On(wait[q])
  BY DEF Sleeping
<1>. QED
  BY <1>1 DEF IInv, States, StatesTellReturns

\* Whatever calls a program makes and with whatever arguments, each variable
\* keeps its type: no list ever holds anything but threads.
THEOREM ThreadsTypes == Spec => []TypeOK
<1>1. IInv => TypeOK
  BY TypesAre DEF IInv
<1>. QED
  BY <1>1, InvInit, InvNext, PTL DEF Spec

\* A thread is in exactly one place, once: thread.c links it into the ready
\* list, a wait queue or the list of the dead with one next pointer.
THEOREM ThreadsOnePlace == Spec => []OnePlace
  BY InvPlaces, InvInit, InvNext, PTL DEF Spec

\* Identifiers, released at exit and reused while the old structure still
\* waits to be freed, never name two live threads.
THEOREM ThreadsIds == Spec => []TidsAgree
  BY InvIds, InvInit, InvNext, PTL DEF Spec

\* The state fields tell the first return of getcontext from the second.
THEOREM ThreadsStates == Spec => []StatesTellReturns
  BY InvStates, InvInit, InvNext, PTL DEF Spec

\* The size field never falls below the number of threads on the queue, so
\* thread_wakeup's test for 1 never moves more than one thread.
THEOREM ThreadsSizes == Spec => []SizeCoversQueue
<1>1. IInv => SizeCoversQueue
  BY DEF IInv
<1>. QED
  BY <1>1, InvInit, InvNext, PTL DEF Spec

(***************************************************************************)
(* Programs that pass only arguments a call can serve and do not destroy   *)
(* other threads.                                                          *)
(***************************************************************************)
Careful == Disciplined /\ "exit_any" \notin Calls /\ "exit_tid" \notin Calls

Unflagged == \A a \in Addr : ~flag[a]

LEMMA UnflaggedInit == Init => Unflagged
  BY Zenon DEF Init, Unflagged

\* A careful program names a thread that is on the ready list.
LEMMA NamedIsReady ==
    ASSUME IInv, NEW t, t # tid[running], Nameable(t)
    PROVE  Positions(t) # {}
<1>1. PICK a \in Addr : /\ tid[a] = t /\ pc[a] \notin {"free", "dead"}
                        /\ \A q \in Queues : a \notin On(wait[q])
  BY DEF Nameable
<1>2. a \in On(ready)
  BY <1>1 DEF IInv, Placed
<1>3. PICK i \in DOMAIN ready : ready[i] = a
  BY <1>2 DEF On
<1>. QED
  BY <1>1, <1>3 DEF Positions

LEMMA SwitchesKeepFlags ==
    ASSUME ~flag[running]
    PROVE  /\ \A i : YieldTo(i) => UNCHANGED <<flag, status>>
           /\ \A q : Sleep(q) => UNCHANGED <<flag, status>>
           /\ Resume => UNCHANGED <<flag, status>>
  BY DEF YieldTo, Sleep, SwitchTo, Resume, fields

LEMMA CarefulStep ==
    ASSUME Careful, IInv, Unflagged, [Next]_vars
    PROVE  Unflagged' /\ status' \in {status, "exited"}
<1>1. ~flag[running]
  BY Zenon DEF Unflagged, IInv, Placed
<1>2. CASE UNCHANGED flag /\ status' \in {status, "exited"}
  BY <1>2 DEF Unflagged
<1>3. ASSUME NEW a \in Addr, Create(a) PROVE Unflagged' /\ status' = status
  <2>1. flag' = [flag EXCEPT ![a] = FALSE] /\ status' = status
    BY <1>3 DEF Create
  <2>2. flag \in [Addr -> BOOLEAN]
    BY DEF IInv, Fields
  <2>3. \A b \in Addr : flag'[b] = IF b = a THEN FALSE ELSE flag[b]
    BY <2>1, <2>2, Zenon
  <2>. QED
    BY <2>1, <2>3, Zenon DEF Unflagged
<1>4. ASSUME NEW t, YieldTid(t) PROVE UNCHANGED <<flag, status>>
  BY <1>1, <1>4, NamedIsReady, SwitchesKeepFlags DEF YieldTid, Careful
<1>5. CASE Return
  BY <1>5, <1>2 DEF Return, ExitSwitch, Fault, fields
<1>6. CASE CreateFails \/ CreateNoStack \/ YieldSelf \/ ExitSelf
           \/ (\E e \in BOOLEAN : InterruptsSet(e)) \/ Start
           \/ \E q \in Queues : WakeupOne(q) \/ WakeupAll(q) \/ QueueDestroy(q)
  <2>1. UNCHANGED <<flag, status>>
    BY <1>6 DEF CreateFails, CreateNoStack, YieldSelf, ExitSelf, InterruptsSet, Start,
               ReturnMasked, ExitSwitch, WakeupOne, WakeupAll, QueueDestroy, fields
  <2>. QED
    BY <1>2, <2>1
<1>7. CASE YieldAny \/ Interrupt \/ Resume \/ \E q \in Queues : Sleep(q)
  <2>1. UNCHANGED <<flag, status>>
    BY <1>1, <1>7, SwitchesKeepFlags DEF YieldAny, Interrupt
  <2>. QED
    BY <1>2, <2>1
<1>8. CASE UNCHANGED vars
  BY <1>2, <1>8 DEF vars, fields
<1>9. ~ExitAny /\ \A t : ~ExitTid(t)
  BY DEF Careful, ExitAny, ExitTid, MayCall
<1>. QED
  BY <1>2, <1>3, <1>4, <1>5, <1>6, <1>7, <1>8, <1>9 DEF Next, Call

\* A program that passes only arguments a call can serve and destroys no other
\* thread never makes the package dereference NULL or run on a freed stack.
THEOREM ThreadsNoFault ==
    ASSUME Careful
    PROVE  Spec => []NoFault
<1>1. Init => NoFault
  BY DEF Init, NoFault
<1>2. IInv /\ Unflagged /\ NoFault /\ [Next]_vars => Unflagged' /\ NoFault'
  BY CarefulStep DEF NoFault
<1>. QED
  BY <1>1, <1>2, UnflaggedInit, InvInit, InvNext, PTL DEF Spec

(***************************************************************************)
(* The interrupt mask.                                                     *)
(***************************************************************************)
\* The program leaves the mask alone, and memory does not run out.
LeavesMask == Careful /\ "create_nomem" \notin Calls /\ "interrupts_set" \notin Calls

Suspended == {"free", "dead", "stub"}
Entered(a) == pc[a] \notin Suspended
Restored == \A a \in Addr : Entered(a) => on[a]

LEMMA RestoredInit == Init => Restored
  BY Zenon DEF Init, Restored

LEMMA RestoredStays ==
    ASSUME Restored, UNCHANGED on, \A a \in Addr : Entered(a)' => Entered(a)
    PROVE  Restored'
  BY Zenon DEF Restored

\* A switch is made from the code of a thread, or from a call it made.
LEMMA SwitchesKeepEntered ==
    ASSUME Placed, Entered(running)
    PROVE  /\ \A i : YieldTo(i) => UNCHANGED on /\ \A a \in Addr : Entered(a)' => Entered(a)
           /\ \A q : Sleep(q) => UNCHANGED on /\ \A a \in Addr : Entered(a)' => Entered(a)
           /\ Resume => UNCHANGED on /\ \A a \in Addr : Entered(a)' => Entered(a)
           /\ ExitSwitch => UNCHANGED on /\ \A a \in Addr : Entered(a)' => Entered(a)
<1>1. pc \in [Addr -> Codes] /\ running \in Addr
  BY DEF Placed
<1>2. ASSUME NEW c, pc' = [Reaped(pc) EXCEPT ![running] = c]
      PROVE  \A a \in Addr : Entered(a)' => Entered(a)
  BY <1>1, <1>2 DEF Reaped, Entered, Suspended
<1>3. UNCHANGED pc => \A a \in Addr : Entered(a)' => Entered(a)
  BY DEF Entered
<1>4. ASSUME ExitSwitch PROVE UNCHANGED on /\ \A a \in Addr : Entered(a)' => Entered(a)
  BY <1>1, <1>4 DEF ExitSwitch, Entered, Suspended
<1>5. ASSUME NEW n, SwitchTo(n)
      PROVE  UNCHANGED on /\ \A a \in Addr : Entered(a)' => Entered(a)
  BY <1>2, <1>5 DEF SwitchTo
<1>6. ASSUME NEW f, Fault(f)
      PROVE  UNCHANGED on /\ \A a \in Addr : Entered(a)' => Entered(a)
  BY <1>3, <1>6 DEF Fault
<1>7. ASSUME Resume PROVE UNCHANGED on /\ \A a \in Addr : Entered(a)' => Entered(a)
  BY <1>2, <1>4, <1>7 DEF Resume
<1>. QED
  BY <1>4, <1>5, <1>6, <1>7 DEF YieldTo, Sleep

LEMMA RestoredStep ==
    ASSUME LeavesMask, IInv, Restored, [Next]_vars
    PROVE  Restored'
<1>1. Placed /\ pc \in [Addr -> Codes] /\ on \in [Addr -> BOOLEAN] /\ running \in Addr
  BY DEF IInv, Placed, Fields
<1>2. InUser => Entered(running)
  BY DEF InUser, Entered, Suspended
<1>3. CASE UNCHANGED <<on, pc>>
  BY <1>3, RestoredStays DEF Entered
<1>4. ASSUME NEW a \in Addr, Create(a) PROVE Restored'
  <2>1. /\ on' = [on EXCEPT ![a] = FALSE] /\ pc' = [pc EXCEPT ![a] = "stub"]
    BY <1>4 DEF Create
  <2>2. \A b \in Addr : b # a => on'[b] = on[b]
    BY <1>1, <2>1
  <2>3. \A b \in Addr : Entered(b)' => b # a /\ Entered(b)
    BY <1>1, <2>1 DEF Entered, Suspended
  <2>. QED
    BY <2>2, <2>3, Zenon DEF Restored
<1>5. CASE Start
  <2>1. /\ on' = [on EXCEPT ![running] = TRUE] /\ pc' = [pc EXCEPT ![running] = "user"]
    BY <1>5 DEF Start, Unmasked
  <2>2. \A b \in Addr : on'[b] = IF b = running THEN TRUE ELSE on[b]
    BY <1>1, <2>1, Zenon
  <2>3. \A b \in Addr : b # running /\ Entered(b)' => Entered(b)
    BY <1>1, <2>1 DEF Entered
  <2>. QED
    BY <2>2, <2>3, Zenon DEF Restored
<1>6. CASE YieldAny \/ Interrupt \/ (\E t \in Names : YieldTid(t))
           \/ \E q \in Queues : MayCall("sleep") /\ Sleep(q)
  <2>1. InUser
    BY <1>6 DEF YieldAny, Interrupt, YieldTid, MayCall
  <2>2. (\E i : YieldTo(i)) \/ (\E q : Sleep(q)) \/ UNCHANGED <<on, pc>>
    BY <1>6 DEF YieldAny, Interrupt, YieldTid, Fault
  <2>. QED
    BY <1>1, <1>2, <1>3, <2>1, <2>2, SwitchesKeepEntered, RestoredStays
<1>7. CASE ExitSelf \/ Return
  <2>1. InUser /\ (ExitSwitch \/ UNCHANGED <<on, pc>>)
    BY <1>7 DEF ExitSelf, Return, MayCall, Fault, LeavesMask, Careful
  <2>. QED
    BY <1>1, <1>2, <1>3, <2>1, SwitchesKeepEntered, RestoredStays
<1>8. CASE Resume
  <2>1. Entered(running)
    BY <1>8 DEF Resume, Entered, Suspended
  <2>. QED
    BY <1>1, <1>8, <2>1, SwitchesKeepEntered, RestoredStays
<1>9. CASE YieldSelf \/ \E q \in Queues : WakeupOne(q) \/ WakeupAll(q)
  BY <1>3, <1>9 DEF YieldSelf, WakeupOne, WakeupAll
<1>10. ASSUME NEW q \in Queues, QueueDestroy(q) PROVE Restored'
  <2>1. UNCHANGED on /\ \A a \in Addr : Entered(a)' => Entered(a)
    BY <1>1, <1>10 DEF QueueDestroy, Entered, Suspended
  <2>. QED
    BY <2>1, RestoredStays
<1>11. /\ ~CreateFails /\ ~CreateNoStack /\ ~ExitAny /\ \A t : ~ExitTid(t)
       /\ \A e : ~InterruptsSet(e)
  BY DEF LeavesMask, Careful, CreateFails, CreateNoStack, ExitAny, ExitTid,
         InterruptsSet, MayCall
<1>12. CASE UNCHANGED vars
  BY <1>3, <1>12 DEF vars
<1>. QED
  BY <1>4, <1>5, <1>6, <1>7, <1>8, <1>9, <1>10, <1>11, <1>12 DEF Next, Call

\* No call leaves interrupts masked in the code of the thread that made it,
\* unless memory or identifiers run out or a call is refused, and a new
\* thread's code starts with interrupts unmasked.
THEOREM ThreadsRestore ==
    ASSUME LeavesMask
    PROVE  Spec => []InterruptsRestored
<1>1. Restored => InterruptsRestored
  BY Zenon DEF Restored, InterruptsRestored, Live, Entered, Suspended
<1>. QED
  BY <1>1, RestoredInit, RestoredStep, InvInit, InvNext, PTL DEF Spec

(***************************************************************************)
(* The life of a thread.                                                   *)
(***************************************************************************)
Asleep(a) == \E q \in Queues : a \in On(wait[q])

ModeTells(a) ==
    /\ Mode[a] \in Lifecycle!Modes
    /\ Mode[a] = "running" <=> a = running
    /\ Mode[a] = "ready" <=> a \in On(ready)
    /\ Mode[a] = "dead" <=> a \in On(to_delete)
    /\ Mode[a] = "none" <=> pc[a] = "free"
    /\ Mode[a] = "sleeping" <=> Asleep(a)

LEMMA ModeIs == Placed => \A a \in Addr : ModeTells(a)
<1>. SUFFICES ASSUME Placed, NEW a \in Addr PROVE ModeTells(a)
  OBVIOUS
<1>1. Mode[a] = CASE a = running       -> "running"
                  [] a \in On(ready)   -> "ready"
                  [] pc[a] = "dead"    -> "dead"
                  [] pc[a] = "free"    -> "none"
                  [] OTHER             -> "sleeping"
  BY DEF Mode
<1>2. /\ a \in On(ready) => a # running /\ a \notin On(to_delete)
      /\ a \in On(to_delete) => a # running
      /\ pc[a] = "dead" <=> a \in On(to_delete)
      /\ pc[a] = "free" <=>
            a # running /\ a \notin On(ready) /\ a \notin On(to_delete) /\ ~Asleep(a)
      /\ Asleep(a) => a # running /\ a \notin On(ready) /\ a \notin On(to_delete)
  BY DEF Placed, Asleep
<1>3. CASE a = running
  BY <1>1, <1>2, <1>3 DEF ModeTells, Lifecycle!Modes
<1>4. CASE a # running /\ a \in On(ready)
  BY <1>1, <1>2, <1>4 DEF ModeTells, Lifecycle!Modes
<1>5. CASE a # running /\ a \notin On(ready) /\ pc[a] = "dead"
  BY <1>1, <1>2, <1>5 DEF ModeTells, Lifecycle!Modes
<1>6. CASE pc[a] = "free"
  BY <1>1, <1>2, <1>6 DEF ModeTells, Lifecycle!Modes
<1>7. CASE a # running /\ a \notin On(ready) /\ pc[a] # "dead" /\ pc[a] # "free"
  BY <1>1, <1>2, <1>7 DEF ModeTells, Lifecycle!Modes
<1>. QED
  BY <1>3, <1>4, <1>5, <1>6, <1>7

\* Where a thread may be after a step, and where it must have been before.
Orderly ==
    /\ running' # running => running' \in On(ready)
    /\ \A a \in Addr :
          /\ a \in On(ready') => \/ a \in On(ready) \/ a = running
                                 \/ Asleep(a) \/ pc[a] = "free"
          /\ Asleep(a)' => Asleep(a) \/ a = running
          /\ a \in On(to_delete') => a \in On(to_delete) \/ a = running
          /\ pc'[a] = "free" => pc[a] = "free" \/ a \in On(to_delete)

LEMMA OrderlyMoves ==
    ASSUME Placed, Placed', Orderly
    PROVE  Lifecycle!Next
<1>1. \A a \in Addr : ModeTells(a)
  BY ModeIs
<1>2. (\A a \in Addr : ModeTells(a))'
  BY ModeIs, PTL
<1>3. Mode' \in [Addr -> Lifecycle!Modes]
  <2>1. \A a \in Addr : Mode'[a] \in Lifecycle!Modes
    BY <1>2 DEF ModeTells
  <2>2. Mode' = [a \in Addr |-> Mode'[a]]
    BY DEF Mode
  <2>. QED
    BY <2>1, <2>2
<1>4. (Lifecycle!OneRuns(Mode))'
  <2>1. running' \in Addr /\ \A b \in Addr : Mode'[b] = "running" <=> running' = b
    BY <1>2 DEF ModeTells, Placed
  <2>. QED
    BY <2>1 DEF Lifecycle!OneRuns
<1>5. ASSUME NEW a \in Addr
      PROVE  Mode'[a] = Mode[a] \/ <<Mode[a], Mode'[a]>> \in Lifecycle!Moves
  <2>1. /\ Mode'[a] = "running" => Mode[a] \in {"running", "ready"}
        /\ Mode'[a] = "ready" => Mode[a] \in {"ready", "running", "sleeping", "none"}
        /\ Mode'[a] = "sleeping" => Mode[a] \in {"sleeping", "running"}
        /\ Mode'[a] = "dead" => Mode[a] \in {"dead", "running"}
        /\ Mode'[a] = "none" => Mode[a] \in {"none", "dead"}
    BY <1>1, <1>2 DEF Orderly, ModeTells
  <2>2. Mode'[a] \in {"none", "ready", "running", "sleeping", "dead"}
    BY <1>2 DEF ModeTells, Lifecycle!Modes
  <2>. QED
    BY <2>1, <2>2 DEF Lifecycle!Moves
<1>. QED
  BY <1>3, <1>4, <1>5 DEF Lifecycle!Next

\* Whatever leaves the lists alone, but for freeing the dead.
LEMMA OrderlyStays ==
    ASSUME UNCHANGED <<ready, running, wait>>, to_delete' \in {to_delete, <<>>},
           \A a \in Addr : pc'[a] = "free" => pc[a] = "free" \/ a \in On(to_delete)
    PROVE  Orderly
  BY OnEmpty DEF Orderly, Asleep

LEMMA ReapedFree ==
    ASSUME Placed, NEW c, c # "free", pc' = [Reaped(pc) EXCEPT ![running] = c]
    PROVE  \A a \in Addr : pc'[a] = "free" => pc[a] = "free" \/ a \in On(to_delete)
  BY DEF Reaped, Placed

LEMMA OrderlyWakeup ==
    ASSUME Placed, NEW q \in Queues, WakeupOne(q) \/ WakeupAll(q)
    PROVE  Orderly
<1>1. /\ IsList(ready) /\ IsList(wait[q]) /\ wait[q] # <<>>
      /\ UNCHANGED <<running, to_delete, pc>>
  BY DEF Placed, WakeupOne, WakeupAll
<1>2. /\ On(<<>>) = {} /\ On(ready \o wait[q]) = On(ready) \cup On(wait[q])
      /\ Head(wait[q]) \in On(wait[q]) /\ Head(wait[q]) \in Addr
      /\ On(Tail(wait[q])) \subseteq On(wait[q])
  BY <1>1, OnEmpty, OnConcat, OnTail
<1>3. On(Append(ready, Head(wait[q]))) = On(ready) \cup {Head(wait[q])}
  BY <1>1, <1>2, OnAppend
<1>4. \A a \in On(ready') : a \in On(ready) \/ Asleep(a)
  BY <1>2, <1>3 DEF WakeupOne, WakeupAll, Asleep
<1>5. PICK w : wait' = [wait EXCEPT ![q] = w] /\ On(w) \subseteq On(wait[q])
  BY <1>2 DEF WakeupOne, WakeupAll
<1>6. \A p \in Queues : wait'[p] = IF p = q THEN w ELSE wait[p]
  BY <1>5 DEF Placed
<1>7. \A a : Asleep(a)' => Asleep(a)
  BY <1>5, <1>6 DEF Asleep
<1>. QED
  BY <1>1, <1>4, <1>7 DEF Orderly

LEMMA OrderlyFromReady ==
    ASSUME Placed, NEW i \in 1 .. Len(ready), SwitchesFromReady(i)
    PROVE  Orderly
<1>1. /\ IsList(RemoveAt(ready, i)) /\ On(RemoveAt(ready, i)) = On(ready) \ {ready[i]}
      /\ ready[i] \in On(ready)
  BY OnRemoveAt DEF Placed
<1>2. On(ready') = (On(ready) \ {ready[i]}) \cup {running}
  BY <1>1, OnAppend DEF SwitchesFromReady, Placed
<1>3. \A a \in Addr : pc'[a] = "free" => pc[a] = "free" \/ a \in On(to_delete)
  BY ReapedFree DEF SwitchesFromReady, SwitchTo
<1>4. \A a : Asleep(a)' => Asleep(a)
  BY DEF SwitchesFromReady, Asleep
<1>. QED
  BY <1>1, <1>2, <1>3, <1>4, OnEmpty DEF SwitchesFromReady, SwitchTo, Orderly

LEMMA OrderlyFromWait ==
    ASSUME Placed, NEW q \in Queues, SwitchesFromWait(q)
    PROVE  Orderly
<1>1. On(ready') = On(ready) \ {Head(ready)} /\ Head(ready) \in On(ready)
  BY OnTail DEF SwitchesFromWait, Placed
<1>2. On(Append(wait[q], running)) = On(wait[q]) \cup {running}
  BY OnAppend DEF Placed
<1>3. \A p \in Queues : wait'[p] = IF p = q THEN Append(wait[q], running) ELSE wait[p]
  BY DEF SwitchesFromWait, Placed
<1>4. \A a : Asleep(a)' => Asleep(a) \/ a = running
  BY <1>2, <1>3 DEF Asleep
<1>5. \A a \in Addr : pc'[a] = "free" => pc[a] = "free" \/ a \in On(to_delete)
  BY ReapedFree DEF SwitchesFromWait, SwitchTo
<1>. QED
  BY <1>1, <1>4, <1>5, OnEmpty DEF SwitchesFromWait, SwitchTo, Orderly

LEMMA OrderlyStep ==
    ASSUME Disciplined, Placed, Step \/ UNCHANGED vars
    PROVE  Orderly
<1>1. pc \in [Addr -> Codes] /\ running \in Addr
  BY DEF Placed
<1>2. CASE \/ UNCHANGED vars \/ Stops \/ Masks \/ CreateNoStack \/ YieldSelf
           \/ \E a \in Addr : SetFlag(a)
  BY <1>2, OrderlyStays
     DEF vars, Stops, Fault, Masks, CreateNoStack, YieldSelf, SetFlag, lists
<1>3. CASE Returns
  BY <1>3, ReapedFree, OrderlyStays DEF Returns
<1>4. CASE Start
  BY <1>1, <1>4, OrderlyStays DEF Start, lists
<1>5. CASE ready # <<>> /\ ExitSwitch
  <2>1. On(ready') = On(ready) \ {Head(ready)} /\ Head(ready) \in On(ready)
    BY <1>5, OnTail DEF ExitSwitch, Placed
  <2>2. On(to_delete') = On(to_delete) \cup {running}
    BY <1>1, <1>5, OnAppend DEF ExitSwitch, Placed
  <2>. QED
    BY <1>1, <1>5, <2>1, <2>2 DEF ExitSwitch, Orderly, Asleep
<1>6. ASSUME NEW a \in Addr, Create(a) PROVE Orderly
  <2>1. On(ready') = On(ready) \cup {a} /\ pc[a] = "free"
    BY <1>6, OnAppend DEF Create, Insert, Placed
  <2>. QED
    BY <1>1, <1>6, <2>1 DEF Create, Orderly, Asleep
<1>7. ASSUME NEW q \in Queues, Destroys(q) PROVE Orderly
  <2>1. /\ wait[q] = <<>> /\ wait' = [wait EXCEPT ![q] = <<>>]
        /\ UNCHANGED <<ready, running, to_delete>>
        /\ pc' = [a \in Addr |-> IF a \in On(wait[q]) THEN "free" ELSE pc[a]]
    BY <1>7 DEF Destroys, QueueDestroy
  <2>2. wait' = wait
    BY <2>1 DEF Placed
  <2>. QED
    BY <2>1, <2>2, OnEmpty, OrderlyStays
<1>. QED
  BY <1>2, <1>3, <1>4, <1>5, <1>6, <1>7, OrderlyWakeup, OrderlyFromReady,
     OrderlyFromWait DEF Step

LEMMA LifecycleInit == Init => Lifecycle!Init
<1>. SUFFICES ASSUME Init PROVE Lifecycle!Init
  OBVIOUS
<1>1. \A a \in Addr : Mode[a] = IF a = Main THEN "running" ELSE "none"
  BY OnEmpty DEF Init, Mode
<1>2. Mode = [a \in Addr |-> Mode[a]]
  BY DEF Mode
<1>3. Mode \in [Addr -> {"none", "running"}]
  BY <1>1, <1>2
<1>. QED
  BY <1>1, <1>3, MainAssumption DEF Lifecycle!Init, Lifecycle!OneRuns

LEMMA LifecycleStep ==
    ASSUME Disciplined, Placed, Placed', Step \/ UNCHANGED vars
    PROVE  Lifecycle!Next
  BY OrderlyStep, OrderlyMoves

\* Seen from outside, the lists of thread.c are the life of a thread: one
\* runs, one runs only after it was ready, sleeps or dies only while it runs,
\* and its memory is reclaimed only once it is dead.
THEOREM ThreadsImplementLifecycle ==
    ASSUME Disciplined
    PROVE  Spec => ImplementsLifecycle
<1>1. IInv /\ IInv' /\ [Next]_vars => Lifecycle!Next
  <2>. SUFFICES ASSUME IInv, IInv', [Next]_vars PROVE Lifecycle!Next
    OBVIOUS
  <2>1. Placed /\ Placed' /\ ready \in Seq(Addr)
    BY DEF IInv, Placed, IsList
  <2>. QED
    BY <2>1, NextSteps, LifecycleStep
<1>2. Spec => [][Lifecycle!Next]_Mode
  BY <1>1, InvInit, InvNext, PTL DEF Spec
<1>. QED
  BY <1>2, LifecycleInit, PTL DEF Spec, ImplementsLifecycle, Lifecycle!Spec
=============================================================================
