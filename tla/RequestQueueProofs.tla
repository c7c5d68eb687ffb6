------------------------- MODULE RequestQueueProofs -------------------------
(***************************************************************************)
(* Proofs about RequestQueue, for every number of workers, connections and *)
(* ring slots: its invariants, and that it implements BoundedFIFO.         *)
(***************************************************************************)
EXTENDS RequestQueue, SequenceTheorems, TLAPS

----------------------------------------------------------------------------
(* Ring arithmetic.                                                        *)

\* The remainder, modulo the ring size, of a number below twice that size.
LEMMA ModRing ==
    /\ N \in Nat /\ N > 0 /\ Slots = 0 .. (N - 1) /\ MaxRequests = N - 1
    /\ \A a \in 0 .. (2 * N - 1) : a % N = IF a < N THEN a ELSE a - N
  <1>1. ASSUME NEW a \in Nat, NEW n \in Nat, a < n PROVE a % n = a
    BY <1>1
  <1>2. ASSUME NEW a \in Nat, NEW n \in Nat, n <= a, a < 2 * n
        PROVE  a % n = a - n
    BY <1>2
  <1>3. N \in Nat /\ N > 0 /\ Slots = 0 .. (N - 1) /\ MaxRequests = N - 1
    BY MaxRequestsAssumption DEF N, Slots
  <1>4. ASSUME NEW a \in 0 .. (2 * N - 1)
        PROVE  a % N = IF a < N THEN a ELSE a - N
    <2>1. CASE a < N
      BY <2>1, <1>1, <1>3
    <2>2. CASE N <= a
      <3>1. a \in Nat /\ a < 2 * N
        BY <1>3
      <3> QED BY <2>2, <3>1, <1>2, <1>3
    <2> QED BY <2>1, <2>2, <1>3
  <1> QED BY <1>3, <1>4

\* The distance from slot o to slot i, going round the ring.
LEMMA Distance ==
    ASSUME NEW i \in Slots, NEW o \in Slots
    PROVE  /\ (i - o + N) % N \in Slots
           /\ (i - o + N) % N = IF i >= o THEN i - o ELSE i - o + N
  <1>1. i - o + N \in 0 .. (2 * N - 1)
    BY ModRing
  <1>2. (i - o + N) % N = IF i - o + N < N THEN i - o + N ELSE i - o + N - N
    BY <1>1, ModRing
  <1> QED BY <1>2, ModRing

\* The successor of a slot.
LEMMA NextSlotValue ==
    ASSUME NEW s \in Slots
    PROVE  /\ NextSlot(s) \in Slots
           /\ NextSlot(s) = IF s = MaxRequests THEN 0 ELSE s + 1
  <1>1. s + 1 \in 0 .. (2 * N - 1)
    BY ModRing
  <1>2. (s + 1) % N = IF s + 1 < N THEN s + 1 ELSE s + 1 - N
    BY <1>1, ModRing
  <1> QED BY <1>2, ModRing DEF NextSlot

\* The slot of the i-th request behind slot o.
LEMMA SlotValue ==
    ASSUME NEW o \in Slots, NEW i \in 1 .. N
    PROVE  /\ (o + i - 1) % N \in Slots
           /\ (o + i - 1) % N = IF o + i - 1 < N THEN o + i - 1 ELSE o + i - 1 - N
  <1>1. o + i - 1 \in 0 .. (2 * N - 1)
    BY ModRing
  <1>2. (o + i - 1) % N = IF o + i - 1 < N THEN o + i - 1 ELSE o + i - 1 - N
    BY <1>1, ModRing
  <1> QED BY <1>2, ModRing

\* What the n slots from o on hold.
Window(b, o, n) == [i \in 1 .. n |-> b[(o + i - 1) % N]]

LEMMA ContentsWindow == Contents = Window(buf, out, Count)
  BY DEF Contents, Window

\* The buffer once c is written to slot i.
Written(b, i, c) == [b EXCEPT ![i] = c]

LEMMA WindowElement ==
    ASSUME NEW o, NEW n, NEW b
    PROVE  /\ DOMAIN Window(b, o, n) = 1 .. n
           /\ \A i \in 1 .. n : Window(b, o, n)[i] = b[(o + i - 1) % N]
  BY DEF Window

\* It is a sequence of n values.
LEMMA WindowSeq ==
    ASSUME NEW o \in Slots, NEW n \in Slots, NEW V,
           NEW b, \A k \in Slots : b[k] \in V
    PROVE  /\ Window(b, o, n) \in Seq(V)
           /\ Len(Window(b, o, n)) = n
  <1> DEFINE s == Window(b, o, n)
  <1>1. n \in Nat
    BY ModRing
  <1>2. \A i \in 1 .. n : b[(o + i - 1) % N] \in V
    BY SlotValue, ModRing
  <1>3. s \in [1 .. n -> V]
    BY <1>2 DEF Window
  <1> HIDE DEF s
  <1>4. s \in Seq(V)
    BY <1>1, <1>3
  <1>5. Len(s) = n
    BY <1>1, <1>3, <1>4
  <1> QED BY <1>4, <1>5 DEF s

\* Writing the slot at in and advancing in, when the ring is not full, makes
\* the distance one more and appends the value.
LEMMA RingAppend ==
    ASSUME NEW i \in Slots, NEW o \in Slots, NEW b, DOMAIN b = Slots, NEW c,
           NEW n, n = (i - o + N) % N, n # MaxRequests
    PROVE  /\ (NextSlot(i) - o + N) % N = n + 1
           /\ Window(Written(b, i, c), o, n + 1) = Append(Window(b, o, n), c)
  <1> DEFINE b2 == Written(b, i, c)
             s == Window(b, o, n)
             t == Window(b2, o, n + 1)
             V == {b[k] : k \in Slots} \cup {c}
  <1>1. n \in Slots /\ n = IF i >= o THEN i - o ELSE i - o + N
    BY Distance
  <1>2. n + 1 \in Slots
    BY <1>1, ModRing
  <1>3. NextSlot(i) \in Slots /\ NextSlot(i) = IF i = MaxRequests THEN 0 ELSE i + 1
    BY NextSlotValue
  <1>4. (NextSlot(i) - o + N) % N =
            IF NextSlot(i) >= o THEN NextSlot(i) - o ELSE NextSlot(i) - o + N
    BY <1>3, Distance
  <1>5. (NextSlot(i) - o + N) % N = n + 1
    BY <1>1, <1>3, <1>4, ModRing
  <1>6. \A k \in Slots : b2[k] = IF k = i THEN c ELSE b[k]
    BY DEF Written
  <1> HIDE DEF b2
  <1>V. (\A k \in Slots : b[k] \in V /\ b2[k] \in V) /\ c \in V
    BY <1>6
  <1> HIDE DEF V
  <1>7. s \in Seq(V) /\ Len(s) = n /\ \A k \in 1 .. n : s[k] = b[(o + k - 1) % N]
    <2>1. s \in Seq(V) /\ Len(s) = n
      BY <1>1, <1>V, WindowSeq
    <2> QED BY <2>1, WindowElement
  <1>8. t \in Seq(V) /\ Len(t) = n + 1
        /\ \A k \in 1 .. (n + 1) : t[k] = b2[(o + k - 1) % N]
    <2>1. t \in Seq(V) /\ Len(t) = n + 1
      BY <1>2, <1>V, WindowSeq
    <2> QED BY <2>1, WindowElement
  <1> HIDE DEF s, t
  <1>9. ASSUME NEW k \in 1 .. n PROVE t[k] = s[k]
    <2>1. (o + k - 1) % N \in Slots
          /\ (o + k - 1) % N = IF o + k - 1 < N THEN o + k - 1 ELSE o + k - 1 - N
      BY <1>1, SlotValue, ModRing
    <2>2. (o + k - 1) % N # i
      BY <1>1, <2>1, ModRing
    <2>3. k \in 1 .. (n + 1)
      BY <1>1, ModRing
    <2> QED BY <1>6, <1>7, <1>8, <2>1, <2>2, <2>3
  <1>10. t[n + 1] = c
    <2>1. n + 1 \in 1 .. N /\ n + 1 \in 1 .. (n + 1)
      BY <1>2, <1>1, ModRing
    <2>2. (o + (n + 1) - 1) % N =
            IF o + (n + 1) - 1 < N THEN o + (n + 1) - 1 ELSE o + (n + 1) - 1 - N
      BY <2>1, SlotValue
    <2>3. (o + (n + 1) - 1) % N = i
      BY <1>1, <2>2, ModRing
    <2> QED BY <1>6, <1>8, <2>1, <2>3
  <1>11. Append(s, c) \in Seq(V) /\ Len(Append(s, c)) = n + 1
         /\ (\A k \in 1 .. n : Append(s, c)[k] = s[k]) /\ Append(s, c)[n + 1] = c
    BY <1>7, <1>V, AppendProperties
  <1>12. ASSUME NEW k \in 1 .. (n + 1) PROVE t[k] = Append(s, c)[k]
    <2>1. k \in 1 .. n \/ k = n + 1
      BY <1>1, ModRing
    <2> QED BY <2>1, <1>9, <1>10, <1>11
  <1>13. t = Append(s, c)
    BY <1>8, <1>11, <1>12, SeqEqual
  <1> QED BY <1>5, <1>13 DEF b2, s, t

\* Advancing out, when the ring is not empty, makes the distance one less
\* and drops the value out pointed at.
LEMMA RingTail ==
    ASSUME NEW i \in Slots, NEW o \in Slots, NEW b,
           NEW n, n = (i - o + N) % N, i # o
    PROVE  LET s == Window(b, o, n)
           IN  /\ (i - NextSlot(o) + N) % N = n - 1
               /\ s # <<>> /\ Head(s) = b[o]
               /\ Window(b, NextSlot(o), n - 1) = Tail(s)
  <1> DEFINE s == Window(b, o, n)
             p == NextSlot(o)
             t == Window(b, p, n - 1)
             V == {b[k] : k \in Slots}
  <1>1. n \in Slots /\ n = IF i >= o THEN i - o ELSE i - o + N
    BY Distance
  <1>2. n - 1 \in Slots /\ n > 0
    BY <1>1, ModRing
  <1>3. p \in Slots /\ p = IF o = MaxRequests THEN 0 ELSE o + 1
    BY NextSlotValue
  <1>4. (i - p + N) % N = IF i >= p THEN i - p ELSE i - p + N
    BY <1>3, Distance
  <1>5. (i - p + N) % N = n - 1
    BY <1>1, <1>3, <1>4, ModRing
  <1>V. \A k \in Slots : b[k] \in V
    OBVIOUS
  <1> HIDE DEF V
  <1>7. s \in Seq(V) /\ Len(s) = n /\ \A k \in 1 .. n : s[k] = b[(o + k - 1) % N]
    <2>1. s \in Seq(V) /\ Len(s) = n
      BY <1>1, <1>V, WindowSeq
    <2> QED BY <2>1, WindowElement
  <1>8. t \in Seq(V) /\ Len(t) = n - 1
        /\ \A k \in 1 .. (n - 1) : t[k] = b[(p + k - 1) % N]
    <2>1. t \in Seq(V) /\ Len(t) = n - 1
      BY <1>2, <1>3, <1>V, WindowSeq
    <2> QED BY <2>1, WindowElement
  <1> HIDE DEF s, t
  <1>9. s # <<>> /\ Head(s) = s[1]
    BY <1>2, <1>7, ModRing
  <1>10. s[1] = b[o]
    <2>1. 1 \in 1 .. N /\ 1 \in 1 .. n
      BY <1>1, <1>2, ModRing
    <2>2. (o + 1 - 1) % N = o
      BY <2>1, SlotValue, ModRing
    <2> QED BY <1>7, <2>1, <2>2
  <1>11. ASSUME NEW k \in 1 .. (n - 1) PROVE t[k] = s[k + 1]
    <2>1. k + 1 \in 1 .. N /\ k \in 1 .. N /\ k + 1 \in 1 .. n
      BY <1>1, ModRing
    <2>2. (o + (k + 1) - 1) % N =
            IF o + (k + 1) - 1 < N THEN o + (k + 1) - 1 ELSE o + (k + 1) - 1 - N
      BY <2>1, SlotValue
    <2>3. (p + k - 1) % N = IF p + k - 1 < N THEN p + k - 1 ELSE p + k - 1 - N
      BY <1>3, <2>1, SlotValue
    <2>4. (p + k - 1) % N = (o + (k + 1) - 1) % N
      BY <1>1, <1>3, <2>2, <2>3, ModRing
    <2> QED BY <1>7, <1>8, <2>1, <2>4
  <1>12. Tail(s) \in Seq(V) /\ Len(Tail(s)) = n - 1
         /\ \A k \in 1 .. (n - 1) : Tail(s)[k] = s[k + 1]
    BY <1>7, <1>9, HeadTailProperties
  <1>13. t = Tail(s)
    BY <1>8, <1>11, <1>12, SeqEqual
  <1> QED BY <1>5, <1>9, <1>10, <1>13 DEF s, t

----------------------------------------------------------------------------
(* The invariants.                                                         *)

\* The invariants of the specification, with what they need to be inductive:
\* where a thread is tells whether it has a connection in hand, and every
\* slot between out and in holds a connection.
IInv ==
    /\ TypeOK
    /\ NoLostRequestSignal
    /\ MasterSleepsOnlyWhenFull
    /\ mpc = "accept" <=> mconn = NoConn
    /\ \A w \in Workers : wpc[w] = "serve" <=> wconn[w] # NoConn
    /\ \A i \in 1 .. Count : Contents[i] \in Conns
    /\ OneOwner

\* What TypeOK says of the ring.
LEMMA RingType ==
    ASSUME TypeOK
    PROVE  /\ Count \in Nat /\ Count \in Slots
           /\ Contents \in Seq(Conns \cup {NoConn})
           /\ Len(Contents) = Count
           /\ DOMAIN Contents = 1 .. Count
           /\ Count = 0 <=> Empty
  <1>1. Count \in Slots /\ Count = IF in >= out THEN in - out ELSE in - out + N
    BY Distance DEF TypeOK, Count
  <1>2. Window(buf, out, Count) \in Seq(Conns \cup {NoConn})
        /\ Len(Window(buf, out, Count)) = Count
    <2> DEFINE V == Conns \cup {NoConn}
    <2>1. out \in Slots /\ \A k \in Slots : buf[k] \in V
      BY DEF TypeOK
    <2> HIDE DEF V
    <2>2. Window(buf, out, Count) \in Seq(V) /\ Len(Window(buf, out, Count)) = Count
      BY <1>1, <2>1, WindowSeq
    <2> QED BY <2>2 DEF V
  <1>3. DOMAIN Contents = 1 .. Count
    BY DEF Contents
  <1>4. Count = 0 <=> Empty
    BY <1>1, ModRing DEF TypeOK, Empty
  <1> QED BY <1>1, <1>2, <1>3, <1>4, ContentsWindow, ModRing

\* Put appends the master's connection to the contents.
LEMMA PutContents ==
    ASSUME TypeOK, Put
    PROVE  /\ in' \in Slots /\ Count' = Count + 1
           /\ Contents' = Append(Contents, mconn)
  <1>1. in \in Slots /\ out \in Slots /\ DOMAIN buf = Slots
        /\ Count = (in - out + N) % N /\ Count # MaxRequests
    BY DEF TypeOK, Put, Full, Count
  <1>2. in' = NextSlot(in) /\ out' = out /\ buf' = [buf EXCEPT ![in] = mconn]
    BY DEF Put
  <1>3. Count' = (NextSlot(in) - out + N) % N
        /\ Contents' = Window(buf', out, Count')
    BY <1>2, ContentsWindow DEF Count, Contents, Window
  <1>4. (NextSlot(in) - out + N) % N = Count + 1
        /\ Window(buf', out, Count + 1) = Append(Window(buf, out, Count), mconn)
    <2>1. (NextSlot(in) - out + N) % N = Count + 1
          /\ Window(Written(buf, in, mconn), out, Count + 1)
                = Append(Window(buf, out, Count), mconn)
      BY <1>1, RingAppend
    <2> QED BY <1>2, <2>1 DEF Written
  <1> QED BY <1>1, <1>2, <1>3, <1>4, NextSlotValue, ContentsWindow

\* Take removes the first of the contents and gives it to the worker.
LEMMA TakeContents ==
    ASSUME TypeOK, NEW w \in Workers, Take(w)
    PROVE  /\ out' \in Slots /\ Count' = Count - 1
           /\ Contents # <<>> /\ Contents' = Tail(Contents)
           /\ wconn' = [wconn EXCEPT ![w] = Head(Contents)]
  <1>1. in \in Slots /\ out \in Slots /\ DOMAIN buf = Slots
        /\ Count = (in - out + N) % N /\ in # out
    BY DEF TypeOK, Take, Empty, Count
  <1>2. out' = NextSlot(out) /\ in' = in /\ buf' = buf
        /\ wconn' = [wconn EXCEPT ![w] = buf[out]]
    BY DEF Take, TakenSlot
  <1>3. Count' = (in - NextSlot(out) + N) % N
        /\ Contents' = Window(buf, NextSlot(out), Count')
    BY <1>2 DEF Count, Contents, Window
  <1>4. (in - NextSlot(out) + N) % N = Count - 1
        /\ Window(buf, out, Count) # <<>>
        /\ Head(Window(buf, out, Count)) = buf[out]
        /\ Window(buf, NextSlot(out), Count - 1) = Tail(Window(buf, out, Count))
    <2> QED BY <1>1, RingTail
  <1> QED BY <1>1, <1>2, <1>3, <1>4, NextSlotValue, ContentsWindow

\* No other step touches the ring.
LEMMA SameContents ==
    ASSUME UNCHANGED <<in, out, buf>>
    PROVE  Count' = Count /\ Contents' = Contents
  BY DEF Count, Contents

\* IInv holds initially.
LEMMA InitInv == Init => IInv
  <1> SUFFICES ASSUME Init PROVE IInv
    OBVIOUS
  <1>1. TypeOK
    BY ModRing DEF Init, TypeOK
  <1>2. Count = 0 /\ Contents = <<>>
    <2>1. Count = 0
      BY <1>1, RingType DEF Init, Empty
    <2> QED BY <2>1 DEF Contents
  <1>3. OneOwner
    BY <1>2 DEF Init, OneOwner
  <1> QED
    BY <1>1, <1>2, <1>3
       DEF Init, IInv, NoLostRequestSignal, MasterSleepsOnlyWhenFull, Empty

\* A step of the master preserves IInv.
LEMMA PutInv == ASSUME IInv, Put PROVE IInv'
  <1>1. TypeOK /\ OneOwner /\ mconn \in Conns
    BY DEF IInv, Put, TypeOK
  <1>2. /\ in' \in Slots /\ Count' = Count + 1 /\ Contents' = Append(Contents, mconn)
        /\ Count \in Nat /\ Contents \in Seq(Conns \cup {NoConn})
        /\ Len(Contents) = Count
    BY <1>1, PutContents, RingType
  <1>3. /\ \A i \in 1 .. Count : Contents'[i] = Contents[i]
        /\ Contents'[Count + 1] = mconn
    BY <1>1, <1>2, AppendProperties
  <1>4. \/ UNCHANGED wpc
        \/ \E w \in EmptyWaiters : wpc' = [wpc EXCEPT ![w] = "take"]
    BY DEF Put, SignalEmpty
  <1>5. TypeOK'
    <2>1. wpc' \in [Workers -> {"take", "cv_empty", "serve"}]
      BY <1>1, <1>4 DEF TypeOK, EmptyWaiters
    <2>2. buf' \in [Slots -> Conns \cup {NoConn}]
      BY <1>1 DEF TypeOK, Put
    <2> QED BY <1>1, <1>2, <2>1, <2>2 DEF TypeOK, Put
  <1>6. NoLostRequestSignal'
    <2>1. CASE Empty
      <3>1. CASE EmptyWaiters = {}
        BY <2>1, <3>1, WorkersAssumption
           DEF Put, WakesWorker, SignalEmpty, NoLostRequestSignal, EmptyWaiters
      <3>2. CASE EmptyWaiters # {}
        <4>1. PICK w \in EmptyWaiters : wpc' = [wpc EXCEPT ![w] = "take"]
          BY <2>1, <3>2 DEF Put, WakesWorker, SignalEmpty
        <4>2. w \in Workers /\ wpc'[w] = "take"
          BY <1>1, <4>1 DEF EmptyWaiters, TypeOK
        <4> QED BY <4>2 DEF NoLostRequestSignal, EmptyWaiters
      <3> QED BY <3>1, <3>2
    <2>2. CASE ~Empty
      <3>1. UNCHANGED wpc
        BY <2>2 DEF Put, WakesWorker
      <3> QED BY <2>2, <3>1 DEF IInv, NoLostRequestSignal, EmptyWaiters
    <2> QED BY <2>1, <2>2
  <1>7. MasterSleepsOnlyWhenFull' /\ (mpc = "accept" <=> mconn = NoConn)'
    BY DEF Put, MasterSleepsOnlyWhenFull
  <1>8. (\A w \in Workers : wpc[w] = "serve" <=> wconn[w] # NoConn)'
    <2>1. \A w \in Workers : wpc'[w] = "serve" <=> wpc[w] = "serve"
      BY <1>1, <1>4 DEF EmptyWaiters, TypeOK
    <2> QED BY <2>1 DEF IInv, Put
  <1>9. \A i \in 1 .. Count' : i \in 1 .. Count \/ i = Count + 1
    BY <1>2
  <1>10. (\A i \in 1 .. Count : Contents[i] \in Conns)'
    BY <1>1, <1>2, <1>3, <1>9 DEF IInv
  <1>11. OneOwner'
    <2>1. mconn' = NoConn /\ wconn' = wconn
      BY DEF Put
    <2>2. \A i \in 1 .. Count : Contents[i] # mconn
      BY <1>1 DEF OneOwner
    <2>3. (\A i, j \in 1 .. Count : Contents[i] = Contents[j] => i = j)'
      BY <1>1, <1>2, <1>3, <1>9, <2>2 DEF OneOwner
    <2>4. (\A w \in Workers : wpc[w] = "serve" => wconn[w] \in Conns)'
      BY <1>5, <1>8 DEF TypeOK
    <2>5. (\A i \in 1 .. Count : Contents[i] # mconn)'
      BY <1>10, <2>1, NoConnAssumption
    <2>6. (\A i \in 1 .. Count : \A w \in Workers : Contents[i] # wconn[w])'
      BY <1>1, <1>2, <1>3, <1>9, <2>1, NoConnAssumption DEF OneOwner
    <2> QED BY <1>1, <2>1, <2>3, <2>4, <2>5, <2>6 DEF OneOwner
  <1> QED BY <1>5, <1>6, <1>7, <1>8, <1>10, <1>11 DEF IInv

\* Taking a request preserves IInv.
LEMMA TakeInv == ASSUME IInv, NEW w \in Workers, Take(w) PROVE IInv'
  <1>1. TypeOK /\ OneOwner
    BY DEF IInv
  <1>2. /\ out' \in Slots /\ Count' = Count - 1
        /\ Contents # <<>> /\ Contents' = Tail(Contents)
        /\ wconn' = [wconn EXCEPT ![w] = Head(Contents)]
        /\ Count \in Nat /\ Contents \in Seq(Conns \cup {NoConn})
        /\ Len(Contents) = Count
    BY <1>1, TakeContents, RingType
  <1>3. Count > 0 /\ \A i \in 1 .. Count' : i + 1 \in 1 .. Count
    BY <1>2
  <1>4. /\ \A i \in 1 .. Count' : Contents'[i] = Contents[i + 1]
        /\ Head(Contents) = Contents[1] /\ 1 \in 1 .. Count
    BY <1>2, <1>3, HeadTailProperties
  <1>5. Contents[1] \in Conns
    BY <1>4 DEF IInv
  <1>6. wconn[w] = NoConn /\ wpc[w] = "take" /\ wpc' = [wpc EXCEPT ![w] = "serve"]
        /\ mconn' = mconn /\ in' = in /\ buf' = buf
    BY DEF IInv, Take
  <1>7. /\ wpc' [w] = "serve" /\ \A v \in Workers \ {w} : wpc'[v] = wpc[v]
        /\ wconn'[w] = Contents[1] /\ \A v \in Workers \ {w} : wconn'[v] = wconn[v]
    BY <1>1, <1>2, <1>4, <1>6 DEF TypeOK
  <1>8. TypeOK'
    <2>1. mpc' \in {"accept", "put", "cv_full"}
      BY <1>1 DEF TypeOK, Take, SignalFull
    <2>2. wconn' \in [Workers -> Conns \cup {NoConn}]
      BY <1>1, <1>2, <1>4, <1>5 DEF TypeOK
    <2> QED BY <1>1, <1>2, <1>6, <2>1, <2>2 DEF TypeOK
  <1>9. NoLostRequestSignal'
    BY <1>7 DEF NoLostRequestSignal, EmptyWaiters
  <1>10. MasterSleepsOnlyWhenFull' /\ (mpc = "accept" <=> mconn = NoConn)'
    <2>1. CASE Full
      BY <2>1, <1>6 DEF Take, WakesMaster, SignalFull, MasterSleepsOnlyWhenFull, IInv
    <2>2. CASE ~Full
      BY <2>2, <1>6 DEF Take, WakesMaster, MasterSleepsOnlyWhenFull, IInv
    <2> QED BY <2>1, <2>2
  <1>11. (\A v \in Workers : wpc[v] = "serve" <=> wconn[v] # NoConn)'
    BY <1>5, <1>7, NoConnAssumption DEF IInv
  <1>12. (\A i \in 1 .. Count : Contents[i] \in Conns)'
    BY <1>3, <1>4 DEF IInv
  <1>13. OneOwner'
    <2>1. (\A i, j \in 1 .. Count : Contents[i] = Contents[j] => i = j)'
      BY <1>1, <1>2, <1>3, <1>4 DEF OneOwner
    <2>2. (\A v \in Workers : wpc[v] = "serve" => wconn[v] \in Conns)'
      BY <1>8, <1>11 DEF TypeOK
    <2>3. \A i \in 1 .. Count : Contents[i] # mconn
                                /\ \A v \in Workers : Contents[i] # wconn[v]
      BY <1>1 DEF OneOwner
    <2>4. (\A v, u \in Workers :
              wconn[v] = wconn[u] => wconn[v] = NoConn \/ v = u)'
      BY <1>1, <1>4, <1>7, <2>3 DEF OneOwner
    <2>5. \A i \in 1 .. Count' : Contents'[i] # Contents[1]
      <3>1. ASSUME NEW i \in 1 .. Count' PROVE Contents[i + 1] # Contents[1]
        <4>1. i + 1 # 1 /\ i + 1 \in 1 .. Count
          BY <1>2, <1>3
        <4> QED BY <1>1, <1>4, <4>1 DEF OneOwner
      <3> QED BY <3>1, <1>4
    <2>6. (\A i \in 1 .. Count : Contents[i] # mconn
                                 /\ \A v \in Workers : Contents[i] # wconn[v])'
      BY <1>3, <1>4, <1>6, <1>7, <2>3, <2>5
    <2>7. (\A v \in Workers : wconn[v] = mconn => mconn = NoConn)'
      BY <1>1, <1>4, <1>6, <1>7, <2>3 DEF OneOwner
    <2> QED BY <2>1, <2>2, <2>4, <2>6, <2>7 DEF OneOwner
  <1> QED BY <1>8, <1>9, <1>10, <1>11, <1>12, <1>13 DEF IInv

\* Every step that leaves the ring alone preserves IInv.
LEMMA OtherInv ==
    ASSUME IInv,
           \/ \E c \in Conns : Accept(c)
           \/ PutWait
           \/ SpuriousWakeMaster
           \/ \E w \in Workers : TakeWait(w) \/ Served(w) \/ SpuriousWakeWorker(w)
           \/ UNCHANGED vars
    PROVE  IInv'
  <1>1. TypeOK /\ OneOwner /\ NoLostRequestSignal /\ MasterSleepsOnlyWhenFull
    BY DEF IInv
  <1>2. /\ UNCHANGED <<in, out, buf>> /\ Count' = Count /\ Contents' = Contents
        /\ Full' = Full /\ Empty' = Empty
    <2>1. UNCHANGED <<in, out, buf>>
      BY DEF Accept, PutWait, SpuriousWakeMaster, TakeWait, Served,
             SpuriousWakeWorker, vars
    <2> QED BY <2>1, SameContents DEF Full, Empty
  <1>3. CASE \E c \in Conns : Accept(c)
    <2>1. PICK c \in Conns : Accept(c)
      BY <1>3
    <2>2. /\ mpc' = "put" /\ mconn' = c /\ UNCHANGED <<wpc, wconn>>
          /\ \A i \in 1 .. Count : Contents[i] # c
          /\ \A w \in Workers : wconn[w] # c
      BY <2>1 DEF Accept, Open
    <2>3. OneOwner'
      BY <1>1, <1>2, <2>2 DEF OneOwner
    <2> QED
      BY <1>1, <1>2, <2>2, <2>3, NoConnAssumption
         DEF IInv, TypeOK, NoLostRequestSignal, MasterSleepsOnlyWhenFull, EmptyWaiters
  <1>4. CASE PutWait \/ SpuriousWakeMaster
    <2>1. UNCHANGED <<mconn, wpc, wconn>> /\ OneOwner'
      BY <1>1, <1>2, <1>4 DEF PutWait, SpuriousWakeMaster, OneOwner
    <2>2. MasterSleepsOnlyWhenFull' /\ mpc' \in {"put", "cv_full"} /\ mpc # "accept"
      BY <1>2, <1>4 DEF PutWait, SpuriousWakeMaster, MasterSleepsOnlyWhenFull
    <2> QED
      BY <1>1, <1>2, <2>1, <2>2 DEF IInv, TypeOK, NoLostRequestSignal, EmptyWaiters
  <1>5. ASSUME NEW w \in Workers, TakeWait(w) \/ SpuriousWakeWorker(w) PROVE IInv'
    <2>1. UNCHANGED <<mpc, mconn, wconn>>
          /\ wpc[w] # "serve" /\ wpc'[w] # "serve"
          /\ wpc' \in [Workers -> {"take", "cv_empty", "serve"}]
          /\ \A v \in Workers \ {w} : wpc'[v] = wpc[v]
      BY <1>1, <1>5 DEF TakeWait, SpuriousWakeWorker, TypeOK
    <2>2. NoLostRequestSignal'
      BY <1>1, <1>2, <1>5, <2>1
         DEF TakeWait, SpuriousWakeWorker, NoLostRequestSignal, EmptyWaiters, Empty, TypeOK
    <2>3. OneOwner' /\ MasterSleepsOnlyWhenFull'
      BY <1>1, <1>2, <2>1 DEF OneOwner, MasterSleepsOnlyWhenFull
    <2> QED BY <1>1, <1>2, <2>1, <2>2, <2>3 DEF IInv, TypeOK
  <1>6. ASSUME NEW w \in Workers, Served(w) PROVE IInv'
    <2>1. /\ UNCHANGED <<mpc, mconn>>
          /\ wpc'[w] = "take" /\ wconn'[w] = NoConn
          /\ wpc' \in [Workers -> {"take", "cv_empty", "serve"}]
          /\ wconn' \in [Workers -> Conns \cup {NoConn}]
          /\ \A v \in Workers \ {w} : wpc'[v] = wpc[v] /\ wconn'[v] = wconn[v]
      BY <1>1, <1>6 DEF Served, TypeOK
    <2>2. OneOwner'
      BY <1>1, <1>2, <2>1, NoConnAssumption DEF OneOwner, IInv
    <2>3. NoLostRequestSignal' /\ MasterSleepsOnlyWhenFull'
      BY <1>1, <1>2, <2>1
         DEF NoLostRequestSignal, EmptyWaiters, MasterSleepsOnlyWhenFull
    <2> QED BY <1>1, <1>2, <2>1, <2>2, <2>3 DEF IInv, TypeOK
  <1>7. CASE UNCHANGED vars
    BY <1>7, <1>1, <1>2 DEF vars, IInv, TypeOK, NoLostRequestSignal, EmptyWaiters,
            MasterSleepsOnlyWhenFull, OneOwner
  <1> QED BY <1>3, <1>4, <1>5, <1>6, <1>7

LEMMA StepInv == IInv /\ [Next]_vars => IInv'
  BY PutInv, TakeInv, OtherInv DEF Next, MasterStep, WorkerStep

LEMMA InvInductive == Spec => []IInv
  BY InitInv, StepInv, PTL DEF Spec

\* The queue's variables keep their types: the indices never leave the ring
\* and no worker is handed an unwritten slot's value of another kind.
THEOREM TypeCorrect == Spec => []TypeOK
  <1>1. IInv => TypeOK
    BY DEF IInv
  <1> QED BY <1>1, InvInductive, PTL

\* For any number of workers and slots: while a request waits in the ring
\* some worker is awake, although server_request signals cv_empty only when
\* it finds the ring empty.
THEOREM NoLostSignals == Spec => []NoLostRequestSignal
  <1>1. IInv => NoLostRequestSignal
    BY DEF IInv
  <1> QED BY <1>1, InvInductive, PTL

\* The master waits on cv_full only while the ring is full, although
\* stub_func signals cv_full only when it finds the ring full.
THEOREM MasterNotStuck == Spec => []MasterSleepsOnlyWhenFull
  <1>1. IInv => MasterSleepsOnlyWhenFull
    BY DEF IInv
  <1> QED BY <1>1, InvInductive, PTL

\* No two threads, and no two slots, ever have the same connection.
THEOREM OwnersUnique == Spec => []OneOwner
  <1>1. IInv => OneOwner
    BY DEF IInv
  <1> QED BY <1>1, InvInductive, PTL

----------------------------------------------------------------------------
(* The ring implements the bounded FIFO queue.                             *)

LEMMA InitFIFO == Init => FIFO!Init
  <1> SUFFICES ASSUME Init PROVE FIFO!Init
    OBVIOUS
  <1>1. TypeOK
    BY InitInv DEF IInv
  <1>2. Count = 0
    BY <1>1, RingType DEF Init, Empty
  <1> QED BY <1>2 DEF Init, FIFO!Init, Contents

LEMMA PutFIFO == ASSUME IInv, Put PROVE FIFO!Put(mconn) /\ mconn \in Conns
  <1>1. TypeOK /\ OneOwner /\ mconn \in Conns
    BY DEF IInv, Put, TypeOK
  <1>2. Contents' = Append(Contents, mconn) /\ Len(Contents) = Count
        /\ DOMAIN Contents = 1 .. Count /\ Count \in Slots
    BY <1>1, PutContents, RingType
  <1>3. Len(Contents) < MaxRequests
    BY <1>2, ModRing DEF Put, Full
  <1>4. ~FIFO!Waiting(mconn) /\ ~FIFO!Held(mconn)
    BY <1>1, <1>2, NoConnAssumption DEF OneOwner, FIFO!Waiting, FIFO!Held
  <1>5. UNCHANGED wconn
    BY DEF Put
  <1> QED BY <1>1, <1>2, <1>3, <1>4, <1>5 DEF FIFO!Put

LEMMA TakeFIFO == ASSUME IInv, NEW w \in Workers, Take(w) PROVE FIFO!Get(w)
  <1>1. TypeOK /\ wconn[w] = NoConn
    BY DEF IInv, Take
  <1> QED BY <1>1, TakeContents DEF FIFO!Get

LEMMA StepFIFO == IInv /\ [Next]_vars => [FIFO!Next]_(FIFO!vars)
  <1> SUFFICES ASSUME IInv, [Next]_vars PROVE [FIFO!Next]_(FIFO!vars)
    OBVIOUS
  <1>1. CASE Put
    BY <1>1, PutFIFO DEF FIFO!Next
  <1>2. ASSUME NEW w \in Workers, Take(w) PROVE FIFO!Next
    BY <1>2, TakeFIFO DEF FIFO!Next
  <1>3. ASSUME NEW w \in Workers, Served(w) PROVE FIFO!Next
    <2>1. Contents' = Contents
      BY <1>3, SameContents DEF Served
    <2>2. wconn[w] # NoConn
      BY <1>3 DEF IInv, Served
    <2> QED BY <1>3, <2>1, <2>2 DEF FIFO!Next, FIFO!Done, Served
  <1>4. ASSUME \/ \E c \in Conns : Accept(c)
               \/ PutWait
               \/ SpuriousWakeMaster
               \/ \E w \in Workers : TakeWait(w) \/ SpuriousWakeWorker(w)
               \/ UNCHANGED vars
        PROVE  UNCHANGED FIFO!vars
    <2>1. UNCHANGED <<in, out, buf>> /\ UNCHANGED wconn
      BY <1>4 DEF Accept, PutWait, SpuriousWakeMaster, TakeWait, SpuriousWakeWorker, vars
    <2> QED BY <2>1, SameContents DEF FIFO!vars
  <1> QED BY <1>1, <1>2, <1>3, <1>4 DEF Next, MasterStep, WorkerStep

\* Every behaviour of the ring buffer is a behaviour of a bounded FIFO queue
\* of max_requests entries (without the fairness, which stays with TLC).
THEOREM RingImplementsFIFO == Spec => FIFO!Spec
  BY InitFIFO, StepFIFO, InvInductive, PTL DEF Spec, FIFO!Spec
=============================================================================
