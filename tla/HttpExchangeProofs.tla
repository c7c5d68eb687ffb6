------------------------- MODULE HttpExchangeProofs -------------------------
(***************************************************************************)
(* Proofs about modules Rio and HttpExchange.  For every size of the       *)
(* buffer and of a line, and however reads and writes are cut, no byte is  *)
(* lost or repeated, and the reader of lines implements LineStream.        *)
(* Server and client use their connection only as Rio lets them, so this   *)
(* holds of them as well.  With it, a client that asks for a file receives *)
(* that file, whole, and the length and checksum that it was told.         *)
(***************************************************************************)
EXTENDS HttpExchange, ListProofs, TLAPS


(***************************************************************************)
(* One end's reader, in the state At says: stream s, t bytes taken, k of   *)
(* them unread in buf from ptr on, p bytes given to the caller before the  *)
(* line under way (if ret says so).                                        *)
(***************************************************************************)
At(s, t, k, p, buf, ptr, line, ret) ==
    /\ t <= Len(s) /\ 0 <= p
    /\ k > 0 => ptr >= 1 /\ ptr + k - 1 <= Len(buf)
    /\ \A i \in 1 .. k : buf[ptr + i - 1] = s[t - k + i]
    /\ ret = "busy" =>
        /\ p + Len(line) = t - k
        /\ Len(line) < MaxLine
        /\ \A i \in 1 .. Len(line) : line[i] # LF /\ line[i] = s[p + i]
    /\ p + k <= t

LEMMA PartTyped ==
    ASSUME NEW s \in Seq(Byte), NEW m \in Nat, NEW n \in Nat, m + n <= Len(s)
    PROVE  /\ SubSeq(s, m + 1, m + n) \in Seq(Byte)
           /\ Len(SubSeq(s, m + 1, m + n)) = n
           /\ \A i \in 1 .. n : SubSeq(s, m + 1, m + n)[i] = s[m + i]
<1>1. \A i \in m + 1 .. m + n : s[i] \in Byte
  OBVIOUS
<1>. QED
  BY <1>1, SubSeqProperties

\* Bytes may be added to its stream.
LEMMA StreamGrows ==
    ASSUME NEW s \in Seq(Byte), NEW u \in Seq(Byte), NEW t \in Nat, NEW k \in Nat,
           NEW p \in Nat, NEW buf \in Seq(Byte), NEW ptr \in Nat,
           NEW line \in Seq(Byte), NEW ret \in Results,
           At(s, t, k, p, buf, ptr, line, ret),
           Len(s) <= Len(u), \A i \in 1 .. Len(s) : u[i] = s[i]
    PROVE  At(u, t, k, p, buf, ptr, line, ret)
<1>1. ASSUME NEW i \in 1 .. k
      PROVE  buf[ptr + i - 1] = u[t - k + i]
  <2>1. t - k + i \in 1 .. Len(s)
    <3>1. t <= Len(s) /\ p + k <= t /\ Len(s) \in Nat
      BY DEF At
    <3>. QED
      BY <3>1
  <2>2. buf[ptr + i - 1] = s[t - k + i]
    BY DEF At
  <2>. QED
    BY <2>1, <2>2
<1>2. ASSUME ret = "busy", NEW i \in 1 .. Len(line)
      PROVE  line[i] # LF /\ line[i] = u[p + i]
  <2>1. p + i \in 1 .. Len(s)
    BY <1>2 DEF At
  <2>2. line[i] # LF /\ line[i] = s[p + i]
    BY <1>2 DEF At
  <2>. QED
    BY <2>1, <2>2
<1>3. t <= Len(u)
  BY DEF At
<1>. QED
  BY <1>1, <1>2, <1>3 DEF At

\* What is so when a byte has been taken from the buffer.
Took(s, t, k, p, buf, ptr, line) ==
    /\ buf[ptr] \in Byte /\ Append(line, buf[ptr]) \in Seq(Byte)
    /\ Len(Append(line, buf[ptr])) = Len(line) + 1
    /\ Append(line, buf[ptr]) = SubSeq(s, p + 1, p + (Len(line) + 1))
    /\ p + (Len(line) + 1) = t - (k - 1) /\ t - (k - 1) <= Len(s)
    /\ \A i \in 1 .. Len(line) : s[p + i] # LF
    /\ s[p + (Len(line) + 1)] = buf[ptr]
    /\ ~LineEnds(Len(line), buf[ptr]) =>
          At(s, t, k - 1, p, buf, ptr + 1, Append(line, buf[ptr]), "busy")
    /\ At(s, t, k - 1, p + (Len(line) + 1), buf, ptr + 1,
          Append(line, buf[ptr]), "line")

LEMMA OneByte ==
    ASSUME NEW s \in Seq(Byte), NEW t \in Nat, NEW k \in Nat,
           NEW p \in Nat, NEW buf \in Seq(Byte), NEW ptr \in Nat,
           NEW line \in Seq(Byte),
           At(s, t, k, p, buf, ptr, line, "busy"), k > 0
    PROVE  Took(s, t, k, p, buf, ptr, line)
<1>. DEFINE c == buf[ptr]
            n == Len(line) + 1
            next == Append(line, c)
<1>1. /\ t <= Len(s) /\ p + Len(line) = t - k /\ Len(line) < MaxLine
      /\ ptr >= 1 /\ ptr + k - 1 <= Len(buf)
      /\ \A i \in 1 .. k : buf[ptr + i - 1] = s[t - k + i]
      /\ \A i \in 1 .. Len(line) : line[i] # LF /\ line[i] = s[p + i]
  BY DEF At
<1>2. c \in Byte
  <2>1. ptr \in 1 .. Len(buf)
    BY <1>1
  <2>. QED
    BY <2>1
<1>3. /\ next \in Seq(Byte) /\ Len(next) = n /\ next[n] = c
      /\ \A i \in 1 .. Len(line) : next[i] = line[i]
  BY <1>2
<1>. HIDE DEF c, next
<1>4. c = s[p + n]
  <2>1. buf[ptr + 1 - 1] = s[t - k + 1]
    <3>1. 1 \in 1 .. k
      OBVIOUS
    <3>. QED
      BY <1>1, <3>1
  <2>2. ptr + 1 - 1 = ptr /\ t - k + 1 = p + n
    BY <1>1
  <2>. QED
    BY <2>1, <2>2 DEF c
<1>5. p + n = t - (k - 1) /\ t - (k - 1) <= Len(s) /\ p + n \in Nat
  <2>. DEFINE l == Len(line)
              z == Len(s)
  <2>1. l \in Nat /\ z \in Nat
    OBVIOUS
  <2>2. p + l = t - k /\ t <= z
    BY <1>1
  <2>3. n = l + 1 /\ n \in Nat
    OBVIOUS
  <2>. HIDE DEF l, z, n
  <2>4. p + n = t - (k - 1)
    BY <2>1, <2>2, <2>3
  <2>5. t - (k - 1) <= z
    BY <2>1, <2>2
  <2>6. p + n \in Nat
    BY <2>3
  <2>. QED
    BY <2>4, <2>5, <2>6 DEF z
<1>6. \A i \in 1 .. n : next[i] = s[p + i]
  <2>. SUFFICES ASSUME NEW i \in 1 .. n PROVE next[i] = s[p + i]
    OBVIOUS
  <2>1. CASE i \in 1 .. Len(line)
    BY <1>1, <1>3, <2>1
  <2>2. CASE i = n
    BY <1>3, <1>4, <2>2
  <2>3. i \in 1 .. Len(line) \/ i = n
    OBVIOUS
  <2>. QED
    BY <2>1, <2>2, <2>3
<1>7. next = SubSeq(s, p + 1, p + n)
  <2>1. /\ SubSeq(s, p + 1, p + n) \in Seq(Byte)
        /\ Len(SubSeq(s, p + 1, p + n)) = n
        /\ \A i \in 1 .. n : SubSeq(s, p + 1, p + n)[i] = s[p + i]
    BY <1>5, PartTyped
  <2>. QED
    BY <1>3, <1>6, <2>1, SeqEqual
<1>8. \A i \in 1 .. k - 1 : buf[(ptr + 1) + i - 1] = s[t - (k - 1) + i]
  <2>. SUFFICES ASSUME NEW i \in 1 .. k - 1
                PROVE  buf[(ptr + 1) + i - 1] = s[t - (k - 1) + i]
    OBVIOUS
  <2>1. buf[ptr + (i + 1) - 1] = s[t - k + (i + 1)]
    <3>1. i + 1 \in 1 .. k
      OBVIOUS
    <3>. QED
      BY <1>1, <3>1
  <2>2. ptr + (i + 1) - 1 = (ptr + 1) + i - 1 /\ t - k + (i + 1) = t - (k - 1) + i
    OBVIOUS
  <2>. QED
    BY <2>1, <2>2
<1>9. k - 1 > 0 => ptr + 1 >= 1 /\ (ptr + 1) + (k - 1) - 1 <= Len(buf)
  BY <1>1
<1>10. At(s, t, k - 1, p + n, buf, ptr + 1, next, "line")
  BY <1>5, <1>8, <1>9 DEF At
<1>11. ASSUME ~LineEnds(Len(line), c)
       PROVE  At(s, t, k - 1, p, buf, ptr + 1, next, "busy")
  <2>1. c # LF /\ n # MaxLine
    BY <1>11 DEF LineEnds
  <2>2. n < MaxLine
    <3>1. Len(line) \in Nat /\ Len(line) < MaxLine /\ MaxLine \in Nat
      BY <1>1, SizesAssumption DEF SizesAssumption
    <3>. QED
      BY <2>1, <3>1
  <2>3. \A i \in 1 .. n : next[i] # LF
    <3>. SUFFICES ASSUME NEW i \in 1 .. n PROVE next[i] # LF
      OBVIOUS
    <3>1. i \in 1 .. Len(line) \/ i = n
      OBVIOUS
    <3>. QED
      BY <1>1, <1>3, <2>1, <3>1
  <2>4. p + n = t - (k - 1) /\ p + (k - 1) <= t
    BY <1>5
  <2>. QED
    BY <1>3, <1>5, <1>6, <1>8, <1>9, <2>2, <2>3, <2>4 DEF At
<1>. QED
  BY <1>1, <1>2, <1>3, <1>4, <1>5, <1>7, <1>10, <1>11 DEF c, next, Took

----------------------------------------------------------------------------
(* Types.                                                                  *)

\* Every field of a reader has its type, and so has what is computed from it.
LEMMA Fields ==
    ASSUME NEW r \in Reader, NEW t \in Nat
    PROVE  /\ r.buf \in Seq(Byte) /\ r.ptr \in Nat /\ r.cnt \in Int
           /\ r.line \in Seq(Byte) /\ r.ret \in Results
           /\ Unread(r) \in Nat /\ Given(t, r) \in Int
           /\ r.cnt > 0 => Unread(r) = r.cnt
           /\ r.cnt <= 0 => Unread(r) = 0
           /\ r.ret \in {"busy", "error"} => Given(t, r) = t - Unread(r) - Len(r.line)
           /\ r.ret \notin {"busy", "error"} => Given(t, r) = t - Unread(r)
  BY DEF Reader, Unread, Given

EndOK(e) ==
    At(stream[e], taken[e], Unread(rio[e]), Given(taken[e], rio[e]),
       rio[e].buf, rio[e].ptr, rio[e].line, rio[e].ret)

\* The inductive invariant.
IInv == RioTypeOK /\ \A e \in Ends : EndOK(e)

LEMMA IInvConserved == IInv => Conserved
<1>. SUFFICES ASSUME IInv, NEW e \in Ends
              PROVE  InOrder(stream[e], taken[e], rio[e])
  BY DEF Conserved
<1>. DEFINE r == rio[e]
            k == Unread(r)
<1>1. At(stream[e], taken[e], k, Given(taken[e], r), r.buf, r.ptr, r.line, r.ret)
  BY DEF IInv, EndOK
<1>2. r \in Reader /\ taken[e] \in Nat
  BY DEF IInv, RioTypeOK
<1>3. r.buf \in Seq(Byte) /\ r.ptr \in Nat /\ k \in Nat
  BY <1>2, Fields
<1>. HIDE DEF r, k
<1>4. k > 0 => r.ptr \in 1 .. Len(r.buf) /\ r.ptr + k - 1 <= Len(r.buf)
  BY <1>1, <1>3 DEF At
<1>. QED
  BY <1>1, <1>4 DEF At, InOrder, r, k

LEMMA InitInv == RioInit => IInv
<1>. SUFFICES ASSUME RioInit PROVE IInv
  OBVIOUS
<1>1. RioTypeOK
  BY DEF RioInit, RioTypeOK, Reader, Results
<1>2. ASSUME NEW e \in Ends PROVE EndOK(e)
  <2>1. Unread(rio[e]) = 0 /\ Given(taken[e], rio[e]) = 0
    BY DEF RioInit, Unread, Given
  <2>. QED
    BY <2>1 DEF EndOK, At, RioInit
<1>. QED
  BY <1>1, <1>2 DEF IInv

\* A step leaves the reader of another end, or of one whose stream grows, alone.
LEMMA Frame ==
    ASSUME IInv, RioTypeOK', NEW f \in Ends,
           rio'[f] = rio[f], taken'[f] = taken[f],
           Len(stream[f]) <= Len(stream'[f]),
           \A i \in 1 .. Len(stream[f]) : stream'[f][i] = stream[f][i]
    PROVE  EndOK(f)'
<1>. DEFINE r == rio[f]
<1>1. /\ stream[f] \in Seq(Byte) /\ stream'[f] \in Seq(Byte)
      /\ taken[f] \in Nat /\ r \in Reader
  BY DEF IInv, RioTypeOK
<1>2. /\ Unread(r) \in Nat /\ Given(taken[f], r) \in Int
      /\ r.buf \in Seq(Byte) /\ r.ptr \in Nat /\ r.line \in Seq(Byte)
      /\ r.ret \in Results
  BY <1>1, Fields
<1>3. At(stream[f], taken[f], Unread(r), Given(taken[f], r),
         r.buf, r.ptr, r.line, r.ret)
  BY DEF IInv, EndOK
<1>4. Given(taken[f], r) \in Nat
  BY <1>2, <1>3 DEF At
<1>5. At(stream'[f], taken[f], Unread(r), Given(taken[f], r),
         r.buf, r.ptr, r.line, r.ret)
  BY <1>1, <1>2, <1>3, <1>4, StreamGrows
<1>. QED
  BY <1>5 DEF EndOK

----------------------------------------------------------------------------
(* Every step keeps the invariant.                                         *)

\* A step that changes the reader of end e only.
LEMMA ReaderStep ==
    ASSUME IInv, NEW e \in Ends, NEW q \in Reader, NEW t \in Nat,
           rio' = [rio EXCEPT ![e] = q], taken' = [taken EXCEPT ![e] = t],
           UNCHANGED <<stream, closed, unsent>>,
           At(stream[e], t, Unread(q), Given(t, q), q.buf, q.ptr, q.line, q.ret)
    PROVE  IInv'
<1>1. RioTypeOK'
  BY DEF IInv, RioTypeOK
<1>2. rio'[e] = q /\ taken'[e] = t
  BY DEF IInv, RioTypeOK
<1>3. EndOK(e)'
  BY <1>2 DEF EndOK
<1>4. ASSUME NEW f \in Ends, f # e PROVE EndOK(f)'
  <2>1. rio'[f] = rio[f] /\ taken'[f] = taken[f] /\ stream'[f] = stream[f]
    BY <1>4 DEF IInv, RioTypeOK
  <2>2. stream[f] \in Seq(Byte)
    BY DEF IInv, RioTypeOK
  <2>. QED
    BY <1>1, <2>1, <2>2, Frame
<1>. QED
  BY <1>1, <1>3, <1>4 DEF IInv

LEMMA CallInv ==
    ASSUME IInv, NEW e \in Ends, Call(e)
    PROVE  IInv'
<1>. DEFINE r == rio[e]
            q == [r EXCEPT !.line = <<>>, !.ret = "busy"]
<1>1. r \in Reader /\ taken[e] \in Nat /\ stream[e] \in Seq(Byte)
  BY DEF IInv, RioTypeOK
<1>2. q \in Reader /\ q.line = <<>> /\ q.ret = "busy" /\ q.cnt = r.cnt
      /\ q.ptr = r.ptr /\ q.buf = r.buf
  <2>1. <<>> \in Seq(Byte) /\ "busy" \in Results
    BY DEF Results
  <2>. HIDE DEF r
  <2>. QED
    BY <1>1, <2>1 DEF Reader
<1>3. rio' = [rio EXCEPT ![e] = q] /\ taken' = [taken EXCEPT ![e] = taken[e]]
  BY DEF Call, IInv, RioTypeOK
<1>4. Unread(q) = Unread(r) /\ Given(taken[e], q) = Given(taken[e], r)
  <2>1. Unread(q) = Unread(r)
    BY <1>2 DEF Unread
  <2>2. Given(taken[e], r) = taken[e] - Unread(r)
    BY <1>1, Fields DEF Call
  <2>3. Given(taken[e], q) = taken[e] - Unread(q) - 0
    BY <1>1, <1>2, Fields
  <2>4. taken[e] \in Nat /\ Unread(r) \in Nat
    BY <1>1, Fields
  <2>. QED
    BY <2>1, <2>2, <2>3, <2>4
<1>5. At(stream[e], taken[e], Unread(r), Given(taken[e], r), r.buf, r.ptr, r.line, "line")
  <2>1. r.ret # "busy"
    BY DEF Call
  <2>. QED
    BY <2>1 DEF IInv, EndOK, At
<1>6. Given(taken[e], r) + 0 = taken[e] - Unread(r)
  BY <1>1, Fields DEF Call
<1>7. At(stream[e], taken[e], Unread(q), Given(taken[e], q), q.buf, q.ptr, q.line,
         q.ret)
  BY <1>2, <1>4, <1>5, <1>6, SizesAssumption DEF At, SizesAssumption
<1>8. UNCHANGED <<stream, closed, unsent>>
  BY DEF Call
<1>. HIDE DEF q, r
<1>. QED
  BY <1>1, <1>2, <1>3, <1>7, <1>8, ReaderStep

LEMMA TakeInv ==
    ASSUME IInv, NEW e \in Ends, Take(e)
    PROVE  /\ IInv'
           /\ LET l == rio'[e].line IN
              /\ rio'[e].ret = "busy" => Given(taken[e], rio'[e]) = Given(taken[e], rio[e])
              /\ rio'[e].ret = "line" =>
                    /\ Len(l) \in 1 .. MaxLine
                    /\ Given(taken[e], rio'[e]) = Given(taken[e], rio[e]) + Len(l)
                    /\ Given(taken[e], rio'[e]) <= Len(stream[e])
                    /\ l = SubSeq(stream[e], Given(taken[e], rio[e]) + 1,
                                             Given(taken[e], rio[e]) + Len(l))
                    /\ \A i \in 1 .. Len(l) - 1 :
                          stream[e][Given(taken[e], rio[e]) + i] # LF
                    /\ Len(l) # MaxLine =>
                          stream[e][Given(taken[e], rio[e]) + Len(l)] = LF
              /\ rio'[e].ret \in {"busy", "line"}
<1>. DEFINE s == stream[e]
            t == taken[e]
            r == rio[e]
            c == r.buf[r.ptr]
            next == Append(r.line, c)
            ends == LineEnds(Len(r.line), c)
            q == [r EXCEPT !.ptr = @ + 1, !.cnt = @ - 1, !.line = next,
                           !.ret = IF ends THEN "line" ELSE "busy"]
            p == Given(t, r)
            k == Unread(r)
<1>1. s \in Seq(Byte) /\ t \in Nat /\ r \in Reader
  BY DEF IInv, RioTypeOK
<1>2. /\ r.buf \in Seq(Byte) /\ r.ptr \in Nat /\ r.line \in Seq(Byte)
      /\ k \in Nat /\ k > 0 /\ r.cnt = k /\ p \in Int
  BY <1>1, Fields DEF Take
<1>3. At(s, t, k, p, r.buf, r.ptr, r.line, "busy")
  <2>1. r.ret = "busy"
    BY DEF Take, Reading
  <2>. QED
    BY <2>1 DEF IInv, EndOK
<1>4. p \in Nat
  BY <1>2, <1>3 DEF At
<1>5. /\ c \in Byte /\ next \in Seq(Byte) /\ Len(next) = Len(r.line) + 1
      /\ next = SubSeq(s, p + 1, p + Len(next))
      /\ p + Len(next) = t - (k - 1) /\ t - (k - 1) <= Len(s)
      /\ \A i \in 1 .. Len(r.line) : s[p + i] # LF
      /\ s[p + Len(next)] = c
      /\ ~ends => At(s, t, k - 1, p, r.buf, r.ptr + 1, next, "busy")
      /\ At(s, t, k - 1, p + Len(next), r.buf, r.ptr + 1, next, "line")
  <2>1. Took(s, t, k, p, r.buf, r.ptr, r.line)
    <3>. DEFINE buf == r.buf
                ptr == r.ptr
                line == r.line
    <3>1. buf \in Seq(Byte) /\ ptr \in Nat /\ line \in Seq(Byte)
      BY <1>2
    <3>2. At(s, t, k, p, buf, ptr, line, "busy")
      BY <1>3
    <3>. HIDE DEF s, t, r, p, k, buf, ptr, line
    <3>3. Took(s, t, k, p, buf, ptr, line)
      BY <1>1, <1>2, <1>4, <3>1, <3>2, OneByte
    <3>. QED
      BY <3>3 DEF buf, ptr, line
  <2>2. Len(next) = Len(r.line) + 1
    BY <2>1 DEF Took
  <2>. HIDE DEF s, t, r, p, k
  <2>. QED
    BY <2>1, <2>2 DEF Took
<1>6. /\ q \in Reader /\ q.buf = r.buf /\ q.ptr = r.ptr + 1 /\ q.cnt = k - 1
      /\ q.line = next /\ q.ret = IF ends THEN "line" ELSE "busy"
  <2>1. (IF ends THEN "line" ELSE "busy") \in Results
    BY DEF Results
  <2>2. r.ptr + 1 \in Nat /\ r.cnt - 1 \in Int
    BY <1>2
  <2>. HIDE DEF next, ends, k
  <2>. QED
    BY <1>1, <1>2, <1>5, <2>1, <2>2 DEF Reader
<1>7. rio' = [rio EXCEPT ![e] = q] /\ taken' = [taken EXCEPT ![e] = t]
  BY DEF Take, IInv, RioTypeOK
<1>8. Unread(q) = k - 1
  BY <1>2, <1>6 DEF Unread
<1>9. Len(r.line) \in Nat /\ Len(r.line) < MaxLine
  BY <1>2, <1>3 DEF At
<1>. HIDE DEF s, t, r, c, next, ends, q, p, k
<1>10. CASE ends
  <2>1. q.ret = "line"
    BY <1>6, <1>10
  <2>2. Given(t, q) = p + Len(next)
    BY <1>1, <1>5, <1>6, <1>8, <2>1, Fields
  <2>3. At(s, t, Unread(q), Given(t, q), q.buf, q.ptr, q.line, "line")
    BY <1>5, <1>6, <1>8, <2>2
  <2>4. At(stream[e], t, Unread(q), Given(t, q), q.buf, q.ptr, q.line, q.ret)
    BY <2>1, <2>3 DEF s
  <2>5. IInv'
    BY <1>1, <1>6, <1>7, <2>4, ReaderStep DEF Take
  <2>6. Len(next) \in 1 .. MaxLine
    BY <1>5, <1>9, SizesAssumption DEF SizesAssumption
  <2>7. \A i \in 1 .. Len(next) - 1 : s[p + i] # LF
    BY <1>5, <1>9
  <2>8. Len(next) # MaxLine => c = LF
    BY <1>5, <1>10 DEF LineEnds, ends
  <2>9. rio'[e] = q
    BY <1>7 DEF IInv, RioTypeOK
  <2>. QED
    BY <1>5, <1>6, <2>1, <2>2, <2>5, <2>6, <2>7, <2>8, <2>9 DEF s, t, r, p
<1>11. CASE ~ends
  <2>1. q.ret = "busy"
    BY <1>6, <1>11
  <2>2. Given(t, q) = p
    <3>1. Given(t, q) = t - (k - 1) - Len(next)
      BY <1>1, <1>6, <1>8, <2>1, Fields
    <3>2. Len(next) \in Nat
      BY <1>5
    <3>3. p + Len(next) = t - (k - 1)
      BY <1>5
    <3>4. t \in Nat /\ k \in Nat /\ p \in Nat
      BY <1>1, <1>2, <1>4
    <3>. QED
      BY <3>1, <3>2, <3>3, <3>4
  <2>3. At(s, t, Unread(q), Given(t, q), q.buf, q.ptr, q.line, "busy")
    BY <1>5, <1>6, <1>8, <1>11, <2>2
  <2>4. At(stream[e], t, Unread(q), Given(t, q), q.buf, q.ptr, q.line, q.ret)
    BY <2>1, <2>3 DEF s
  <2>5. IInv'
    BY <1>1, <1>6, <1>7, <2>4, ReaderStep DEF Take
  <2>6. rio'[e] = q
    BY <1>7 DEF IInv, RioTypeOK
  <2>. QED
    BY <2>1, <2>2, <2>5, <2>6 DEF t, r, p
<1>. QED
  BY <1>10, <1>11

LEMMA RefillInv ==
    ASSUME IInv, NEW e \in Ends, Refill(e)
    PROVE  /\ IInv'
           /\ Given(taken'[e], rio'[e]) = Given(taken[e], rio[e])
           /\ rio'[e].ret = "busy"
<1>. DEFINE s == stream[e]
            t == taken[e]
            r == rio[e]
            p == Given(t, r)
<1>1. s \in Seq(Byte) /\ t \in Nat /\ r \in Reader
  BY DEF IInv, RioTypeOK
<1>2. PICK n \in 1 .. BufSize :
        /\ t + n <= Len(s)
        /\ rio' = [rio EXCEPT ![e] = Refilled(@, SubSeq(s, t + 1, t + n))]
        /\ taken' = [taken EXCEPT ![e] = @ + n]
  BY DEF Refill
<1>. DEFINE bytes == SubSeq(s, t + 1, t + n)
            q == Refilled(r, bytes)
<1>3. n \in Nat /\ n > 0
  BY SizesAssumption DEF SizesAssumption
<1>4. /\ r.ret = "busy" /\ Unread(r) = 0
      /\ r.buf \in Seq(Byte) /\ r.ptr \in Nat /\ r.line \in Seq(Byte) /\ p \in Int
  BY <1>1, Fields DEF Refill, Reads, Reading
<1>5. At(s, t, 0, p, r.buf, r.ptr, r.line, "busy")
  BY <1>4 DEF IInv, EndOK
<1>6. p \in Nat
  BY <1>4, <1>5 DEF At
<1>7. bytes \in Seq(Byte) /\ Len(bytes) = n /\ At(s, t + n, n, p, bytes, 1, r.line, "busy")
  <2>. DEFINE line == r.line
              buf == r.buf
              ptr == r.ptr
  <2>1. line \in Seq(Byte) /\ At(s, t, 0, p, buf, ptr, line, "busy")
    BY <1>4, <1>5
  <2>. HIDE DEF s, t, p, line, buf, ptr
  <2>2. s \in Seq(Byte) /\ t \in Nat /\ t + n <= Len(s) /\ p \in Nat
    BY <1>1, <1>2, <1>6 DEF s, t, p
  <2>3. bytes \in Seq(Byte) /\ Len(bytes) = n /\ \A i \in 1 .. n : bytes[i] = s[t + i]
    BY <1>3, <2>2, PartTyped DEF s, t
  <2>. HIDE DEF bytes
  <2>4. ASSUME NEW i \in 1 .. n PROVE bytes[1 + i - 1] = s[(t + n) - n + i]
    <3>1. 1 + i - 1 = i /\ (t + n) - n + i = t + i
      BY <1>3, <2>2
    <3>. QED
      BY <2>3, <3>1
  <2>5. /\ p + Len(line) = t - 0 /\ Len(line) < MaxLine /\ Len(line) \in Nat
        /\ \A i \in 1 .. Len(line) : line[i] # LF /\ line[i] = s[p + i]
    <3>1. Len(line) \in Nat
      BY <2>1
    <3>2. At(s, t, 0, p, buf, ptr, line, "busy")
      BY <2>1
    <3>. QED
      BY <3>1, <3>2, Zenon DEF At
  <2>6. p + Len(line) = (t + n) - n /\ p + n <= t + n /\ 1 + n - 1 <= Len(bytes)
    <3>1. ASSUME NEW l \in Nat, p + l = t - 0
          PROVE  p + l = (t + n) - n /\ p + n <= t + n
      BY <1>3, <2>2, <3>1
    <3>2. Len(bytes) = n /\ 1 + n - 1 = n
      BY <1>3, <2>3
    <3>. QED
      BY <1>3, <2>5, <3>1, <3>2
  <2>7. At(s, t + n, n, p, bytes, 1, line, "busy")
    BY <1>3, <2>2, <2>4, <2>5, <2>6 DEF At
  <2>. QED
    BY <2>3, <2>7 DEF line
<1>8. /\ q \in Reader /\ q.buf = bytes /\ q.ptr = 1 /\ q.cnt = n /\ q.line = r.line
      /\ q.ret = "busy"
  <2>1. 1 \in Nat /\ n \in Int
    BY <1>3
  <2>2. r.ret \in Results
    BY <1>1, Fields
  <2>. HIDE DEF s, t, r, p, bytes
  <2>. QED
    BY <1>1, <1>4, <1>7, <2>1, <2>2 DEF Refilled, Reader
<1>9. rio' = [rio EXCEPT ![e] = q] /\ taken' = [taken EXCEPT ![e] = t + n]
  BY <1>2
<1>10. rio'[e] = q /\ taken'[e] = t + n
  BY <1>9 DEF IInv, RioTypeOK
<1>11. UNCHANGED <<stream, closed, unsent>>
  BY DEF Refill
<1>. HIDE DEF s, t, r, p, bytes, q
<1>12. Unread(q) = n /\ Given(t + n, q) = p
  <2>1. t + n \in Nat
    BY <1>1, <1>3
  <2>2. Unread(q) = n
    BY <1>3, <1>8 DEF Unread
  <2>3. Given(t + n, q) = (t + n) - Unread(q) - Len(q.line)
    BY <1>8, <2>1, Fields
  <2>4. p + Len(r.line) = t - 0 /\ Len(r.line) \in Nat
    BY <1>4, <1>5 DEF At
  <2>5. ASSUME NEW l \in Nat, p + l = t - 0
        PROVE  (t + n) - n - l = p
    BY <1>1, <1>3, <1>6, <2>5
  <2>6. Len(q.line) = Len(r.line)
    BY <1>8
  <2>. QED
    BY <2>2, <2>3, <2>4, <2>5, <2>6
<1>13. At(stream[e], t + n, Unread(q), Given(t + n, q), q.buf, q.ptr, q.line, q.ret)
  BY <1>7, <1>8, <1>12 DEF s
<1>14. t + n \in Nat
  BY <1>1, <1>3
<1>15. IInv'
  BY <1>8, <1>9, <1>11, <1>13, <1>14, ReaderStep
<1>. QED
  BY <1>8, <1>10, <1>12, <1>15 DEF p, r, t

\* What a read() that brings nothing leaves end e with, when its result is v.
NoBytes(e, v) ==
    /\ rio[e].ret = "busy" /\ rio[e].line \in Seq(Byte)
    /\ rio'[e].ret = v /\ rio'[e].line = rio[e].line
    /\ LET p == Given(taken[e], rio[e]) IN
       /\ p \in Nat /\ p + Len(rio[e].line) = taken[e]
       /\ Len(rio[e].line) < MaxLine
       /\ \A i \in 1 .. Len(rio[e].line) :
             rio[e].line[i] # LF /\ rio[e].line[i] = stream[e][p + i]
       /\ Given(taken[e], rio'[e]) = IF v \in {"busy", "error"} THEN p ELSE taken[e]

\* A read() that brings nothing, for a reader whose line is under way.
LEMMA NothingRead ==
    ASSUME IInv, NEW e \in Ends, Reads(e), NEW c \in Int, c <= 0, NEW v \in Results,
           rio' = [rio EXCEPT ![e].cnt = c, ![e].ret = v],
           UNCHANGED <<stream, closed, taken, unsent>>
    PROVE  IInv' /\ NoBytes(e, v)
<1>. DEFINE s == stream[e]
            t == taken[e]
            r == rio[e]
            l == r.line
            p == Given(t, r)
            q == [r EXCEPT !.cnt = c, !.ret = v]
<1>1. s \in Seq(Byte) /\ t \in Nat /\ r \in Reader
  BY DEF IInv, RioTypeOK
<1>2. /\ r.ret = "busy" /\ Unread(r) = 0
      /\ r.buf \in Seq(Byte) /\ r.ptr \in Nat /\ l \in Seq(Byte) /\ p \in Int
  BY <1>1, Fields DEF Reads, Reading
<1>3. At(s, t, 0, p, r.buf, r.ptr, l, "busy")
  BY <1>2 DEF IInv, EndOK
<1>4. /\ q \in Reader /\ q.buf = r.buf /\ q.ptr = r.ptr /\ q.cnt = c /\ q.line = l
      /\ q.ret = v
  <2>. HIDE DEF r
  <2>. QED
    BY <1>1, <1>2 DEF Reader
<1>5. rio' = [rio EXCEPT ![e] = q] /\ taken' = [taken EXCEPT ![e] = t]
  BY DEF IInv, RioTypeOK
<1>6. rio'[e] = q
  BY <1>5 DEF IInv, RioTypeOK
<1>. HIDE DEF s, t, r, l, p, q
<1>7. Len(l) \in Nat
  BY <1>2
<1>8. p + Len(l) = t /\ Len(l) < MaxLine /\ t <= Len(s) /\ 0 <= p
  <2>1. p + Len(l) = t - 0 /\ Len(l) < MaxLine /\ t <= Len(s) /\ 0 <= p
    BY <1>3, Zenon DEF At
  <2>. QED
    BY <1>1, <2>1
<1>9. \A i \in 1 .. Len(l) : l[i] # LF /\ l[i] = s[p + i]
  BY <1>3, Zenon DEF At
<1>10. p \in Nat
  BY <1>2, <1>8
<1>11. Unread(q) = 0
  BY <1>4 DEF Unread
<1>12. Given(t, q) = IF v \in {"busy", "error"} THEN p ELSE t
  <2>1. CASE v \in {"busy", "error"}
    <3>1. Given(t, q) = t - Unread(q) - Len(l)
      BY <1>1, <1>4, <2>1, Fields
    <3>. QED
      BY <1>1, <1>7, <1>8, <1>10, <1>11, <2>1, <3>1
  <2>2. CASE v \notin {"busy", "error"}
    <3>1. Given(t, q) = t - Unread(q)
      BY <1>1, <1>4, <2>2, Fields
    <3>. QED
      BY <1>1, <1>11, <2>2, <3>1
  <2>. QED
    BY <2>1, <2>2
<1>13. At(s, t, 0, Given(t, q), q.buf, q.ptr, l, v)
  <2>1. CASE v = "busy"
    BY <1>3, <1>4, <1>12, <2>1
  <2>2. CASE v # "busy"
    <3>1. Given(t, q) \in {p, t}
      BY <1>12
    <3>2. 0 <= Given(t, q) /\ Given(t, q) + 0 <= t
      BY <1>1, <1>7, <1>8, <1>10, <3>1
    <3>. QED
      BY <1>8, <2>2, <3>2 DEF At
  <2>. QED
    BY <2>1, <2>2
<1>14. IInv'
  <2>1. At(stream[e], t, Unread(q), Given(t, q), q.buf, q.ptr, q.line, q.ret)
    BY <1>4, <1>11, <1>13 DEF s
  <2>. QED
    BY <1>1, <1>4, <1>5, <2>1, ReaderStep
<1>. QED
  BY <1>2, <1>4, <1>6, <1>8, <1>9, <1>10, <1>12, <1>14 DEF s, t, r, l, p, NoBytes

LEMMA InterruptedInv ==
    ASSUME IInv, NEW e \in Ends, Interrupted(e)
    PROVE  /\ IInv'
           /\ Given(taken[e], rio'[e]) = Given(taken[e], rio[e])
           /\ rio'[e].ret = "busy"
<1>1. "busy" \in Results /\ -1 \in Int /\ -1 <= 0
  BY DEF Results
<1>2. /\ Reads(e) /\ rio[e].ret = "busy"
      /\ rio' = [rio EXCEPT ![e].cnt = -1]
      /\ UNCHANGED <<stream, closed, taken, unsent>>
  BY DEF Interrupted, Reads, Reading
<1>3. rio' = [rio EXCEPT ![e].cnt = -1, ![e].ret = "busy"]
  <2>1. rio[e] \in Reader
    BY DEF IInv, RioTypeOK
  <2>2. [rio[e] EXCEPT !.cnt = -1] = [rio[e] EXCEPT !.cnt = -1, !.ret = "busy"]
    BY <1>2, <2>1 DEF Reader
  <2>. QED
    BY <1>2, <2>2
<1>4. IInv' /\ NoBytes(e, "busy")
  BY <1>1, <1>2, <1>3, NothingRead
<1>. QED
  BY <1>4 DEF NoBytes

LEMMA ReadFailsInv ==
    ASSUME IInv, NEW e \in Ends, ReadFails(e)
    PROVE  /\ IInv'
           /\ Given(taken[e], rio'[e]) = Given(taken[e], rio[e])
           /\ rio[e].ret = "busy" /\ rio'[e].ret = "error"
<1>. DEFINE v == "error"
            c == -1
<1>1. v \in Results /\ c \in Int /\ c <= 0 /\ v \in {"busy", "error"}
  BY DEF Results
<1>2. /\ Reads(e)
      /\ rio' = [rio EXCEPT ![e].cnt = c, ![e].ret = v]
      /\ UNCHANGED <<stream, closed, taken, unsent>>
  BY DEF ReadFails
<1>. HIDE DEF v, c
<1>3. IInv' /\ NoBytes(e, v)
  BY <1>1, <1>2, NothingRead
<1>. QED
  BY <1>1, <1>3 DEF v, NoBytes

LEMMA EofInv ==
    ASSUME IInv, NEW e \in Ends, Eof(e)
    PROVE  /\ IInv'
           /\ LET p == Given(taken[e], rio[e])
                  l == rio[e].line
              IN
              /\ rio[e].ret = "busy" /\ closed[e]
              /\ p \in Nat /\ l \in Seq(Byte) /\ p + Len(l) = Len(stream[e])
              /\ Len(l) < MaxLine
              /\ \A i \in 1 .. Len(l) : l[i] # LF /\ l[i] = stream[e][p + i]
              /\ Given(taken[e], rio'[e]) = Len(stream[e])
              /\ rio'[e].line = l /\ rio'[e].ret = AtEof(l)
<1>. DEFINE v == AtEof(rio[e].line)
<1>1. v \in Results /\ v \notin {"busy", "error"}
  BY DEF AtEof, Results
<1>2. /\ Reads(e) /\ closed[e] /\ taken[e] = Len(stream[e])
      /\ rio' = [rio EXCEPT ![e].cnt = 0, ![e].ret = v]
      /\ UNCHANGED <<stream, closed, taken, unsent>>
  BY DEF Eof
<1>3. 0 \in Int /\ 0 <= 0
  OBVIOUS
<1>. HIDE DEF v
<1>4. IInv' /\ NoBytes(e, v)
  BY <1>1, <1>2, <1>3, NothingRead
<1>. QED
  BY <1>1, <1>2, <1>4 DEF v, NoBytes

LEMMA BeginWriteInv ==
    ASSUME IInv, NEW e \in Ends, NEW bytes \in Seq(Byte), BeginWrite(e, bytes)
    PROVE  IInv'
<1>1. UNCHANGED <<stream, closed, taken, rio>>
  BY DEF BeginWrite
<1>2. RioTypeOK'
  BY <1>1 DEF IInv, RioTypeOK, BeginWrite
<1>3. \A f \in Ends : EndOK(f)'
  BY <1>1 DEF IInv, EndOK
<1>. QED
  BY <1>2, <1>3 DEF IInv

\* Close changes neither what was sent nor any reader.
LEMMA CloseInv ==
    ASSUME IInv, NEW e \in Ends, Close(e)
    PROVE  IInv'
<1>1. UNCHANGED <<stream, taken, rio>>
  BY DEF Close
<1>2. RioTypeOK'
  <2>1. closed' \in [Ends -> BOOLEAN]
    BY Zenon DEF IInv, RioTypeOK, Close
  <2>2. unsent' \in [Ends -> Seq(Byte)]
    BY DEF IInv, RioTypeOK, Close
  <2>. QED
    BY <1>1, <2>1, <2>2 DEF IInv, RioTypeOK
<1>3. \A f \in Ends : EndOK(f)'
  BY <1>1 DEF IInv, EndOK
<1>. QED
  BY <1>2, <1>3 DEF IInv

LEMMA WriteInv ==
    ASSUME IInv, NEW e \in Ends, Write(e)
    PROVE  /\ IInv'
           /\ ~closed[Peer[e]]
           /\ \A f \in Ends :
                \/ stream'[f] = stream[f]
                \/ /\ f = Peer[e] /\ Len(stream[f]) < Len(stream'[f])
                   /\ SubSeq(stream'[f], 1, Len(stream[f])) = stream[f]
<1>. DEFINE g == Peer[e]
            s == stream[g]
            w == unsent[e]
<1>1. g \in Ends /\ s \in Seq(Byte) /\ w \in Seq(Byte)
  BY EndsAssumption DEF EndsAssumption, IInv, RioTypeOK
<1>2. PICK k \in 1 .. Len(w) :
        /\ stream' = [stream EXCEPT ![g] = @ \o SubSeq(w, 1, k)]
        /\ unsent' = [unsent EXCEPT ![e] = Left(e, k)]
  BY Zenon DEF Write
<1>. DEFINE x == SubSeq(w, 1, k)
            u == s \o x
<1>3. x \in Seq(Byte) /\ Len(x) = k /\ k \in Nat /\ k > 0
  <2>. HIDE DEF w
  <2>1. 0 + k <= Len(w) /\ 0 \in Nat /\ k \in Nat /\ k > 0
    BY <1>1
  <2>2. SubSeq(w, 0 + 1, 0 + k) \in Seq(Byte) /\ Len(SubSeq(w, 0 + 1, 0 + k)) = k
    BY <1>1, <2>1, PartTyped
  <2>3. 0 + 1 = 1 /\ 0 + k = k
    BY <2>1
  <2>. QED
    BY <2>1, <2>2, <2>3
<1>4. /\ u \in Seq(Byte) /\ Len(u) = Len(s) + k
      /\ \A i \in 1 .. Len(s) : u[i] = s[i]
  <2>. HIDE DEF s, x
  <2>. QED
    BY <1>1, <1>3
<1>5. Left(e, k) \in Seq(Byte)
  <2>1. Left(e, k) = SubSeq(w, k + 1, Len(w))
    BY DEF Left
  <2>. HIDE DEF w
  <2>2. \A i \in k + 1 .. Len(w) : w[i] \in Byte
    BY <1>1, <1>3
  <2>. QED
    BY <1>1, <1>3, <2>1, <2>2, SubSeqProperties
<1>6. stream' = [stream EXCEPT ![g] = u] /\ UNCHANGED <<closed, taken, rio>>
      /\ ~closed[g]
  BY <1>2 DEF Write
<1>. HIDE DEF s, w, x, u, g
<1>7. RioTypeOK'
  <2>1. stream' \in [Ends -> Seq(Byte)]
    BY <1>4, <1>6 DEF IInv, RioTypeOK
  <2>2. unsent' \in [Ends -> Seq(Byte)]
    BY <1>2, <1>5 DEF IInv, RioTypeOK
  <2>. QED
    BY <1>6, <2>1, <2>2 DEF IInv, RioTypeOK
<1>8. stream'[g] = u /\ \A f \in Ends : f # g => stream'[f] = stream[f]
  BY <1>1, <1>6 DEF IInv, RioTypeOK
<1>9. Len(s) \in Nat
  BY <1>1
<1>10. Len(s) < Len(u)
  BY <1>3, <1>4, <1>9
<1>11. ASSUME NEW f \in Ends PROVE EndOK(f)'
  <2>1. rio'[f] = rio[f] /\ taken'[f] = taken[f]
    BY <1>6
  <2>2. /\ Len(stream[f]) <= Len(stream'[f])
        /\ \A i \in 1 .. Len(stream[f]) : stream'[f][i] = stream[f][i]
    <3>1. CASE f = g
      BY <1>4, <1>8, <1>9, <1>10, <3>1 DEF s
    <3>2. CASE f # g
      <4>1. stream'[f] = stream[f] /\ Len(stream[f]) \in Nat
        BY <1>8, <3>2 DEF IInv, RioTypeOK
      <4>. QED
        BY <4>1
    <3>. QED
      BY <3>1, <3>2
  <2>. QED
    BY <1>7, <2>1, <2>2, Frame
<1>12. SubSeq(u, 1, Len(s)) = s
  <2>1. 0 \in Nat /\ 0 + Len(s) <= Len(u) /\ 0 + Len(s) = Len(s) /\ 0 + 1 = 1
    BY <1>3, <1>4, <1>9
  <2>2. /\ SubSeq(u, 0 + 1, 0 + Len(s)) \in Seq(Byte)
        /\ Len(SubSeq(u, 0 + 1, 0 + Len(s))) = Len(s)
        /\ \A i \in 1 .. Len(s) : SubSeq(u, 0 + 1, 0 + Len(s))[i] = u[0 + i]
    BY <1>4, <1>9, <2>1, PartTyped
  <2>3. \A i \in 1 .. Len(s) : SubSeq(u, 1, Len(s))[i] = s[i]
    <3>. SUFFICES ASSUME NEW i \in 1 .. Len(s) PROVE SubSeq(u, 1, Len(s))[i] = s[i]
      OBVIOUS
    <3>1. 0 + i = i
      BY <1>9
    <3>. QED
      BY <1>4, <2>1, <2>2, <3>1
  <2>. QED
    BY <1>1, <2>1, <2>2, <2>3, SeqEqual
<1>. QED
  BY <1>6, <1>7, <1>8, <1>10, <1>11, <1>12 DEF IInv, s, g

LEMMA StutterInv == IInv /\ UNCHANGED vars => IInv'
  BY DEF IInv, RioTypeOK, EndOK, vars

LEMMA NextInv == IInv /\ [RioNext]_vars => IInv'
<1>. SUFFICES ASSUME IInv, [RioNext]_vars PROVE IInv'
  OBVIOUS
<1>1. CASE UNCHANGED vars
  BY <1>1, StutterInv
<1>2. CASE RioNext
  <2>. PICK e \in Ends :
        \/ Call(e) \/ Take(e) \/ Refill(e) \/ Interrupted(e) \/ Eof(e) \/ ReadFails(e)
        \/ (\E bytes \in Seq(Byte) : BeginWrite(e, bytes)) \/ Write(e) \/ Close(e)
    BY <1>2 DEF RioNext
  <2>1. CASE Call(e)
    BY <2>1, CallInv
  <2>2. CASE Take(e)
    BY <2>2, TakeInv
  <2>3. CASE Refill(e)
    BY <2>3, RefillInv
  <2>4. CASE Interrupted(e)
    BY <2>4, InterruptedInv
  <2>5. CASE Eof(e)
    BY <2>5, EofInv
  <2>6. CASE ReadFails(e)
    BY <2>6, ReadFailsInv
  <2>7. CASE \E bytes \in Seq(Byte) : BeginWrite(e, bytes)
    BY <2>7, BeginWriteInv
  <2>8. CASE Write(e)
    BY <2>8, WriteInv
  <2>9. CASE Close(e)
    BY <2>9, CloseInv
  <2>. QED
    BY <2>1, <2>2, <2>3, <2>4, <2>5, <2>6, <2>7, <2>8, <2>9
<1>. QED
  BY <1>1, <1>2

\* The bytes and the counters of both ends keep their types, and rio_bufptr
\* stays in rio_buf while rio_cnt is positive (rio_readb).
THEOREM RioInvariant == RioSpec => []IInv
  BY InitInv, NextInv, PTL DEF RioSpec

\* rio_readlineb and rio_readb lose, repeat and reorder no byte, for every
\* RIO_BUFSIZE and MAXLINE and however read() cuts the stream.
THEOREM BytesConserved == RioSpec => []Conserved
  BY RioInvariant, IInvConserved, PTL

----------------------------------------------------------------------------
(* The refinement: every step of Rio is a step of LineStream, or a stutter.*)

\* What LineStream sees of a step that makes q of the reader of end e.
SeenAs(e, q, t) ==
    /\ Position' = [Position EXCEPT ![e] = Given(t, q)]
    /\ Answers' = [Answers EXCEPT ![e] = AnswerOf(q)]
    /\ Position[e] = Given(taken[e], rio[e])
    /\ Answers[e] = AnswerOf(rio[e])
    /\ rio'[e] = q /\ taken'[e] = t

LEMMA Seen ==
    ASSUME IInv, NEW e \in Ends, NEW q, NEW t,
           rio' = [rio EXCEPT ![e] = q], taken' = [taken EXCEPT ![e] = t]
    PROVE  SeenAs(e, q, t)
<1>1. /\ rio'[e] = q /\ taken'[e] = t
      /\ \A f \in Ends : f # e => rio'[f] = rio[f] /\ taken'[f] = taken[f]
  BY DEF IInv, RioTypeOK
<1>2. Position' = [Position EXCEPT ![e] = Given(t, q)]
  <2>. DEFINE G(f) == Given(taken[f], rio[f])
              H(f) == Given(taken'[f], rio'[f])
  <2>1. H(e) = Given(t, q) /\ \A f \in Ends : f # e => H(f) = G(f)
    BY <1>1
  <2>2. Position = [f \in Ends |-> G(f)] /\ Position' = [f \in Ends |-> H(f)]
    BY DEF Position
  <2>. HIDE DEF G, H
  <2>. QED
    BY <2>1, <2>2
<1>3. Answers' = [Answers EXCEPT ![e] = AnswerOf(q)]
  <2>. DEFINE G(f) == AnswerOf(rio[f])
              H(f) == AnswerOf(rio'[f])
  <2>1. H(e) = AnswerOf(q) /\ \A f \in Ends : f # e => H(f) = G(f)
    BY <1>1
  <2>2. Answers = [f \in Ends |-> G(f)] /\ Answers' = [f \in Ends |-> H(f)]
    BY DEF Answers
  <2>. HIDE DEF G, H
  <2>. QED
    BY <2>1, <2>2
<1>. QED
  BY <1>1, <1>2, <1>3 DEF SeenAs, Position, Answers

\* A reader's step that changes neither its position nor its answer.
LEMMA Unseen ==
    ASSUME IInv, NEW e \in Ends, NEW q, NEW t,
           rio' = [rio EXCEPT ![e] = q], taken' = [taken EXCEPT ![e] = t],
           UNCHANGED <<stream, closed>>,
           Given(t, q) = Given(taken[e], rio[e]), AnswerOf(q) = AnswerOf(rio[e])
    PROVE  UNCHANGED Lines!vars
<1>1. /\ Position' = [Position EXCEPT ![e] = Position[e]]
      /\ Answers' = [Answers EXCEPT ![e] = Answers[e]]
  <2>1. SeenAs(e, q, t)
    BY Seen
  <2>. QED
    BY <2>1 DEF SeenAs
<1>2. Position' = Position /\ Answers' = Answers
  BY <1>1 DEF Position, Answers
<1>. QED
  BY <1>2 DEF Lines!vars

LEMMA CallSeen ==
    ASSUME IInv, NEW e \in Ends, Call(e)
    PROVE  Lines!Ask(e)
<1>. DEFINE r == rio[e]
            q == [r EXCEPT !.line = <<>>, !.ret = "busy"]
<1>1. r \in Reader /\ taken[e] \in Nat
  BY DEF IInv, RioTypeOK
<1>2. rio' = [rio EXCEPT ![e] = q] /\ taken' = [taken EXCEPT ![e] = taken[e]]
  BY DEF Call, IInv, RioTypeOK
<1>3. q \in Reader /\ q.line = <<>> /\ q.ret = "busy" /\ q.cnt = r.cnt
  <2>1. <<>> \in Seq(Byte) /\ "busy" \in Results
    BY DEF Results
  <2>. HIDE DEF r
  <2>. QED
    BY <1>1, <2>1 DEF Reader
<1>4. Given(taken[e], q) = Given(taken[e], r)
  <2>1. Unread(q) = Unread(r)
    BY <1>3 DEF Unread
  <2>2. Given(taken[e], r) = taken[e] - Unread(r)
    BY <1>1, Fields DEF Call
  <2>3. Given(taken[e], q) = taken[e] - Unread(q) - 0
    BY <1>1, <1>3, Fields
  <2>4. taken[e] \in Nat /\ Unread(r) \in Nat
    BY <1>1, Fields
  <2>. QED
    BY <2>1, <2>2, <2>3, <2>4
<1>5. AnswerOf(q) = [ret |-> "busy", line |-> <<>>] /\ AnswerOf(r).ret = r.ret
  BY <1>3 DEF AnswerOf
<1>6. r.ret \notin {"busy", "error"} /\ UNCHANGED <<stream, closed>>
  BY DEF Call
<1>. HIDE DEF q
<1>7. /\ Position' = [Position EXCEPT ![e] = Position[e]]
      /\ Answers' = [Answers EXCEPT ![e] = AnswerOf(q)]
      /\ Answers[e] = AnswerOf(r)
  <2>1. SeenAs(e, q, taken[e])
    BY <1>2, Seen
  <2>. QED
    BY <1>4, <2>1 DEF SeenAs
<1>8. Position' = Position
  BY <1>7 DEF Position
<1>. QED
  BY <1>5, <1>6, <1>7, <1>8 DEF Lines!Ask, Lines!Answer

\* The reader has a line of n bytes, the next of the stream.
LEMMA Delivers ==
    ASSUME NEW e \in Ends, NEW q, NEW t, SeenAs(e, q, t), NEW n \in 1 .. MaxLine,
           rio[e].ret = "busy", q.ret = "line", UNCHANGED <<stream, closed>>,
           NEW p, p = Given(taken[e], rio[e]), Given(t, q) = p + n, p + n <= Len(stream[e]),
           q.line = SubSeq(stream[e], p + 1, p + n),
           \A i \in 1 .. n - 1 : stream[e][p + i] # LF,
           \/ stream[e][p + n] = LF
           \/ n = MaxLine
           \/ closed[e] /\ p + n = Len(stream[e])
    PROVE  Lines!Deliver(e)
<1>1. Position[e] = p /\ Answers[e].ret = "busy"
  BY DEF SeenAs, AnswerOf
<1>2. Lines!IsNextLine(e, n)
  BY <1>1 DEF Lines!IsNextLine
<1>3. Position' = [Position EXCEPT ![e] = Position[e] + n]
  BY <1>1 DEF SeenAs
<1>4. Answers' = [Answers EXCEPT ![e] =
            Lines!Answer("line", SubSeq(stream[e], Position[e] + 1, Position[e] + n))]
  BY <1>1 DEF SeenAs, AnswerOf, Lines!Answer
<1>. QED
  BY <1>1, <1>2, <1>3, <1>4 DEF Lines!Deliver

\* A byte taken is not seen; one that ends the line delivers it.
LEMMA TakeSeen ==
    ASSUME IInv, NEW e \in Ends, Take(e)
    PROVE  Lines!Deliver(e) \/ UNCHANGED Lines!vars
<1>. DEFINE s == stream[e]
            t == taken[e]
            r == rio[e]
            p == Given(t, r)
            q == rio'[e]
            l == q.line
<1>1. /\ rio' = [rio EXCEPT ![e] = q] /\ taken' = [taken EXCEPT ![e] = t]
      /\ UNCHANGED <<stream, closed>> /\ r.ret = "busy"
  BY DEF Take, Reading, IInv, RioTypeOK
<1>2. /\ q.ret = "busy" => Given(t, q) = p
      /\ q.ret = "line" =>
            /\ Len(l) \in 1 .. MaxLine
            /\ Given(t, q) = p + Len(l) /\ Given(t, q) <= Len(s)
            /\ l = SubSeq(s, p + 1, p + Len(l))
            /\ \A i \in 1 .. Len(l) - 1 : s[p + i] # LF
            /\ Len(l) # MaxLine => s[p + Len(l)] = LF
      /\ q.ret \in {"busy", "line"}
  BY TakeInv
<1>. HIDE DEF q
<1>3. CASE q.ret = "busy"
  <2>1. AnswerOf(q) = AnswerOf(r)
    BY <1>1, <1>3 DEF AnswerOf
  <2>. QED
    BY <1>1, <1>2, <1>3, <2>1, Unseen
<1>4. CASE q.ret = "line"
  <2>. DEFINE n == Len(l)
  <2>1. SeenAs(e, q, t)
    BY <1>1, Seen
  <2>2. /\ n \in 1 .. MaxLine /\ Given(t, q) = p + n /\ p + n <= Len(s)
        /\ l = SubSeq(s, p + 1, p + n)
        /\ \A i \in 1 .. n - 1 : s[p + i] # LF
        /\ s[p + n] = LF \/ n = MaxLine
    BY <1>2, <1>4
  <2>. HIDE DEF n, p
  <2>3. p = Given(taken[e], rio[e])
    BY DEF p
  <2>. QED
    BY <1>1, <1>4, <2>1, <2>2, <2>3, Delivers
<1>. QED
  BY <1>2, <1>3, <1>4

\* No read() that goes on is seen.
LEMMA RefillSeen ==
    ASSUME IInv, NEW e \in Ends, Refill(e)
    PROVE  UNCHANGED Lines!vars
<1>1. /\ rio' = [rio EXCEPT ![e] = rio'[e]] /\ taken' = [taken EXCEPT ![e] = taken'[e]]
      /\ UNCHANGED <<stream, closed>>
  BY DEF Refill, IInv, RioTypeOK
<1>2. Given(taken'[e], rio'[e]) = Given(taken[e], rio[e]) /\ rio'[e].ret = "busy"
  BY RefillInv
<1>3. AnswerOf(rio'[e]) = AnswerOf(rio[e])
  BY <1>2 DEF AnswerOf, Refill, Reads, Reading
<1>. QED
  BY <1>1, <1>2, <1>3, Unseen

LEMMA InterruptedSeen ==
    ASSUME IInv, NEW e \in Ends, Interrupted(e)
    PROVE  UNCHANGED Lines!vars
<1>1. /\ rio' = [rio EXCEPT ![e] = rio'[e]] /\ taken' = [taken EXCEPT ![e] = taken[e]]
      /\ UNCHANGED <<stream, closed>>
  BY DEF Interrupted, IInv, RioTypeOK
<1>2. Given(taken[e], rio'[e]) = Given(taken[e], rio[e]) /\ rio'[e].ret = "busy"
  BY InterruptedInv
<1>3. AnswerOf(rio'[e]) = AnswerOf(rio[e])
  BY <1>2 DEF AnswerOf, Interrupted, Reads, Reading
<1>. QED
  BY <1>1, <1>2, <1>3, Unseen

LEMMA ReadFailsSeen ==
    ASSUME IInv, NEW e \in Ends, ReadFails(e)
    PROVE  Lines!Fail(e)
<1>1. /\ rio' = [rio EXCEPT ![e] = rio'[e]] /\ taken' = [taken EXCEPT ![e] = taken[e]]
      /\ UNCHANGED <<stream, closed>>
  BY DEF ReadFails, IInv, RioTypeOK
<1>2. /\ Given(taken[e], rio'[e]) = Given(taken[e], rio[e])
      /\ rio[e].ret = "busy" /\ rio'[e].ret = "error"
  BY ReadFailsInv
<1>3. SeenAs(e, rio'[e], taken[e])
  BY <1>1, Seen
<1>4. Position' = Position
  BY <1>2, <1>3 DEF SeenAs, Position
<1>5. Answers[e].ret = "busy" /\ Answers' = [Answers EXCEPT ![e] = Lines!Answer("error", <<>>)]
  BY <1>2, <1>3 DEF SeenAs, AnswerOf, Lines!Answer
<1>. QED
  BY <1>1, <1>4, <1>5 DEF Lines!Fail

\* The end of the stream ends the last line, or answers that there is none.
LEMMA EofSeen ==
    ASSUME IInv, NEW e \in Ends, Eof(e)
    PROVE  Lines!Deliver(e) \/ Lines!End(e)
<1>. DEFINE s == stream[e]
            t == taken[e]
            r == rio[e]
            p == Given(t, r)
            q == rio'[e]
            l == r.line
            n == Len(l)
<1>1. /\ rio' = [rio EXCEPT ![e] = q] /\ taken' = [taken EXCEPT ![e] = t]
      /\ UNCHANGED <<stream, closed>>
  BY DEF Eof, IInv, RioTypeOK
<1>2. /\ r.ret = "busy" /\ closed[e]
      /\ p \in Nat /\ l \in Seq(Byte) /\ p + n = Len(s) /\ n < MaxLine
      /\ \A i \in 1 .. n : l[i] # LF /\ l[i] = s[p + i]
      /\ Given(t, q) = Len(s) /\ q.line = l /\ q.ret = AtEof(l)
  BY EofInv
<1>3. SeenAs(e, q, t)
  BY <1>1, Seen
<1>4. s \in Seq(Byte)
  BY DEF IInv, RioTypeOK
<1>. HIDE DEF s, q, p, l
<1>5. CASE l = <<>>
  <2>1. p = Len(s) /\ Given(t, q) = p
    BY <1>2, <1>5
  <2>2. Position[e] = Len(s) /\ Position' = Position
    BY <1>3, <2>1 DEF SeenAs, Position, p
  <2>3. q.ret = "eof"
    BY <1>2, <1>5 DEF AtEof
  <2>4. Answers[e].ret = "busy" /\ Answers' = [Answers EXCEPT ![e] = Lines!Answer("eof", <<>>)]
    BY <1>2, <1>3, <2>3 DEF SeenAs, AnswerOf, Lines!Answer
  <2>. QED
    BY <1>1, <1>2, <2>2, <2>4 DEF Lines!End, s
<1>6. CASE l # <<>>
  <2>1. n \in 1 .. MaxLine
    BY <1>2, <1>6, SizesAssumption DEF SizesAssumption
  <2>2. q.ret = "line"
    BY <1>2, <1>6 DEF AtEof
  <2>3. l = SubSeq(s, p + 1, p + n)
    <3>1. p \in Nat /\ n \in Nat /\ p + n <= Len(s)
      BY <1>2, <1>4
    <3>. HIDE DEF n
    <3>2. /\ SubSeq(s, p + 1, p + n) \in Seq(Byte)
          /\ Len(SubSeq(s, p + 1, p + n)) = n
          /\ \A i \in 1 .. n : SubSeq(s, p + 1, p + n)[i] = s[p + i]
      BY <1>4, <3>1, PartTyped
    <3>. DEFINE x == SubSeq(s, p + 1, p + n)
    <3>3. l \in Seq(Byte) /\ Len(l) = n
      BY <1>2 DEF n
    <3>4. x \in Seq(Byte) /\ Len(x) = n /\ \A i \in 1 .. n : l[i] = x[i]
      BY <1>2, <3>2, <3>3
    <3>. HIDE DEF x
    <3>5. l = x
      BY <3>3, <3>4, SeqEqual
    <3>. QED
      BY <3>5 DEF x
  <2>4. \A i \in 1 .. n - 1 : s[p + i] # LF
    <3>. SUFFICES ASSUME NEW i \in 1 .. n - 1 PROVE s[p + i] # LF
      OBVIOUS
    <3>1. i \in 1 .. n
      BY <2>1
    <3>. QED
      BY <1>2, <3>1
  <2>5. /\ Given(t, q) = p + n /\ p + n <= Len(s)
        /\ closed[e] /\ p + n = Len(s)
    BY <1>2, <1>4
  <2>. HIDE DEF n
  <2>6. /\ p = Given(taken[e], rio[e]) /\ rio[e].ret = "busy"
        /\ q.line = SubSeq(s, p + 1, p + n)
    BY <1>2, <2>3 DEF p
  <2>. QED
    BY <1>1, <1>3, <2>1, <2>2, <2>4, <2>5, <2>6, Delivers DEF s
<1>. QED
  BY <1>5, <1>6

\* What a peer does is the environment's.
LEMMA WriteSeen ==
    ASSUME IInv, NEW e \in Ends, Write(e)
    PROVE  Lines!Environment
<1>1. UNCHANGED <<closed, taken, rio>>
  BY DEF Write
<1>2. Position' = Position /\ Answers' = Answers
  BY <1>1 DEF Position, Answers
<1>3. ~closed[Peer[e]]
  BY WriteInv
<1>4. \A f \in Ends :
        \/ stream'[f] = stream[f]
        \/ /\ f = Peer[e] /\ Len(stream[f]) < Len(stream'[f])
           /\ SubSeq(stream'[f], 1, Len(stream[f])) = stream[f]
  BY WriteInv
<1>. QED
  BY <1>1, <1>2, <1>3, <1>4 DEF Lines!Environment

LEMMA CloseSeen ==
    ASSUME IInv, NEW e \in Ends, Close(e)
    PROVE  Lines!Environment
<1>1. UNCHANGED <<stream, taken, rio>>
  BY DEF Close
<1>2. Position' = Position /\ Answers' = Answers
  BY <1>1 DEF Position, Answers
<1>3. \A f \in Ends : closed[f] => closed'[f]
  BY Zenon DEF Close, IInv, RioTypeOK
<1>. QED
  BY <1>1, <1>2, <1>3 DEF Lines!Environment

LEMMA NextSeen == IInv /\ [RioNext]_vars => [Lines!Next]_(Lines!vars)
<1>. SUFFICES ASSUME IInv, [RioNext]_vars PROVE Lines!Next \/ UNCHANGED Lines!vars
  OBVIOUS
<1>1. ASSUME UNCHANGED <<stream, closed, taken, rio>> PROVE UNCHANGED Lines!vars
  BY <1>1 DEF Lines!vars, Position, Answers
<1>2. CASE UNCHANGED vars
  BY <1>1, <1>2 DEF vars
<1>3. CASE RioNext
  <2>. PICK e \in Ends :
        \/ Call(e) \/ Take(e) \/ Refill(e) \/ Interrupted(e) \/ Eof(e) \/ ReadFails(e)
        \/ (\E bytes \in Seq(Byte) : BeginWrite(e, bytes)) \/ Write(e) \/ Close(e)
    BY <1>3 DEF RioNext
  <2>1. CASE Call(e)
    BY <2>1, CallSeen DEF Lines!Next
  <2>2. CASE Take(e)
    BY <2>2, TakeSeen DEF Lines!Next
  <2>3. CASE Refill(e)
    BY <2>3, RefillSeen
  <2>4. CASE Interrupted(e)
    BY <2>4, InterruptedSeen
  <2>5. CASE Eof(e)
    BY <2>5, EofSeen DEF Lines!Next
  <2>6. CASE ReadFails(e)
    BY <2>6, ReadFailsSeen DEF Lines!Next
  <2>7. CASE \E bytes \in Seq(Byte) : BeginWrite(e, bytes)
    BY <1>1, <2>7 DEF BeginWrite
  <2>8. CASE Write(e)
    BY <2>8, WriteSeen DEF Lines!Next
  <2>9. CASE Close(e)
    BY <2>9, CloseSeen DEF Lines!Next
  <2>. QED
    BY <2>1, <2>2, <2>3, <2>4, <2>5, <2>6, <2>7, <2>8, <2>9
<1>. QED
  BY <1>2, <1>3

LEMMA InitSeen == RioInit => Lines!Init
<1>. SUFFICES ASSUME RioInit PROVE Lines!Init
  OBVIOUS
<1>1. ASSUME NEW e \in Ends
      PROVE  Given(taken[e], rio[e]) = 0 /\ AnswerOf(rio[e]) = Lines!Answer("none", <<>>)
  BY DEF RioInit, Given, Unread, AnswerOf, Lines!Answer
<1>2. Position = [e \in Ends |-> 0] /\ Answers = [e \in Ends |-> Lines!Answer("none", <<>>)]
  BY <1>1, Zenon DEF Position, Answers
<1>. QED
  BY <1>2 DEF RioInit, Lines!Init

\* rio_readlineb answers every call with the next line of the stream, whatever
\* RIO_BUFSIZE and MAXLINE are: the reader implements LineStream.
THEOREM ReaderImplements == RioSpec => ImplementsLineStream
<1>1. RioSpec => [][Lines!Next]_(Lines!vars)
  BY RioInvariant, NextSeen, PTL DEF RioSpec
<1>. QED
  BY <1>1, InitSeen, PTL DEF RioSpec, ImplementsLineStream, Lines!Spec

(***************************************************************************)
(* Server and client.                                                      *)
(***************************************************************************)
SrvOK == {"at", "blank", "file"} = DOMAIN srv /\ srv.file \in Names

\* What is written is bytes.
LEMMA ReplyTyped ==
    ASSUME NEW status \in Byte, NEW body \in Bodies
    PROVE  Reply(status, body) \in Seq(Byte)
<1>1. /\ CR \in Byte /\ LF \in Byte /\ TagLength \in Byte /\ TagCsum \in Byte
      /\ Decimal(Len(body)) \in Byte /\ Decimal(Sum(body)) \in Byte /\ body \in Seq(Byte)
  BY TextIsBytes DEF TextIsBytes
<1>. DEFINE a == Decimal(Len(body))
            b == Decimal(Sum(body))
            head == <<status, CR, LF, TagLength, a, CR, LF, TagCsum, b, CR, LF>>
<1>. HIDE DEF a, b
<1>2. head \in Seq(Byte)
  BY <1>1 DEF a, b
<1>3. Blank \in Seq(Byte)
  BY <1>1 DEF Blank
<1>. HIDE DEF head
<1>4. head \o Blank \o body \in Seq(Byte)
  BY <1>1, <1>2, <1>3
<1>. QED
  BY <1>4 DEF Reply, head, a, b

\* A step of the server is one of its end of the connection, or leaves the
\* connection alone.
LEMMA ServerUsesRio ==
    ASSUME SrvOK, ServerStep
    PROVE  SrvOK' /\ (RioNext \/ UNCHANGED vars)
<1>1. Server \in Ends
  BY EndsNamed DEF EndsNamed
<1>2. /\ OK \in Byte /\ NotFound \in Byte /\ NotImplemented \in Byte
      /\ ErrorText \in Bodies /\ <<>> \in Bodies
      /\ \A f \in DOMAIN Disk : Disk[f] \in Bodies
  BY TextIsBytes DEF TextIsBytes, Bodies
<1>3. ASSUME NEW bytes \in Seq(Byte), BeginWrite(Server, bytes) PROVE RioNext
  BY <1>1, <1>3 DEF RioNext
<1>4. ASSUME Call(Server) \/ Close(Server) PROVE RioNext
  BY <1>1, <1>4 DEF RioNext
<1>5. ASSUME \/ srv' = [srv EXCEPT !.at = "reply"] \/ srv' = [srv EXCEPT !.at = "read"]
             \/ srv' = [srv EXCEPT !.at = "unread"] \/ srv' = [srv EXCEPT !.at = "closed"]
             \/ srv' = [srv EXCEPT !.at = "exited"]
      PROVE  SrvOK'
  BY <1>5 DEF SrvOK
<1>6. CASE ReadLine
  BY <1>4, <1>6 DEF ReadLine, SrvOK
<1>7. CASE AcceptLine
  <2>1. PICK f \in URIs(rio[Server].line), b \in BOOLEAN :
            srv' = [at |-> "header", blank |-> b, file |-> f]
    BY <1>7 DEF AcceptLine
  <2>2. f \in Names
    BY DEF URIs
  <2>3. SrvOK'
    BY <2>1, <2>2 DEF SrvOK
  <2>. QED
    BY <1>4, <1>7, <2>3 DEF AcceptLine
<1>8. CASE RejectLine
  <2>1. ErrorReply(NotImplemented) \in Seq(Byte)
    BY <1>2, ReplyTyped DEF ErrorReply
  <2>. QED
    BY <1>3, <1>5, <1>8, <2>1 DEF RejectLine
<1>9. CASE NextHeader
  <2>1. SrvOK'
    BY <1>9 DEF NextHeader, SrvOK
  <2>. QED
    BY <1>4, <1>9, <2>1 DEF NextHeader
<1>10. CASE EndHeaders
  BY <1>5, <1>10 DEF EndHeaders
<1>11. CASE ReadFile
  <2>1. CASE srv.file = Missing
    <3>1. ErrorReply(NotFound) \in Seq(Byte)
      BY <1>2, ReplyTyped DEF ErrorReply
    <3>. QED
      BY <1>3, <1>5, <1>11, <2>1, <3>1 DEF ReadFile
  <2>2. CASE srv.file # Missing
    <3>1. Disk[srv.file] \in Bodies
      BY <1>2, <2>2 DEF SrvOK, Names
    <3>2. Reply(OK, Disk[srv.file]) \in Seq(Byte)
      BY <1>2, <3>1, ReplyTyped
    <3>. QED
      BY <1>3, <1>5, <1>11, <2>2, <3>2 DEF ReadFile
  <2>. QED
    BY <2>1, <2>2
<1>12. CASE SendEmpty
  <2>1. Reply(OK, <<>>) \in Seq(Byte)
    BY <1>2, ReplyTyped
  <2>. QED
    BY <1>3, <1>5, <1>12, <2>1 DEF SendEmpty
<1>13. CASE Destroy \/ ServerExits
  BY <1>4, <1>5, <1>13 DEF Destroy, ServerExits
<1>14. CASE IO(Server) /\ UNCHANGED <<srv, cl>>
  BY <1>1, <1>14 DEF IO, RioNext, SrvOK
<1>. QED
  BY <1>6, <1>7, <1>8, <1>9, <1>10, <1>11, <1>12, <1>13, <1>14 DEF ServerStep

\* So is a step of the client.
LEMMA ClientUsesRio ==
    ASSUME ClientStep \/ GoesAway
    PROVE  RioNext /\ UNCHANGED srv
<1>1. Client \in Ends
  BY EndsNamed DEF EndsNamed
<1>2. ASSUME Call(Client) \/ Close(Client) \/ IO(Client) PROVE RioNext
  BY <1>1, <1>2 DEF IO, RioNext
<1>3. CASE Send
  <2>1. PICK r \in Requests : BeginWrite(Client, r)
    BY <1>3 DEF Send
  <2>2. r \in Seq(Byte)
    BY TextIsBytes DEF TextIsBytes
  <2>. QED
    BY <1>1, <1>3, <2>1, <2>2 DEF Send, RioNext
<1>4. CASE ReadReply \/ ReadHead \/ ReadBody \/ Finish \/ ClientExits \/ GoesAway
  BY <1>2, <1>4 DEF ReadReply, ReadHead, ReadBody, Finish, ClientExits, GoesAway
<1>5. CASE IO(Client) /\ UNCHANGED <<srv, cl>>
  BY <1>2, <1>5
<1>. QED
  BY <1>3, <1>4, <1>5 DEF ClientStep

\* Server and client of a connection keep to the robust I/O: they do on it
\* only what the functions of common.c let them.
THEOREM HttpUsesRio == HttpSpec => RioSpec
<1>1. HttpInit => RioInit /\ SrvOK
  BY DEF HttpInit, SrvOK, Names
<1>2. SrvOK /\ [HttpNext]_httpVars => SrvOK' /\ [RioNext]_vars
  <2>. SUFFICES ASSUME SrvOK, [HttpNext]_httpVars PROVE SrvOK' /\ [RioNext]_vars
    OBVIOUS
  <2>1. CASE UNCHANGED httpVars
    BY <2>1 DEF httpVars, SrvOK
  <2>2. CASE ServerStep
    BY <2>2, ServerUsesRio
  <2>3. CASE ClientStep \/ GoesAway
    BY <2>3, ClientUsesRio DEF SrvOK
  <2>. QED
    BY <2>1, <2>2, <2>3 DEF HttpNext
<1>. QED
  BY <1>1, <1>2, PTL DEF HttpSpec, RioSpec

\* No byte of a request or a reply is lost, repeated or reordered.
THEOREM HttpConserved == HttpSpec => []Conserved
  BY HttpUsesRio, BytesConserved, PTL

\* Both ends read by lines as LineStream says, whatever they ask for and
\* whenever they close.
THEOREM HttpReadsLines == HttpSpec => ImplementsLineStream
  BY HttpUsesRio, ReaderImplements, PTL

----------------------------------------------------------------------------
(* What a client is served.                                                *)

\* The reply to a request for file f.
ReplyTo(f) == Reply(OK, Disk[f])

\* Where the line that a reader has been given begins.
Used(p, a) == p - Len(a.line)

\* The answer to a reader of s: nothing yet, or the bytes after Used.
GivenOf(s, p, a) ==
    /\ a.line = SubSeq(s, Used(p, a) + 1, p) /\ Used(p, a) \in Nat /\ p <= Len(s)
    /\ a.ret = "line" <=> a.line # <<>>

\* No line of r is longer than the buffer (of a client's request, FitsLines).
Fits(r) ==
    \A i \in 1 .. Len(r) - MaxLine : \E j \in i .. i + MaxLine - 1 : r[j] = LF
AtLineEnd(r, p) == p = Len(r) \/ (p \in 1 .. Len(r) /\ r[p] = LF)

\* The server, in state s, while its client waits: it has read r to p, and out
\* is what it has written and has still to write, if file f was asked for.
Serving(f, r, s, p, a, out) ==
    /\ s.at \in {"line", "header", "read", "reply", "closed"}
    /\ out = IF s.at \in {"reply", "closed"} THEN ReplyTo(f) ELSE <<>>
    /\ s.at # "line" => s.file = f
    /\ GivenOf(r, p, a)
    /\ s.at = "line" =>
        /\ Used(p, a) = 0 /\ a.ret \in {"none", "busy", "line"}
        /\ a.ret = "line" => Len(a.line) >= 2
    /\ s.at = "header" => Used(p, a) >= 1 /\ a.ret \in {"busy", "line"}
    /\ Fits(r) =>
        /\ a.ret = "line" => AtLineEnd(r, p)
        /\ s.at = "header" => AtLineEnd(r, Used(p, a))
        /\ s.at \in {"read", "reply", "closed"} => p = Len(r)

\* Where a line of a reply's head ends that begins after c.
LineAfter ==
    [c \in {0, 3, 7, 11} |-> IF c = 0 THEN 3 ELSE IF c = 3 THEN 7 ELSE IF c = 7 THEN 11 ELSE 13]

\* Client c, reading the reply with file f; whole, if its request is sent whole.
ReadingReply(f, c, p, a) ==
    /\ GivenOf(ReplyTo(f), p, a)
    /\ c.at \in {"sent", "first", "head", "body"}
    /\ c.at = "sent" <=> a.ret = "none"
    /\ c.at \in {"sent", "first"} => Used(p, a) = 0
    /\ c.at = "head" => Used(p, a) \in {3, 7, 11}
    /\ c.at = "body" => Used(p, a) >= 13
    /\ c.at # "body" => c.length_received = 0 /\ c.csum_received = 0
    /\ c.at = "body" => c.length_received = Used(p, a) - 13
                        /\ c.csum_received = Sum(SubSeq(Disk[f], 1, Used(p, a) - 13))
    /\ a.ret = "line" /\ c.at # "body" => p = LineAfter[Used(p, a)]
    /\ a.ret = "eof" => p = Len(ReplyTo(f))
    /\ Used(p, a) >= 7 => c.length = Decimal(Len(Disk[f]))
    /\ Used(p, a) >= 11 => c.csum = Decimal(Sum(Disk[f]))
    /\ Fits(c.request) => a.ret # "error"

\* Nothing was asked for yet.
Waiting ==
    /\ srv.at = "line" /\ Answers[Server].ret \in {"none", "busy"}
    /\ \A e \in {Server, Client} : Position[e] = 0 /\ stream[e] = <<>> /\ unsent[e] = <<>>
    /\ Answers[Client].ret = "none" /\ cl.request = <<>>
    /\ cl.length_received = 0 /\ cl.csum_received = 0

\* A client that is there has sent what was written so far of its request.
Connected ==
    /\ srv.at # "exited" /\ Answers[Server].ret # "error"
    /\ cl.at = "send" => Waiting
    /\ stream[Server] \o unsent[Client] = cl.request
    /\ \A f \in DOMAIN Disk : Asks(f) =>
        /\ Serving(f, cl.request, srv, Position[Server], Answers[Server],
                   stream[Client] \o unsent[Server])
        /\ srv.at = "closed" => unsent[Server] = <<>>
        /\ ReadingReply(f, cl, Position[Client], Answers[Client])

\* While it is there, a client is connected; afterwards it has been served.
SInv ==
    /\ closed[Server] <=> ~ClientActive
    /\ closed[Client] <=> srv.at \in {"closed", "exited"}
    /\ ClientActive => Connected
    /\ ClientServed

----------------------------------------------------------------------------
(* Sums of bytes.                                                          *)

\* A sum of bytes is a sum over their places, which ListProofs adds up.
LEMMA SumBytes ==
    ASSUME NEW s \in Seq(Byte)
    PROVE  Sum(s) \in Nat /\ Sum(s) = SumFunctionOnSet(s, 1 .. Len(s))
<1>. DEFINE S == 1 .. Len(s)
<1>1. Byte \subseteq Nat
  BY TextIsBytes DEF TextIsBytes
<1>2. \A i \in S : s[i] \in Nat
  <2>1. \A i \in S : s[i] \in Byte
    OBVIOUS
  <2>. QED
    BY <1>1, <2>1
<1>3. DOMAIN s = S
  OBVIOUS
<1>4. IsFiniteSet(S)
  BY FS_Interval
<1>. HIDE DEF S
<1>5. Weighted(s, S)
  BY <1>2, <1>4 DEF Weighted
<1>6. SumFunctionOnSet(s, S) \in Int
  BY <1>5, SumType
<1>7. 0 <= SumFunctionOnSet(s, S)
  BY <1>2, <1>5, SumPart
<1>8. Sum(s) = SumFunctionOnSet(s, S)
  BY <1>3 DEF Sum, SumFunction
<1>. QED
  BY <1>6, <1>7, <1>8 DEF S

LEMMA SumEmpty == Sum(<<>>) = 0
<1>. DEFINE S == DOMAIN <<>>
<1>1. S = {}
  OBVIOUS
<1>. HIDE DEF S
<1>2. IsFiniteSet(S)
  BY <1>1, FS_EmptySet
<1>3. SumFunctionOnSet(<<>>, S) = 0
  BY <1>1, <1>2, SumStep
<1>. QED
  BY <1>3 DEF Sum, SumFunction, S

\* A byte more.
LEMMA SumOneMore ==
    ASSUME NEW s \in Seq(Byte), NEW m \in Nat, NEW n \in Nat, m + n + 1 <= Len(s)
    PROVE  Sum(SubSeq(s, m + 1, m + n + 1)) = Sum(SubSeq(s, m + 1, m + n)) + s[m + n + 1]
<1>. DEFINE t == SubSeq(s, m + 1, m + n + 1)
            u == SubSeq(s, m + 1, m + n)
            S == 1 .. n
            x == n + 1
<1>1. /\ t \in Seq(Byte) /\ Len(t) = n + 1
      /\ \A i \in 1 .. n + 1 : t[i] = s[m + i]
  <2>. DEFINE k == n + 1
  <2>1. k \in Nat /\ m + k <= Len(s) /\ m + k = m + n + 1
    OBVIOUS
  <2>. HIDE DEF k
  <2>2. /\ SubSeq(s, m + 1, m + k) \in Seq(Byte) /\ Len(SubSeq(s, m + 1, m + k)) = k
        /\ \A i \in 1 .. k : SubSeq(s, m + 1, m + k)[i] = s[m + i]
    BY <2>1, PartTyped
  <2>. QED
    BY <2>1, <2>2 DEF k
<1>2. /\ u \in Seq(Byte) /\ Len(u) = n
      /\ \A i \in 1 .. n : u[i] = s[m + i]
  <2>1. m + n <= Len(s)
    OBVIOUS
  <2>. QED
    BY <2>1, PartTyped
<1>. HIDE DEF t, u
<1>3. Sum(t) = SumFunctionOnSet(t, 1 .. n + 1) /\ Sum(u) = SumFunctionOnSet(u, S)
  BY <1>1, <1>2, SumBytes
<1>4. 1 .. n + 1 = S \cup {x} /\ x \notin S
  OBVIOUS
<1>5. Weighted(t, S \cup {x})
  <2>1. \A i \in S \cup {x} : t[i] \in Int
    <3>1. \A i \in 1 .. n + 1 : t[i] \in Byte
      BY <1>1
    <3>2. \A b \in Byte : b \in Int
      BY TextIsBytes DEF TextIsBytes
    <3>. HIDE DEF S, x
    <3>. QED
      BY <1>4, <3>1, <3>2
  <2>2. IsFiniteSet(S \cup {x})
    <3>1. IsFiniteSet(1 .. n + 1)
      BY FS_Interval
    <3>. QED
      BY <1>4, <3>1
  <2>. QED
    BY <2>1, <2>2 DEF Weighted
<1>6. SumFunctionOnSet(t, S \cup {x}) = t[x] + SumFunctionOnSet(t, S)
  BY <1>4, <1>5, SumAdd
<1>7. SumFunctionOnSet(u, S) = SumFunctionOnSet(t, S)
  <2>1. Weighted(t, S)
    BY <1>5, WeightedPart
  <2>2. \A i \in S : u[i] = t[i]
    <3>1. \A i \in S : i \in 1 .. n /\ i \in 1 .. n + 1
      OBVIOUS
    <3>. QED
      BY <1>1, <1>2, <3>1
  <2>. HIDE DEF S
  <2>. QED
    BY <2>1, <2>2, SumSame
<1>8. t[x] = s[m + n + 1]
  <2>1. x \in 1 .. n + 1 /\ m + x = m + n + 1
    OBVIOUS
  <2>. QED
    BY <1>1, <2>1
<1>9. Sum(u) \in Int /\ t[x] \in Int
  BY <1>2, <1>4, <1>5, SumBytes DEF Weighted
<1>10. Sum(t) = t[x] + Sum(u)
  BY <1>3, <1>4, <1>6, <1>7
<1>. HIDE DEF x
<1>11. Sum(t) = Sum(u) + s[m + n + 1]
  BY <1>8, <1>9, <1>10
<1>. QED
  BY <1>11 DEF t, u

\* The bytes of a line are added to those before it.
LEMMA SumOfParts ==
    ASSUME NEW s \in Seq(Byte), NEW m \in Nat, NEW n \in Nat, m + n <= Len(s)
    PROVE  Sum(SubSeq(s, 1, m + n)) = Sum(SubSeq(s, 1, m)) + Sum(SubSeq(s, m + 1, m + n))
<1>. DEFINE A(k) == Sum(SubSeq(s, 1, m + k))
            B(k) == Sum(SubSeq(s, m + 1, m + k))
            N == {k \in Nat : m + k <= Len(s) => A(k) = A(0) + B(k)}
<1>0. ASSUME NEW k \in Nat, m + k <= Len(s) PROVE A(k) \in Nat /\ B(k) \in Nat
  <2>1. SubSeq(s, m + 1, m + k) \in Seq(Byte)
    BY <1>0, PartTyped
  <2>2. SubSeq(s, 1, m + k) \in Seq(Byte)
    <3>. DEFINE q == m + k
    <3>1. q \in Nat /\ 0 + q <= Len(s)
      BY <1>0
    <3>. HIDE DEF q
    <3>2. SubSeq(s, 0 + 1, 0 + q) \in Seq(Byte)
      BY <3>1, PartTyped
    <3>3. 0 + 1 = 1 /\ 0 + q = q
      BY <3>1
    <3>4. SubSeq(s, 1, q) \in Seq(Byte)
      BY <3>2, <3>3
    <3>. QED
      BY <3>4 DEF q
  <2>. QED
    BY <2>1, <2>2, SumBytes
<1>1. 0 \in N
  <2>1. SubSeq(s, m + 1, m + 0) = <<>>
    <3>1. m + 0 <= Len(s)
      OBVIOUS
    <3>2. SubSeq(s, m + 1, m + 0) \in Seq(Byte) /\ Len(SubSeq(s, m + 1, m + 0)) = 0
      BY <3>1, PartTyped
    <3>. QED
      BY <3>2
  <2>2. B(0) = 0
    BY <2>1, SumEmpty
  <2>3. m + 0 <= Len(s) => A(0) \in Nat
    BY <1>0
  <2>. HIDE DEF A, B
  <2>. QED
    BY <2>2, <2>3
<1>2. ASSUME NEW k \in Nat, k \in N PROVE k + 1 \in N
  <2>. SUFFICES ASSUME m + (k + 1) <= Len(s) PROVE A(k + 1) = A(0) + B(k + 1)
    OBVIOUS
  <2>1. m + k + 1 <= Len(s) /\ m + k <= Len(s) /\ m + (k + 1) = m + k + 1
    OBVIOUS
  <2>2. B(k + 1) = B(k) + s[m + k + 1]
    <3>1. Sum(SubSeq(s, m + 1, m + k + 1)) = Sum(SubSeq(s, m + 1, m + k)) + s[m + k + 1]
      BY <2>1, SumOneMore
    <3>. QED
      BY <2>1, <3>1
  <2>3. A(k + 1) = A(k) + s[m + k + 1]
    <3>. DEFINE j == m + k
    <3>1. j \in Nat /\ 0 + j + 1 <= Len(s)
      BY <2>1
    <3>. HIDE DEF j
    <3>2. Sum(SubSeq(s, 0 + 1, 0 + j + 1)) = Sum(SubSeq(s, 0 + 1, 0 + j)) + s[0 + j + 1]
      BY <3>1, SumOneMore
    <3>3. 0 + 1 = 1 /\ 0 + j = j /\ 0 + j + 1 = j + 1
      BY <3>1
    <3>4. Sum(SubSeq(s, 1, j + 1)) = Sum(SubSeq(s, 1, j)) + s[j + 1]
      BY <3>2, <3>3
    <3>5. m + (k + 1) = j + 1 /\ m + k + 1 = j + 1
      BY <2>1 DEF j
    <3>. QED
      BY <3>4, <3>5 DEF j
  <2>4. A(k) = A(0) + B(k)
    BY <1>2, <2>1
  <2>5. A(k) \in Nat /\ B(k) \in Nat /\ A(0) \in Nat
    <3>1. m + 0 <= Len(s)
      BY <2>1
    <3>. QED
      BY <1>0, <2>1, <3>1
  <2>6. s[m + k + 1] \in Nat
    <3>1. m + k + 1 \in 1 .. Len(s)
      BY <2>1
    <3>2. s[m + k + 1] \in Byte
      BY <3>1
    <3>. QED
      BY <3>2, TextIsBytes DEF TextIsBytes
  <2>. HIDE DEF A, B
  <2>. QED
    BY <2>2, <2>3, <2>4, <2>5, <2>6
<1>. HIDE DEF N
<1>3. n \in N
  BY <1>1, <1>2, NatSet
<1>. USE DEF N
<1>4. A(n) = A(0) + B(n)
  BY <1>3
<1>5. m + 0 = m
  OBVIOUS
<1>. QED
  BY <1>4, <1>5

----------------------------------------------------------------------------
(* Types.                                                                  *)

----------------------------------------------------------------------------
(* Types.                                                                  *)

ClTyped ==
    cl \in [at : {"send", "sent", "first", "head", "body", "done", "exited", "gone"},
            request : Requests \cup {<<>>}, length : Byte, csum : Byte,
            length_received : Nat, csum_received : Nat]
SrvTyped ==
    srv \in [at : {"line", "header", "read", "unread", "reply", "closed", "exited"},
             blank : BOOLEAN, file : Names]

LEMMA ServerTyped ==
    ASSUME SrvTyped, ServerStep
    PROVE  SrvTyped' /\ UNCHANGED cl
<1>1. CASE ReadLine
  BY <1>1 DEF ReadLine, SrvTyped
<1>2. CASE AcceptLine
  <2>1. PICK f \in URIs(rio[Server].line), b \in BOOLEAN :
            srv' = [at |-> "header", blank |-> b, file |-> f]
    BY <1>2 DEF AcceptLine
  <2>2. f \in Names
    BY DEF URIs
  <2>. QED
    BY <1>2, <2>1, <2>2 DEF SrvTyped, AcceptLine
<1>3. CASE RejectLine
  BY <1>3 DEF RejectLine, SrvTyped
<1>4. CASE NextHeader
  BY <1>4 DEF NextHeader, SrvTyped
<1>5. CASE EndHeaders
  BY <1>5 DEF EndHeaders, SrvTyped
<1>6. CASE ReadFile
  BY <1>6 DEF ReadFile, SrvTyped
<1>7. CASE SendEmpty
  BY <1>7 DEF SendEmpty, SrvTyped
<1>8. CASE Destroy
  BY <1>8 DEF Destroy, SrvTyped
<1>9. CASE ServerExits
  BY <1>9 DEF ServerExits, SrvTyped
<1>10. CASE IO(Server) /\ UNCHANGED <<srv, cl>>
  BY <1>10 DEF SrvTyped
<1>. QED
  BY <1>1, <1>2, <1>3, <1>4, <1>5, <1>6, <1>7, <1>8, <1>9, <1>10 DEF ServerStep

LEMMA ClientTyped ==
    ASSUME IInv, ClTyped, ClientStep \/ GoesAway
    PROVE  ClTyped' /\ UNCHANGED srv
<1>1. CASE Send
  <2>1. PICK r \in Requests : cl' = [cl EXCEPT !.at = "sent", !.request = r]
    BY <1>1 DEF Send
  <2>. QED
    BY <1>1, <2>1 DEF ClTyped, Send
<1>2. CASE ReadReply
  BY <1>2 DEF ReadReply, ClTyped
<1>. DEFINE line == rio[Client].line
<1>3. line \in Seq(Byte)
  BY EndsNamed DEF EndsNamed, IInv, RioTypeOK, Reader
<1>4. CASE ReadHead
  <2>. DEFINE c == IF cl.at = "head" THEN WithTags(line) ELSE cl
  <2>1. \A tag : Tagged(line, tag) => line[2] \in Byte
    BY <1>3 DEF Tagged
  <2>2. WithTags(line) \in [at : {cl.at},
            request : Requests \cup {<<>>}, length : Byte, csum : Byte,
            length_received : Nat, csum_received : Nat]
    <3>. DEFINE a == IF Tagged(line, TagLength) THEN line[2] ELSE cl.length
                b == IF Tagged(line, TagCsum) THEN line[2] ELSE cl.csum
    <3>1. a \in Byte /\ b \in Byte
      BY <2>1 DEF ClTyped
    <3>2. WithTags(line) = [cl EXCEPT !.length = a, !.csum = b]
      BY DEF WithTags
    <3>. HIDE DEF a, b
    <3>. QED
      BY <3>1, <3>2 DEF ClTyped
  <2>3. c \in [at : {cl.at},
            request : Requests \cup {<<>>}, length : Byte, csum : Byte,
            length_received : Nat, csum_received : Nat]
    BY <2>2 DEF ClTyped
  <2>4. \E next \in {"body", "head"} : cl' = [c EXCEPT !.at = next]
    BY <1>4 DEF ReadHead
  <2>. HIDE DEF c
  <2>5. cl' \in [at : {"body", "head"},
            request : Requests \cup {<<>>}, length : Byte, csum : Byte,
            length_received : Nat, csum_received : Nat]
    BY <2>3, <2>4
  <2>. QED
    BY <1>4, <2>5 DEF ClTyped, ReadHead
<1>5. CASE ReadBody
  <2>1. Len(line) \in Nat /\ Sum(line) \in Nat
    BY <1>3, SumBytes
  <2>2. cl' = [cl EXCEPT !.length_received = @ + Len(line), !.csum_received = @ + Sum(line)]
    BY <1>5 DEF ReadBody
  <2>. HIDE DEF line
  <2>3. cl.length_received + Len(line) \in Nat /\ cl.csum_received + Sum(line) \in Nat
    BY <2>1 DEF ClTyped
  <2>. QED
    BY <1>5, <2>2, <2>3 DEF ClTyped, ReadBody
<1>6. CASE Finish
  BY <1>6 DEF Finish, ClTyped
<1>7. CASE ClientExits
  BY <1>7 DEF ClientExits, ClTyped
<1>8. CASE IO(Client) /\ UNCHANGED <<srv, cl>>
  BY <1>8 DEF ClTyped
<1>9. CASE GoesAway
  BY <1>9 DEF GoesAway, ClTyped
<1>. QED
  BY <1>1, <1>2, <1>4, <1>5, <1>6, <1>7, <1>8, <1>9 DEF ClientStep

\* Every step is one of the connection, and keeps the types.
LEMMA StepTyped ==
    ASSUME IInv, SrvTyped, ClTyped, [HttpNext]_httpVars
    PROVE  IInv' /\ SrvTyped' /\ ClTyped'
<1>0. SrvOK
  BY DEF SrvTyped, SrvOK
<1>1. CASE UNCHANGED httpVars
  BY <1>1, StutterInv DEF httpVars, SrvTyped, ClTyped
<1>2. CASE ServerStep
  <2>1. [RioNext]_vars
    BY <1>0, <1>2, ServerUsesRio
  <2>2. IInv'
    BY <2>1, NextInv
  <2>. QED
    BY <1>2, <2>2, ServerTyped DEF ClTyped
<1>3. CASE ClientStep \/ GoesAway
  <2>1. RioNext
    BY <1>3, ClientUsesRio
  <2>2. IInv'
    BY <2>1, NextInv
  <2>. QED
    BY <1>3, <2>2, ClientTyped DEF SrvTyped
<1>. QED
  BY <1>1, <1>2, <1>3 DEF HttpNext

LEMMA InitTyped == HttpInit => IInv /\ SrvTyped /\ ClTyped
<1>. SUFFICES ASSUME HttpInit PROVE IInv /\ SrvTyped /\ ClTyped
  OBVIOUS
<1>1. IInv
  BY InitInv DEF HttpInit
<1>2. SrvTyped
  BY DEF HttpInit, SrvTyped, Names
<1>3. Decimal(0) \in Byte
  <2>1. <<>> \in Bodies
    BY DEF Bodies
  <2>2. Len(<<>>) = 0
    OBVIOUS
  <2>. QED
    BY <2>1, <2>2, TextIsBytes DEF TextIsBytes
<1>. QED
  BY <1>1, <1>2, <1>3 DEF HttpInit, ClTyped

\* Type correctness: in every step of do_server_request and client_print the
\* buffers, the counts of client_print and the parsed request keep their types.
THEOREM HttpTypes == HttpSpec => []HttpTypeOK
<1>1. IInv /\ SrvTyped /\ ClTyped => HttpTypeOK
  BY DEF IInv, SrvTyped, ClTyped, HttpTypeOK
<1>2. HttpSpec => [](IInv /\ SrvTyped /\ ClTyped)
  BY InitTyped, StepTyped, PTL DEF HttpSpec
<1>. QED
  BY <1>1, <1>2, PTL

----------------------------------------------------------------------------
(* What steps of the connection look like, seen by lines.                  *)

LEMMA TwoEnds ==
    /\ Server \in Ends /\ Client \in Ends /\ Server # Client
    /\ Peer[Client] = Server /\ Peer[Server] = Client
  BY EndsNamed, EndsAssumption DEF EndsNamed, EndsAssumption

\* What is known of a reader at any time.
LEMMA ReaderFacts ==
    ASSUME IInv, NEW e \in Ends
    PROVE  /\ stream[e] \in Seq(Byte) /\ unsent[e] \in Seq(Byte) /\ closed[e] \in BOOLEAN
           /\ Answers[e].ret = rio[e].ret /\ rio[e].ret \in Results
           /\ Answers[e].line = IF rio[e].ret = "line" THEN rio[e].line ELSE <<>>
           /\ Answers[e].line \in Seq(Byte)
           /\ Position[e] \in Nat /\ Position[e] <= taken[e]
           /\ taken[e] \in Nat /\ taken[e] <= Len(stream[e])
<1>. DEFINE r == rio[e]
            p == Given(taken[e], r)
            k == Unread(r)
<1>1. /\ stream[e] \in Seq(Byte) /\ taken[e] \in Nat /\ r \in Reader
      /\ unsent[e] \in Seq(Byte) /\ closed[e] \in BOOLEAN
  BY DEF IInv, RioTypeOK
<1>2. k \in Nat /\ p \in Int /\ r.line \in Seq(Byte) /\ r.ret \in Results
  BY <1>1, Fields
<1>3. At(stream[e], taken[e], k, p, r.buf, r.ptr, r.line, r.ret)
  BY DEF IInv, EndOK
<1>. HIDE DEF k, p, r
<1>4. taken[e] <= Len(stream[e]) /\ 0 <= p /\ p + k <= taken[e]
  BY <1>3 DEF At
<1>5. p \in Nat /\ p <= taken[e]
  BY <1>1, <1>2, <1>4
<1>6. Position[e] = p /\ Answers[e] = AnswerOf(r)
  BY DEF Position, Answers, p, r
<1>7. <<>> \in Seq(Byte)
  OBVIOUS
<1>. QED
  BY <1>1, <1>2, <1>4, <1>5, <1>6, <1>7 DEF AnswerOf, r

\* What a read or write in progress changes, as LineStream sees it.
ReadOn(e) ==
    /\ UNCHANGED <<stream, closed, unsent>>
    /\ \/ UNCHANGED <<Position, Answers>>
       \/ Lines!Deliver(e)
       \/ Lines!End(e)
       \/ Lines!Fail(e) /\ closed[e] /\ Position[Peer[e]] < Len(stream[Peer[e]])
WriteOn(e) ==
    /\ UNCHANGED <<closed, Position, Answers>>
    /\ unsent[e] # <<>> /\ ~closed[Peer[e]]
    /\ stream'[Peer[e]] \o unsent'[e] = stream[Peer[e]] \o unsent[e]
    /\ \A f \in Ends : (f # Peer[e] => stream'[f] = stream[f]) /\ (f # e => unsent'[f] = unsent[f])

LEMMA JoinAssociates ==
    ASSUME NEW a \in Seq(Byte), NEW b \in Seq(Byte), NEW c \in Seq(Byte)
    PROVE  (a \o b) \o c = a \o (b \o c)
  BY ConcatAssociative

LEMMA IOSeen ==
    ASSUME IInv, NEW e \in Ends, IO(e)
    PROVE  ReadOn(e) \/ WriteOn(e)
<1>1. Peer[e] \in Ends
  BY EndsAssumption DEF EndsAssumption
<1>2. CASE Take(e)
  <2>1. UNCHANGED <<stream, closed, unsent>>
    BY <1>2 DEF Take
  <2>2. Lines!Deliver(e) \/ UNCHANGED Lines!vars
    BY <1>2, TakeSeen
  <2>3. CASE Lines!Deliver(e)
    BY <2>1, <2>3 DEF ReadOn
  <2>4. CASE UNCHANGED Lines!vars
    BY <2>1, <2>4 DEF ReadOn, Lines!vars
  <2>. QED
    BY <2>2, <2>3, <2>4
<1>3. CASE Refill(e)
  <2>1. UNCHANGED <<stream, closed, unsent>>
    BY <1>3 DEF Refill
  <2>2. Lines!Deliver(e) \/ UNCHANGED Lines!vars
    BY <1>3, RefillSeen
  <2>3. CASE Lines!Deliver(e)
    BY <2>1, <2>3 DEF ReadOn
  <2>4. CASE UNCHANGED Lines!vars
    BY <2>1, <2>4 DEF ReadOn, Lines!vars
  <2>. QED
    BY <2>2, <2>3, <2>4
<1>4. CASE Interrupted(e)
  <2>1. UNCHANGED <<stream, closed, unsent>>
    BY <1>4 DEF Interrupted
  <2>2. Lines!Deliver(e) \/ UNCHANGED Lines!vars
    BY <1>4, InterruptedSeen
  <2>3. CASE Lines!Deliver(e)
    BY <2>1, <2>3 DEF ReadOn
  <2>4. CASE UNCHANGED Lines!vars
    BY <2>1, <2>4 DEF ReadOn, Lines!vars
  <2>. QED
    BY <2>2, <2>3, <2>4
<1>5. CASE Eof(e)
  BY <1>5, EofSeen DEF Eof, ReadOn
<1>6. CASE ReadFails(e)
  <2>1. Lines!Fail(e)
    BY <1>6, ReadFailsSeen
  <2>2. closed[e] /\ taken[Peer[e]] < Len(stream[Peer[e]])
    BY <1>6 DEF ReadFails, IsReset
  <2>3. /\ Position[Peer[e]] \in Nat /\ Position[Peer[e]] <= taken[Peer[e]]
        /\ taken[Peer[e]] \in Nat /\ stream[Peer[e]] \in Seq(Byte)
    BY <1>1, ReaderFacts
  <2>4. Position[Peer[e]] < Len(stream[Peer[e]])
    BY <2>2, <2>3
  <2>. QED
    BY <1>6, <2>1, <2>2, <2>4 DEF ReadFails, ReadOn
<1>7. CASE Write(e)
  <2>. DEFINE f == Peer[e]
              s == stream[f]
              u == unsent[e]
  <2>1. s \in Seq(Byte) /\ u \in Seq(Byte)
    BY <1>1 DEF IInv, RioTypeOK
  <2>2. PICK k \in 1 .. Len(u) :
            /\ stream' = [stream EXCEPT ![f] = s \o SubSeq(u, 1, k)]
            /\ unsent' = [unsent EXCEPT ![e] = SubSeq(u, k + 1, Len(u))]
    BY <1>7, <1>1 DEF Write, Left, IInv, RioTypeOK
  <2>3. UNCHANGED <<closed, taken, rio>> /\ ~closed[f]
    BY <1>7 DEF Write
  <2>4. UNCHANGED <<Position, Answers>>
    BY <2>3 DEF Position, Answers
  <2>. DEFINE a == SubSeq(u, 1, k)
              b == SubSeq(u, k + 1, Len(u))
  <2>5. /\ stream'[f] = s \o a /\ unsent'[e] = b
        /\ \A g \in Ends : (g # f => stream'[g] = stream[g]) /\ (g # e => unsent'[g] = unsent[g])
    <3>. HIDE DEF f, a, b
    <3>1. f \in Ends /\ stream \in [Ends -> Seq(Byte)] /\ unsent \in [Ends -> Seq(Byte)]
      BY <1>1 DEF IInv, RioTypeOK, f
    <3>. QED
      BY <2>2, <3>1 DEF a, b
  <2>. HIDE DEF s, u
  <2>6. a \in Seq(Byte) /\ b \in Seq(Byte) /\ a \o b = u
    <3>1. \A i \in 1 .. Len(u) : u[i] \in Byte
      BY <2>1
    <3>2. a \in Seq(Byte)
      BY <2>1, <3>1, SubSeqProperties
    <3>3. b \in Seq(Byte)
      BY <2>1, <3>1, SubSeqProperties
    <3>4. 1 \in 1 .. Len(u) + 1 /\ k \in 1 - 1 .. Len(u) /\ Len(u) \in k .. Len(u)
      BY <2>1
    <3>5. SubSeq(u, 1, k) \o SubSeq(u, k + 1, Len(u)) = SubSeq(u, 1, Len(u))
      BY <2>1, <3>4, ConcatAdjacentSubSeq
    <3>6. SubSeq(u, 1, Len(u)) = u
      BY <2>1
    <3>7. a \o b = u
      BY <3>5, <3>6, Zenon
    <3>. QED
      BY <3>2, <3>3, <3>7, Zenon
  <2>. HIDE DEF a, b
  <2>7. (s \o a) \o b = s \o u
    <3>1. (s \o a) \o b = s \o (a \o b)
      <4>1. s \in Seq(Byte)
        BY <2>1
      <4>. QED
        BY <2>6, <4>1, JoinAssociates
    <3>. QED
      BY <2>6, <3>1
  <2>8. u # <<>>
    BY <2>1
  <2>9. stream'[f] \o unsent'[e] = s \o u
    BY <2>5, <2>7
  <2>. QED
    BY <2>3, <2>4, <2>5, <2>8, <2>9 DEF WriteOn, s, u
<1>. QED
  BY <1>2, <1>3, <1>4, <1>5, <1>6, <1>7 DEF IO

\* The next answer to a reader.
Took1(e, n) ==
    /\ Answers[e].ret = "busy" /\ Lines!IsNextLine(e, n) /\ n \in 1 .. MaxLine
    /\ Position'[e] = Position[e] + n
    /\ Answers'[e].ret = "line"
    /\ Answers'[e].line = SubSeq(stream[e], Position[e] + 1, Position[e] + n)
    /\ \A f \in Ends : f # e => Position'[f] = Position[f] /\ Answers'[f] = Answers[f]

LEMMA DeliverSeen ==
    ASSUME NEW e \in Ends, Lines!Deliver(e)
    PROVE  \E n \in 1 .. MaxLine : Took1(e, n)
<1>1. PICK n \in 1 .. MaxLine :
        /\ Lines!IsNextLine(e, n)
        /\ Position' = [Position EXCEPT ![e] = @ + n]
        /\ Answers' = [Answers EXCEPT ![e] =
                Lines!Answer("line", SubSeq(stream[e], Position[e] + 1, Position[e] + n))]
  BY DEF Lines!Deliver
<1>2. Answers[e].ret = "busy"
  BY DEF Lines!Deliver
<1>3. \A f \in Ends : f \in DOMAIN Position /\ f \in DOMAIN Answers
  BY DEF Position, Answers
<1>4. /\ Position'[e] = Position[e] + n
      /\ Answers'[e] = Lines!Answer("line", SubSeq(stream[e], Position[e] + 1, Position[e] + n))
      /\ \A f \in Ends : f # e => Position'[f] = Position[f] /\ Answers'[f] = Answers[f]
  BY <1>1, <1>3
<1>5. Answers'[e].ret = "line"
      /\ Answers'[e].line = SubSeq(stream[e], Position[e] + 1, Position[e] + n)
  <2>. DEFINE x == SubSeq(stream[e], Position[e] + 1, Position[e] + n)
  <2>. HIDE DEF x
  <2>1. Lines!Answer("line", x).ret = "line" /\ Lines!Answer("line", x).line = x
    BY DEF Lines!Answer
  <2>2. Answers'[e] = Lines!Answer("line", x)
    BY <1>4 DEF x
  <2>. QED
    BY <2>1, <2>2 DEF x
<1>6. Took1(e, n)
  BY <1>1, <1>2, <1>4, <1>5 DEF Took1
<1>. QED
  BY <1>6

\* It has no other answer than this.
Ends1(e, v) ==
    /\ Position' = Position
    /\ Answers'[e].ret = v /\ Answers'[e].line = <<>>
    /\ \A f \in Ends : f # e => Answers'[f] = Answers[f]

LEMMA AskSeen ==
    ASSUME NEW e \in Ends, Lines!Ask(e)
    PROVE  Ends1(e, "busy") /\ Answers[e].ret \notin {"busy", "error"} /\ UNCHANGED <<stream, closed>>
<1>1. \A f \in Ends : f \in DOMAIN Answers
  BY DEF Answers
<1>. QED
  BY <1>1 DEF Lines!Ask, Ends1, Lines!Answer

LEMMA EndSeen ==
    ASSUME NEW e \in Ends, Lines!End(e)
    PROVE  Ends1(e, "eof") /\ Answers[e].ret = "busy" /\ closed[e] /\ Position[e] = Len(stream[e])
<1>1. \A f \in Ends : f \in DOMAIN Answers
  BY DEF Answers
<1>. QED
  BY <1>1 DEF Lines!End, Ends1, Lines!Answer

LEMMA FailSeen ==
    ASSUME NEW e \in Ends, Lines!Fail(e)
    PROVE  Ends1(e, "error") /\ Answers[e].ret = "busy"
<1>1. \A f \in Ends : f \in DOMAIN Answers
  BY DEF Answers
<1>. QED
  BY <1>1 DEF Lines!Fail, Ends1, Lines!Answer

\* A read or write by one end: what changes there, and that nothing else does.
Read1(e) ==
    /\ UNCHANGED <<stream, closed, unsent>>
    /\ \/ UNCHANGED <<Position, Answers>>
       \/ \E n \in 1 .. MaxLine : Took1(e, n)
       \/ Ends1(e, "eof") /\ Answers[e].ret = "busy" /\ closed[e] /\ Position[e] = Len(stream[e])
       \/ /\ Ends1(e, "error") /\ Answers[e].ret = "busy" /\ closed[e]
          /\ Position[Peer[e]] < Len(stream[Peer[e]])

LEMMA ReadOnSeen ==
    ASSUME NEW e \in Ends, ReadOn(e)
    PROVE  Read1(e)
  BY DeliverSeen, EndSeen, FailSeen DEF ReadOn, Read1

----------------------------------------------------------------------------
(* What a reader was given of s.                                           *)

\* c is s as far as it was sent.
Sent(c, u, s) == c \in Seq(Byte) /\ u \in Seq(Byte) /\ c \o u = s

LEMMA SentIs ==
    ASSUME NEW c, NEW u, NEW s, Sent(c, u, s)
    PROVE  /\ c \in Seq(Byte) /\ s \in Seq(Byte) /\ Len(c) \in Nat /\ Len(s) \in Nat
           /\ Len(c) <= Len(s) /\ Len(s) = Len(c) + Len(u)
           /\ \A i \in 1 .. Len(c) : c[i] = s[i]
           /\ u = <<>> => c = s
<1>1. c \in Seq(Byte) /\ u \in Seq(Byte) /\ c \o u = s
  BY DEF Sent
<1>2. s \in Seq(Byte) /\ Len(s) = Len(c) + Len(u)
  BY <1>1, ConcatProperties
<1>3. \A i \in 1 .. Len(c) : c[i] = s[i]
  BY <1>1
<1>4. u = <<>> => c = s
  BY <1>1
<1>5. Len(c) \in Nat /\ Len(u) \in Nat
  BY <1>1
<1>. QED
  BY <1>1, <1>2, <1>3, <1>4, <1>5

LEMMA GivenNext ==
    ASSUME NEW c, NEW u, NEW s, Sent(c, u, s), NEW p \in Nat, NEW n \in Nat, n >= 1,
           p + n <= Len(c), NEW b, b.ret = "line", b.line = SubSeq(c, p + 1, p + n)
    PROVE  /\ GivenOf(s, p + n, b) /\ Used(p + n, b) = p /\ Len(b.line) = n
           /\ \A i \in 1 .. n : b.line[i] = s[p + i]
<1>1. /\ c \in Seq(Byte) /\ s \in Seq(Byte) /\ Len(c) <= Len(s) /\ Len(s) \in Nat
      /\ \A i \in 1 .. Len(c) : c[i] = s[i]
  BY SentIs
<1>2. /\ SubSeq(c, p + 1, p + n) \in Seq(Byte) /\ Len(SubSeq(c, p + 1, p + n)) = n
      /\ \A i \in 1 .. n : SubSeq(c, p + 1, p + n)[i] = c[p + i]
  BY <1>1, PartTyped
<1>3. p + n <= Len(s)
  BY <1>1
<1>4. /\ SubSeq(s, p + 1, p + n) \in Seq(Byte) /\ Len(SubSeq(s, p + 1, p + n)) = n
      /\ \A i \in 1 .. n : SubSeq(s, p + 1, p + n)[i] = s[p + i]
  BY <1>1, <1>3, PartTyped
<1>5. \A i \in 1 .. n : c[p + i] = s[p + i]
  <2>1. \A i \in 1 .. n : p + i \in 1 .. Len(c)
    BY <1>1
  <2>. QED
    BY <1>1, <2>1
<1>6. SubSeq(c, p + 1, p + n) = SubSeq(s, p + 1, p + n)
  <2>. DEFINE x == SubSeq(c, p + 1, p + n)
              y == SubSeq(s, p + 1, p + n)
  <2>1. x \in Seq(Byte) /\ y \in Seq(Byte) /\ Len(x) = n /\ Len(y) = n
        /\ \A i \in 1 .. n : x[i] = y[i]
    BY <1>2, <1>4, <1>5
  <2>. HIDE DEF x, y
  <2>2. x = y
    BY <2>1, SeqEqual
  <2>. QED
    BY <2>2 DEF x, y
<1>7. Used(p + n, b) = p
  BY <1>2 DEF Used
<1>8. b.line # <<>>
  BY <1>2
<1>. QED
  BY <1>2, <1>3, <1>4, <1>6, <1>7, <1>8 DEF GivenOf

\* Without an answer, all is used.
LEMMA GivenNone ==
    ASSUME NEW s, NEW p \in Nat, NEW a, GivenOf(s, p, a), NEW b, b.line = <<>>, b.ret # "line"
    PROVE  GivenOf(s, p, b) /\ Used(p, b) = p
<1>1. Used(p, b) = p
  BY DEF Used
<1>2. SubSeq(s, p + 1, p) = <<>>
  OBVIOUS
<1>. QED
  BY <1>1, <1>2 DEF GivenOf

LEMMA UsedAll ==
    ASSUME NEW s, NEW p \in Nat, NEW a, GivenOf(s, p, a), a.ret # "line"
    PROVE  Used(p, a) = p
<1>1. a.line = <<>>
  BY DEF GivenOf
<1>. QED
  BY <1>1 DEF Used

\* A line of n bytes after p is what is given of c, so far of s.
Reaches(c, s, p, n) ==
    /\ n \in 1 .. MaxLine /\ p + n <= Len(c) /\ \A i \in 1 .. n - 1 : c[p + i] # LF
    /\ \/ c[p + n] = LF
       \/ n = MaxLine
       \/ c = s /\ p + n = Len(c)
\* The first end of line after p, in reach, is k bytes away.
FirstEnd(s, p, k) ==
    /\ k \in 1 .. MaxLine /\ p + k <= Len(s) /\ s[p + k] = LF
    /\ \A i \in 1 .. k - 1 : s[p + i] # LF

\* A line ends at the first end of line that it can reach.
LEMMA LineStops ==
    ASSUME NEW c, NEW u, NEW s, Sent(c, u, s), NEW p \in Nat, NEW n, NEW k,
           Reaches(c, s, p, n), FirstEnd(s, p, k)
    PROVE  n = k
<1>0. /\ n \in 1 .. MaxLine /\ p + n <= Len(c) /\ \A i \in 1 .. n - 1 : c[p + i] # LF
      /\ \/ c[p + n] = LF
         \/ n = MaxLine
         \/ c = s /\ p + n = Len(c)
      /\ k \in 1 .. MaxLine /\ p + k <= Len(s) /\ s[p + k] = LF
      /\ \A i \in 1 .. k - 1 : s[p + i] # LF
  BY DEF Reaches, FirstEnd
<1>1. /\ c \in Seq(Byte) /\ s \in Seq(Byte) /\ Len(c) \in Nat /\ Len(s) \in Nat
      /\ \A i \in 1 .. Len(c) : c[i] = s[i]
  BY SentIs
<1>2. MaxLine \in Nat
  BY SizesAssumption DEF SizesAssumption
<1>3. ~(n > k)
  <2>. SUFFICES ASSUME n > k PROVE FALSE
    OBVIOUS
  <2>1. k \in 1 .. n - 1 /\ p + k \in 1 .. Len(c)
    BY <1>0, <1>1, <1>2
  <2>. QED
    BY <1>0, <1>1, <2>1
<1>4. ~(n < k)
  <2>. SUFFICES ASSUME n < k PROVE FALSE
    OBVIOUS
  <2>1. n \in 1 .. k - 1 /\ p + n \in 1 .. Len(c) /\ n # MaxLine
    BY <1>0, <1>1, <1>2
  <2>2. c[p + n] # LF
    BY <1>0, <1>1, <2>1
  <2>3. c = s /\ p + n = Len(c)
    BY <1>0, <2>1, <2>2
  <2>. QED
    BY <1>0, <1>1, <1>2, <2>3
<1>. QED
  BY <1>0, <1>2, <1>3, <1>4

\* If every line fits, it ends at an end of line or at the end.
LEMMA LineFits ==
    ASSUME NEW c, NEW u, NEW s, Sent(c, u, s), Fits(s), NEW p \in Nat, NEW n \in 1 .. MaxLine,
           p + n <= Len(c), \A i \in 1 .. n - 1 : c[p + i] # LF,
           c[p + n] = LF \/ n = MaxLine
    PROVE  AtLineEnd(s, p + n)
<1>1. /\ c \in Seq(Byte) /\ s \in Seq(Byte) /\ Len(c) \in Nat /\ Len(s) \in Nat
      /\ Len(c) <= Len(s)
      /\ \A i \in 1 .. Len(c) : c[i] = s[i]
  BY SentIs
<1>2. MaxLine \in Nat \ {0}
  BY SizesAssumption DEF SizesAssumption
<1>3. p + n \in 1 .. Len(c) /\ p + n \in 1 .. Len(s)
  BY <1>1, <1>2
<1>4. CASE c[p + n] = LF
  BY <1>1, <1>3, <1>4 DEF AtLineEnd
<1>5. CASE n = MaxLine /\ p + n # Len(s)
  <2>1. p + 1 \in 1 .. Len(s) - MaxLine
    BY <1>1, <1>2, <1>3, <1>5
  <2>2. PICK j \in p + 1 .. p + 1 + MaxLine - 1 : s[j] = LF
    BY <2>1 DEF Fits
  <2>. DEFINE i == j - p
  <2>3. i \in 1 .. n /\ p + i = j /\ j \in 1 .. Len(c)
    BY <1>1, <1>2, <1>3, <1>5
  <2>4. c[p + i] = LF
    BY <1>1, <2>2, <2>3
  <2>. HIDE DEF i
  <2>5. i = n
    <3>1. i \in 1 .. n - 1 => c[p + i] # LF
      OBVIOUS
    <3>. QED
      BY <1>2, <2>3, <2>4, <3>1
  <2>. QED
    BY <1>4, <2>4, <2>5
<1>. QED
  BY <1>3, <1>4, <1>5 DEF AtLineEnd

----------------------------------------------------------------------------
(* The server, for the client that asked for f.                            *)

\* What a line that the server is given next says.
LEMMA ServerIsGiven ==
    ASSUME NEW f, NEW c, NEW u, NEW r, Sent(c, u, r), NEW p \in Nat, NEW a, NEW b, NEW s, NEW out,
           Serving(f, r, s, p, a, out), a.ret = "busy",
           NEW n \in 1 .. MaxLine, p + n <= Len(c),
           \A i \in 1 .. n - 1 : c[p + i] # LF,
           c[p + n] = LF \/ n = MaxLine,
           Len(r) >= 2, r[1] # LF,
           b.ret = "line", b.line = SubSeq(c, p + 1, p + n)
    PROVE  Serving(f, r, s, p + n, b, out)
<1>1. MaxLine \in Nat /\ MaxLine >= 4
  BY SizesAssumption, WordsDiffer DEF SizesAssumption, WordsDiffer
<1>2. GivenOf(r, p, a)
  BY DEF Serving
<1>3. Used(p, a) = p
  BY <1>2, UsedAll
<1>4. /\ GivenOf(r, p + n, b) /\ Used(p + n, b) = p /\ Len(b.line) = n
  BY <1>1, GivenNext
<1>5. ASSUME s.at = "line" PROVE p = 0 /\ n >= 2
  <2>1. p = 0
    BY <1>3, <1>5 DEF Serving
  <2>2. n # 1
    <3>. SUFFICES ASSUME n = 1 PROVE FALSE
      OBVIOUS
    <3>1. c[1] = LF /\ 1 \in 1 .. Len(c)
      BY <1>1, <2>1
    <3>2. c[1] = r[1]
      BY <3>1, SentIs
    <3>. QED
      BY <3>1, <3>2
  <2>. QED
    BY <1>1, <2>1, <2>2
<1>6. ASSUME Fits(r) PROVE AtLineEnd(r, p + n)
  BY <1>6, LineFits
<1>7. ASSUME Fits(r), s.at = "header" PROVE AtLineEnd(r, p)
  BY <1>3, <1>7 DEF Serving
<1>8. ASSUME Fits(r), s.at \in {"read", "reply", "closed"} PROVE FALSE
  <2>1. p = Len(r)
    BY <1>8 DEF Serving
  <2>2. Len(c) <= Len(r) /\ Len(c) \in Nat /\ Len(r) \in Nat
    BY SentIs
  <2>. QED
    BY <1>1, <2>1, <2>2
<1>9. s.at = "header" => p >= 1
  BY <1>3 DEF Serving
<1>. QED
  BY <1>4, <1>5, <1>6, <1>7, <1>8, <1>9 DEF Serving

\* It asks for another line.
LEMMA ServerAsks ==
    ASSUME NEW f, NEW r \in Seq(Byte), NEW p \in Nat, NEW a, NEW b, NEW s, NEW t, NEW out,
           Serving(f, r, s, p, a, out), b.ret = "busy", b.line = <<>>,
           \/ s.at = "line" /\ t = s /\ a.ret # "line"
           \/ s.at = "line" /\ t.at = "header" /\ a.ret = "line" /\ t.file = f
           \/ s.at = "header" /\ t.at = "header" /\ a.ret = "line" /\ t.file = f
    PROVE  Serving(f, r, t, p, b, out)
<1>1. GivenOf(r, p, a)
  BY DEF Serving
<1>2. GivenOf(r, p, b) /\ Used(p, b) = p
  BY <1>1, GivenNone
<1>3. CASE s.at = "line" /\ t = s /\ a.ret # "line"
  <2>1. Used(p, a) = p
    BY <1>1, <1>3, UsedAll
  <2>. QED
    BY <1>2, <1>3, <2>1 DEF Serving
<1>4. ASSUME a.ret = "line" PROVE p >= 1
  <2>1. Used(p, a) \in Nat /\ Used(p, a) = p - Len(a.line) /\ a.line # <<>> /\ a.line = SubSeq(r, Used(p, a) + 1, p)
        /\ p <= Len(r)
    BY <1>1, <1>4 DEF GivenOf, Used
  <2>2. ASSUME p = 0 PROVE a.line = <<>>
    <3>1. Used(p, a) = 0
      <4>1. Len(a.line) \in Nat
        BY <2>1
      <4>. QED
        BY <2>1, <2>2, <4>1
    <3>2. a.line = SubSeq(r, 1, 0)
      BY <2>1, <2>2, <3>1
    <3>. QED
      BY <3>2
  <2>3. a.line # <<>>
    BY <2>1
  <2>. QED
    BY <2>2, <2>3
<1>5. CASE t.at = "header" /\ a.ret = "line" /\ t.file = f /\ s.at \in {"line", "header"}
  BY <1>2, <1>4, <1>5 DEF Serving
<1>. QED
  BY <1>3, <1>5

\* The blank line ends the request.
LEMMA BlankEnds ==
    ASSUME NEW r \in Requests, NEW p \in Nat, NEW a, GivenOf(r, p, a), a.ret = "line",
           a.line = Blank, Used(p, a) >= 1, AtLineEnd(r, Used(p, a))
    PROVE  p = Len(r)
<1>. DEFINE q == Used(p, a)
<1>1. q \in Nat /\ q = p - Len(a.line) /\ a.line = SubSeq(r, q + 1, p) /\ p <= Len(r)
  BY DEF GivenOf, Used
<1>2. r \in Seq(Byte) /\ Len(r) \in Nat
  BY TextIsBytes DEF TextIsBytes
<1>3. Len(Blank) = 2 /\ Blank[1] = CR /\ Blank[2] = LF
  BY DEF Blank
<1>. HIDE DEF q
<1>4. p = q + 2 /\ q + 2 <= Len(r)
  BY <1>1, <1>3
<1>5. \A i \in 1 .. 2 : SubSeq(r, q + 1, q + 2)[i] = r[q + i]
  <2>1. q \in Nat /\ 2 \in Nat /\ q + 2 <= Len(r)
    BY <1>1, <1>4
  <2>. QED
    BY <1>2, <2>1, PartTyped
<1>6. r[q + 1] = CR /\ r[q + 2] = LF
  <2>1. SubSeq(r, q + 1, q + 2) = Blank
    BY <1>1, <1>4
  <2>2. Blank[1] = r[q + 1] /\ Blank[2] = r[q + 2]
    <3>1. 1 \in 1 .. 2 /\ 2 \in 1 .. 2
      OBVIOUS
    <3>. HIDE DEF Blank
    <3>. QED
      BY <1>5, <2>1, <3>1
  <2>. QED
    BY <1>3, <2>2
<1>7. r[q] = LF /\ q \in 1 .. Len(r) - 2
  BY <1>2, <1>4 DEF AtLineEnd, q
<1>. QED
  BY <1>4, <1>6, <1>7, RequestsEnd DEF RequestsEnd

\* A line that begins a request for f.
LEMMA FirstLine ==
    ASSUME NEW f \in DOMAIN Disk, NEW r \in Seq(Byte), IsPrefix(<<GET, f>>, r),
           NEW p \in Nat, NEW a, GivenOf(r, p, a), Used(p, a) = 0, Len(a.line) >= 2
    PROVE  Methods(a.line) = {GET} /\ URIs(a.line) = {f}
<1>1. Len(r) >= 2 /\ r[1] = GET /\ r[2] = f
  BY DEF IsPrefix
<1>2. a.line = SubSeq(r, 1, p) /\ p <= Len(r) /\ p = Len(a.line)
  <2>1. a.line = SubSeq(r, Used(p, a) + 1, p) /\ p <= Len(r)
    BY DEF GivenOf
  <2>2. Used(p, a) = p - Len(a.line)
    BY DEF Used
  <2>3. a.line = SubSeq(r, 0 + 1, p) /\ a.line \in Seq(Byte)
    <3>1. SubSeq(r, 0 + 1, 0 + p) \in Seq(Byte)
      BY <2>1, PartTyped
    <3>. QED
      BY <2>1, <3>1
  <2>. QED
    BY <2>1, <2>2, <2>3
<1>3. a.line[1] = GET /\ a.line[2] = f /\ a.line # <<>>
  <2>1. 0 + p <= Len(r) /\ p >= 2
    BY <1>2
  <2>2. \A i \in 1 .. p : SubSeq(r, 0 + 1, 0 + p)[i] = r[0 + i]
    BY <2>1, PartTyped
  <2>3. \A i \in 1 .. p : SubSeq(r, 1, p)[i] = r[i]
    BY <2>2
  <2>4. a.line[1] = r[1] /\ a.line[2] = r[2]
    BY <1>2, <2>1, <2>3
  <2>. QED
    BY <1>1, <2>4
<1>4. f \in Names
  BY DEF Names
<1>. QED
  BY <1>3, <1>4 DEF Methods, URIs

\* A request for f begins with no end of line.
LEMMA AskedFor ==
    ASSUME NEW f \in DOMAIN Disk, NEW r \in Seq(Byte), IsPrefix(<<GET, f>>, r)
    PROVE  Len(r) >= 2 /\ r[1] = GET /\ r[2] = f /\ r[1] # LF /\ r # <<>>
<1>1. Len(r) >= 2 /\ r[1] = GET /\ r[2] = f
  BY DEF IsPrefix
<1>. QED
  BY <1>1, WordsDiffer DEF WordsDiffer

\* The state of a connection for f, seen from the server.
ServedHere(f) ==
    Serving(f, cl.request, srv, Position[Server], Answers[Server],
            stream[Client] \o unsent[Server])

\* A client that is connected.
Open ==
    /\ IInv /\ SrvTyped /\ ClTyped /\ ClientActive /\ ~closed[Server]
    /\ (closed[Client] <=> srv.at \in {"closed", "exited"})
    /\ Connected

LEMMA SentToServer ==
    ASSUME Open
    PROVE  Sent(stream[Server], unsent[Client], cl.request)
  BY TwoEnds, ReaderFacts DEF Open, Connected, Sent

\* A read or a write of the server.
LEMMA ServerIO ==
    ASSUME Open, NEW f \in DOMAIN Disk, Asks(f), IO(Server), UNCHANGED <<srv, cl>>
    PROVE  ServedHere(f)'
<1>1. ReadOn(Server) \/ WriteOn(Server)
  BY TwoEnds, IOSeen DEF Open
<1>2. ServedHere(f)
  BY DEF Open, Connected, ServedHere
<1>. DEFINE r == cl.request
            c == stream[Server]
            p == Position[Server]
            a == Answers[Server]
            out == stream[Client] \o unsent[Server]
<1>3. Sent(c, unsent[Client], r) /\ p \in Nat /\ r \in Seq(Byte)
  BY TwoEnds, SentToServer, SentIs, ReaderFacts DEF Open
<1>4. Len(r) >= 2 /\ r[1] # LF
  BY <1>3, AskedFor DEF Asks
<1>5. Serving(f, r, srv, p, a, out)
  BY <1>2 DEF ServedHere
<1>6. CASE WriteOn(Server)
  <2>1. UNCHANGED <<Position, Answers>>
    BY <1>6 DEF WriteOn
  <2>2. (stream[Client] \o unsent[Server])' = out
    BY <1>6, TwoEnds DEF WriteOn
  <2>. QED
    BY <1>5, <2>1, <2>2 DEF ServedHere
<1>7. CASE ReadOn(Server)
  <2>1. Read1(Server)
    BY <1>7, TwoEnds, ReadOnSeen
  <2>2. UNCHANGED <<stream, closed, unsent>> /\ ~closed[Server]
    BY <2>1 DEF Read1, Open
  <2>3. CASE UNCHANGED <<Position, Answers>>
    BY <1>5, <2>2, <2>3 DEF ServedHere
  <2>4. CASE \E n \in 1 .. MaxLine : Took1(Server, n)
    <3>1. PICK n \in 1 .. MaxLine : Took1(Server, n)
      BY <2>4
    <3>. DEFINE b == Answers'[Server]
    <3>2. /\ a.ret = "busy" /\ p + n <= Len(c)
          /\ \A i \in 1 .. n - 1 : c[p + i] # LF
          /\ c[p + n] = LF \/ n = MaxLine
          /\ Position'[Server] = p + n
          /\ b.ret = "line" /\ b.line = SubSeq(c, p + 1, p + n)
      BY <2>2, <3>1 DEF Took1, Lines!IsNextLine
    <3>. DEFINE u == unsent[Client]
    <3>. HIDE DEF r, c, p, a, out, b, u
    <3>3. Sent(c, u, r)
      BY <1>3 DEF u
    <3>4. Serving(f, r, srv, p + n, b, out)
      BY <1>3, <1>4, <1>5, <3>2, <3>3, ServerIsGiven
    <3>. QED
      BY <2>2, <3>2, <3>4 DEF ServedHere, r, out, b
  <2>. QED
    BY <2>1, <2>2, <2>3, <2>4 DEF Read1
<1>. QED
  BY <1>1, <1>6, <1>7

\* What the other calls of an end change.
LEMMA CallFrame ==
    ASSUME IInv, NEW e \in Ends, Call(e)
    PROVE  Ends1(e, "busy") /\ UNCHANGED <<stream, closed, unsent>>
  BY CallSeen, AskSeen DEF Call

LEMMA BeginFrame ==
    ASSUME IInv, NEW e \in Ends, NEW bytes, BeginWrite(e, bytes)
    PROVE  /\ UNCHANGED <<stream, closed, Position, Answers>>
           /\ unsent[e] = <<>> /\ unsent'[e] = bytes
           /\ \A f \in Ends : f # e => unsent'[f] = unsent[f]
  BY DEF BeginWrite, IInv, RioTypeOK, Position, Answers

LEMMA CloseFrame ==
    ASSUME IInv, NEW e \in Ends, Close(e)
    PROVE  /\ UNCHANGED <<stream, Position, Answers>>
           /\ unsent'[e] = <<>> /\ closed'[Peer[e]] = TRUE
           /\ \A f \in Ends : /\ f # e => unsent'[f] = unsent[f]
                              /\ f # Peer[e] => closed'[f] = closed[f]
<1>1. Peer[e] \in Ends
  BY EndsAssumption DEF EndsAssumption
<1>. QED
  BY <1>1 DEF Close, IInv, RioTypeOK, Position, Answers

\* What no step of one end changes.
Untouched(e, d) ==
    /\ stream'[e] = stream[e] /\ closed'[e] = closed[e] /\ unsent'[d] = unsent[d]
    /\ Position'[d] = Position[d] /\ Answers'[d] = Answers[d]

LEMMA CallLeaves ==
    ASSUME IInv, NEW e \in Ends, NEW d \in Ends, e # d, Call(e)
    PROVE  Untouched(e, d)
  BY CallFrame DEF Ends1, Untouched

LEMMA BeginLeaves ==
    ASSUME IInv, NEW e \in Ends, NEW d \in Ends, e # d, NEW bytes, BeginWrite(e, bytes)
    PROVE  Untouched(e, d)
  BY BeginFrame DEF Untouched

LEMMA CloseLeaves ==
    ASSUME IInv, NEW e \in Ends, NEW d \in Ends, e # d, Peer[e] = d, Close(e)
    PROVE  Untouched(e, d)
  BY CloseFrame DEF Untouched

LEMMA IOLeaves ==
    ASSUME IInv, NEW e \in Ends, NEW d \in Ends, e # d, Peer[e] = d, IO(e)
    PROVE  Untouched(e, d) /\ UNCHANGED closed
<1>1. ReadOn(e) \/ WriteOn(e)
  BY IOSeen
<1>2. CASE WriteOn(e)
  BY <1>2 DEF WriteOn, Untouched
<1>3. CASE ReadOn(e)
  <2>1. Read1(e)
    BY <1>3, ReadOnSeen
  <2>2. Position'[d] = Position[d] /\ Answers'[d] = Answers[d]
    BY <2>1 DEF Read1, Took1, Ends1
  <2>. QED
    BY <2>1, <2>2 DEF Read1, Untouched
<1>. QED
  BY <1>1, <1>2, <1>3

\* A step of the server while its client waits.
LEMMA ServerLeaves ==
    ASSUME Open, ServerStep
    PROVE  /\ Untouched(Server, Client) /\ UNCHANGED cl
           /\ closed'[Client] <=> srv'.at \in {"closed", "exited"}
           /\ srv'.at # "exited" /\ Answers'[Server].ret # "error"
<1>0. IInv /\ ~closed[Client] /\ ~closed[Server] /\ Answers[Server].ret # "error"
      /\ (\A x : srv' = [srv EXCEPT !.at = x] => srv'.at = x)
      /\ srv.at \notin {"closed", "exited"}
  BY DEF Open, ServerStep, Connected, SrvTyped
<1>1. ASSUME Call(Server), srv' = srv \/ srv'.at = "header", UNCHANGED cl
      PROVE  /\ Untouched(Server, Client) /\ UNCHANGED cl
             /\ closed'[Client] <=> srv'.at \in {"closed", "exited"}
             /\ srv'.at # "exited" /\ Answers'[Server].ret # "error"
  <2>1. Untouched(Server, Client)
    BY <1>0, <1>1, TwoEnds, CallLeaves
  <2>2. Answers'[Server].ret = "busy" /\ closed' = closed
    BY <1>0, <1>1, TwoEnds, CallFrame DEF Ends1
  <2>. QED
    BY <1>0, <1>1, <2>1, <2>2
<1>2. ASSUME NEW bytes, BeginWrite(Server, bytes), UNCHANGED cl,
             srv'.at \in {"reply", "unread"}
      PROVE  /\ Untouched(Server, Client) /\ UNCHANGED cl
             /\ closed'[Client] <=> srv'.at \in {"closed", "exited"}
             /\ srv'.at # "exited" /\ Answers'[Server].ret # "error"
  <2>1. Untouched(Server, Client)
    BY <1>0, <1>2, TwoEnds, BeginLeaves
  <2>2. UNCHANGED <<closed, Answers>>
    BY <1>0, <1>2, TwoEnds, BeginFrame
  <2>. QED
    BY <1>0, <1>2, <2>1, <2>2
<1>3. CASE ReadLine
  BY <1>1, <1>3 DEF ReadLine
<1>4. CASE AcceptLine
  BY <1>1, <1>4 DEF AcceptLine
<1>5. CASE RejectLine
  <2>1. srv'.at = "reply"
    BY <1>0, <1>5 DEF RejectLine
  <2>. QED
    BY <1>2, <1>5, <2>1 DEF RejectLine
<1>6. CASE NextHeader
  <2>1. srv'.at = "header"
    BY <1>6 DEF NextHeader, Open, SrvTyped
  <2>. QED
    BY <1>1, <1>6, <2>1 DEF NextHeader
<1>7. CASE EndHeaders
  <2>1. srv'.at = "read"
    BY <1>0, <1>7 DEF EndHeaders
  <2>2. UNCHANGED <<stream, closed, unsent, Position, Answers, cl>>
    BY <1>7 DEF EndHeaders, vars, Position, Answers
  <2>. QED
    BY <1>0, <2>1, <2>2 DEF Untouched
<1>8. CASE ReadFile
  <2>1. srv'.at \in {"reply", "unread"}
    BY <1>0, <1>8 DEF ReadFile
  <2>2. PICK bytes : BeginWrite(Server, bytes)
    BY <1>8 DEF ReadFile
  <2>. QED
    BY <1>2, <1>8, <2>1, <2>2 DEF ReadFile
<1>9. CASE SendEmpty
  <2>1. srv'.at = "reply"
    BY <1>0, <1>9 DEF SendEmpty
  <2>. QED
    BY <1>2, <1>9, <2>1 DEF SendEmpty
<1>10. CASE Destroy
  <2>1. srv'.at = "closed" /\ UNCHANGED cl
    BY <1>0, <1>10 DEF Destroy
  <2>2. Untouched(Server, Client)
    BY <1>0, <1>10, TwoEnds, CloseLeaves DEF Destroy
  <2>3. UNCHANGED Answers /\ closed'[Client] = TRUE
    BY <1>0, <1>10, TwoEnds, CloseFrame DEF Destroy
  <2>. QED
    BY <1>0, <2>1, <2>2, <2>3
<1>11. CASE ServerExits
  <2>1. Answers[Server].ret = rio[Server].ret
    BY <1>0, TwoEnds, ReaderFacts
  <2>. QED
    BY <1>0, <1>11, <2>1 DEF ServerExits, MustExit
<1>12. CASE IO(Server) /\ UNCHANGED <<srv, cl>>
  <2>1. Untouched(Server, Client) /\ UNCHANGED closed
    BY <1>0, <1>12, TwoEnds, IOLeaves
  <2>2. ReadOn(Server) \/ WriteOn(Server)
    BY <1>0, <1>12, TwoEnds, IOSeen
  <2>3. Answers'[Server].ret # "error"
    <3>1. CASE WriteOn(Server)
      BY <1>0, <3>1 DEF WriteOn
    <3>2. CASE ReadOn(Server)
      <4>1. Read1(Server)
        BY <3>2, TwoEnds, ReadOnSeen
      <4>. QED
        BY <1>0, <4>1 DEF Read1, Took1
    <3>. QED
      BY <2>2, <3>1, <3>2
  <2>. QED
    BY <1>0, <1>12, <2>1, <2>3
<1>. QED
  BY <1>3, <1>4, <1>5, <1>6, <1>7, <1>8, <1>9, <1>10, <1>11, <1>12 DEF ServerStep

\* Before a request is sent, nothing happens to the server but that it reads.
LEMMA ServerWaits ==
    ASSUME Open, cl.at = "send", ServerStep
    PROVE  Waiting'
<1>1. IInv /\ Waiting /\ ~closed[Server]
  BY DEF Open, Connected
<1>2. /\ srv.at = "line" /\ Answers[Server].ret \in {"none", "busy"}
      /\ \A e \in {Server, Client} : Position[e] = 0 /\ stream[e] = <<>> /\ unsent[e] = <<>>
      /\ Answers[Client].ret = "none" /\ cl.request = <<>>
      /\ cl.length_received = 0 /\ cl.csum_received = 0
  BY <1>1 DEF Waiting
<1>3. Answers[Server].ret = rio[Server].ret
  BY <1>1, TwoEnds, ReaderFacts
<1>4. Untouched(Server, Client) /\ UNCHANGED cl
  BY ServerLeaves
<1>5. ASSUME /\ UNCHANGED <<stream, unsent, srv>> /\ Position'[Server] = Position[Server]
             /\ Answers'[Server].ret \in {"none", "busy"}
      PROVE  Waiting'
  BY <1>2, <1>4, <1>5 DEF Waiting, Untouched
<1>6. CASE ReadLine
  <2>1. Ends1(Server, "busy") /\ UNCHANGED <<stream, closed, unsent>> /\ UNCHANGED srv
    BY <1>1, <1>6, TwoEnds, CallFrame DEF ReadLine
  <2>. QED
    BY <1>5, <2>1 DEF Ends1
<1>7. CASE IO(Server) /\ UNCHANGED <<srv, cl>>
  <2>1. ReadOn(Server) \/ WriteOn(Server)
    BY <1>1, <1>7, TwoEnds, IOSeen
  <2>2. ~WriteOn(Server)
    BY <1>2 DEF WriteOn
  <2>3. Read1(Server)
    BY <2>1, <2>2, TwoEnds, ReadOnSeen
  <2>4. ASSUME NEW n \in 1 .. MaxLine, Took1(Server, n) PROVE FALSE
    <3>1. Position[Server] + n <= Len(stream[Server])
      BY <2>4 DEF Took1, Lines!IsNextLine
    <3>2. MaxLine \in Nat
      BY SizesAssumption DEF SizesAssumption
    <3>3. Position[Server] = 0 /\ Len(stream[Server]) = 0
      BY <1>2
    <3>. QED
      BY <3>1, <3>2, <3>3
  <2>5. UNCHANGED <<stream, closed, unsent, Position, Answers>>
    BY <1>1, <2>3, <2>4 DEF Read1
  <2>. QED
    BY <1>2, <1>5, <1>7, <2>5
<1>8. CASE ServerExits
  BY <1>1, <1>2, <1>3, <1>8 DEF ServerExits, MustExit
<1>9. CASE AcceptLine \/ RejectLine
  BY <1>2, <1>3, <1>9 DEF AcceptLine, RejectLine, Answered
<1>10. CASE NextHeader \/ EndHeaders \/ ReadFile \/ SendEmpty \/ Destroy
  BY <1>2, <1>10 DEF NextHeader, EndHeaders, ReadFile, SendEmpty, Destroy
<1>. QED
  BY <1>6, <1>7, <1>8, <1>9, <1>10 DEF ServerStep

\* What the server knows of a client that asked for f.
LEMMA AtServer ==
    ASSUME Open, NEW f \in DOMAIN Disk, Asks(f)
    PROVE  /\ Serving(f, cl.request, srv, Position[Server], Answers[Server],
                      stream[Client] \o unsent[Server])
           /\ cl.request \in Requests /\ cl.request \in Seq(Byte) /\ Position[Server] \in Nat
           /\ IsPrefix(<<GET, f>>, cl.request)
           /\ Answers[Server].ret = rio[Server].ret
           /\ rio[Server].ret = "line" => Answers[Server].line = rio[Server].line
           /\ stream[Client] \in Seq(Byte) /\ unsent[Server] \in Seq(Byte)
<1>1. cl.request \in Requests
  <2>1. cl.request \in Requests \cup {<<>>}
    BY DEF Open, ClTyped
  <2>2. cl.request # <<>>
    BY DEF Asks, IsPrefix
  <2>. QED
    BY <2>1, <2>2
<1>2. cl.request \in Seq(Byte)
  BY <1>1, TextIsBytes DEF TextIsBytes
<1>. QED
  BY <1>1, <1>2, TwoEnds, ReaderFacts DEF Open, Connected, Asks

\* The server asks for a line.
LEMMA ServerCalls ==
    ASSUME Open, NEW f \in DOMAIN Disk, Asks(f), ServerStep, Call(Server),
           \/ srv.at = "line" /\ UNCHANGED srv /\ rio[Server].ret = "none"
           \/ srv.at = "line" /\ srv'.at = "header" /\ rio[Server].ret = "line" /\ srv'.file = f
           \/ srv.at = "header" /\ srv'.at = "header" /\ rio[Server].ret = "line" /\ srv'.file = f
    PROVE  ServedHere(f)'
<1>. DEFINE r == cl.request
            p == Position[Server]
            a == Answers[Server]
            b == Answers'[Server]
            t == srv'
            s == srv
            out == stream[Client] \o unsent[Server]
<1>1. /\ r \in Seq(Byte) /\ p \in Nat /\ a.ret = rio[Server].ret
      /\ Serving(f, r, s, p, a, out)
  BY AtServer
<1>2. /\ UNCHANGED <<stream, closed, unsent>> /\ Position' = Position
      /\ b.ret = "busy" /\ b.line = <<>>
  BY TwoEnds, CallFrame DEF Open, Ends1
<1>3. UNCHANGED cl
  BY ServerLeaves
<1>4. \/ s.at = "line" /\ t = s /\ a.ret # "line"
      \/ s.at = "line" /\ t.at = "header" /\ a.ret = "line" /\ t.file = f
      \/ s.at = "header" /\ t.at = "header" /\ a.ret = "line" /\ t.file = f
  BY <1>1
<1>. HIDE DEF r, p, a, b, t, s, out
<1>5. Serving(f, r, t, p, b, out)
  BY <1>1, <1>2, <1>4, ServerAsks
<1>. QED
  BY <1>2, <1>3, <1>5 DEF ServedHere, r, p, a, b, t, s, out

\* The server writes, or closes, and reads no more.
LEMMA ServerReplies ==
    ASSUME Open, NEW f \in DOMAIN Disk, Asks(f), ServerStep,
           UNCHANGED <<Position, Answers>>, srv'.file = f,
           Fits(cl.request) => Position[Server] = Len(cl.request),
           \/ srv'.at = "read" /\ srv.at = "header"
              /\ stream'[Client] \o unsent'[Server] = stream[Client] \o unsent[Server]
           \/ srv'.at = "reply" /\ stream'[Client] \o unsent'[Server] = ReplyTo(f)
           \/ srv'.at = "closed" /\ stream'[Client] \o unsent'[Server] = ReplyTo(f)
    PROVE  ServedHere(f)'
<1>. DEFINE r == cl.request
            p == Position[Server]
            a == Answers[Server]
            t == srv'
            s == srv
            out == stream[Client] \o unsent[Server]
            new == stream'[Client] \o unsent'[Server]
<1>1. Serving(f, r, s, p, a, out)
  BY AtServer
<1>2. UNCHANGED cl
  BY ServerLeaves
<1>3. \/ t.at = "read" /\ s.at = "header" /\ new = out
      \/ t.at = "reply" /\ new = ReplyTo(f)
      \/ t.at = "closed" /\ new = ReplyTo(f)
  OBVIOUS
<1>4. t.file = f /\ (Fits(r) => p = Len(r))
  OBVIOUS
<1>. HIDE DEF r, p, a, t, s, out, new
<1>5. AtLineEnd(r, Len(r))
  BY DEF AtLineEnd
<1>6. /\ t.at \in {"line", "header", "read", "reply", "closed"}
      /\ new = IF t.at \in {"reply", "closed"} THEN ReplyTo(f) ELSE <<>>
      /\ GivenOf(r, p, a)
      /\ Fits(r) => p = Len(r) /\ AtLineEnd(r, p)
      /\ t.at \notin {"line", "header"}
  BY <1>1, <1>3, <1>4, <1>5 DEF Serving
<1>7. Serving(f, r, t, p, a, new)
  BY <1>4, <1>6 DEF Serving
<1>. QED
  BY <1>2, <1>7 DEF ServedHere, r, p, a, t, new

\* Every step of the server for a client that asked for f.
LEMMA ServerServes ==
    ASSUME Open, NEW f \in DOMAIN Disk, Asks(f), ServerStep
    PROVE  ServedHere(f)' /\ (srv'.at = "closed" => unsent'[Server] = <<>>)
<1>. DEFINE r == cl.request
            p == Position[Server]
            a == Answers[Server]
            out == stream[Client] \o unsent[Server]
<1>1. /\ r \in Seq(Byte) /\ p \in Nat /\ a.ret = rio[Server].ret
      /\ r \in Requests /\ IsPrefix(<<GET, f>>, r)
      /\ rio[Server].ret = "line" => a.line = rio[Server].line
      /\ Serving(f, r, srv, p, a, out)
      /\ stream[Client] \in Seq(Byte)
  BY AtServer
<1>0. /\ \A x : [srv EXCEPT !.at = x].at = x /\ [srv EXCEPT !.at = x].file = srv.file
      /\ \A x : [srv EXCEPT !.blank = x].at = srv.at /\ [srv EXCEPT !.blank = x].file = srv.file
      /\ IInv /\ GivenOf(r, p, a)
  BY <1>1 DEF Open, SrvTyped, Serving
<1>2. srv.at \in {"line", "header"} => rio[Server].ret \in {"none", "busy", "line"}
      /\ out = <<>>
  BY <1>1 DEF Serving
<1>3. ASSUME srv.at = "line", rio[Server].ret = "line"
      PROVE  Methods(rio[Server].line) = {GET} /\ URIs(rio[Server].line) = {f}
  <2>1. Used(p, a) = 0 /\ Len(a.line) >= 2 /\ GivenOf(r, p, a)
    BY <1>0, <1>1, <1>3 DEF Serving
  <2>. HIDE DEF r, p, a
  <2>2. Methods(a.line) = {GET} /\ URIs(a.line) = {f}
    BY <1>1, <2>1, FirstLine
  <2>. QED
    BY <1>1, <1>3, <2>2
<1>4. CASE ReadLine
  <2>1. ServedHere(f)'
    BY <1>4, ServerCalls DEF ReadLine
  <2>. QED
    BY <1>4, <2>1 DEF ReadLine
<1>5. CASE AcceptLine
  <2>1. srv.at = "line" /\ rio[Server].ret = "line"
    BY <1>2, <1>5 DEF AcceptLine, Answered
  <2>2. srv'.at = "header" /\ srv'.file = f
    BY <1>3, <1>5, <2>1 DEF AcceptLine
  <2>3. ServedHere(f)'
    BY <1>5, <2>1, <2>2, ServerCalls DEF AcceptLine
  <2>. QED
    BY <2>2, <2>3
<1>6. CASE RejectLine
  <2>1. srv.at = "line" /\ rio[Server].ret = "line"
    BY <1>2, <1>6 DEF RejectLine, Answered
  <2>. QED
    BY <1>3, <1>6, <2>1 DEF RejectLine
<1>7. CASE NextHeader
  <2>1. srv.at = "header" /\ rio[Server].ret = "line"
    BY <1>2, <1>7 DEF NextHeader, Answered
  <2>2. srv'.at = "header" /\ srv'.file = f
    BY <1>0, <1>1, <1>7, <2>1 DEF NextHeader, Serving
  <2>3. ServedHere(f)'
    BY <1>7, <2>1, <2>2, ServerCalls DEF NextHeader
  <2>. QED
    BY <2>2, <2>3
<1>8. CASE EndHeaders
  <2>1. srv.at = "header" /\ rio[Server].ret = "line"
    BY <1>2, <1>8 DEF EndHeaders, Answered
  <2>2. srv'.at = "read" /\ srv'.file = f /\ a.line = Blank
    BY <1>0, <1>1, <1>8, <2>1 DEF EndHeaders, Serving, SeesBlank
  <2>3. ASSUME Fits(r) PROVE p = Len(r)
    <3>1. Used(p, a) >= 1 /\ AtLineEnd(r, Used(p, a)) /\ GivenOf(r, p, a)
      BY <1>1, <2>1, <2>3 DEF Serving
    <3>. HIDE DEF r, p, a
    <3>. QED
      BY <1>1, <2>1, <2>2, <3>1, BlankEnds
  <2>4. UNCHANGED <<Position, Answers, stream, unsent>>
    BY <1>8 DEF EndHeaders, vars, Position, Answers
  <2>5. ServedHere(f)'
    BY <2>1, <2>2, <2>3, <2>4, ServerReplies
  <2>. QED
    BY <2>2, <2>5
<1>9. ASSUME srv.at \in {"read", "reply"}
      PROVE  srv.file = f /\ (Fits(r) => p = Len(r))
  BY <1>1, <1>9 DEF Serving
<1>10. CASE ReadFile
  <2>1. srv.at = "read" /\ f # Missing
    BY <1>10, WordsDiffer DEF ReadFile, WordsDiffer
  <2>2. srv.file = f /\ (Fits(r) => p = Len(r)) /\ out = <<>>
    BY <1>1, <1>9, <2>1 DEF Serving
  <2>3. BeginWrite(Server, ReplyTo(f)) /\ srv'.at = "reply" /\ srv'.file = f
    BY <1>0, <1>10, <2>1, <2>2 DEF ReadFile, ReplyTo
  <2>4. UNCHANGED <<stream, Position, Answers>> /\ unsent'[Server] = ReplyTo(f)
        /\ unsent[Server] = <<>>
    BY <1>0, <2>3, TwoEnds, BeginFrame
  <2>5. stream[Client] = <<>>
    BY <1>1, <2>2, <2>4
  <2>6. ReplyTo(f) \in Seq(Byte)
    BY ReplyTyped, TextIsBytes DEF ReplyTo, Bodies, TextIsBytes
  <2>7. stream'[Client] \o unsent'[Server] = ReplyTo(f)
    BY <2>4, <2>5, <2>6
  <2>8. ServedHere(f)'
    BY <2>2, <2>3, <2>4, <2>7, ServerReplies
  <2>. QED
    BY <2>3, <2>8
<1>11. CASE SendEmpty
  BY <1>1, <1>11 DEF SendEmpty, Serving
<1>12. CASE Destroy
  <2>1. srv.at = "reply" /\ unsent[Server] = <<>> /\ srv'.at = "closed" /\ srv'.file = srv.file
    BY <1>0, <1>12 DEF Destroy
  <2>2. srv.file = f /\ (Fits(r) => p = Len(r)) /\ out = ReplyTo(f)
    BY <1>1, <1>9, <2>1 DEF Serving
  <2>3. UNCHANGED <<stream, Position, Answers>> /\ unsent'[Server] = <<>>
    BY <1>0, <1>12, TwoEnds, CloseFrame DEF Destroy
  <2>4. stream'[Client] \o unsent'[Server] = ReplyTo(f)
    BY <2>1, <2>2, <2>3
  <2>5. ServedHere(f)'
    BY <2>1, <2>2, <2>3, <2>4, ServerReplies
  <2>. QED
    BY <2>3, <2>5
<1>13. CASE ServerExits
  <2>1. srv'.at = "exited"
    BY <1>0, <1>13 DEF ServerExits
  <2>. QED
    BY <2>1, ServerLeaves
<1>14. CASE IO(Server) /\ UNCHANGED <<srv, cl>>
  <2>1. ServedHere(f)'
    BY <1>14, ServerIO
  <2>2. srv.at # "closed"
    BY DEF ServerStep
  <2>. QED
    BY <1>14, <2>1, <2>2
<1>. QED
  BY <1>4, <1>5, <1>6, <1>7, <1>8, <1>10, <1>11, <1>12, <1>13, <1>14 DEF ServerStep

\* A step of the server keeps its client connected.
LEMMA ServerConnected ==
    ASSUME Open, ServerStep
    PROVE  Connected'
<1>1. /\ Untouched(Server, Client) /\ UNCHANGED cl
      /\ srv'.at # "exited" /\ Answers'[Server].ret # "error"
  BY ServerLeaves
<1>2. cl.at = "send" => Waiting'
  BY ServerWaits
<1>3. Connected
  BY DEF Open
<1>4. stream'[Server] \o unsent'[Client] = cl'.request
  BY <1>1, <1>3 DEF Connected, Untouched
<1>5. ASSUME NEW f \in DOMAIN Disk, Asks(f)'
      PROVE  /\ ServedHere(f)'
             /\ srv'.at = "closed" => unsent'[Server] = <<>>
             /\ ReadingReply(f, cl', Position'[Client], Answers'[Client])
  <2>1. Asks(f)
    BY <1>1, <1>5 DEF Asks
  <2>2. ReadingReply(f, cl, Position[Client], Answers[Client])
    BY <1>3, <2>1 DEF Connected
  <2>. QED
    BY <1>1, <2>1, <2>2, ServerServes DEF Untouched
<1>. QED
  BY <1>1, <1>2, <1>4, <1>5 DEF Connected, ServedHere

----------------------------------------------------------------------------
(* The client that asked for f.                                            *)

----------------------------------------------------------------------------
(* What the client reads.                                                  *)

LEMMA ReplyLines ==
    ASSUME NEW f \in DOMAIN Disk
    PROVE  LET R == ReplyTo(f)
               B == Disk[f]
           IN
           /\ R \in Seq(Byte) /\ B \in Seq(Byte) /\ Len(B) \in Nat /\ Len(R) = 13 + Len(B)
           /\ R[1] = OK /\ R[2] = CR /\ R[3] = LF
           /\ R[4] = TagLength /\ R[5] = Decimal(Len(B)) /\ R[6] = CR /\ R[7] = LF
           /\ R[8] = TagCsum /\ R[9] = Decimal(Sum(B)) /\ R[10] = CR /\ R[11] = LF
           /\ R[12] = CR /\ R[13] = LF
           /\ \A i \in 1 .. Len(B) : R[13 + i] = B[i]
<1>. DEFINE B == Disk[f]
            R == ReplyTo(f)
            x == Decimal(Len(B))
            y == Decimal(Sum(B))
            h == <<OK, CR, LF, TagLength, x, CR, LF, TagCsum, y, CR, LF>>
            g == h \o Blank
<1>1. B \in Bodies
  BY DEF Bodies
<1>2. /\ R \in Seq(Byte) /\ B \in Seq(Byte) /\ Len(B) \in Nat
      /\ OK \in Byte /\ CR \in Byte /\ LF \in Byte /\ TagLength \in Byte /\ TagCsum \in Byte
      /\ x \in Byte /\ y \in Byte
  <2>1. /\ OK \in Byte /\ CR \in Byte /\ LF \in Byte /\ TagLength \in Byte /\ TagCsum \in Byte
        /\ \A body \in Bodies : body \in Seq(Byte) /\ Decimal(Len(body)) \in Byte
                                 /\ Decimal(Sum(body)) \in Byte
    BY TextIsBytes DEF TextIsBytes
  <2>2. R = Reply(OK, B)
    BY DEF ReplyTo
  <2>. HIDE DEF R, B
  <2>3. R \in Seq(Byte)
    BY <1>1, <2>1, <2>2, ReplyTyped
  <2>4. B \in Seq(Byte) /\ Len(B) \in Nat
    BY <1>1, <2>1
  <2>. QED
    BY <1>1, <2>1, <2>3, <2>4
<1>3. R = g \o B
  BY Zenon DEF ReplyTo, Reply
<1>. HIDE DEF R, B, x, y
<1>4. h \in Seq(Byte) /\ Len(h) = 11
  BY <1>2
<1>5. /\ h[1] = OK /\ h[2] = CR /\ h[3] = LF /\ h[4] = TagLength /\ h[5] = x /\ h[6] = CR
      /\ h[7] = LF /\ h[8] = TagCsum /\ h[9] = y /\ h[10] = CR /\ h[11] = LF
  OBVIOUS
<1>6. Blank \in Seq(Byte) /\ Len(Blank) = 2 /\ Blank[1] = CR /\ Blank[2] = LF
  BY <1>2 DEF Blank
<1>. HIDE DEF h
<1>. HIDE DEF Blank
<1>7. g \in Seq(Byte) /\ Len(g) = 13 /\ \A i \in 1 .. 13 : g[i] = IF i <= 11 THEN h[i] ELSE Blank[i - 11]
  <2>1. /\ g \in Seq(Byte) /\ Len(g) = Len(h) + Len(Blank)
        /\ \A i \in 1 .. Len(h) + Len(Blank) :
              g[i] = IF i <= Len(h) THEN h[i] ELSE Blank[i - Len(h)]
    BY <1>4, <1>6, ConcatProperties
  <2>2. Len(h) = 11 /\ Len(h) + Len(Blank) = 13
    BY <1>4, <1>6
  <2>. HIDE DEF g
  <2>. QED
    BY <2>1, <2>2
<1>8. g[12] = CR /\ g[13] = LF
  BY <1>6, <1>7
<1>. HIDE DEF g
<1>9. Len(R) = 13 + Len(B) /\ \A i \in 1 .. 13 + Len(B) : R[i] = IF i <= 13 THEN g[i] ELSE B[i - 13]
  <2>1. /\ Len(g \o B) = Len(g) + Len(B)
        /\ \A i \in 1 .. Len(g) + Len(B) :
              (g \o B)[i] = IF i <= Len(g) THEN g[i] ELSE B[i - Len(g)]
    BY <1>2, <1>7, ConcatProperties
  <2>. QED
    BY <1>3, <1>7, <2>1
<1>10. \A i \in 1 .. 11 : R[i] = h[i]
  BY <1>2, <1>7, <1>9
<1>11. R[12] = CR /\ R[13] = LF
  BY <1>2, <1>8, <1>9
<1>12. \A i \in 1 .. Len(B) : R[13 + i] = B[i]
  BY <1>2, <1>9
<1>13. /\ R[1] = OK /\ R[2] = CR /\ R[3] = LF
       /\ R[4] = TagLength /\ R[5] = x /\ R[6] = CR /\ R[7] = LF
       /\ R[8] = TagCsum /\ R[9] = y /\ R[10] = CR /\ R[11] = LF
  BY <1>5, <1>10
<1>14. /\ R \in Seq(Byte) /\ B \in Seq(Byte) /\ Len(B) \in Nat /\ Len(R) = 13 + Len(B)
       /\ R[1] = OK /\ R[2] = CR /\ R[3] = LF
       /\ R[4] = TagLength /\ R[5] = x /\ R[6] = CR /\ R[7] = LF
       /\ R[8] = TagCsum /\ R[9] = y /\ R[10] = CR /\ R[11] = LF
       /\ R[12] = CR /\ R[13] = LF
       /\ \A i \in 1 .. Len(B) : R[13 + i] = B[i]
  BY <1>2, <1>9, <1>11, <1>12, <1>13
<1>. QED
  BY <1>14 DEF R, B, x, y

\* Where the body of a reply is in it.
LEMMA BodyPart ==
    ASSUME NEW f \in DOMAIN Disk, NEW m \in Nat, NEW n \in Nat, m + n <= Len(Disk[f])
    PROVE  SubSeq(ReplyTo(f), 13 + m + 1, 13 + m + n) = SubSeq(Disk[f], m + 1, m + n)
<1>. DEFINE B == Disk[f]
            R == ReplyTo(f)
            q == 13 + m
            x == SubSeq(R, q + 1, q + n)
            y == SubSeq(B, m + 1, m + n)
<1>1. /\ R \in Seq(Byte) /\ B \in Seq(Byte) /\ Len(B) \in Nat /\ Len(R) = 13 + Len(B)
      /\ \A i \in 1 .. Len(B) : R[13 + i] = B[i]
  BY ReplyLines
<1>2. m + n <= Len(B)
  OBVIOUS
<1>. HIDE DEF R, B
<1>3. y \in Seq(Byte) /\ Len(y) = n /\ \A i \in 1 .. n : y[i] = B[m + i]
  BY <1>1, <1>2, PartTyped
<1>4. q \in Nat /\ q + n <= Len(R)
  BY <1>1, <1>2
<1>5. \A i \in 1 .. n : m + i \in 1 .. Len(B) /\ q + i = 13 + (m + i)
  BY <1>1, <1>2
<1>6. \A i \in 1 .. n : R[q + i] = B[m + i]
  BY <1>1, <1>5
<1>. HIDE DEF q
<1>7. x \in Seq(Byte) /\ Len(x) = n /\ \A i \in 1 .. n : x[i] = R[q + i]
  BY <1>1, <1>4, PartTyped
<1>8. \A i \in 1 .. n : x[i] = y[i]
  BY <1>3, <1>6, <1>7
<1>. HIDE DEF x, y
<1>9. x = y
  BY <1>3, <1>7, <1>8, SeqEqual
<1>. QED
  BY <1>9 DEF x, y, q, R, B

\* The lines before the body end in LineAfter.
LEMMA HeadLine ==
    ASSUME NEW f \in DOMAIN Disk, NEW p \in {0, 3, 7, 11}
    PROVE  LET k == LineAfter[p] - p IN
           /\ k \in 1 .. MaxLine /\ k \in 1 .. 4 /\ LineAfter[p] = p + k
           /\ p + k <= Len(ReplyTo(f)) /\ ReplyTo(f)[p + k] = LF
           /\ \A i \in 1 .. k - 1 : ReplyTo(f)[p + i] # LF
<1>. DEFINE R == ReplyTo(f)
            B == Disk[f]
<1>1. MaxLine \in Nat /\ MaxLine >= 4
  BY SizesAssumption, WordsDiffer DEF SizesAssumption, WordsDiffer
<1>2. /\ LF # OK /\ LF # CR /\ LF # TagLength /\ LF # TagCsum
      /\ LF # Decimal(Len(B)) /\ LF # Decimal(Sum(B))
  BY WordsDiffer DEF WordsDiffer, Bodies
<1>3. /\ Len(B) \in Nat /\ Len(R) = 13 + Len(B)
      /\ R[1] = OK /\ R[2] = CR /\ R[3] = LF
      /\ R[4] = TagLength /\ R[5] = Decimal(Len(B)) /\ R[6] = CR /\ R[7] = LF
      /\ R[8] = TagCsum /\ R[9] = Decimal(Sum(B)) /\ R[10] = CR /\ R[11] = LF
      /\ R[12] = CR /\ R[13] = LF
  BY ReplyLines
<1>. HIDE DEF R, B
<1>4. ASSUME NEW k \in 1 .. 4, LineAfter[p] = p + k, p + k <= 13, R[p + k] = LF,
             \A i \in 1 .. k - 1 : R[p + i] # LF
      PROVE  LET n == LineAfter[p] - p IN
             /\ n \in 1 .. MaxLine /\ n \in 1 .. 4 /\ LineAfter[p] = p + n
             /\ p + n <= Len(R) /\ R[p + n] = LF
             /\ \A i \in 1 .. n - 1 : R[p + i] # LF
  <2>1. LineAfter[p] - p = k
    BY <1>4
  <2>2. k \in 1 .. MaxLine /\ p + k <= Len(R)
    BY <1>1, <1>3, <1>4
  <2>. QED
    BY <1>4, <2>1, <2>2
<1>5. CASE p = 0
  <2>1. LineAfter[p] = p + 3
    BY <1>5 DEF LineAfter
  <2>2. \A i \in 1 .. 3 - 1 : i = 1 \/ i = 2
    OBVIOUS
  <2>. QED
    BY <1>2, <1>3, <1>4, <1>5, <2>1, <2>2 DEF R
<1>6. CASE p = 3
  <2>1. LineAfter[p] = p + 4
    BY <1>6 DEF LineAfter
  <2>2. \A i \in 1 .. 4 - 1 : i = 1 \/ i = 2 \/ i = 3
    OBVIOUS
  <2>. QED
    BY <1>2, <1>3, <1>4, <1>6, <2>1, <2>2 DEF R
<1>7. CASE p = 7
  <2>1. LineAfter[p] = p + 4
    BY <1>7 DEF LineAfter
  <2>2. \A i \in 1 .. 4 - 1 : i = 1 \/ i = 2 \/ i = 3
    OBVIOUS
  <2>. QED
    BY <1>2, <1>3, <1>4, <1>7, <2>1, <2>2 DEF R
<1>8. CASE p = 11
  <2>1. LineAfter[p] = p + 2
    BY <1>8 DEF LineAfter
  <2>2. \A i \in 1 .. 2 - 1 : i = 1
    OBVIOUS
  <2>. QED
    BY <1>2, <1>3, <1>4, <1>8, <2>1, <2>2 DEF R
<1>. QED
  BY <1>5, <1>6, <1>7, <1>8

\* The bytes of the line that was given.
LEMMA LineOf ==
    ASSUME NEW s \in Seq(Byte), NEW p \in Nat, NEW a, GivenOf(s, p, a)
    PROVE  LET q == Used(p, a) IN
           /\ q \in Nat /\ q <= p /\ Len(a.line) = p - q /\ a.line \in Seq(Byte) /\ p <= Len(s)
           /\ a.line = SubSeq(s, q + 1, p)
           /\ \A i \in 1 .. p - q : a.line[i] = s[q + i]
<1>. DEFINE q == Used(p, a)
            n == p - q
<1>1. q \in Nat /\ q = p - Len(a.line) /\ a.line = SubSeq(s, q + 1, p) /\ p <= Len(s)
  BY DEF GivenOf, Used
<1>2. \A i \in q + 1 .. p : s[i] \in Byte
  BY <1>1
<1>. HIDE DEF q
<1>3. a.line \in Seq(Byte)
  BY <1>1, <1>2, SubSeqProperties
<1>4. Len(a.line) \in Nat
  BY <1>3
<1>5. q <= p /\ n \in Nat /\ p = q + n /\ Len(a.line) = n
  BY <1>1, <1>4
<1>. HIDE DEF n
<1>6. q + n <= Len(s)
  BY <1>1, <1>5
<1>7. \A i \in 1 .. n : SubSeq(s, q + 1, q + n)[i] = s[q + i]
  BY <1>1, <1>5, <1>6, PartTyped
<1>8. \A i \in 1 .. n : a.line[i] = s[q + i]
  BY <1>1, <1>5, <1>7
<1>9. n = p - q
  BY DEF n
<1>. QED
  BY <1>1, <1>3, <1>5, <1>8, <1>9 DEF q

ReadsHere(f) == ReadingReply(f, cl, Position[Client], Answers[Client])

\* What the client knows.
LEMMA AtClient ==
    ASSUME Open, NEW f \in DOMAIN Disk, Asks(f)
    PROVE  /\ ReadingReply(f, cl, Position[Client], Answers[Client])
           /\ Position[Client] \in Nat
           /\ Answers[Client].ret = rio[Client].ret /\ rio[Client].ret \in Results
           /\ Answers[Client].line = IF rio[Client].ret = "line" THEN rio[Client].line ELSE <<>>
           /\ GivenOf(ReplyTo(f), Position[Client], Answers[Client])
           /\ ReplyTo(f) \in Seq(Byte)
  BY TwoEnds, ReaderFacts, ReplyLines DEF Open, Connected, ReadingReply

\* The client is sent the reply; all of it, when the server has closed.
LEMMA SentToClient ==
    ASSUME Open, NEW f \in DOMAIN Disk, Asks(f), Len(stream[Client]) > 0 \/ closed[Client]
    PROVE  /\ Sent(stream[Client], unsent[Server], ReplyTo(f))
           /\ closed[Client] => /\ stream[Client] = ReplyTo(f) /\ srv.at = "closed"
                                /\ Fits(cl.request) => Position[Server] = Len(cl.request)
<1>. DEFINE c == stream[Client]
            u == unsent[Server]
            R == ReplyTo(f)
<1>1. /\ Serving(f, cl.request, srv, Position[Server], Answers[Server], c \o u)
      /\ c \in Seq(Byte) /\ u \in Seq(Byte)
  BY AtServer
<1>2. /\ c \o u = IF srv.at \in {"reply", "closed"} THEN R ELSE <<>>
      /\ srv.at = "closed" => (Fits(cl.request) => Position[Server] = Len(cl.request))
  BY <1>1 DEF Serving
<1>3. /\ closed[Client] => srv.at = "closed"
      /\ srv.at = "closed" => u = <<>>
  BY DEF Open, Connected
<1>. HIDE DEF c, u, R
<1>4. srv.at \in {"reply", "closed"}
  <2>. SUFFICES ASSUME srv.at \notin {"reply", "closed"} PROVE FALSE
    OBVIOUS
  <2>1. c \o u = <<>> /\ ~closed[Client]
    BY <1>2, <1>3
  <2>2. Len(c \o u) = Len(c) + Len(u) /\ Len(c) \in Nat /\ Len(u) \in Nat
    BY <1>1
  <2>3. Len(c) = 0
    BY <2>1, <2>2
  <2>. QED
    BY <2>1, <2>3 DEF c
<1>5. Sent(c, u, R)
  BY <1>1, <1>2, <1>4 DEF Sent
<1>6. u = <<>> => c = R
  BY <1>5, SentIs
<1>. QED
  BY <1>2, <1>3, <1>5, <1>6 DEF c, u, R

\* The next line that the client is given.
LEMMA ClientIsGiven ==
    ASSUME NEW f \in DOMAIN Disk, NEW c, NEW u, Sent(c, u, ReplyTo(f)),
           NEW p \in Nat, NEW a, NEW b, NEW k, ReadingReply(f, k, p, a), a.ret = "busy",
           NEW n \in 1 .. MaxLine, p + n <= Len(c),
           \A i \in 1 .. n - 1 : c[p + i] # LF,
           \/ c[p + n] = LF
           \/ n = MaxLine
           \/ c = ReplyTo(f) /\ p + n = Len(c),
           b.ret = "line", b.line = SubSeq(c, p + 1, p + n)
    PROVE  ReadingReply(f, k, p + n, b)
<1>1. MaxLine \in Nat
  BY SizesAssumption DEF SizesAssumption
<1>2. GivenOf(ReplyTo(f), p, a)
  BY DEF ReadingReply
<1>3. Used(p, a) = p
  BY <1>2, UsedAll
<1>4. GivenOf(ReplyTo(f), p + n, b) /\ Used(p + n, b) = p
  BY <1>1, GivenNext
<1>5. k.at # "sent"
  BY DEF ReadingReply
<1>6. ASSUME k.at # "body" PROVE p + n = LineAfter[p]
  <2>1. p \in {0, 3, 7, 11}
    BY <1>3, <1>5, <1>6 DEF ReadingReply
  <2>. DEFINE j == LineAfter[p] - p
              R == ReplyTo(f)
  <2>2. FirstEnd(R, p, j) /\ LineAfter[p] = p + j
    BY <2>1, HeadLine DEF FirstEnd
  <2>3. Sent(c, u, R) /\ Reaches(c, R, p, n)
    BY DEF Reaches
  <2>. HIDE DEF j, R
  <2>4. n = j
    BY <2>2, <2>3, LineStops
  <2>. QED
    BY <2>2, <2>4
<1>. QED
  BY <1>3, <1>4, <1>5, <1>6 DEF ReadingReply

\* A read or a write of the client.
LEMMA ClientIO ==
    ASSUME Open, NEW f \in DOMAIN Disk, Asks(f), IO(Client), UNCHANGED <<srv, cl>>
    PROVE  ReadsHere(f)'
<1>1. ReadOn(Client) \/ WriteOn(Client)
  BY TwoEnds, IOSeen DEF Open
<1>. DEFINE c == stream[Client]
            p == Position[Client]
            a == Answers[Client]
            b == Answers'[Client]
            R == ReplyTo(f)
            u == unsent[Server]
<1>2. ReadingReply(f, cl, p, a) /\ p \in Nat /\ GivenOf(R, p, a)
  BY AtClient
<1>3. CASE WriteOn(Client)
  BY <1>2, <1>3 DEF WriteOn, ReadsHere
<1>4. CASE ReadOn(Client)
  <2>1. Read1(Client)
    BY <1>4, TwoEnds, ReadOnSeen
  <2>2. CASE UNCHANGED <<Position, Answers>>
    BY <1>2, <2>2 DEF ReadsHere
  <2>3. CASE \E n \in 1 .. MaxLine : Took1(Client, n)
    <3>1. PICK n \in 1 .. MaxLine : Took1(Client, n)
      BY <2>3
    <3>2. /\ a.ret = "busy" /\ p + n <= Len(c)
          /\ \A i \in 1 .. n - 1 : c[p + i] # LF
          /\ c[p + n] = LF \/ n = MaxLine \/ (closed[Client] /\ p + n = Len(c))
          /\ Position'[Client] = p + n
          /\ b.ret = "line" /\ b.line = SubSeq(c, p + 1, p + n)
      BY <3>1 DEF Took1, Lines!IsNextLine
    <3>3. Len(c) > 0
      <4>1. p + n > 0
        BY <1>2, SizesAssumption DEF SizesAssumption
      <4>2. Len(c) \in Nat
        BY TwoEnds, ReaderFacts DEF Open
      <4>. HIDE DEF c, p
      <4>3. p + n \in Nat
        BY <1>2, SizesAssumption DEF SizesAssumption
      <4>. QED
        BY <3>2, <4>1, <4>2, <4>3
    <3>4. Sent(c, u, R) /\ (closed[Client] => c = R)
      BY <3>3, SentToClient
    <3>5. c[p + n] = LF \/ n = MaxLine \/ (c = R /\ p + n = Len(c))
      BY <3>2, <3>4
    <3>. HIDE DEF c, p, a, b, u
    <3>6. ReadingReply(f, cl, p + n, b)
      BY <1>2, <3>2, <3>4, <3>5, ClientIsGiven
    <3>. QED
      BY <3>2, <3>6 DEF ReadsHere, b
  <2>4. ASSUME NEW v \in {"eof", "error"}, Ends1(Client, v), a.ret = "busy",
               v = "eof" => p = Len(R), v = "error" => ~Fits(cl.request)
        PROVE  ReadsHere(f)'
    <3>1. Position'[Client] = p /\ b.ret = v /\ b.line = <<>>
      BY <2>4 DEF Ends1
    <3>. HIDE DEF p, a, b
    <3>2. Used(p, a) = p
      BY <1>2, <2>4, UsedAll
    <3>3. GivenOf(R, p, b) /\ Used(p, b) = p
      BY <1>2, <2>4, <3>1, GivenNone
    <3>4. ReadingReply(f, cl, p, b)
      BY <1>2, <2>4, <3>1, <3>2, <3>3 DEF ReadingReply
    <3>. QED
      BY <3>1, <3>4 DEF ReadsHere, b
  <2>5. CASE Ends1(Client, "eof") /\ a.ret = "busy" /\ closed[Client] /\ p = Len(c)
    <3>1. c = R
      BY <2>5, SentToClient
    <3>. HIDE DEF R
    <3>. QED
      BY <2>4, <2>5, <3>1
  <2>6. CASE /\ Ends1(Client, "error") /\ a.ret = "busy" /\ closed[Client]
             /\ Position[Peer[Client]] < Len(stream[Peer[Client]])
    <3>1. Fits(cl.request) => Position[Server] = Len(cl.request)
      BY <2>6, SentToClient
    <3>2. Position[Server] < Len(stream[Server])
      BY <2>6, TwoEnds
    <3>3. Len(stream[Server]) <= Len(cl.request) /\ Len(stream[Server]) \in Nat /\ Len(cl.request) \in Nat
      BY SentToServer, SentIs
    <3>4. ~Fits(cl.request)
      BY <3>1, <3>2, <3>3
    <3>. QED
      BY <2>4, <2>6, <3>4
  <2>. QED
    BY <2>1, <2>2, <2>3, <2>5, <2>6 DEF Read1
<1>. QED
  BY <1>1, <1>3, <1>4

\* The client asks for the first line.
LEMMA ClientBegins ==
    ASSUME NEW f \in DOMAIN Disk, NEW p \in Nat, NEW a, NEW b, NEW k, NEW l, ReadingReply(f, k, p, a),
           k.at = "sent", l.at = "first", l.length_received = k.length_received,
           l.csum_received = k.csum_received, l.request = k.request,
           b.ret = "busy", b.line = <<>>
    PROVE  ReadingReply(f, l, p, b)
<1>1. a.ret = "none" /\ GivenOf(ReplyTo(f), p, a) /\ Used(p, a) = 0
  BY DEF ReadingReply
<1>2. p = 0
  BY <1>1, UsedAll
<1>3. GivenOf(ReplyTo(f), p, b) /\ Used(p, b) = 0
  BY <1>1, <1>2, GivenNone
<1>. QED
  BY <1>3 DEF ReadingReply

\* A line before the body has been read: what is known of it, and after it.
LEMMA HeadRead ==
    ASSUME NEW f \in DOMAIN Disk, NEW p \in Nat, NEW a, NEW k, ReadingReply(f, k, p, a),
           k.at \in {"first", "head"}, a.ret = "line"
    PROVE  LET q == Used(p, a)
               B == Disk[f]
           IN
           /\ k.at = "first" => q = 0 /\ p = 3 /\ a.line # Blank
           /\ k.at = "head" =>
                \/ q = 3 /\ p = 7 /\ a.line # Blank /\ Len(a.line) > 1
                   /\ a.line[1] = TagLength /\ a.line[2] = Decimal(Len(B))
                \/ q = 7 /\ p = 11 /\ a.line # Blank /\ Len(a.line) > 1
                   /\ a.line[1] = TagCsum /\ a.line[2] = Decimal(Sum(B))
                \/ q = 11 /\ p = 13 /\ a.line = Blank /\ a.line[1] = CR
<1>. DEFINE q == Used(p, a)
            B == Disk[f]
            R == ReplyTo(f)
            l == a.line
<1>1. /\ R[1] = OK /\ R[2] = CR /\ R[3] = LF
      /\ R[4] = TagLength /\ R[5] = Decimal(Len(B)) /\ R[6] = CR /\ R[7] = LF
      /\ R[8] = TagCsum /\ R[9] = Decimal(Sum(B)) /\ R[10] = CR /\ R[11] = LF
      /\ R[12] = CR /\ R[13] = LF /\ R \in Seq(Byte)
  BY ReplyLines
<1>2. GivenOf(R, p, a) /\ p = LineAfter[q] /\ q \in {0, 3, 7, 11} /\ (k.at = "first" => q = 0)
      /\ (k.at = "head" => q # 0)
  BY DEF ReadingReply
<1>3. Len(l) = p - q /\ l \in Seq(Byte) /\ \A i \in 1 .. p - q : l[i] = R[q + i]
  BY <1>1, <1>2, LineOf
<1>4. Len(Blank) = 2 /\ Blank[1] = CR /\ Blank[2] = LF /\ Blank \in Seq(Byte)
  BY TextIsBytes DEF Blank, TextIsBytes
<1>. HIDE DEF R, B, q, l, Blank
<1>5. ASSUME q = 0 PROVE k.at # "head" /\ p = 3 /\ l # Blank
  <2>1. p = 3 /\ Len(l) = 3
    BY <1>2, <1>3, <1>5 DEF LineAfter
  <2>2. l # Blank
    BY <1>4, <2>1
  <2>. QED
    BY <1>2, <1>5, <2>1, <2>2
<1>6. ASSUME q = 3
      PROVE  /\ k.at # "first" /\ p = 7 /\ l # Blank /\ Len(l) > 1
             /\ l[1] = TagLength /\ l[2] = Decimal(Len(B))
  <2>1. p = 7 /\ Len(l) = 4
    BY <1>2, <1>3, <1>6 DEF LineAfter
  <2>2. l[1] = R[4] /\ l[2] = R[5]
    BY <1>3, <1>6, <2>1
  <2>4. k.at # "first"
    BY <1>2, <1>6
  <2>5. Len(l) > 1
    BY <2>1
  <2>6. Len(l) # Len(Blank)
    BY <1>4, <2>1
  <2>3. l # Blank
    BY <2>6
  <2>. QED
    BY <1>1, <2>1, <2>2, <2>3, <2>4, <2>5
<1>7. ASSUME q = 7
      PROVE  /\ k.at # "first" /\ p = 11 /\ l # Blank /\ Len(l) > 1
             /\ l[1] = TagCsum /\ l[2] = Decimal(Sum(B))
  <2>1. p = 11 /\ Len(l) = 4
    BY <1>2, <1>3, <1>7 DEF LineAfter
  <2>2. l[1] = R[8] /\ l[2] = R[9]
    BY <1>3, <1>7, <2>1
  <2>4. k.at # "first"
    BY <1>2, <1>7
  <2>5. Len(l) > 1
    BY <2>1
  <2>6. Len(l) # Len(Blank)
    BY <1>4, <2>1
  <2>3. l # Blank
    BY <2>6
  <2>. QED
    BY <1>1, <2>1, <2>2, <2>3, <2>4, <2>5
<1>8. ASSUME q = 11 PROVE k.at # "first" /\ p = 13 /\ l = Blank /\ l[1] = CR
  <2>1. p = 13 /\ Len(l) = 2
    BY <1>2, <1>3, <1>8 DEF LineAfter
  <2>2. l[1] = R[12] /\ l[2] = R[13]
    BY <1>3, <1>8, <2>1
  <2>3. l = Blank
    <3>1. \A i \in 1 .. 2 : l[i] = Blank[i]
      <4>1. \A i \in 1 .. 2 : i = 1 \/ i = 2
        OBVIOUS
      <4>. QED
        BY <1>1, <1>4, <2>2, <4>1
    <3>. QED
      BY <1>3, <1>4, <2>1, <3>1, SeqEqual
  <2>. QED
    BY <1>1, <1>2, <1>8, <2>1, <2>2, <2>3
<1>9. /\ k.at = "first" => q = 0 /\ p = 3 /\ l # Blank
      /\ k.at = "head" =>
           \/ q = 3 /\ p = 7 /\ l # Blank /\ Len(l) > 1
              /\ l[1] = TagLength /\ l[2] = Decimal(Len(B))
           \/ q = 7 /\ p = 11 /\ l # Blank /\ Len(l) > 1
              /\ l[1] = TagCsum /\ l[2] = Decimal(Sum(B))
           \/ q = 11 /\ p = 13 /\ l = Blank /\ l[1] = CR
  BY <1>2, <1>5, <1>6, <1>7, <1>8
<1>. QED
  BY <1>9 DEF q, l, B

\* The client goes on to the next line of the head, or to the body.
LEMMA ClientHead ==
    ASSUME NEW f \in DOMAIN Disk, NEW p \in Nat, NEW a, NEW b, NEW k, NEW l,
           ReadingReply(f, k, p, a), k.at \in {"first", "head"}, a.ret = "line",
           b.ret = "busy", b.line = <<>>,
           l.at = IF a.line = Blank THEN "body" ELSE "head",
           l.request = k.request, l.length_received = k.length_received,
           l.csum_received = k.csum_received,
           k.at = "first" => l.length = k.length /\ l.csum = k.csum,
           k.at = "head" =>
              /\ l.length = IF Tagged(a.line, TagLength) THEN a.line[2] ELSE k.length
              /\ l.csum = IF Tagged(a.line, TagCsum) THEN a.line[2] ELSE k.csum
    PROVE  ReadingReply(f, l, p, b)
<1>. DEFINE q == Used(p, a)
            B == Disk[f]
            R == ReplyTo(f)
<1>1. /\ k.at = "first" => q = 0 /\ p = 3 /\ a.line # Blank
      /\ k.at = "head" =>
           \/ q = 3 /\ p = 7 /\ a.line # Blank /\ Len(a.line) > 1
              /\ a.line[1] = TagLength /\ a.line[2] = Decimal(Len(B))
           \/ q = 7 /\ p = 11 /\ a.line # Blank /\ Len(a.line) > 1
              /\ a.line[1] = TagCsum /\ a.line[2] = Decimal(Sum(B))
           \/ q = 11 /\ p = 13 /\ a.line = Blank /\ a.line[1] = CR
  BY HeadRead
<1>2. GivenOf(R, p, a) /\ k.length_received = 0 /\ k.csum_received = 0
      /\ (q >= 7 => k.length = Decimal(Len(B))) /\ (q >= 11 => k.csum = Decimal(Sum(B)))
  BY DEF ReadingReply
<1>3. GivenOf(R, p, b) /\ Used(p, b) = p
  BY <1>2, GivenNone
<1>4. CR # TagLength /\ CR # TagCsum /\ TagLength # TagCsum
  BY WordsDiffer DEF WordsDiffer
<1>5. Sum(SubSeq(B, 1, 13 - 13)) = 0
  <2>1. SubSeq(B, 1, 13 - 13) = <<>>
    BY ReplyLines
  <2>. QED
    BY <2>1, SumEmpty
<1>. HIDE DEF B, q, R, Blank
<1>6. /\ p \in {3, 7, 11, 13} /\ (p = 13 <=> l.at = "body")
      /\ p >= 7 => l.length = Decimal(Len(B))
      /\ p >= 11 => l.csum = Decimal(Sum(B))
  <2>1. CASE k.at = "first"
    BY <1>1, <2>1
  <2>2. CASE k.at = "head" /\ q = 3
    BY <1>1, <2>2 DEF Tagged
  <2>3. CASE k.at = "head" /\ q = 7
    BY <1>1, <1>2, <1>4, <2>3 DEF Tagged
  <2>4. CASE k.at = "head" /\ q = 11
    BY <1>1, <1>2, <1>4, <2>4 DEF Tagged
  <2>. QED
    BY <1>1, <2>1, <2>2, <2>3, <2>4
<1>7. l.at \in {"head", "body"}
  OBVIOUS
<1>8. l.length_received = 0 /\ l.csum_received = 0
  BY <1>2
<1>9. l.at = "body" => l.length_received = p - 13 /\ l.csum_received = Sum(SubSeq(B, 1, p - 13))
  BY <1>5, <1>6, <1>8
<1>. QED
  BY <1>3, <1>6, <1>7, <1>8, <1>9 DEF ReadingReply, B, R

\* A line of the body is counted.
AddsLine(k, l, line) ==
    /\ l.at = "body" /\ l.request = k.request /\ l.length = k.length /\ l.csum = k.csum
    /\ l.length_received = k.length_received + Len(line)
    /\ l.csum_received = k.csum_received + Sum(line)

\* A line of the body is counted.
LEMMA ClientBody ==
    ASSUME NEW f \in DOMAIN Disk, NEW p \in Nat, NEW a, NEW b, NEW k, NEW l,
           ReadingReply(f, k, p, a), k.at = "body", a.ret = "line",
           b.ret = "busy", b.line = <<>>,
           AddsLine(k, l, a.line)
    PROVE  ReadingReply(f, l, p, b)
<1>. DEFINE q == Used(p, a)
            B == Disk[f]
            R == ReplyTo(f)
            m == q - 13
            n == p - q
<1>1. R \in Seq(Byte) /\ B \in Seq(Byte) /\ Len(B) \in Nat /\ Len(R) = 13 + Len(B)
  BY ReplyLines
<1>2. /\ GivenOf(R, p, a) /\ q >= 13
      /\ k.length_received = q - 13 /\ k.csum_received = Sum(SubSeq(B, 1, q - 13))
      /\ k.length = Decimal(Len(B)) /\ k.csum = Decimal(Sum(B))
  <2>1. GivenOf(R, p, a) /\ q >= 13
        /\ k.length_received = q - 13 /\ k.csum_received = Sum(SubSeq(B, 1, q - 13))
    BY DEF ReadingReply
  <2>2. q >= 7 /\ q >= 11
    BY <2>1 DEF GivenOf
  <2>. QED
    BY <2>1, <2>2 DEF ReadingReply
<1>3. q \in Nat /\ q <= p /\ Len(a.line) = p - q /\ a.line = SubSeq(R, q + 1, p) /\ p <= Len(R)
  BY <1>1, <1>2, LineOf
<1>4. GivenOf(R, p, b) /\ Used(p, b) = p
  BY <1>2, GivenNone
<1>. HIDE DEF q
<1>5. /\ m \in Nat /\ n \in Nat /\ m + n <= Len(B) /\ m + n = p - 13
      /\ 13 + m + 1 = q + 1 /\ 13 + m + n = p /\ q - 13 = m /\ p - q = n
  BY <1>1, <1>2, <1>3
<1>. HIDE DEF m, n
<1>6. a.line = SubSeq(B, m + 1, m + n)
  <2>1. SubSeq(R, 13 + m + 1, 13 + m + n) = SubSeq(B, m + 1, m + n)
    BY <1>5, BodyPart
  <2>. QED
    BY <1>3, <1>5, <2>1
<1>7. Sum(SubSeq(B, 1, m + n)) = Sum(SubSeq(B, 1, m)) + Sum(SubSeq(B, m + 1, m + n))
  <2>. HIDE DEF B
  <2>. QED
    BY <1>1, <1>5, SumOfParts
<1>. HIDE DEF B, R
<1>8. l.length_received = p - 13
  <2>1. l.length_received = m + n
    BY <1>2, <1>3, <1>5 DEF AddsLine
  <2>. QED
    BY <1>5, <2>1
<1>9. l.csum_received = Sum(SubSeq(B, 1, p - 13))
  BY <1>2, <1>5, <1>6, <1>7 DEF AddsLine
<1>10. p >= 13 /\ p >= 7 /\ p >= 11
  BY <1>2, <1>3
<1>. QED
  BY <1>2, <1>4, <1>8, <1>9, <1>10 DEF ReadingReply, AddsLine, B, R

\* At the end, the client was sent what it was promised.
LEMMA ClientEnds ==
    ASSUME NEW f \in DOMAIN Disk, NEW p \in Nat, NEW a, NEW k,
           ReadingReply(f, k, p, a), k.at \in {"first", "head", "body"}, a.ret = "eof"
    PROVE  /\ k.at = "body"
           /\ k.length = Decimal(Len(Disk[f])) /\ k.csum = Decimal(Sum(Disk[f]))
           /\ k.length_received = Len(Disk[f]) /\ k.csum_received = Sum(Disk[f])
<1>. DEFINE B == Disk[f]
            R == ReplyTo(f)
<1>1. B \in Seq(Byte) /\ Len(B) \in Nat /\ Len(R) = 13 + Len(B)
  BY ReplyLines
<1>2. GivenOf(R, p, a) /\ p = Len(R)
  BY DEF ReadingReply
<1>3. Used(p, a) = p
  BY <1>2, UsedAll
<1>4. p >= 13 /\ p >= 7 /\ p >= 11 /\ p - 13 = Len(B)
  BY <1>1, <1>2
<1>5. k.at = "body"
  BY <1>3, <1>4 DEF ReadingReply
<1>6. k.length_received = p - 13 /\ k.csum_received = Sum(SubSeq(B, 1, p - 13))
      /\ k.length = Decimal(Len(B)) /\ k.csum = Decimal(Sum(B))
  BY <1>3, <1>4, <1>5 DEF ReadingReply
<1>7. SubSeq(B, 1, Len(B)) = B
  BY <1>1
<1>. QED
  BY <1>4, <1>5, <1>6, <1>7

\* What a step of the client leaves alone, and when it closes.
LEMMA ClientLeaves ==
    ASSUME Open, ClientStep \/ GoesAway
    PROVE  /\ Untouched(Client, Server) /\ UNCHANGED srv
           /\ closed'[Server] <=> ~ClientActive'
<1>0. IInv /\ ~closed[Server] /\ ClientActive /\ \A x : [cl EXCEPT !.at = x].at = x
  BY DEF Open, ClTyped
<1>1. ASSUME Call(Client), UNCHANGED srv, ClientActive'
      PROVE  Untouched(Client, Server) /\ UNCHANGED srv /\ (closed'[Server] <=> ~ClientActive')
  <2>1. Untouched(Client, Server)
    BY <1>0, <1>1, TwoEnds, CallLeaves
  <2>2. UNCHANGED closed
    BY <1>1 DEF Call
  <2>. QED
    BY <1>0, <1>1, <2>1, <2>2
<1>2. ASSUME Close(Client), UNCHANGED srv, ~ClientActive'
      PROVE  Untouched(Client, Server) /\ UNCHANGED srv /\ (closed'[Server] <=> ~ClientActive')
  <2>1. Untouched(Client, Server)
    BY <1>0, <1>2, TwoEnds, CloseLeaves
  <2>2. closed'[Server] = TRUE
    BY <1>0, <1>2, TwoEnds, CloseFrame
  <2>. QED
    BY <1>0, <1>2, <2>1, <2>2
<1>3. CASE Send
  <2>1. PICK r \in Requests :
            BeginWrite(Client, r) /\ cl' = [cl EXCEPT !.at = "sent", !.request = r]
    BY <1>3 DEF Send
  <2>2. ClientActive'
    BY <1>0, <2>1 DEF ClientActive, Open, ClTyped
  <2>3. Untouched(Client, Server) /\ UNCHANGED closed
    BY <1>0, <2>1, TwoEnds, BeginLeaves, BeginFrame
  <2>. QED
    BY <1>0, <1>3, <2>2, <2>3 DEF Send
<1>4. CASE ReadReply
  BY <1>0, <1>1, <1>4 DEF ReadReply, ClientActive
<1>5. CASE ReadHead
  <2>. DEFINE line == rio[Client].line
              k == IF cl.at = "head" THEN WithTags(line) ELSE cl
  <2>1. \E next \in {"body", "head"} : cl' = [k EXCEPT !.at = next]
    BY <1>5 DEF ReadHead
  <2>2. DOMAIN k = DOMAIN cl
    BY DEF WithTags
  <2>3. "at" \in DOMAIN cl
    BY DEF Open, ClTyped
  <2>. HIDE DEF k
  <2>4. cl'.at \in {"body", "head"}
    BY <2>1, <2>2, <2>3
  <2>5. ClientActive'
    BY <2>4 DEF ClientActive
  <2>. QED
    BY <1>1, <1>5, <2>5 DEF ReadHead
<1>6. CASE ReadBody
  <2>1. ClientActive'
    BY <1>0, <1>6 DEF ReadBody, ClientActive, Open, ClTyped
  <2>. QED
    BY <1>1, <1>6, <2>1 DEF ReadBody
<1>7. CASE Finish
  BY <1>0, <1>2, <1>7 DEF Finish, ClientActive
<1>8. CASE ClientExits
  BY <1>0, <1>2, <1>8 DEF ClientExits, ClientActive
<1>9. CASE GoesAway
  BY <1>0, <1>2, <1>9 DEF GoesAway, ClientActive
<1>10. CASE IO(Client) /\ UNCHANGED <<srv, cl>>
  <2>1. Untouched(Client, Server) /\ UNCHANGED closed
    BY <1>0, <1>10, TwoEnds, IOLeaves
  <2>2. ClientActive' <=> ClientActive
    BY <1>10 DEF ClientActive
  <2>. QED
    BY <1>0, <1>10, <2>1, <2>2
<1>. QED
  BY <1>3, <1>4, <1>5, <1>6, <1>7, <1>8, <1>9, <1>10 DEF ClientStep

\* A client that reads on: what it was sent stays, and its request.
Continues ==
    /\ cl'.at # "send" /\ cl'.request = cl.request
    /\ stream'[Server] \o unsent'[Client] = stream[Server] \o unsent[Client]

LEMMA CallContinues ==
    ASSUME Open, Call(Client), cl'.at # "send", cl'.request = cl.request
    PROVE  Continues
  BY DEF Call, Continues

\* What a client's call of Rio_readlineb gives it, once it has asked for f.
LEMMA ClientReads ==
    ASSUME Open, NEW f \in DOMAIN Disk, Asks(f), ReadReply \/ ReadHead \/ ReadBody
    PROVE  ReadsHere(f)' /\ Continues
<1>. DEFINE p == Position[Client]
            a == Answers[Client]
            b == Answers'[Client]
            k == cl
            l == cl'
            line == rio[Client].line
            ret == rio[Client].ret
<1>1. ReadingReply(f, k, p, a) /\ p \in Nat /\ a.ret = ret
      /\ a.line = IF ret = "line" THEN line ELSE <<>>
  BY AtClient
<1>2. Call(Client)
  BY DEF ReadReply, ReadHead, ReadBody
<1>3. Position' = Position /\ b.ret = "busy" /\ b.line = <<>>
  BY <1>2, TwoEnds, CallFrame DEF Open, Ends1
<1>4. k \in [at : {"send", "sent", "first", "head", "body", "done", "exited", "gone"},
             request : Requests \cup {<<>>}, length : Byte, csum : Byte,
             length_received : Nat, csum_received : Nat]
  BY DEF Open, ClTyped
<1>5. ASSUME ReadingReply(f, l, p, b) PROVE ReadsHere(f)'
  BY <1>3, <1>5 DEF ReadsHere
<1>6. CASE ReadReply
  <2>1. /\ k.at = "sent" /\ l.at = "first" /\ l.length_received = k.length_received
        /\ l.csum_received = k.csum_received /\ l.request = k.request
    BY <1>4, <1>6 DEF ReadReply
  <2>. HIDE DEF p, a, b, k, l
  <2>2. ReadingReply(f, l, p, b)
    BY <1>1, <1>3, <2>1, ClientBegins
  <2>. QED
    BY <1>2, <1>5, <2>1, <2>2, CallContinues DEF k, l
<1>7. CASE ReadHead
  <2>. DEFINE w == IF k.at = "head" THEN WithTags(line) ELSE k
  <2>1. /\ k.at \in {"first", "head"} /\ ret \in {"line", "eof"}
        /\ l = [w EXCEPT !.at = IF ret = "eof" \/ line = Blank THEN "body" ELSE "head"]
    BY <1>7 DEF ReadHead, Answered
  <2>2. ret = "line"
    <3>. SUFFICES ASSUME ret = "eof" PROVE FALSE
      BY <2>1
    <3>. HIDE DEF p, a, k
    <3>. QED
      BY <1>1, <2>1, ClientEnds
  <2>. DEFINE x == IF Tagged(line, TagLength) THEN line[2] ELSE k.length
              y == IF Tagged(line, TagCsum) THEN line[2] ELSE k.csum
  <2>3. WithTags(line) = [k EXCEPT !.length = x, !.csum = y]
    BY DEF WithTags
  <2>4. ASSUME k.at = "head"
        PROVE  /\ l.at = (IF line = Blank THEN "body" ELSE "head") /\ l.request = k.request
               /\ l.length_received = k.length_received /\ l.csum_received = k.csum_received
               /\ l.length = x /\ l.csum = y
    <3>1. l = [[k EXCEPT !.length = x, !.csum = y] EXCEPT !.at = IF line = Blank THEN "body" ELSE "head"]
      BY <2>1, <2>2, <2>3, <2>4
    <3>. HIDE DEF k, l, x, y, line
    <3>. QED
      BY <1>4, <3>1
  <2>5. ASSUME k.at = "first"
        PROVE  /\ l.at = (IF line = Blank THEN "body" ELSE "head") /\ l.request = k.request
               /\ l.length_received = k.length_received /\ l.csum_received = k.csum_received
               /\ l.length = k.length /\ l.csum = k.csum
    <3>1. l = [k EXCEPT !.at = IF line = Blank THEN "body" ELSE "head"]
      BY <2>1, <2>2, <2>5
    <3>. HIDE DEF k, l, line
    <3>. QED
      BY <1>4, <3>1
  <2>6. a.line = line /\ a.ret = "line"
    BY <1>1, <2>2
  <2>. HIDE DEF p, a, b, k, l, line, ret, w
  <2>7. /\ l.at = (IF a.line = Blank THEN "body" ELSE "head") /\ l.request = k.request
        /\ l.length_received = k.length_received /\ l.csum_received = k.csum_received
        /\ k.at = "first" => l.length = k.length /\ l.csum = k.csum
        /\ k.at = "head" =>
             /\ l.length = IF Tagged(a.line, TagLength) THEN a.line[2] ELSE k.length
             /\ l.csum = IF Tagged(a.line, TagCsum) THEN a.line[2] ELSE k.csum
    BY <2>1, <2>4, <2>5, <2>6
  <2>8. ReadingReply(f, l, p, b)
    <3>1. a.ret = "line" /\ k.at \in {"first", "head"} /\ b.ret = "busy" /\ b.line = <<>> /\ p \in Nat
      BY <1>1, <1>3, <2>1, <2>6
    <3>2. ReadingReply(f, k, p, a)
      BY <1>1, <1>3, <2>1
    <3>. QED
      BY <2>7, <3>1, <3>2, ClientHead
  <2>9. l.at # "send"
    BY <2>7
  <2>. QED
    BY <1>2, <1>5, <2>7, <2>8, <2>9, CallContinues DEF k, l
<1>8. CASE ReadBody
  <2>1. /\ k.at = "body" /\ ret = "line"
        /\ l = [k EXCEPT !.length_received = @ + Len(line), !.csum_received = @ + Sum(line)]
    BY <1>8 DEF ReadBody
  <2>2. a.line = line /\ a.ret = "line"
    BY <1>1, <2>1
  <2>. HIDE DEF p, a, b, k, l, line, ret
  <2>3. AddsLine(k, l, a.line)
    <3>. HIDE DEF k, l, line, a
    <3>. QED
      BY <1>4, <2>1, <2>2 DEF AddsLine
  <2>4. ReadingReply(f, l, p, b)
    BY <1>1, <1>3, <2>1, <2>2, <2>3, ClientBody
  <2>5. l.at # "send" /\ l.request = k.request
    BY <2>3 DEF AddsLine
  <2>. QED
    BY <1>2, <1>5, <2>5, <2>4, CallContinues DEF k, l
<1>. QED
  BY <1>6, <1>7, <1>8

\* What the server was given stays while the client takes a step.
LEMMA ServedStays ==
    ASSUME NEW f, Untouched(Client, Server), UNCHANGED srv, cl'.request = cl.request,
           ServedHere(f)
    PROVE  ServedHere(f)'
  BY DEF Untouched, ServedHere

\* A client begins to send, and nothing was read or answered yet.
LEMMA ClientSends ==
    ASSUME Open, Send
    PROVE  Connected'
<1>1. IInv /\ Waiting /\ cl.at = "send"
  BY DEF Open, Connected, Send
<1>2. PICK r \in Requests : BeginWrite(Client, r) /\ cl' = [cl EXCEPT !.at = "sent", !.request = r]
  BY DEF Send
<1>3. /\ srv.at = "line" /\ Answers[Server].ret \in {"none", "busy"}
      /\ \A e \in {Server, Client} : Position[e] = 0 /\ stream[e] = <<>> /\ unsent[e] = <<>>
      /\ Answers[Client].ret = "none"
      /\ cl.length_received = 0 /\ cl.csum_received = 0
  BY <1>1 DEF Waiting
<1>4. /\ UNCHANGED <<stream, closed, Position, Answers, srv>>
      /\ unsent'[Client] = r /\ unsent'[Server] = unsent[Server]
  BY <1>1, <1>2, TwoEnds, BeginFrame DEF Send
<1>5. Answers[Server].line = <<>> /\ Answers[Client].line = <<>>
  BY <1>1, <1>3, TwoEnds, ReaderFacts
<1>6. cl'.at = "sent" /\ cl'.request = r /\ cl'.length_received = 0 /\ cl'.csum_received = 0
  BY <1>2, <1>3 DEF Open, ClTyped
<1>7. r \in Seq(Byte)
  BY TextIsBytes DEF TextIsBytes
<1>8. ASSUME NEW a, a.line = <<>>, a.ret \in {"none", "busy"}, NEW s \in Seq(Byte)
      PROVE  GivenOf(s, 0, a) /\ Used(0, a) = 0
  <2>1. Len(a.line) = 0
    BY <1>8
  <2>2. Used(0, a) = 0
    BY <2>1 DEF Used
  <2>. QED
    BY <1>8, <2>2 DEF GivenOf
<1>9. ASSUME NEW f \in DOMAIN Disk
      PROVE  /\ Serving(f, r, srv, 0, Answers[Server], <<>>)
             /\ ReadingReply(f, cl', 0, Answers[Client])
  <2>. DEFINE a == Answers[Server]
              b == Answers[Client]
              l == cl'
  <2>1. GivenOf(r, 0, a) /\ Used(0, a) = 0
    BY <1>3, <1>5, <1>7, <1>8
  <2>2. ReplyTo(f) \in Seq(Byte)
    BY ReplyLines
  <2>3. GivenOf(ReplyTo(f), 0, b) /\ Used(0, b) = 0
    BY <1>3, <1>5, <1>8, <2>2
  <2>4. a.ret \in {"none", "busy"} /\ b.ret = "none" /\ l.at = "sent"
        /\ l.length_received = 0 /\ l.csum_received = 0
    BY <1>3, <1>6
  <2>. HIDE DEF a, b, l
  <2>5. Serving(f, r, srv, 0, a, <<>>)
    BY <1>3, <2>1, <2>4 DEF Serving
  <2>6. ReadingReply(f, l, 0, b)
    BY <2>3, <2>4 DEF ReadingReply
  <2>. QED
    BY <2>5, <2>6 DEF a, b, l
<1>10. stream'[Server] \o unsent'[Client] = cl'.request
  <2>1. stream'[Server] = <<>>
    BY <1>3, <1>4
  <2>. QED
    BY <1>4, <1>6, <1>7, <2>1
<1>11. stream'[Client] \o unsent'[Server] = <<>>
  BY <1>3, <1>4
<1>12. Position'[Server] = 0 /\ Position'[Client] = 0 /\ Answers' = Answers /\ srv' = srv
       /\ srv.at = "line" /\ Answers[Server].ret # "error"
  BY <1>3, <1>4
<1>. QED
  BY <1>6, <1>9, <1>10, <1>11, <1>12 DEF Connected

\* Before it sends, nothing comes to a client.
LEMMA ClientWaits ==
    ASSUME Open, cl.at = "send", IO(Client), UNCHANGED <<srv, cl>>
    PROVE  Connected'
<1>1. IInv /\ Waiting /\ Connected
  BY DEF Open, Connected
<1>2. Answers[Client].ret = "none" /\ unsent[Client] = <<>>
  BY <1>1 DEF Waiting
<1>3. ReadOn(Client)
  BY <1>1, <1>2, TwoEnds, IOSeen DEF WriteOn
<1>4. Read1(Client)
  BY <1>3, TwoEnds, ReadOnSeen
<1>5. UNCHANGED <<stream, closed, unsent, Position, Answers, srv, cl>>
  BY <1>2, <1>4 DEF Read1, Took1
<1>. QED
  BY <1>1, <1>5 DEF Connected, Waiting, Asks

\* What was sent and what is still to be sent stay the request.
LEMMA ClientWrites ==
    ASSUME Open, IO(Client)
    PROVE  stream'[Server] \o unsent'[Client] = stream[Server] \o unsent[Client]
<1>1. ReadOn(Client) \/ WriteOn(Client)
  BY TwoEnds, IOSeen DEF Open
<1>. QED
  BY <1>1, TwoEnds DEF ReadOn, WriteOn

\* A call for the next line keeps the request.
LEMMA ClientAsks ==
    ASSUME Open, ReadReply \/ ReadHead \/ ReadBody
    PROVE  Continues
<1>0. cl \in [at : {"send", "sent", "first", "head", "body", "done", "exited", "gone"},
              request : Requests \cup {<<>>}, length : Byte, csum : Byte,
              length_received : Nat, csum_received : Nat]
  BY DEF Open, ClTyped
<1>1. Call(Client)
  BY DEF ReadReply, ReadHead, ReadBody
<1>2. cl'.at # "send" /\ cl'.request = cl.request
  <2>1. CASE ReadReply
    BY <1>0, <2>1 DEF ReadReply
  <2>2. CASE ReadBody
    <3>1. cl.at = "body" /\ \E m, n : cl' = [cl EXCEPT !.length_received = m, !.csum_received = n]
      BY <2>2 DEF ReadBody
    <3>. QED
      BY <1>0, <3>1
  <2>3. CASE ReadHead
    <3>. DEFINE w == IF cl.at = "head" THEN WithTags(rio[Client].line) ELSE cl
    <3>1. \E next \in {"body", "head"} : cl' = [w EXCEPT !.at = next]
      BY <2>3 DEF ReadHead
    <3>2. w.request = cl.request /\ DOMAIN w = DOMAIN cl
      BY <1>0 DEF WithTags
    <3>3. "at" \in DOMAIN cl
      BY <1>0
    <3>. HIDE DEF w
    <3>. QED
      BY <3>1, <3>2, <3>3
  <2>. QED
    BY <2>1, <2>2, <2>3
<1>. QED
  BY <1>1, <1>2, CallContinues

\* A step of the client keeps it connected, unless it ends.
LEMMA ClientConnected ==
    ASSUME Open, ClientStep \/ GoesAway, ClientActive'
    PROVE  Connected'
<1>1. Untouched(Client, Server) /\ UNCHANGED srv
  BY ClientLeaves
<1>2. Connected
  BY DEF Open
<1>3. ASSUME Continues, \A f \in DOMAIN Disk : Asks(f) => ReadsHere(f)'
      PROVE  Connected'
  <2>1. ASSUME NEW f \in DOMAIN Disk, Asks(f)'
        PROVE  /\ ServedHere(f)' /\ ReadsHere(f)'
               /\ srv'.at = "closed" => unsent'[Server] = <<>>
    <3>1. Asks(f)
      BY <1>3, <2>1 DEF Asks, Continues
    <3>2. ServedHere(f) /\ (srv.at = "closed" => unsent[Server] = <<>>)
      BY <1>2, <3>1 DEF Connected, ServedHere
    <3>3. ServedHere(f)'
      BY <1>1, <1>3, <3>2, ServedStays DEF Continues
    <3>. QED
      BY <1>1, <1>3, <3>1, <3>2, <3>3 DEF Untouched
  <2>2. stream'[Server] \o unsent'[Client] = cl'.request
    BY <1>2, <1>3 DEF Connected, Continues
  <2>. QED
    BY <1>1, <1>2, <1>3, <2>1, <2>2 DEF Connected, Continues, Untouched, ServedHere, ReadsHere
<1>4. CASE Send
  BY <1>4, ClientSends
<1>5. CASE ReadReply \/ ReadHead \/ ReadBody
  BY <1>3, <1>5, ClientAsks, ClientReads
<1>6. CASE IO(Client) /\ UNCHANGED <<srv, cl>>
  <2>1. CASE cl.at = "send"
    BY <1>6, <2>1, ClientWaits
  <2>2. CASE cl.at # "send"
    <3>1. Continues
      BY <1>6, <2>2, ClientWrites DEF Continues
    <3>. QED
      BY <1>3, <1>6, <3>1, ClientIO
  <2>. QED
    BY <2>1, <2>2
<1>7. ASSUME Finish \/ ClientExits \/ GoesAway PROVE FALSE
  <2>1. ~ClientActive'
    BY <1>7 DEF Finish, ClientExits, GoesAway, ClientActive, Open, ClTyped
  <2>. QED
    BY <2>1
<1>. QED
  BY <1>4, <1>5, <1>6, <1>7 DEF ClientStep

\* A client that ends has been served.
LEMMA ClientEnded ==
    ASSUME Open, ClientStep \/ GoesAway
    PROVE  ClientServed'
<1>0. cl \in [at : {"send", "sent", "first", "head", "body", "done", "exited", "gone"},
              request : Requests \cup {<<>>}, length : Byte, csum : Byte,
              length_received : Nat, csum_received : Nat]
  BY DEF Open, ClTyped
<1>1. CASE Finish
  <2>1. /\ cl'.at = "done" /\ cl'.request = cl.request /\ cl'.length = cl.length
        /\ cl'.csum = cl.csum /\ cl'.length_received = cl.length_received
        /\ cl'.csum_received = cl.csum_received /\ cl.at = "body" /\ rio[Client].ret = "eof"
    BY <1>0, <1>1 DEF Finish
  <2>2. ASSUME NEW f \in DOMAIN Disk, Asks(f)'
        PROVE  /\ cl.length = Decimal(Len(Disk[f])) /\ cl.csum = Decimal(Sum(Disk[f]))
               /\ cl.length_received = Len(Disk[f]) /\ cl.csum_received = Sum(Disk[f])
    <3>1. Asks(f)
      BY <2>1, <2>2 DEF Asks
    <3>. QED
      BY <2>1, <3>1, AtClient, ClientEnds
  <2>. QED
    BY <2>1, <2>2 DEF ClientServed
<1>2. CASE ClientExits
  <2>1. cl'.at = "exited" /\ cl'.request = cl.request /\ MustExit(Client)
    BY <1>0, <1>2 DEF ClientExits
  <2>2. ASSUME NEW f \in DOMAIN Disk, Asks(f)', FitsLines' PROVE FALSE
    <3>1. Asks(f) /\ Fits(cl.request)
      BY <2>1, <2>2 DEF Asks, FitsLines, Fits
    <3>2. rio[Client].ret # "error"
      BY <3>1, AtClient DEF ReadingReply
    <3>3. unsent[Client] # <<>> /\ closed[Client]
      BY <2>1, <3>2 DEF MustExit
    <3>4. Position[Server] = Len(cl.request)
      BY <3>1, <3>3, SentToClient
    <3>5. Position[Server] <= Len(stream[Server]) /\ Len(stream[Server]) \in Nat
          /\ Position[Server] \in Nat /\ unsent[Client] \in Seq(Byte)
      BY TwoEnds, ReaderFacts DEF Open
    <3>6. Len(cl.request) = Len(stream[Server]) + Len(unsent[Client])
      <4>. DEFINE c == stream[Server]
                  u == unsent[Client]
      <4>1. Sent(c, u, cl.request)
        BY SentToServer
      <4>. HIDE DEF c, u
      <4>2. Len(cl.request) = Len(c) + Len(u)
        BY <4>1, SentIs
      <4>. QED
        BY <4>2 DEF c, u
    <3>7. Len(unsent[Client]) = 0
      <4>. DEFINE n == Len(stream[Server])
                  m == Len(unsent[Client])
                  q == Position[Server]
      <4>0. n \in Nat /\ m \in Nat /\ q \in Nat /\ q <= n
        BY <3>5
      <4>1. n \in Nat /\ m \in Nat /\ q \in Nat /\ q <= n /\ q = n + m
        BY <3>4, <4>0, <3>6
      <4>. HIDE DEF n, m, q
      <4>2. m = 0
        BY <4>1
      <4>. QED
        BY <4>2 DEF m
    <3>. QED
      BY <3>3, <3>5, <3>7
  <2>. QED
    BY <2>1, <2>2 DEF ClientServed
<1>3. CASE ClientActive'
  BY <1>3 DEF ClientActive, ClientServed
<1>4. CASE GoesAway
  BY <1>0, <1>4 DEF GoesAway, ClientServed
<1>5. CASE ~(Finish \/ ClientExits \/ GoesAway)
  <2>1. CASE Send
    BY <1>0, <1>3, <2>1 DEF Send, ClientActive
  <2>2. CASE ReadReply \/ ReadHead \/ ReadBody
    <3>1. Call(Client)
      BY <2>2 DEF ReadReply, ReadHead, ReadBody
    <3>2. ~closed[Server] /\ closed' = closed
      BY <3>1 DEF Open, Call
    <3>. QED
      BY <1>3, <3>2, ClientLeaves
  <2>3. CASE UNCHANGED cl
    BY <1>3, <2>3 DEF Open, ClientActive
  <2>. QED
    BY <1>5, <2>1, <2>2, <2>3 DEF ClientStep
<1>. QED
  BY <1>1, <1>2, <1>4, <1>5

\* When the server closes, whether its client is there or not.
LEMMA ServerCloses ==
    ASSUME IInv, SrvTyped, closed[Client] <=> srv.at \in {"closed", "exited"}, ServerStep
    PROVE  /\ closed'[Server] = closed[Server]
           /\ closed'[Client] <=> srv'.at \in {"closed", "exited"}
<1>0. /\ closed[Client] = FALSE /\ srv.at \notin {"closed", "exited"}
      /\ \A x : srv' = [srv EXCEPT !.at = x] => srv'.at = x
  <2>1. closed[Client] \in BOOLEAN
    BY TwoEnds, ReaderFacts
  <2>. QED
    BY <2>1 DEF ServerStep, SrvTyped
<1>1. ASSUME closed' = closed, srv'.at \notin {"closed", "exited"}
      PROVE  /\ closed'[Server] = closed[Server]
             /\ closed'[Client] <=> srv'.at \in {"closed", "exited"}
  BY <1>0, <1>1
<1>2. ASSUME Close(Server), srv'.at \in {"closed", "exited"}
      PROVE  /\ closed'[Server] = closed[Server]
             /\ closed'[Client] <=> srv'.at \in {"closed", "exited"}
  BY <1>2, TwoEnds, CloseFrame
<1>3. CASE ReadLine
  BY <1>0, <1>1, <1>3 DEF ReadLine, Call
<1>4. CASE AcceptLine
  <2>1. srv'.at = "header" /\ closed' = closed
    BY <1>4 DEF AcceptLine, Call
  <2>. QED
    BY <1>1, <2>1
<1>5. CASE RejectLine
  <2>1. srv'.at = "reply" /\ closed' = closed
    BY <1>0, <1>5 DEF RejectLine, BeginWrite
  <2>. QED
    BY <1>1, <2>1
<1>6. CASE NextHeader
  <2>1. srv'.at = "header" /\ closed' = closed
    BY <1>6 DEF NextHeader, SrvTyped, Call
  <2>. QED
    BY <1>1, <2>1
<1>7. CASE EndHeaders
  <2>1. srv'.at = "read" /\ closed' = closed
    BY <1>0, <1>7 DEF EndHeaders, vars
  <2>. QED
    BY <1>1, <2>1
<1>8. CASE ReadFile
  <2>1. srv'.at \in {"reply", "unread"}
    BY <1>0, <1>8 DEF ReadFile
  <2>2. closed' = closed
    BY <1>8 DEF ReadFile, BeginWrite
  <2>. QED
    BY <1>1, <2>1, <2>2
<1>9. CASE SendEmpty
  <2>1. srv'.at = "reply" /\ closed' = closed
    BY <1>0, <1>9 DEF SendEmpty, BeginWrite
  <2>. QED
    BY <1>1, <2>1
<1>10. CASE Destroy
  <2>1. srv'.at = "closed" /\ Close(Server)
    BY <1>0, <1>10 DEF Destroy
  <2>. QED
    BY <1>2, <2>1
<1>11. CASE ServerExits
  <2>1. srv'.at = "exited" /\ Close(Server)
    BY <1>0, <1>11 DEF ServerExits
  <2>. QED
    BY <1>2, <2>1
<1>12. CASE IO(Server) /\ UNCHANGED <<srv, cl>>
  <2>1. UNCHANGED closed
    BY <1>12, TwoEnds, IOLeaves
  <2>. QED
    BY <1>0, <1>1, <1>12, <2>1
<1>. QED
  BY <1>3, <1>4, <1>5, <1>6, <1>7, <1>8, <1>9, <1>10, <1>11, <1>12 DEF ServerStep

\* The inductive invariant.
HInv == IInv /\ SrvTyped /\ ClTyped /\ SInv

LEMMA InitServed == HttpInit => HInv
<1>. SUFFICES ASSUME HttpInit PROVE HInv
  OBVIOUS
<1>1. IInv /\ SrvTyped /\ ClTyped
  BY InitTyped
<1>2. /\ srv = [at |-> "line", blank |-> FALSE, file |-> Missing]
      /\ cl = [at |-> "send", request |-> <<>>, length |-> Decimal(0), csum |-> Decimal(0),
               length_received |-> 0, csum_received |-> 0]
  BY DEF HttpInit
<1>3. ASSUME NEW e \in {Server, Client}
      PROVE  /\ stream[e] = <<>> /\ unsent[e] = <<>> /\ closed[e] = FALSE
             /\ Position[e] = 0 /\ Answers[e].ret = "none"
  <2>1. e \in Ends
    BY TwoEnds
  <2>2. /\ stream[e] = <<>> /\ unsent[e] = <<>> /\ closed[e] = FALSE /\ taken[e] = 0
        /\ rio[e] = [buf |-> <<>>, ptr |-> 1, cnt |-> 0, line |-> <<>>, ret |-> "none"]
    BY <2>1 DEF HttpInit, RioInit
  <2>3. Position[e] = 0
    BY <2>1, <2>2 DEF Position, Given, Unread
  <2>4. Answers[e].ret = "none"
    BY <2>1, <2>2, <1>1, ReaderFacts
  <2>. QED
    BY <2>2, <2>3, <2>4
<1>4. Waiting
  BY <1>2, <1>3 DEF Waiting
<1>5. ASSUME NEW f \in DOMAIN Disk, Asks(f) PROVE FALSE
  <2>1. cl.request = <<>> /\ <<>> \in Seq(Byte)
    BY <1>2
  <2>. QED
    BY <1>5, <2>1, AskedFor DEF Asks
<1>6. stream[Server] \o unsent[Client] = cl.request
  BY <1>2, <1>3
<1>7. Connected
  BY <1>2, <1>3, <1>4, <1>5, <1>6 DEF Connected
<1>8. ClientServed
  BY <1>5 DEF ClientServed
<1>. QED
  BY <1>1, <1>2, <1>3, <1>7, <1>8 DEF HInv, SInv, ClientActive

\* A client that is not there is not connected any more, and one that is, is Open.
LEMMA OpenClient ==
    ASSUME HInv, ClientActive
    PROVE  Open
  BY DEF HInv, SInv, Open

LEMMA StepServed == HInv /\ [HttpNext]_httpVars => HInv'
<1>. SUFFICES ASSUME HInv, [HttpNext]_httpVars PROVE HInv'
  OBVIOUS
<1>1. IInv /\ SrvTyped /\ ClTyped /\ SInv
  BY DEF HInv
<1>2. IInv' /\ SrvTyped' /\ ClTyped'
  BY <1>1, StepTyped
<1>3. CASE UNCHANGED httpVars
  <2>1. UNCHANGED <<stream, closed, taken, rio, unsent, srv, cl>>
    BY <1>3 DEF httpVars, vars
  <2>2. UNCHANGED <<Position, Answers>>
    BY <2>1 DEF Position, Answers
  <2>3. Connected => Connected'
    BY <2>1, <2>2 DEF Connected, Waiting, Asks
  <2>4. ClientServed' /\ (ClientActive' <=> ClientActive)
    BY <1>1, <2>1 DEF SInv, ClientServed, Asks, FitsLines, ClientActive
  <2>. QED
    BY <1>1, <1>2, <2>1, <2>3, <2>4 DEF HInv, SInv
<1>4. CASE ServerStep
  <2>1. UNCHANGED cl
    BY <1>1, <1>4, ServerTyped
  <2>2. ClientServed' /\ (ClientActive' <=> ClientActive)
    BY <1>1, <2>1 DEF SInv, ClientServed, Asks, FitsLines, ClientActive
  <2>3. closed'[Server] = closed[Server] /\ (closed'[Client] <=> srv'.at \in {"closed", "exited"})
    BY <1>1, <1>4, ServerCloses DEF SInv
  <2>4. ClientActive => Connected'
    BY <1>4, OpenClient, ServerConnected
  <2>. QED
    BY <1>1, <1>2, <2>2, <2>3, <2>4 DEF HInv, SInv
<1>5. CASE ClientStep \/ GoesAway
  <2>1. Open
    BY <1>5, OpenClient DEF ClientStep, GoesAway
  <2>2. Untouched(Client, Server) /\ UNCHANGED srv /\ (closed'[Server] <=> ~ClientActive')
    BY <1>5, <2>1, ClientLeaves
  <2>3. ClientServed'
    BY <1>5, <2>1, ClientEnded
  <2>4. ClientActive' => Connected'
    BY <1>5, <2>1, ClientConnected
  <2>. QED
    BY <1>1, <1>2, <2>2, <2>3, <2>4 DEF HInv, SInv, Untouched
<1>. QED
  BY <1>3, <1>4, <1>5 DEF HttpNext

\* A client that asked for a file that is there and came to the end of
\* client_print has received the length and the checksum that the header says,
\* which are the file's; and if the lines of its request fit the server's
\* buffer, it is never cut off, whatever the file, the sizes of the buffers and
\* of a line, and however the reads and writes of both ends fall.
THEOREM ClientIsServed == HttpSpec => []ClientServed
<1>1. HInv => ClientServed
  BY DEF HInv, SInv
<1>. QED
  BY <1>1, InitServed, StepServed, PTL DEF HttpSpec

----------------------------------------------------------------------------
(* No worker waits for a client that has sent its headers.                 *)

\* A worker that reads a request of which the client has sent the blank line
\* still has an end of line ahead of it.
LineAhead ==
    HeadersSent /\ srv.at \in {"line", "header"} /\ Reading(Server) =>
        \E i \in Position[Server] + 1 .. Len(stream[Server]) : stream[Server][i] = LF

\* What has been read up to q has no blank line after a line.
NoBlank(s, q) == \A i \in 1 .. q - 2 : ~(s[i] = LF /\ s[i + 1] = CR /\ s[i + 2] = LF)

\* A line that stops at q leaves no half of a blank line: it has an end, or its
\* last byte but one is not one, or nothing follows.
Edge(s, q, c) ==
    \/ q = 0 \/ s[q] = LF
    \/ q >= 2 /\ s[q - 1] # LF
    \/ c /\ q = Len(s)

\* A reader of s that was given answer a at p has missed no blank line.
Heard(s, p, a, c) ==
    /\ p \in Nat /\ p <= Len(s) /\ Used(p, a) \in Nat
    /\ a.line = SubSeq(s, Used(p, a) + 1, p)
    /\ \A i \in Used(p, a) + 1 .. p - 1 : s[i] # LF
    /\ NoBlank(s, Used(p, a)) /\ Edge(s, Used(p, a), c) /\ Edge(s, p, c)

HearInv ==
    srv.at \in {"line", "header"} =>
        /\ Heard(stream[Server], Position[Server], Answers[Server], closed[Server])
        /\ srv.at = "line" => Used(Position[Server], Answers[Server]) = 0

LEMMA NothingUsed ==
    ASSUME NEW p \in Nat, NEW a, a.line = <<>>
    PROVE  Used(p, a) = p
  BY DEF Used

\* More is sent, or the peer closes.
LEMMA HeardMore ==
    ASSUME NEW s \in Seq(Byte), NEW x \in Seq(Byte), NEW p, NEW a, Heard(s, p, a, FALSE)
    PROVE  \A d : Heard(s \o x, p, a, d)
<1>. DEFINE t == s \o x
            u == Used(p, a)
<1>1. /\ p \in Nat /\ p <= Len(s) /\ u \in Nat
      /\ a.line = SubSeq(s, u + 1, p)
      /\ \A i \in u + 1 .. p - 1 : s[i] # LF
      /\ NoBlank(s, u) /\ Edge(s, u, FALSE) /\ Edge(s, p, FALSE)
  BY DEF Heard
<1>2. t \in Seq(Byte) /\ Len(s) \in Nat /\ Len(t) \in Nat /\ Len(s) <= Len(t)
      /\ \A i \in 1 .. Len(s) : t[i] = s[i]
  BY ConcatProperties
<1>3. u <= p
  <2>1. Len(a.line) \in Nat
    <3>1. SubSeq(s, u + 1, p) \in Seq(Byte)
      <4>1. \A i \in u + 1 .. p : s[i] \in Byte
        BY <1>1
      <4>. QED
        BY <1>1, <4>1, SubSeqProperties
    <3>. QED
      BY <1>1, <3>1
  <2>. QED
    BY <1>1, <2>1 DEF Used
<1>. HIDE DEF t, u
<1>4. a.line = SubSeq(t, u + 1, p)
  <2>. DEFINE n == p - u
  <2>1. n \in Nat /\ u + n = p /\ u + n <= Len(s) /\ u + n <= Len(t)
    BY <1>1, <1>2, <1>3
  <2>. HIDE DEF n
  <2>2. /\ SubSeq(s, u + 1, u + n) \in Seq(Byte) /\ Len(SubSeq(s, u + 1, u + n)) = n
        /\ \A i \in 1 .. n : SubSeq(s, u + 1, u + n)[i] = s[u + i]
    BY <1>1, <2>1, PartTyped
  <2>3. /\ SubSeq(t, u + 1, u + n) \in Seq(Byte) /\ Len(SubSeq(t, u + 1, u + n)) = n
        /\ \A i \in 1 .. n : SubSeq(t, u + 1, u + n)[i] = t[u + i]
    BY <1>1, <1>2, <2>1, PartTyped
  <2>4. \A i \in 1 .. n : t[u + i] = s[u + i]
    <3>1. \A i \in 1 .. n : u + i \in 1 .. Len(s)
      BY <1>1, <1>2, <2>1
    <3>. QED
      BY <1>2, <3>1
  <2>. DEFINE y == SubSeq(s, u + 1, u + n)
              z == SubSeq(t, u + 1, u + n)
  <2>5. y \in Seq(Byte) /\ z \in Seq(Byte) /\ Len(y) = n /\ Len(z) = n
        /\ \A i \in 1 .. n : y[i] = z[i]
    BY <2>2, <2>3, <2>4
  <2>. HIDE DEF y, z
  <2>6. y = z
    BY <2>5, SeqEqual
  <2>. QED
    BY <1>1, <2>1, <2>6 DEF y, z
<1>5. \A i \in u + 1 .. p - 1 : t[i] # LF
  <2>1. \A i \in u + 1 .. p - 1 : i \in 1 .. Len(s)
    BY <1>1, <1>2
  <2>. QED
    BY <1>1, <1>2, <2>1
<1>6. NoBlank(t, u)
  <2>1. \A i \in 1 .. u - 2 : i \in 1 .. Len(s) /\ i + 1 \in 1 .. Len(s) /\ i + 2 \in 1 .. Len(s)
    BY <1>1, <1>2, <1>3
  <2>. QED
    BY <1>1, <1>2, <2>1 DEF NoBlank
<1>7. ASSUME NEW q \in Nat, q <= Len(s), Edge(s, q, FALSE), NEW d PROVE Edge(t, q, d)
  <2>1. q # 0 => q \in 1 .. Len(s)
    BY <1>2, <1>7
  <2>2. q >= 2 => q - 1 \in 1 .. Len(s)
    BY <1>2, <1>7
  <2>. QED
    BY <1>2, <1>7, <2>1, <2>2 DEF Edge
<1>8. u <= Len(s)
  BY <1>1, <1>2, <1>3
<1>9. \A d : Edge(t, u, d) /\ Edge(t, p, d)
  BY <1>1, <1>7, <1>8
<1>10. p <= Len(t)
  BY <1>1, <1>2
<1>. QED
  BY <1>1, <1>4, <1>5, <1>6, <1>9, <1>10 DEF Heard, t, u

LEMMA HeardClose ==
    ASSUME NEW s, NEW p, NEW a, NEW c, NEW d, c => d, Heard(s, p, a, c)
    PROVE  Heard(s, p, a, d)
  BY DEF Heard, Edge

\* It is given the next line.
LEMMA HeardLine ==
    ASSUME NEW s \in Seq(Byte), NEW p, NEW a, NEW c, Heard(s, p, a, c), a.line = <<>>,
           NEW n \in 1 .. MaxLine, p + n <= Len(s), \A i \in 1 .. n - 1 : s[p + i] # LF,
           s[p + n] = LF \/ n = MaxLine \/ (c /\ p + n = Len(s)),
           NEW b, b.line = SubSeq(s, p + 1, p + n)
    PROVE  Heard(s, p + n, b, c) /\ Used(p + n, b) = p
<1>1. p \in Nat /\ Used(p, a) = p /\ NoBlank(s, p) /\ Edge(s, p, c)
  BY NothingUsed DEF Heard
<1>2. MaxLine \in Nat /\ MaxLine >= 4 /\ n \in Nat /\ n >= 1
  BY SizesAssumption, WordsDiffer DEF SizesAssumption, WordsDiffer
<1>3. Len(b.line) = n
  BY <1>1, <1>2, PartTyped
<1>4. Used(p + n, b) = p
  BY <1>1, <1>2, <1>3 DEF Used
<1>5. \A i \in p + 1 .. p + n - 1 : s[i] # LF
  <2>. SUFFICES ASSUME NEW i \in p + 1 .. p + n - 1 PROVE s[i] # LF
    OBVIOUS
  <2>. DEFINE j == i - p
  <2>1. j \in 1 .. n - 1 /\ p + j = i
    BY <1>1, <1>2
  <2>. HIDE DEF j
  <2>2. s[p + j] # LF
    BY <2>1
  <2>. QED
    BY <2>1, <2>2
<1>6. Edge(s, p + n, c)
  <2>. DEFINE q == p + n
  <2>0. q - 1 = p + (n - 1) /\ q >= 1 /\ q \in Nat
    BY <1>1, <1>2
  <2>1. CASE n = MaxLine
    <3>1. n - 1 \in 1 .. n - 1 /\ q >= 2
      BY <1>1, <1>2, <2>1
    <3>2. s[p + (n - 1)] # LF
      BY <3>1
    <3>. HIDE DEF q
    <3>3. s[q - 1] # LF
      BY <2>0, <3>2
    <3>4. Edge(s, q, c)
      BY <3>1, <3>3 DEF Edge
    <3>. QED
      BY <3>4 DEF q
  <2>. QED
    BY <2>1 DEF Edge
<1>. DEFINE q == p + n
            l == b.line
            u == Used(q, b)
<1>7. q \in Nat /\ q <= Len(s) /\ u \in Nat /\ l = SubSeq(s, u + 1, q)
  BY <1>1, <1>2, <1>4
<1>8. (\A i \in u + 1 .. q - 1 : s[i] # LF) /\ NoBlank(s, u) /\ Edge(s, u, c) /\ Edge(s, q, c)
  BY <1>1, <1>4, <1>5, <1>6
<1>. HIDE DEF q
<1>9. Heard(s, q, b, c)
  BY <1>7, <1>8 DEF Heard
<1>. QED
  BY <1>4, <1>9 DEF q

\* It goes on after a line that is not the blank one, or is the first.
LEMMA HeardOn ==
    ASSUME NEW s \in Seq(Byte), NEW p, NEW a, NEW c, Heard(s, p, a, c),
           a.line # Blank \/ Used(p, a) = 0, NEW b, b.line = <<>>
    PROVE  Heard(s, p, b, c) /\ Used(p, b) = p
<1>. DEFINE u == Used(p, a)
<1>1. /\ p \in Nat /\ p <= Len(s) /\ u \in Nat
      /\ a.line = SubSeq(s, u + 1, p)
      /\ \A i \in u + 1 .. p - 1 : s[i] # LF
      /\ NoBlank(s, u) /\ Edge(s, u, c) /\ Edge(s, p, c)
  BY DEF Heard
<1>2. Used(p, b) = p
  BY <1>1, NothingUsed
<1>3. b.line = SubSeq(s, p + 1, p)
  <2>1. SubSeq(s, p + 1, p) = <<>>
    BY <1>1
  <2>. QED
    BY <2>1
<1>4. Len(s) \in Nat /\ CR # LF
  BY WordsDiffer DEF WordsDiffer
<1>. HIDE DEF u
<1>5. NoBlank(s, p)
  <2>. SUFFICES ASSUME NEW i \in 1 .. p - 2, s[i] = LF, s[i + 1] = CR, s[i + 2] = LF
                PROVE  FALSE
    BY DEF NoBlank
  <2>1. i + 2 > u
    <3>1. i \in 1 .. u - 2 => FALSE
      BY <1>1 DEF NoBlank
    <3>. QED
      BY <1>1, <3>1
  <2>2. i + 2 = p
    <3>1. i + 2 \in u + 1 .. p - 1 => FALSE
      BY <1>1
    <3>. QED
      BY <1>1, <2>1, <3>1
  <2>3. i <= u
    <3>1. i \in u + 1 .. p - 1 => FALSE
      BY <1>1
    <3>. QED
      BY <1>1, <3>1
  <2>4. u # 0
    BY <1>1, <2>3
  <2>5. CASE u = i
    <3>1. u + 2 = p /\ u + 2 <= Len(s) /\ s[u + 1] = CR /\ s[u + 2] = LF
      BY <1>1, <2>2, <2>5
    <3>. DEFINE x == SubSeq(s, u + 1, u + 2)
    <3>2. x \in Seq(Byte) /\ Len(x) = 2 /\ \A k \in 1 .. 2 : x[k] = s[u + k]
      BY <1>1, <3>1, PartTyped
    <3>3. a.line = x
      BY <1>1, <3>1
    <3>. HIDE DEF x
    <3>4. x[1] = CR /\ x[2] = LF
      BY <3>1, <3>2
    <3>5. Blank \in Seq(Byte) /\ Len(Blank) = 2 /\ Blank[1] = CR /\ Blank[2] = LF
      BY TextIsBytes DEF TextIsBytes, Blank
    <3>6. \A k \in 1 .. 2 : x[k] = Blank[k]
      <4>. HIDE DEF Blank
      <4>1. \A k \in 1 .. 2 : k = 1 \/ k = 2
        OBVIOUS
      <4>. QED
        BY <3>4, <3>5, <4>1
    <3>7. x = Blank
      <4>. HIDE DEF Blank
      <4>. QED
        BY <3>2, <3>5, <3>6, SeqEqual
    <3>. QED
      BY <2>4, <3>3, <3>7 DEF u
  <2>6. CASE u = i + 1
    <3>1. s[u] = CR /\ u - 1 = i /\ u < Len(s)
      BY <1>1, <1>4, <2>2, <2>6
    <3>. QED
      BY <1>1, <1>4, <2>4, <3>1 DEF Edge
  <2>. QED
    BY <1>1, <2>1, <2>2, <2>3, <2>5, <2>6
<1>6. \A i \in p + 1 .. p - 1 : s[i] # LF
  BY <1>1
<1>. DEFINE v == Used(p, b)
            l == b.line
<1>7. /\ p \in Nat /\ p <= Len(s) /\ v \in Nat /\ l = SubSeq(s, v + 1, p)
      /\ \A i \in v + 1 .. p - 1 : s[i] # LF
      /\ NoBlank(s, v) /\ Edge(s, v, c) /\ Edge(s, p, c)
  BY <1>1, <1>2, <1>3, <1>5, <1>6
<1>. QED
  BY <1>2, <1>7 DEF Heard

\* What a client, or its end, changes for the worker.
LEMMA ClientMoves ==
    ASSUME IInv, ClTyped, ClientStep \/ GoesAway
    PROVE  /\ UNCHANGED srv
           /\ Position'[Server] = Position[Server] /\ Answers'[Server] = Answers[Server]
           /\ closed[Server] => closed'[Server]
           /\ \/ stream'[Server] = stream[Server]
              \/ ~closed[Server]
                 /\ \E x \in Seq(Byte) : stream'[Server] = stream[Server] \o x
<1>0. UNCHANGED srv
  BY ClientTyped
<1>1. ASSUME Untouched(Client, Server), stream' = stream, closed[Server] => closed'[Server]
      PROVE  /\ Position'[Server] = Position[Server] /\ Answers'[Server] = Answers[Server]
             /\ closed[Server] => closed'[Server]
             /\ stream'[Server] = stream[Server]
  BY <1>1 DEF Untouched
<1>2. ASSUME Call(Client)
      PROVE  Untouched(Client, Server) /\ stream' = stream /\ closed' = closed
  BY <1>2, TwoEnds, CallFrame, CallLeaves
<1>3. ASSUME NEW bytes, BeginWrite(Client, bytes)
      PROVE  Untouched(Client, Server) /\ stream' = stream /\ closed' = closed
  BY <1>3, TwoEnds, BeginFrame, BeginLeaves
<1>4. ASSUME Close(Client)
      PROVE  Untouched(Client, Server) /\ stream' = stream /\ closed'[Server] = TRUE
  BY <1>4, TwoEnds, CloseFrame, CloseLeaves
<1>5. CASE Send
  <2>1. PICK r \in Requests : BeginWrite(Client, r)
    BY <1>5 DEF Send
  <2>. QED
    BY <1>0, <1>1, <1>3, <2>1
<1>6. CASE ReadReply \/ ReadHead \/ ReadBody
  <2>1. Call(Client)
    BY <1>6 DEF ReadReply, ReadHead, ReadBody
  <2>. QED
    BY <1>0, <1>1, <1>2, <2>1
<1>7. CASE Finish \/ ClientExits \/ GoesAway
  <2>1. Close(Client)
    BY <1>7 DEF Finish, ClientExits, GoesAway
  <2>. QED
    BY <1>0, <1>1, <1>4, <2>1
<1>8. CASE IO(Client)
  <2>1. Untouched(Client, Server) /\ UNCHANGED closed
    BY <1>8, TwoEnds, IOLeaves
  <2>2. CASE stream' = stream
    BY <1>0, <1>1, <2>1, <2>2
  <2>3. CASE Write(Client)
    <3>. DEFINE u == unsent[Client]
    <3>1. u \in Seq(Byte) /\ stream[Server] \in Seq(Byte) /\ stream \in [Ends -> Seq(Byte)]
      BY TwoEnds, ReaderFacts DEF IInv, RioTypeOK
    <3>2. ~closed[Server]
      BY <2>3, TwoEnds DEF Write
    <3>3. PICK k \in 1 .. Len(u) :
              stream' = [stream EXCEPT ![Server] = stream[Server] \o SubSeq(u, 1, k)]
      BY <2>3, TwoEnds DEF Write
    <3>. HIDE DEF u
    <3>4. SubSeq(u, 1, k) \in Seq(Byte)
      <4>1. \A i \in 1 .. k : u[i] \in Byte
        BY <3>1
      <4>. QED
        BY <3>1, <4>1, SubSeqProperties
    <3>5. stream'[Server] = stream[Server] \o SubSeq(u, 1, k)
      BY <3>1, <3>3, TwoEnds
    <3>. QED
      BY <1>0, <2>1, <3>2, <3>4, <3>5 DEF Untouched
  <2>4. stream' = stream \/ Write(Client)
    BY <1>8 DEF IO, Take, Refill, Interrupted, Eof, ReadFails
  <2>. QED
    BY <2>2, <2>3, <2>4
<1>. QED
  BY <1>5, <1>6, <1>7, <1>8 DEF ClientStep

\* The worker goes on only after a line that is not the blank one.
LEMMA WorkerHears ==
    ASSUME IInv, SrvTyped, HearInv, ServerStep
    PROVE  HearInv'
<1>. DEFINE s == stream[Server]
            p == Position[Server]
            a == Answers[Server]
            c == closed[Server]
            b == Answers'[Server]
<1>1. /\ s \in Seq(Byte) /\ c \in BOOLEAN /\ a.ret = rio[Server].ret
      /\ a.line = IF rio[Server].ret = "line" THEN rio[Server].line ELSE <<>>
  BY TwoEnds, ReaderFacts
<1>2. ASSUME srv.at \in {"line", "header"}
      PROVE  Heard(s, p, a, c) /\ p \in Nat /\ (srv.at = "line" => Used(p, a) = 0)
  BY <1>2 DEF HearInv, Heard
<1>3. ASSUME srv.at \in {"line", "header"}, srv'.at \in {srv.at, "header"}, srv.at = "line" \/ a.line # Blank,
             srv'.at = "line" => a.line = <<>>,
             b.line = <<>>, Position' = Position, UNCHANGED <<stream, closed>>
      PROVE  HearInv'
  <2>1. Heard(s, p, b, c) /\ Used(p, b) = p
    <3>. HIDE DEF s, p, a, c, b
    <3>. QED
      BY <1>1, <1>2, <1>3, HeardOn
  <2>2. srv'.at = "line" => Used(p, b) = 0
    <3>1. srv'.at = "line" => srv.at = "line" /\ a.line = <<>>
      BY <1>3
    <3>2. a.line = <<>> => Used(p, a) = p
      BY <1>2, <1>3, NothingUsed
    <3>. QED
      BY <1>2, <1>3, <2>1, <3>1, <3>2
  <2>. QED
    BY <1>3, <2>1, <2>2 DEF HearInv
<1>4. ASSUME Call(Server)
      PROVE  b.line = <<>> /\ Position' = Position /\ UNCHANGED <<stream, closed>>
  BY <1>4, TwoEnds, CallFrame DEF Ends1
<1>5. <<>> # Blank
  BY DEF Blank
<1>6. CASE ReadLine
  <2>1. srv.at = "line" /\ a.line = <<>> /\ Call(Server) /\ UNCHANGED srv
    BY <1>1, <1>6 DEF ReadLine
  <2>. QED
    BY <1>3, <1>4, <2>1
<1>7. CASE AcceptLine
  <2>1. srv.at = "line" /\ srv'.at = "header" /\ Call(Server)
    BY <1>7 DEF AcceptLine
  <2>. QED
    BY <1>3, <1>4, <2>1
<1>8. CASE NextHeader
  <2>1. srv.at = "header" /\ srv'.at = "header" /\ Call(Server)
    BY <1>8 DEF NextHeader, SrvTyped
  <2>2. a.line # Blank
    BY <1>1, <1>5, <1>8 DEF NextHeader, SeesBlank
  <2>. QED
    BY <1>3, <1>4, <2>1, <2>2
<1>9. CASE RejectLine \/ EndHeaders \/ ReadFile \/ SendEmpty \/ Destroy \/ ServerExits
  <2>1. srv'.at \in {"reply", "read", "unread", "closed", "exited"}
    BY <1>9 DEF RejectLine, EndHeaders, ReadFile, SendEmpty, Destroy, ServerExits, SrvTyped
  <2>. QED
    BY <2>1 DEF HearInv
<1>10. CASE IO(Server) /\ UNCHANGED <<srv, cl>>
  <2>. SUFFICES ASSUME srv.at \in {"line", "header"} PROVE HearInv'
    BY <1>10 DEF HearInv
  <2>1. ReadOn(Server) \/ WriteOn(Server)
    BY <1>10, TwoEnds, IOSeen
  <2>2. ASSUME UNCHANGED <<Position, Answers, closed>>, stream'[Server] = s PROVE HearInv'
    BY <1>10, <2>2 DEF HearInv
  <2>3. CASE WriteOn(Server)
    <3>1. stream'[Server] = s
      BY <2>3, TwoEnds DEF WriteOn
    <3>. QED
      BY <2>2, <2>3, <3>1 DEF WriteOn
  <2>4. CASE ReadOn(Server)
    <3>1. Read1(Server)
      BY <2>4, TwoEnds, ReadOnSeen
    <3>2. UNCHANGED <<stream, closed, unsent>>
      BY <3>1 DEF Read1
    <3>3. ASSUME NEW v, Ends1(Server, v), a.ret = "busy" PROVE HearInv'
      <4>1. b.line = <<>> /\ Position' = Position
        BY <3>3 DEF Ends1
      <4>2. a.line = <<>>
        BY <1>1, <3>3
      <4>. QED
        BY <1>3, <1>5, <1>10, <3>2, <4>1, <4>2
    <3>4. ASSUME NEW n \in 1 .. MaxLine, Took1(Server, n) PROVE HearInv'
      <4>1. /\ a.ret = "busy" /\ p + n <= Len(s)
            /\ \A i \in 1 .. n - 1 : s[p + i] # LF
            /\ s[p + n] = LF \/ n = MaxLine \/ (c /\ p + n = Len(s))
            /\ Position'[Server] = p + n
            /\ b.line = SubSeq(s, p + 1, p + n)
        BY <3>4 DEF Took1, Lines!IsNextLine
      <4>2. a.line = <<>>
        BY <1>1, <4>1
      <4>3. Heard(s, p, a, c) /\ p \in Nat
        BY <1>2
      <4>4. Heard(s, p + n, b, c) /\ Used(p + n, b) = p
        <5>. HIDE DEF s, p, a, c, b
        <5>. QED
          BY <1>1, <4>1, <4>2, <4>3, HeardLine
      <4>5. srv.at = "line" => p = 0
        <5>1. Used(p, a) = p
          BY <4>2, <4>3, NothingUsed
        <5>. QED
          BY <1>2, <5>1
      <4>. QED
        BY <1>10, <3>2, <4>1, <4>4, <4>5 DEF HearInv
    <3>. QED
      BY <2>2, <3>1, <3>2, <3>3, <3>4 DEF Read1
  <2>. QED
    BY <2>1, <2>3, <2>4
<1>. QED
  BY <1>6, <1>7, <1>8, <1>9, <1>10 DEF ServerStep

LEMMA StepHears ==
    ASSUME IInv, SrvTyped, ClTyped, HearInv, [HttpNext]_httpVars
    PROVE  HearInv'
<1>1. CASE UNCHANGED httpVars
  <2>1. UNCHANGED <<stream, closed, taken, rio, srv>>
    BY <1>1 DEF httpVars, vars
  <2>2. UNCHANGED <<Position, Answers>>
    BY <2>1 DEF Position, Answers
  <2>. QED
    BY <2>1, <2>2 DEF HearInv
<1>2. CASE ServerStep
  BY <1>2, WorkerHears
<1>3. CASE ClientStep \/ GoesAway
  <2>. DEFINE s == stream[Server]
              t == stream'[Server]
              p == Position[Server]
              a == Answers[Server]
              c == closed[Server]
              d == closed'[Server]
  <2>1. /\ UNCHANGED srv /\ Position'[Server] = p /\ Answers'[Server] = a
        /\ c => d
        /\ t = s \/ (~c /\ \E x \in Seq(Byte) : t = s \o x)
    BY <1>3, ClientMoves
  <2>2. s \in Seq(Byte) /\ c \in BOOLEAN
    BY TwoEnds, ReaderFacts
  <2>3. ASSUME Heard(s, p, a, c) PROVE Heard(t, p, a, d)
    <3>. HIDE DEF s, t, p, a, c, d
    <3>1. CASE t = s
      BY <2>1, <2>3, <3>1, HeardClose
    <3>2. CASE ~c /\ \E x \in Seq(Byte) : t = s \o x
      <4>1. PICK x \in Seq(Byte) : t = s \o x
        BY <3>2
      <4>2. Heard(s, p, a, FALSE)
        <5>1. c = FALSE
          BY <2>2, <3>2
        <5>. QED
          BY <2>3, <5>1
      <4>. QED
        BY <2>2, <4>1, <4>2, HeardMore
    <3>. QED
      BY <2>1, <3>1, <3>2
  <2>. QED
    BY <2>1, <2>3 DEF HearInv
<1>. QED
  BY <1>1, <1>2, <1>3 DEF HttpNext

LEMMA InitHears == HttpInit => HearInv
<1>. SUFFICES ASSUME HttpInit PROVE HearInv
  OBVIOUS
<1>1. IInv
  BY InitTyped
<1>2. /\ stream[Server] = <<>> /\ taken[Server] = 0
      /\ rio[Server] = [buf |-> <<>>, ptr |-> 1, cnt |-> 0, line |-> <<>>, ret |-> "none"]
  BY TwoEnds DEF HttpInit, RioInit
<1>3. Position[Server] = 0
  BY <1>2, TwoEnds DEF Position, Given, Unread
<1>4. Answers[Server].line = <<>>
  BY <1>1, <1>2, TwoEnds, ReaderFacts
<1>. DEFINE a == Answers[Server]
<1>. HIDE DEF a
<1>5. a.line = <<>> => Used(0, a) = 0
  BY NothingUsed
<1>6. ASSUME a.line = <<>> PROVE \A c : Heard(<<>>, 0, a, c)
  <2>1. SubSeq(<<>>, 1, 0) = <<>> /\ Len(<<>>) = 0
    OBVIOUS
  <2>. QED
    BY <1>5, <1>6, <2>1 DEF Heard, NoBlank, Edge
<1>. QED
  BY <1>2, <1>3, <1>4, <1>5, <1>6 DEF HearInv, a

\* The safety half of RequestServed: once the client has sent its headers, the
\* loop of request_read_headers is never left in a read for a line of which no
\* end has been sent, so the worker does not wait for its client any more.  It
\* has overlooked no blank line, wherever writes, reads, rio_buf and maxlen cut
\* the request, and whatever else it contains.
THEOREM WorkerNeverWaits == HttpSpec => []LineAhead
<1>. DEFINE Inv == IInv /\ SrvTyped /\ ClTyped /\ HearInv
<1>1. HttpInit => Inv
  BY InitTyped, InitHears
<1>2. Inv /\ [HttpNext]_httpVars => Inv'
  <2>. SUFFICES ASSUME Inv, [HttpNext]_httpVars PROVE Inv'
    OBVIOUS
  <2>1. IInv' /\ SrvTyped' /\ ClTyped'
    BY StepTyped
  <2>2. HearInv'
    BY StepHears
  <2>. QED
    BY <2>1, <2>2
<1>3. Inv => LineAhead
  <2>. SUFFICES ASSUME Inv, HeadersSent, srv.at \in {"line", "header"}, Reading(Server)
                PROVE  \E i \in Position[Server] + 1 .. Len(stream[Server]) : stream[Server][i] = LF
    BY DEF LineAhead
  <2>. DEFINE s == stream[Server]
              p == Position[Server]
              a == Answers[Server]
  <2>1. s \in Seq(Byte) /\ p \in Nat /\ a.line = <<>>
    BY TwoEnds, ReaderFacts DEF Reading
  <2>2. NoBlank(s, p)
    <3>1. Used(p, a) = p
      BY <2>1, NothingUsed
    <3>. QED
      BY <3>1 DEF HearInv, Heard
  <2>. DEFINE E == Blank \o Blank
  <2>3. PICK i \in 1 .. Len(s) - 3 : SubSeq(s, i, i + 3) = E
    BY DEF HeadersSent
  <2>4. E[2] = LF /\ E[3] = CR /\ E[4] = LF
    BY DEF Blank
  <2>. HIDE DEF s, p, a, E
  <2>. DEFINE m == i - 1
              x == SubSeq(s, m + 1, m + 4)
  <2>5. m \in Nat /\ m + 4 <= Len(s) /\ m + 1 = i /\ m + 4 = i + 3
    BY <2>1
  <2>. HIDE DEF m
  <2>6. \A k \in 1 .. 4 : x[k] = s[m + k]
    BY <2>1, <2>5, PartTyped
  <2>7. x = E
    BY <2>3, <2>5
  <2>. HIDE DEF x
  <2>8. s[m + 2] = LF /\ s[m + 3] = CR /\ s[m + 4] = LF
    <3>1. x[2] = s[m + 2] /\ x[3] = s[m + 3] /\ x[4] = s[m + 4]
      BY <2>6
    <3>. QED
      BY <2>4, <2>7, <3>1
  <2>9. ~(m + 4 <= p)
    <3>. SUFFICES ASSUME m + 4 <= p PROVE FALSE
      OBVIOUS
    <3>. DEFINE k == m + 2
    <3>1. k \in 1 .. p - 2 /\ k + 1 = m + 3 /\ k + 2 = m + 4
      BY <2>1, <2>5
    <3>. HIDE DEF k
    <3>2. ~(s[k] = LF /\ s[k + 1] = CR /\ s[k + 2] = LF)
      BY <2>2, <3>1 DEF NoBlank
    <3>. QED
      BY <2>8, <3>1, <3>2 DEF k
  <2>10. m + 4 \in p + 1 .. Len(s)
    BY <2>1, <2>5, <2>9
  <2>11. \E j \in p + 1 .. Len(s) : s[j] = LF
    BY <2>8, <2>10
  <2>. QED
    BY <2>11 DEF s, p
<1>. QED
  BY <1>1, <1>2, <1>3, PTL DEF HttpSpec
=============================================================================
