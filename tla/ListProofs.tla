----------------------------- MODULE ListProofs -----------------------------
(***************************************************************************)
(* Lists without repetition, as the linked lists of the thread package and *)
(* of the file cache are: what appending, concatenating, cutting and       *)
(* removing do to the members of a list, and that it still has each once.  *)
(* Then induction over finite sets and naturals, and what it shows of sums *)
(* over finite sets.                                                       *)
(***************************************************************************)
EXTENDS Integers, Sequences, SequencesExt, SequenceTheorems, FiniteSetTheorems, WellFoundedInduction, TLAPS

\* s names members of A, none twice.
IsListOf(s, A) == s \in Seq(A) /\ IsInjective(s)

LEMMA ListRange ==
    ASSUME NEW A, NEW s \in Seq(A)
    PROVE  /\ Range(s) \subseteq A
           /\ \A a : a \in Range(s) <=> \E i \in 1 .. Len(s) : s[i] = a
           /\ IsInjective(s) <=> \A i, j \in 1 .. Len(s) : s[i] = s[j] => i = j
  BY DEF Range, IsInjective

LEMMA EmptyList == \A A : Range(<<>>) = {} /\ IsListOf(<<>>, A)
  BY DEF Range, IsListOf, IsInjective

LEMMA AppendList ==
    ASSUME NEW A, NEW s, IsListOf(s, A), NEW x \in A
    PROVE  /\ Append(s, x) \in Seq(A) /\ Range(Append(s, x)) = Range(s) \cup {x}
           /\ x \notin Range(s) => IsListOf(Append(s, x), A)
<1>. DEFINE t == Append(s, x)
            n == Len(s)
<1>1. s \in Seq(A) /\ n \in Nat
  BY DEF IsListOf
<1>2. /\ t \in Seq(A) /\ Len(t) = n + 1 /\ t[n + 1] = x
      /\ \A i \in 1 .. n : t[i] = s[i]
  BY <1>1, AppendProperties
<1>. HIDE DEF t, n
<1>3. \A i \in 1 .. n + 1 : i \in 1 .. n \/ i = n + 1
  BY <1>1
<1>4. \A i \in 1 .. n : i \in 1 .. n + 1 /\ i # n + 1
  BY <1>1
<1>5. n + 1 \in 1 .. n + 1
  BY <1>1
<1>6. \A a : a \in Range(t) <=> a \in Range(s) \/ a = x
  <2>1. \A a : a \in Range(s) <=> \E i \in 1 .. n : s[i] = a
    BY <1>1, ListRange DEF n
  <2>2. \A a : a \in Range(t) <=> \E i \in 1 .. n + 1 : t[i] = a
    BY <1>2, ListRange
  <2>. QED
    BY <1>2, <1>3, <1>4, <1>5, <2>1, <2>2
<1>7. ASSUME x \notin Range(s) PROVE IsInjective(t)
  <2>1. \A i \in 1 .. n : s[i] # x
    BY <1>1, <1>7, ListRange DEF n
  <2>2. \A i, j \in 1 .. n : s[i] = s[j] => i = j
    BY <1>1, ListRange DEF n, IsListOf
  <2>3. \A i, j \in 1 .. n + 1 : t[i] = t[j] => i = j
    BY <1>2, <1>3, <2>1, <2>2
  <2>. QED
    BY <1>2, <2>3, ListRange
<1>. QED
  BY <1>2, <1>6, <1>7 DEF IsListOf, t

LEMMA ConcatList ==
    ASSUME NEW A, NEW s, IsListOf(s, A), NEW t, IsListOf(t, A)
    PROVE  /\ s \o t \in Seq(A) /\ Range(s \o t) = Range(s) \cup Range(t)
           /\ Range(s) \cap Range(t) = {} => IsListOf(s \o t, A)
<1>. DEFINE u == s \o t
            m == Len(s)
            n == Len(t)
<1>1. s \in Seq(A) /\ t \in Seq(A) /\ m \in Nat /\ n \in Nat
  BY DEF IsListOf
<1>2. /\ u \in Seq(A) /\ Len(u) = m + n
      /\ \A i \in 1 .. m + n : u[i] = IF i <= m THEN s[i] ELSE t[i - m]
  BY <1>1, ConcatProperties
<1>. HIDE DEF u, m, n
<1>3. \A i \in 1 .. m : i \in 1 .. m + n /\ u[i] = s[i]
  BY <1>1, <1>2
<1>4. \A j \in 1 .. n : m + j \in 1 .. m + n /\ u[m + j] = t[j]
  <2>. SUFFICES ASSUME NEW j \in 1 .. n PROVE m + j \in 1 .. m + n /\ u[m + j] = t[j]
    OBVIOUS
  <2>1. m + j \in 1 .. m + n /\ ~(m + j <= m) /\ (m + j) - m = j
    BY <1>1
  <2>2. u[m + j] = t[(m + j) - m]
    BY <1>2, <2>1
  <2>. QED
    BY <2>1, <2>2
<1>5. \A i \in 1 .. m + n : i \in 1 .. m \/ \E j \in 1 .. n : i = m + j
  <2>. SUFFICES ASSUME NEW i \in 1 .. m + n, i \notin 1 .. m
                PROVE  \E j \in 1 .. n : i = m + j
    OBVIOUS
  <2>1. i - m \in 1 .. n /\ i = m + (i - m)
    BY <1>1
  <2>. QED
    BY <2>1
<1>6. /\ \A a : a \in Range(s) <=> \E i \in 1 .. m : s[i] = a
      /\ \A a : a \in Range(t) <=> \E i \in 1 .. n : t[i] = a
      /\ \A a : a \in Range(u) <=> \E i \in 1 .. m + n : u[i] = a
  <2>1. \A a : a \in Range(s) <=> \E i \in 1 .. m : s[i] = a
    BY <1>1, ListRange DEF m
  <2>2. \A a : a \in Range(t) <=> \E i \in 1 .. n : t[i] = a
    BY <1>1, ListRange DEF n
  <2>3. \A a : a \in Range(u) <=> \E i \in 1 .. m + n : u[i] = a
    BY <1>2, ListRange
  <2>. QED
    BY <2>1, <2>2, <2>3
<1>7. \A a : a \in Range(u) <=> a \in Range(s) \/ a \in Range(t)
  BY <1>3, <1>4, <1>5, <1>6
<1>8. ASSUME Range(s) \cap Range(t) = {} PROVE IsInjective(u)
  <2>1. \A i, j \in 1 .. m : s[i] = s[j] => i = j
    BY <1>1, ListRange DEF m, IsListOf
  <2>2. \A i, j \in 1 .. n : t[i] = t[j] => i = j
    BY <1>1, ListRange DEF n, IsListOf
  <2>3. \A i \in 1 .. m, j \in 1 .. n : s[i] # t[j]
    BY <1>6, <1>8
  <2>4. \A i, j \in 1 .. m + n : u[i] = u[j] => i = j
    <3>. SUFFICES ASSUME NEW i \in 1 .. m + n, NEW j \in 1 .. m + n, u[i] = u[j]
                  PROVE  i = j
      OBVIOUS
    <3>1. CASE i \in 1 .. m /\ j \in 1 .. m
      BY <1>3, <2>1, <3>1
    <3>2. CASE i \in 1 .. m /\ j \notin 1 .. m
      BY <1>3, <1>4, <1>5, <2>3, <3>2
    <3>3. CASE i \notin 1 .. m /\ j \in 1 .. m
      BY <1>3, <1>4, <1>5, <2>3, <3>3
    <3>4. CASE i \notin 1 .. m /\ j \notin 1 .. m
      <4>1. PICK p \in 1 .. n : i = m + p
        BY <1>5, <3>4
      <4>2. PICK q \in 1 .. n : j = m + q
        BY <1>5, <3>4
      <4>3. t[p] = t[q]
        BY <1>4, <4>1, <4>2
      <4>. QED
        BY <2>2, <4>1, <4>2, <4>3
    <3>. QED
      BY <3>1, <3>2, <3>3, <3>4
  <2>. QED
    BY <1>2, <2>4, ListRange
<1>. QED
  BY <1>2, <1>7, <1>8 DEF IsListOf, u

LEMMA PartOfList ==
    ASSUME NEW A, NEW s, IsListOf(s, A), NEW l \in Nat, l >= 1, NEW h \in Nat, h <= Len(s)
    PROVE  /\ IsListOf(SubSeq(s, l, h), A)
           /\ \A a : a \in Range(SubSeq(s, l, h)) <=> \E j \in l .. h : s[j] = a
<1>. DEFINE u == SubSeq(s, l, h)
            n == Len(s)
<1>1. s \in Seq(A) /\ n \in Nat /\ h <= n
  BY DEF IsListOf
<1>2. \A j \in l .. h : j \in 1 .. n /\ s[j] \in A
  BY <1>1
<1>3. /\ u \in Seq(A) /\ Len(u) = IF l <= h THEN h - l + 1 ELSE 0
      /\ \A i \in 1 .. h - l + 1 : u[i] = s[l + i - 1]
  BY <1>2, SubSeqProperties
<1>. HIDE DEF u, n
<1>4. \A i \in 1 .. Len(u) : l + i - 1 \in l .. h /\ u[i] = s[l + i - 1]
  BY <1>1, <1>3
<1>5. \A j \in l .. h : j - l + 1 \in 1 .. Len(u) /\ u[j - l + 1] = s[j]
  <2>. SUFFICES ASSUME NEW j \in l .. h
                PROVE  j - l + 1 \in 1 .. Len(u) /\ u[j - l + 1] = s[j]
    OBVIOUS
  <2>1. j - l + 1 \in 1 .. h - l + 1 /\ l <= h /\ l + (j - l + 1) - 1 = j
    OBVIOUS
  <2>2. u[j - l + 1] = s[l + (j - l + 1) - 1]
    BY <1>3, <2>1
  <2>. QED
    BY <1>3, <2>1, <2>2
<1>6. \A a : a \in Range(u) <=> \E j \in l .. h : s[j] = a
  <2>1. \A a : a \in Range(u) <=> \E i \in 1 .. Len(u) : u[i] = a
    BY <1>3, ListRange
  <2>2. ASSUME NEW a, NEW i \in 1 .. Len(u), u[i] = a PROVE \E j \in l .. h : s[j] = a
    BY <1>4, <2>2
  <2>3. ASSUME NEW a, NEW j \in l .. h, s[j] = a PROVE \E i \in 1 .. Len(u) : u[i] = a
    BY <1>5, <2>3
  <2>. QED
    BY <2>1, <2>2, <2>3
<1>7. IsInjective(u)
  <2>1. \A i, j \in 1 .. n : s[i] = s[j] => i = j
    BY <1>1, ListRange DEF n, IsListOf
  <2>2. ASSUME NEW i \in 1 .. Len(u), NEW j \in 1 .. Len(u), u[i] = u[j] PROVE i = j
    <3>1. s[l + i - 1] = s[l + j - 1] /\ l + i - 1 \in 1 .. n /\ l + j - 1 \in 1 .. n
      BY <1>2, <1>4, <2>2
    <3>2. l + i - 1 = l + j - 1
      BY <2>1, <3>1
    <3>3. Len(u) \in Nat
      BY <1>3
    <3>. QED
      BY <3>2, <3>3
  <2>. QED
    BY <1>3, <2>2, ListRange
<1>. QED
  BY <1>3, <1>6, <1>7 DEF IsListOf, u

LEMMA RemoveAtList ==
    ASSUME NEW A, NEW s, IsListOf(s, A), NEW i \in 1 .. Len(s)
    PROVE  /\ IsListOf(RemoveAt(s, i), A) /\ Range(RemoveAt(s, i)) = Range(s) \ {s[i]}
           /\ s[i] \in Range(s) /\ s[i] \in A
<1>. DEFINE n == Len(s)
            u == SubSeq(s, 1, i - 1)
            v == SubSeq(s, i + 1, n)
<1>1. s \in Seq(A) /\ n \in Nat /\ i \in Nat /\ i >= 1 /\ i <= n
  BY DEF IsListOf
<1>2. i - 1 \in Nat /\ i - 1 <= n /\ i + 1 \in Nat /\ i + 1 >= 1 /\ n <= n
  BY <1>1
<1>3. IsListOf(u, A) /\ \A a : a \in Range(u) <=> \E j \in 1 .. i - 1 : s[j] = a
  BY <1>2, PartOfList
<1>4. IsListOf(v, A) /\ \A a : a \in Range(v) <=> \E j \in i + 1 .. n : s[j] = a
  BY <1>1, <1>2, PartOfList
<1>5. /\ \A a : a \in Range(s) <=> \E j \in 1 .. n : s[j] = a
      /\ \A j, k \in 1 .. n : s[j] = s[k] => j = k
  BY <1>1, ListRange DEF IsListOf
<1>. HIDE DEF n, u, v
<1>6. /\ \A j \in 1 .. n : j \in 1 .. i - 1 \/ j = i \/ j \in i + 1 .. n
      /\ \A j \in 1 .. i - 1 : j \in 1 .. n /\ j # i
      /\ \A j \in i + 1 .. n : j \in 1 .. n /\ j # i
      /\ \A j \in 1 .. i - 1 : j \notin i + 1 .. n
      /\ i \in 1 .. n
  BY <1>1
<1>7. \A a : a \in Range(u) \/ a \in Range(v) <=> a \in Range(s) /\ a # s[i]
  BY <1>3, <1>4, <1>5, <1>6
<1>8. Range(u) \cap Range(v) = {}
  BY <1>3, <1>4, <1>5, <1>6
<1>9. IsListOf(u \o v, A) /\ Range(u \o v) = Range(u) \cup Range(v)
  BY <1>3, <1>4, <1>8, ConcatList
<1>10. s[i] \in Range(s) /\ s[i] \in A
  BY <1>1, <1>5, <1>6 DEF n
<1>. QED
  BY <1>7, <1>9, <1>10 DEF RemoveAt, u, v, n

LEMMA TailOfList ==
    ASSUME NEW A, NEW s, IsListOf(s, A), s # <<>>
    PROVE  /\ IsListOf(Tail(s), A) /\ Range(Tail(s)) = Range(s) \ {Head(s)}
           /\ Head(s) \in Range(s) /\ Head(s) \in A
           /\ Tail(s) = RemoveAt(s, 1) /\ Head(s) = s[1] /\ 1 \in 1 .. Len(s)
<1>1. s \in Seq(A) /\ Len(s) \in Nat /\ Len(s) # 0
  BY DEF IsListOf
<1>2. 1 \in 1 .. Len(s)
  BY <1>1
<1>3. Tail(s) = SubSeq(s, 2, Len(s))
  BY <1>1, TailIsSubSeq
<1>4. SubSeq(s, 1, 1 - 1) = <<>>
  BY SubSeqEmpty
<1>5. 1 + 1 = 2 /\ 2 \in Nat /\ 2 >= 1 /\ Len(s) <= Len(s)
  BY <1>1
<1>6. SubSeq(s, 2, Len(s)) \in Seq(A)
  BY <1>1, <1>5, PartOfList DEF IsListOf
<1>7. Tail(s) = RemoveAt(s, 1)
  BY <1>3, <1>4, <1>5, <1>6, ConcatEmptySeq DEF RemoveAt
<1>8. Head(s) = s[1]
  BY <1>1
<1>9. /\ IsListOf(RemoveAt(s, 1), A) /\ Range(RemoveAt(s, 1)) = Range(s) \ {s[1]}
      /\ s[1] \in Range(s) /\ s[1] \in A
  BY <1>2, RemoveAtList
<1>. QED
  BY <1>2, <1>7, <1>8, <1>9

\* The least element of a set of naturals: the place where a search stops.
LEMMA LeastExists ==
    ASSUME NEW S \in SUBSET Nat, S # {}
    PROVE  \E n \in S : \A m \in S : n <= m
<1>1. PICK n \in S : \A m \in S : <<m, n>> \notin OpToRel(<, Nat)
  BY WFMin, NatLessThanWellFounded, Zenon
<1>2. \A m \in S : ~(m < n)
  BY <1>1, Zenon DEF OpToRel
<1>. QED
  BY <1>2


\* Removing the first occurrence, as a walk along the list does.
LEMMA RemoveFirstOfList ==
    ASSUME NEW A, NEW s, IsListOf(s, A), NEW x
    PROVE  /\ IsListOf(RemoveFirst(s, x), A)
           /\ Range(RemoveFirst(s, x)) = Range(s) \ {x}
<1>1. s \in Seq(A)
  BY DEF IsListOf
<1>2. \A a : a \in Range(s) <=> \E i \in 1 .. Len(s) : s[i] = a
  BY <1>1, ListRange
<1>3. CASE x \notin Range(s)
  <2>1. RemoveFirst(s, x) = s
    BY <1>2, <1>3 DEF RemoveFirst
  <2>. QED
    BY <1>3, <2>1
<1>4. CASE x \in Range(s)
  <2>. DEFINE I == {i \in 1 .. Len(s) : s[i] = x}
  <2>1. I \in SUBSET Nat /\ I # {}
    BY <1>1, <1>2, <1>4
  <2>2. Min(I) \in I
    BY <2>1, LeastExists DEF Min
  <2>3. RemoveFirst(s, x) = RemoveAt(s, Min(I))
    BY <1>2, <1>4, <2>1 DEF RemoveFirst, SelectInSeq
  <2>4. PICK i \in 1 .. Len(s) : i = Min(I) /\ s[i] = x
    BY <2>2
  <2>5. /\ IsListOf(RemoveAt(s, i), A)
        /\ Range(RemoveAt(s, i)) = Range(s) \ {s[i]}
    BY RemoveAtList
  <2>6. RemoveFirst(s, x) = RemoveAt(s, i) /\ s[i] = x
    BY <2>3, <2>4
  <2>. QED
    BY <2>5, <2>6
<1>. QED
  BY <1>3, <1>4

(***************************************************************************)
(* Induction, over sets: the prover cannot instantiate the operator that   *)
(* the induction theorems of the library take.                             *)
(***************************************************************************)
\* Every subset of a finite set is in F if it is when all that have one
\* element less are: induction, on a set where the library has an operator.
LEMMA FiniteInduction ==
    ASSUME NEW S, IsFiniteSet(S), NEW F,
           \A T \in SUBSET S : (\A x \in T : T \ {x} \in F) => T \in F
    PROVE  \A T \in SUBSET S : T \in F
<1>. DEFINE Bad == {n \in Nat : \E T \in SUBSET S : Cardinality(T) = n /\ T \notin F}
<1>1. \A T \in SUBSET S : IsFiniteSet(T) /\ Cardinality(T) \in Nat
  BY FS_Subset, FS_CardinalityType
<1>2. CASE Bad # {}
  <2>1. PICK n \in Bad : \A m \in Bad : n <= m
    BY <1>2, LeastExists
  <2>2. PICK T \in SUBSET S : Cardinality(T) = n /\ T \notin F
    OBVIOUS
  <2>3. PICK x \in T : T \ {x} \notin F
    BY <2>2
  <2>4. T \ {x} \in SUBSET S /\ Cardinality(T \ {x}) = n - 1
    BY <1>1, <2>2, FS_RemoveElement
  <2>5. n - 1 \in Bad
    BY <1>1, <2>3, <2>4
  <2>. QED
    BY <2>1, <2>5
<1>3. CASE Bad = {}
  BY <1>1, <1>3
<1>. QED
  BY <1>2, <1>3

\* Of naturals as well.
LEMMA NatSet ==
    ASSUME NEW N, 0 \in N, \A n \in Nat : n \in N => n + 1 \in N
    PROVE  \A n \in Nat : n \in N
<1>. DEFINE Bad == Nat \ N
<1>1. CASE Bad # {}
  <2>1. PICK n \in Bad : \A m \in Bad : n <= m
    BY <1>1, LeastExists
  <2>2. n # 0 /\ n - 1 \in Nat
    OBVIOUS
  <2>3. n - 1 \notin Bad
    BY <2>1, <2>2
  <2>4. (n - 1) + 1 \in N
    BY <2>2, <2>3
  <2>. QED
    BY <2>2, <2>4
<1>. QED
  BY <1>1

(***************************************************************************)
(* Sums over finite sets.                                                  *)
(***************************************************************************)
Pick(s) == CHOOSE x \in s : TRUE
Adds(w, S, g) == g = [s \in SUBSET S |-> IF s = {} THEN 0 ELSE w[Pick(s)] + g[s \ {Pick(s)}]]

LEMMA AddsSum ==
    ASSUME NEW w, NEW S, \E g : Adds(w, S, g)
    PROVE  \E g : Adds(w, S, g) /\ SumFunctionOnSet(w, S) = g[S]
<1>. DEFINE g[s \in SUBSET S] ==
                IF s = {} THEN 0 ELSE LET x == CHOOSE x \in s : TRUE IN w[x] + g[s \ {x}]
<1>1. SumFunctionOnSet(w, S) = g[S]
  BY DEF SumFunctionOnSet, FoldFunctionOnSet, MapThenFoldSet
<1>2. Adds(w, S, g)
  BY DEF Adds, Pick
<1>. QED
  BY <1>1, <1>2

LEMMA AddsExists ==
    ASSUME NEW w, NEW S, IsFiniteSet(S)
    PROVE  \E g : Adds(w, S, g)
<1>. DEFINE Small(n) == {s \in SUBSET S : Cardinality(s) <= n}
            Value(g, s) == IF s = {} THEN 0 ELSE w[Pick(s)] + g[s \ {Pick(s)}]
            Part(n, g) == g = [s \in Small(n) |-> Value(g, s)]
            N == {n \in Nat : \E g : Part(n, g)}
<1>1. \A s \in SUBSET S : IsFiniteSet(s) /\ Cardinality(s) \in Nat
  BY FS_Subset, FS_CardinalityType
<1>2. \A s \in SUBSET S : s # {} => /\ Pick(s) \in s /\ s \ {Pick(s)} \in SUBSET S
                                    /\ Cardinality(s \ {Pick(s)}) = Cardinality(s) - 1
  BY <1>1, FS_RemoveElement DEF Pick
<1>3. 0 \in N
  <2>1. \A s \in Small(0) : s = {}
    BY <1>1, FS_EmptySet
  <2>2. Part(0, [s \in Small(0) |-> 0])
    BY <2>1
  <2>. QED
    BY <2>2
<1>4. ASSUME NEW n \in Nat, n \in N PROVE n + 1 \in N
  <2>1. PICK g : Part(n, g)
    BY <1>4
  <2>. DEFINE h == [s \in Small(n + 1) |-> Value(g, s)]
  <2>2. \A s \in Small(n) : s \in Small(n + 1) /\ g[s] = Value(g, s)
    <3>. DEFINE k == [t \in Small(n) |-> Value(g, t)]
    <3>1. \A s \in Small(n) : s \in Small(n + 1) /\ k[s] = Value(g, s)
      BY <1>1
    <3>2. g = k
      BY <2>1, Zenon
    <3>. QED
      BY <3>1, <3>2, Zenon
  <2>3. \A s \in Small(n) : h[s] = g[s]
    BY <2>2
  <2>4. ASSUME NEW s \in Small(n + 1) PROVE Value(g, s) = Value(h, s)
    <3>1. CASE s = {}
      BY <3>1
    <3>2. CASE s # {}
      <4>1. s \ {Pick(s)} \in Small(n)
        BY <1>1, <1>2, <3>2
      <4>. QED
        BY <2>3, <4>1
    <3>. QED
      BY <3>1, <3>2
  <2>5. Part(n + 1, h)
    <3>. HIDE DEF Small, Value
    <3>1. [s \in Small(n + 1) |-> Value(g, s)] = [s \in Small(n + 1) |-> Value(h, s)]
      BY <2>4
    <3>. QED
      BY <3>1, Zenon
  <2>. HIDE DEF Part, h
  <2>. QED
    BY <2>5
<1>5. \A n \in Nat : n \in N
  <2>. HIDE DEF N
  <2>. QED
    BY <1>3, <1>4, NatSet
<1>6. Cardinality(S) \in N
  BY <1>1, <1>5
<1>7. PICK g : Part(Cardinality(S), g)
  BY <1>6
<1>8. Small(Cardinality(S)) = SUBSET S
  BY <1>1, FS_Subset
<1>9. Adds(w, S, g)
  BY <1>7, <1>8 DEF Adds
<1>. QED
  BY <1>9

LEMMA AddsAgree ==
    ASSUME NEW w, NEW S, IsFiniteSet(S), NEW T, NEW g, NEW h, Adds(w, S, g), Adds(w, T, h)
    PROVE  \A s \in SUBSET S : s \in SUBSET T => g[s] = h[s]
<1>. DEFINE F == {s \in SUBSET S : s \in SUBSET T => g[s] = h[s]}
<1>1. ASSUME NEW s \in SUBSET S, \A x \in s : s \ {x} \in F PROVE s \in F
  <2>. SUFFICES ASSUME s \in SUBSET T PROVE g[s] = h[s]
    OBVIOUS
  <2>1. /\ g[s] = IF s = {} THEN 0 ELSE w[Pick(s)] + g[s \ {Pick(s)}]
        /\ h[s] = IF s = {} THEN 0 ELSE w[Pick(s)] + h[s \ {Pick(s)}]
    BY DEF Adds
  <2>2. s # {} => Pick(s) \in s
    BY DEF Pick
  <2>. QED
    BY <1>1, <2>1, <2>2
<1>2. \A s \in SUBSET S : s \in F
  <2>. HIDE DEF F
  <2>. QED
    BY <1>1, FiniteInduction
<1>. QED
  BY <1>2

\* A sum is its definition's.
LEMMA SumStep ==
    ASSUME NEW w, NEW S, IsFiniteSet(S)
    PROVE  /\ S = {} => SumFunctionOnSet(w, S) = 0
           /\ S # {} => /\ Pick(S) \in S
                        /\ SumFunctionOnSet(w, S) = w[Pick(S)] + SumFunctionOnSet(w, S \ {Pick(S)})
<1>1. PICK g : Adds(w, S, g) /\ SumFunctionOnSet(w, S) = g[S]
  BY AddsExists, AddsSum
<1>2. g[S] = IF S = {} THEN 0 ELSE w[Pick(S)] + g[S \ {Pick(S)}]
  BY <1>1 DEF Adds
<1>3. CASE S # {}
  <2>. DEFINE T == S \ {Pick(S)}
  <2>1. IsFiniteSet(T)
    BY FS_Subset
  <2>. HIDE DEF T
  <2>2. PICK h : Adds(w, T, h) /\ SumFunctionOnSet(w, T) = h[T]
    BY <2>1, AddsExists, AddsSum
  <2>3. T \in SUBSET T /\ T \in SUBSET S
    BY DEF T
  <2>4. h[T] = g[T]
    BY <1>1, <2>1, <2>2, <2>3, AddsAgree
  <2>. QED
    BY <1>1, <1>2, <1>3, <2>2, <2>4 DEF T, Pick
<1>. QED
  BY <1>1, <1>2, <1>3

\* What the sums below are over.
Weighted(w, S) == IsFiniteSet(S) /\ \A x \in S : w[x] \in Int

LEMMA WeightedPart ==
    ASSUME NEW w, NEW S, Weighted(w, S), NEW T \in SUBSET S
    PROVE  Weighted(w, T)
  BY FS_Subset DEF Weighted

LEMMA SumType ==
    ASSUME NEW w, NEW S, Weighted(w, S)
    PROVE  SumFunctionOnSet(w, S) \in Int
<1>. DEFINE F == {T \in SUBSET S : SumFunctionOnSet(w, T) \in Int}
<1>1. ASSUME NEW T \in SUBSET S, \A x \in T : T \ {x} \in F PROVE T \in F
  <2>1. IsFiniteSet(T) /\ \A x \in T : w[x] \in Int
    BY WeightedPart DEF Weighted
  <2>2. \A x \in T : SumFunctionOnSet(w, T \ {x}) \in Int
    BY <1>1
  <2>3. SumFunctionOnSet(w, T) \in Int
    <3>1. CASE T = {}
      <4>1. SumFunctionOnSet(w, T) = 0
        BY <2>1, <3>1, SumStep
      <4>. QED
        BY <4>1
    <3>2. CASE T # {}
      <4>1. /\ Pick(T) \in T
            /\ SumFunctionOnSet(w, T) = w[Pick(T)] + SumFunctionOnSet(w, T \ {Pick(T)})
        BY <2>1, <3>2, SumStep
      <4>2. w[Pick(T)] \in Int /\ SumFunctionOnSet(w, T \ {Pick(T)}) \in Int
        BY <2>1, <2>2, <4>1
      <4>. QED
        BY <4>1, <4>2
    <3>. QED
      BY <3>1, <3>2
  <2>. QED
    BY <2>3
<1>2. S \in F
  <2>1. IsFiniteSet(S) /\ S \in SUBSET S
    BY DEF Weighted
  <2>. HIDE DEF F
  <2>2. \A T \in SUBSET S : T \in F
    BY <1>1, <2>1, FiniteInduction
  <2>. QED
    BY <2>1, <2>2
<1>. QED
  BY <1>2

\* The order in which the elements are added makes no difference.
LEMMA SumTake ==
    ASSUME NEW w, NEW S, Weighted(w, S), NEW x \in S
    PROVE  SumFunctionOnSet(w, S) = w[x] + SumFunctionOnSet(w, S \ {x})
<1>. DEFINE F == {T \in SUBSET S : \A y \in T :
                    SumFunctionOnSet(w, T) = w[y] + SumFunctionOnSet(w, T \ {y})}
<1>1. ASSUME NEW T \in SUBSET S, \A y \in T : T \ {y} \in F PROVE T \in F
  <2>. SUFFICES ASSUME NEW y \in T
                PROVE  SumFunctionOnSet(w, T) = w[y] + SumFunctionOnSet(w, T \ {y})
    OBVIOUS
  <2>. DEFINE c == Pick(T)
              U == (T \ {y}) \ {c}
  <2>1. Weighted(w, T)
    BY WeightedPart
  <2>2. c \in T /\ SumFunctionOnSet(w, T) = w[c] + SumFunctionOnSet(w, T \ {c})
    BY <2>1, SumStep DEF Weighted
  <2>. HIDE DEF c
  <2>3. CASE c = y
    BY <2>2, <2>3
  <2>4. CASE c # y
    <3>1. SumFunctionOnSet(w, T \ {c}) = w[y] + SumFunctionOnSet(w, (T \ {c}) \ {y})
      <4>1. T \ {c} \in F /\ y \in T \ {c}
        BY <1>1, <2>2, <2>4
      <4>. QED
        BY <4>1
    <3>2. SumFunctionOnSet(w, T \ {y}) = w[c] + SumFunctionOnSet(w, U)
      <4>1. T \ {y} \in F /\ c \in T \ {y}
        BY <1>1, <2>2, <2>4
      <4>. QED
        BY <4>1
    <3>3. (T \ {c}) \ {y} = U
      OBVIOUS
    <3>4. w[c] \in Int /\ w[y] \in Int
      BY <2>1, <2>2 DEF Weighted
    <3>5. SumFunctionOnSet(w, U) \in Int
      BY <2>1, WeightedPart, SumType
    <3>6. SumFunctionOnSet(w, T \ {c}) = w[y] + SumFunctionOnSet(w, U)
      BY <3>1, <3>3
    <3>. HIDE DEF U
    <3>. QED
      BY <2>2, <3>2, <3>4, <3>5, <3>6
  <2>. QED
    BY <2>3, <2>4
<1>2. S \in F
  <2>1. IsFiniteSet(S) /\ S \in SUBSET S
    BY DEF Weighted
  <2>. HIDE DEF F
  <2>2. \A T \in SUBSET S : T \in F
    BY <1>1, <2>1, FiniteInduction
  <2>. QED
    BY <2>1, <2>2
<1>. QED
  BY <1>2

LEMMA SumAdd ==
    ASSUME NEW w, NEW S, NEW x, Weighted(w, S \cup {x}), x \notin S
    PROVE  SumFunctionOnSet(w, S \cup {x}) = w[x] + SumFunctionOnSet(w, S)
<1>1. (S \cup {x}) \ {x} = S
  OBVIOUS
<1>. QED
  BY <1>1, SumTake

\* A sum does not change when the elements are renamed.
LEMMA SumImage ==
    ASSUME NEW w, NEW S, Weighted(w, S), NEW v, NEW f,
           \A x, y \in S : f[x] = f[y] => x = y,
           \A x \in S : v[f[x]] = w[x]
    PROVE  LET T == {f[x] : x \in S} IN
           Weighted(v, T) /\ SumFunctionOnSet(v, T) = SumFunctionOnSet(w, S)
<1>. DEFINE Im(T) == {f[x] : x \in T}
            F == {T \in SUBSET S : IsFiniteSet(Im(T)) /\ SumFunctionOnSet(v, Im(T)) = SumFunctionOnSet(w, T)}
<1>1. ASSUME NEW T \in SUBSET S, \A y \in T : T \ {y} \in F PROVE T \in F
  <2>1. CASE T = {}
    <3>1. Im(T) = {}
      BY <2>1
    <3>2. IsFiniteSet(Im(T)) /\ SumFunctionOnSet(v, Im(T)) = 0 /\ SumFunctionOnSet(w, T) = 0
      BY <2>1, <3>1, SumStep, FS_EmptySet
    <3>. QED
      BY <3>2
  <2>2. ASSUME NEW x \in T PROVE T \in F
    <3>1. Im(T) = Im(T \ {x}) \cup {f[x]} /\ f[x] \notin Im(T \ {x})
      OBVIOUS
    <3>2. IsFiniteSet(Im(T \ {x})) /\ SumFunctionOnSet(v, Im(T \ {x})) = SumFunctionOnSet(w, T \ {x})
      BY <1>1
    <3>3. Weighted(v, Im(T))
      <4>1. \A y \in Im(T) : v[y] \in Int
        BY DEF Weighted
      <4>2. IsFiniteSet(Im(T))
        <5>1. IsFiniteSet(Im(T \ {x}) \cup {f[x]})
          BY <3>2, FS_AddElement
        <5>. QED
          BY <3>1, <5>1
      <4>. QED
        BY <4>1, <4>2 DEF Weighted
    <3>4. SumFunctionOnSet(v, Im(T)) = v[f[x]] + SumFunctionOnSet(v, Im(T \ {x}))
      BY <3>1, <3>3, SumAdd
    <3>5. SumFunctionOnSet(w, T) = w[x] + SumFunctionOnSet(w, T \ {x})
      BY WeightedPart, SumTake
    <3>. QED
      BY <3>2, <3>3, <3>4, <3>5 DEF Weighted
  <2>. QED
    BY <2>1, <2>2
<1>2. S \in F
  <2>1. IsFiniteSet(S) /\ S \in SUBSET S
    BY DEF Weighted
  <2>. HIDE DEF F
  <2>2. \A T \in SUBSET S : T \in F
    BY <1>1, <2>1, FiniteInduction
  <2>. QED
    BY <2>1, <2>2
<1>. QED
  BY <1>2 DEF Weighted

LEMMA SumSame ==
    ASSUME NEW w, NEW S, Weighted(w, S), NEW v, \A x \in S : v[x] = w[x]
    PROVE  Weighted(v, S) /\ SumFunctionOnSet(v, S) = SumFunctionOnSet(w, S)
<1>. DEFINE f == [x \in S |-> x]
<1>1. S = {f[x] : x \in S}
  OBVIOUS
<1>2. /\ \A x, y \in S : f[x] = f[y] => x = y
      /\ \A x \in S : v[f[x]] = w[x]
  OBVIOUS
<1>. HIDE DEF f
<1>. QED
  BY <1>1, <1>2, SumImage

LEMMA SumZero ==
    ASSUME NEW w, NEW S, Weighted(w, S), \A x \in S : w[x] = 0
    PROVE  SumFunctionOnSet(w, S) = 0
<1>. DEFINE F == {T \in SUBSET S : SumFunctionOnSet(w, T) = 0}
<1>1. ASSUME NEW T \in SUBSET S, \A x \in T : T \ {x} \in F PROVE T \in F
  <2>1. CASE T = {}
    BY <2>1, SumStep, FS_EmptySet
  <2>2. ASSUME NEW x \in T PROVE T \in F
    <3>1. SumFunctionOnSet(w, T) = w[x] + SumFunctionOnSet(w, T \ {x})
      BY WeightedPart, SumTake
    <3>2. SumFunctionOnSet(w, T \ {x}) = 0 /\ w[x] = 0
      BY <1>1
    <3>. QED
      BY <3>1, <3>2
  <2>. QED
    BY <2>1, <2>2
<1>2. \A T \in SUBSET S : T \in F
  <2>. HIDE DEF F
  <2>. QED
    BY <1>1, FiniteInduction DEF Weighted
<1>. QED
  BY <1>2

\* A part adds up to no more than the whole.
LEMMA SumPart ==
    ASSUME NEW w, NEW S, Weighted(w, S), \A x \in S : w[x] >= 0, NEW T \in SUBSET S
    PROVE  /\ 0 <= SumFunctionOnSet(w, T)
           /\ SumFunctionOnSet(w, T) <= SumFunctionOnSet(w, S)
<1>. DEFINE F == {U \in SUBSET S :
                    \A V \in SUBSET U : SumFunctionOnSet(w, V) <= SumFunctionOnSet(w, U)}
<1>1. ASSUME NEW U \in SUBSET S, \A y \in U : U \ {y} \in F PROVE U \in F
  <2>. SUFFICES ASSUME NEW V \in SUBSET U
                PROVE  SumFunctionOnSet(w, V) <= SumFunctionOnSet(w, U)
    OBVIOUS
  <2>1. SumFunctionOnSet(w, U) \in Int
    BY WeightedPart, SumType
  <2>2. CASE V = U
    BY <2>1, <2>2
  <2>3. ASSUME NEW x \in U, x \notin V PROVE SumFunctionOnSet(w, V) <= SumFunctionOnSet(w, U)
    <3>1. SumFunctionOnSet(w, V) <= SumFunctionOnSet(w, U \ {x})
      BY <1>1, <2>3
    <3>2. SumFunctionOnSet(w, U) = w[x] + SumFunctionOnSet(w, U \ {x})
      BY WeightedPart, SumTake
    <3>3. SumFunctionOnSet(w, U \ {x}) \in Int /\ SumFunctionOnSet(w, V) \in Int
      BY WeightedPart, SumType
    <3>4. w[x] \in Int /\ w[x] >= 0
      BY DEF Weighted
    <3>. QED
      BY <3>1, <3>2, <3>3, <3>4
  <2>. QED
    BY <2>2, <2>3
<1>2. \A U \in SUBSET S : U \in F
  <2>. HIDE DEF F
  <2>. QED
    BY <1>1, FiniteInduction DEF Weighted
<1>3. SumFunctionOnSet(w, {}) = 0 /\ {} \in SUBSET T
  BY SumStep, FS_EmptySet
<1>. QED
  BY <1>2, <1>3
=============================================================================
