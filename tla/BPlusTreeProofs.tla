----------------------------- MODULE BPlusTreeProofs -----------------------------
(***************************************************************************)
(* TLAPS proofs about BPlusTree, for every value of its constants: what a   *)
(* search, a range, a cursor and a bulk load read and write of a tree whose *)
(* summaries fit, that every step keeps the invariant of BPlusTreeInv, and  *)
(* the safety properties that follow from it.                              *)
(***************************************************************************)
EXTENDS BPlusEdits

-----------------------------------------------------------------------------
(* Sequences put together and taken apart.                                 *)

\* Putting sequences together keeps what every step keeps: I[i] are those that
\* may come of the first i.
LEMMA FlattenReach ==
  ASSUME NEW S, NEW ss \in Seq(Seq(S)), NEW n \in Nat, n = Len(ss), n >= 1, NEW I, ss[1] \in I[1],
         \A i \in 1..n, x \in Seq(S) : i < n /\ x \in I[i] => x \o ss[i + 1] \in I[i + 1]
  PROVE  FlattenSeq(ss) \in Seq(S) /\ FlattenSeq(ss) \in I[n]
<1> DEFINE X == Seq(S)
           step == [y \in (1..(n - 1)) \X X |-> y[2] \o ss[y[1] + 1]]
<1>0. n - 1 \in Nat /\ \A i \in 1..n : ss[i] \in X
  OBVIOUS
<1>1. ss[1] \in X
  BY <1>0
<1>2. step \in [(1..(n - 1)) \X X -> X]
  <2>1. ASSUME NEW y \in (1..(n - 1)) \X X PROVE y[2] \o ss[y[1] + 1] \in X
    <3>1. PICK i \in 1..(n - 1), x \in X : y = <<i, x>>
      BY <2>1
    <3>2. i + 1 \in 1..n
      BY <1>0
    <3>3. x \o ss[i + 1] \in X
      BY <3>2, <1>0
    <3> QED
      BY <3>1, <3>3
  <2> QED
    BY <2>1
<1> HIDE DEF X, step
<1>3. PICK v \in [0..(n - 1) -> X] : Recurses(v, ss[1], n - 1, step)
  BY <1>0, <1>1, <1>2, Recursion
<1>4. v[0] = ss[1] /\ \A i \in 1..(n - 1) : v[i] = v[i - 1] \o ss[i + 1]
  <2>1. v[0] = ss[1]
    BY <1>0, <1>3 DEF Recurses
  <2>2. ASSUME NEW i \in 1..(n - 1) PROVE v[i] = v[i - 1] \o ss[i + 1]
    <3>1. i \in 0..(n - 1) /\ i # 0 /\ i - 1 \in 0..(n - 1)
      BY <1>0
    <3>2. v[i] = step[<<i, v[i - 1]>>]
      BY <3>1, <1>3 DEF Recurses
    <3>3. v[i - 1] \in X
      BY <3>1, <1>3
    <3> QED
      BY <3>2, <3>3 DEF step
  <2> QED
    BY <2>1, <2>2
<1> DEFINE B(g, i) == IF i = 1 THEN ss[i] ELSE g[i - 1] \o ss[i]
           c == CHOOSE g : g = [i \in 1..n |-> B(g, i)]
<1>5. c = [i \in 1..n |-> B(c, i)]
  <2> DEFINE g == [i \in 1..n |-> v[i - 1]]
  <2>1. ASSUME NEW i \in 1..n PROVE g[i] = B(g, i)
    <3>1. CASE i = 1
      BY <3>1, <1>4
    <3>2. CASE i # 1
      <4>1. i - 1 \in 1..(n - 1) /\ i - 1 \in 1..n /\ (i - 1) + 1 = i
        BY <3>2
      <4>2. v[i - 1] = v[(i - 1) - 1] \o ss[i]
        BY <4>1, <1>4
      <4> QED
        BY <4>1, <4>2, <3>2
    <3> QED
      BY <3>1, <3>2
  <2>2. g = [i \in 1..n |-> B(g, i)]
    <3> HIDE DEF B
    <3>1. g = [i \in 1..n |-> g[i]]
      OBVIOUS
    <3> HIDE DEF g
    <3> QED
      BY <3>1, <2>1
  <2> HIDE DEF g, B
  <2> QED
    BY <2>2
<1>6. FlattenSeq(ss) = c[n]
  <2>1. FlattenSeq(ss) = (CHOOSE g : g = [i \in 1..n |-> IF i = 1 THEN ss[i] ELSE g[i - 1] \o ss[i]])[n]
    BY DEF FlattenSeq
  <2> QED
    BY <2>1
<1> HIDE DEF c
<1>7. \A i \in 1..n : c[i] = B(c, i)
  <2> HIDE DEF B
  <2> QED
    BY <1>5
<1> DEFINE T == {i \in 0..(n - 1) : c[i + 1] \in Seq(S) /\ c[i + 1] \in I[i + 1]}
<1>8. 0 \in T
  BY <1>0, <1>7 DEF X
<1>9. \A i \in 0..(n - 1) : i < n - 1 /\ i \in T => i + 1 \in T
  <2> SUFFICES ASSUME NEW i \in 0..(n - 1), i < n - 1, i \in T PROVE i + 1 \in T
    OBVIOUS
  <2>1. i + 1 \in 1..n /\ i + 1 < n /\ (i + 1) + 1 \in 1..n /\ (i + 1) + 1 # 1 /\ ((i + 1) + 1) - 1 = i + 1 /\ i + 1 \in 0..(n - 1)
    OBVIOUS
  <2>2. c[(i + 1) + 1] = c[i + 1] \o ss[(i + 1) + 1]
    BY <2>1, <1>7
  <2>3. c[i + 1] \in Seq(S) /\ c[i + 1] \in I[i + 1]
    OBVIOUS
  <2>4. ss[(i + 1) + 1] \in Seq(S)
    BY <2>1, <1>0 DEF X
  <2>5. c[i + 1] \o ss[(i + 1) + 1] \in Seq(S)
    BY <2>3, <2>4
  <2>6. c[i + 1] \o ss[(i + 1) + 1] \in I[(i + 1) + 1]
    BY <2>1, <2>3
  <2> QED
    BY <2>1, <2>2, <2>5, <2>6
<1> HIDE DEF T
<1>10. n - 1 \in T
  <2>1. \A i \in 0..(n - 1) : i \in T
    BY <1>0, <1>8, <1>9, UpTo
  <2> QED
    BY <2>1, <1>0
<1> QED
  BY <1>6, <1>10 DEF T

-----------------------------------------------------------------------------
(* The sequence of the entries of a set, by their keys.                    *)

Entry == Keys \X Value

\* es has each entry of E once, by ascending keys.
Lists(es, E) ==
  /\ es \in Seq(Entry)
  /\ \A i, j \in 1..Len(es) : i < j => es[i][1] < es[j][1]
  /\ {es[i] : i \in 1..Len(es)} = E

LEMMA ListsAre ==
  ASSUME NEW es, NEW E, Lists(es, E)
  PROVE  /\ Len(es) \in Nat /\ \A i \in 1..Len(es) : es[i] \in E /\ es[i] \in Entry /\ es[i][1] \in Nat /\ es[i][1] \in Keys
         /\ \A x \in E : (\E i \in 1..Len(es) : x = es[i]) /\ x \in Entry /\ x[1] \in Nat /\ x[1] \in Keys
<1>1. \A x \in Entry : x[1] \in Keys
  BY DEF Entry
<1>2. \A k \in Keys : k \in Nat
  BY MapAssumption DEF Keys
<1>3. Len(es) \in Nat /\ \A i \in 1..Len(es) : es[i] \in E /\ es[i] \in Entry
  BY DEF Lists
<1>4. \A x \in E : \E i \in 1..Len(es) : x = es[i]
  BY DEF Lists
<1> QED
  BY <1>1, <1>2, <1>3, <1>4

\* The first list is no longer, and the second begins with it.
LEMMA ListsBegin ==
  ASSUME NEW a, NEW b, NEW E, Lists(a, E), Lists(b, E)
  PROVE  Len(a) <= Len(b) /\ \A i \in 1..Len(a) : a[i] = b[i]
<1>1. PICK A \in Nat, B \in Nat : A = Len(a) /\ B = Len(b)
  BY ListsAre
<1>2. /\ \A i \in 1..A : a[i] \in E /\ a[i][1] \in Nat
      /\ \A i \in 1..B : b[i] \in E /\ b[i][1] \in Nat
      /\ \A x \in E : \E i \in 1..A : x = a[i]
      /\ \A x \in E : \E i \in 1..B : x = b[i]
  BY <1>1, ListsAre
<1>3. /\ \A i, j \in 1..A : i < j => a[i][1] < a[j][1]
      /\ \A i, j \in 1..B : i < j => b[i][1] < b[j][1]
  BY <1>1 DEF Lists
<1> DEFINE S == {m \in 0..A : m <= B /\ \A i \in 1..m : a[i] = b[i]}
<1>4. 0 \in S
  BY <1>1
<1>5. \A m \in 0..A : m < A /\ m \in S => m + 1 \in S
  <2> SUFFICES ASSUME NEW m \in 0..A, m < A, m \in S PROVE m + 1 \in S
    OBVIOUS
  <2>1. m + 1 \in 1..A /\ m <= B /\ \A i \in 1..m : a[i] = b[i] /\ i \in 1..A /\ i \in 1..B
    OBVIOUS
  <2>2. PICK j \in 1..B : a[m + 1] = b[j]
    BY <2>1, <1>2
  <2>3. ~(j <= m)
    <3> SUFFICES ASSUME j <= m PROVE FALSE
      OBVIOUS
    <3>1. j \in 1..m
      OBVIOUS
    <3>2. a[j] = a[m + 1] /\ j < m + 1 /\ j \in 1..A
      BY <3>1, <2>1, <2>2
    <3>3. a[j][1] < a[m + 1][1]
      BY <3>2, <2>1, <1>3
    <3> QED
      BY <3>2, <3>3, <2>1, <1>2
  <2>4. m + 1 \in 1..B
    BY <2>3
  <2>5. PICK l \in 1..A : b[m + 1] = a[l]
    BY <2>4, <1>2
  <2>6. ~(l <= m)
    <3> SUFFICES ASSUME l <= m PROVE FALSE
      OBVIOUS
    <3>1. l \in 1..m
      OBVIOUS
    <3>2. b[l] = b[m + 1] /\ l < m + 1 /\ l \in 1..B
      BY <3>1, <2>1, <2>5
    <3>3. b[l][1] < b[m + 1][1]
      BY <3>2, <2>4, <1>3
    <3> QED
      BY <3>2, <3>3, <2>4, <1>2
  <2>7. j = m + 1
    <3> SUFFICES ASSUME j # m + 1 PROVE FALSE
      OBVIOUS
    <3>1. m + 1 < j
      BY <2>3
    <3>2. b[m + 1][1] < b[j][1]
      BY <3>1, <2>4, <1>3
    <3>3. a[l][1] < a[m + 1][1]
      BY <3>2, <2>2, <2>5
    <3>4. l # m + 1
      BY <3>3, <2>1, <1>2
    <3>5. m + 1 < l
      BY <3>4, <2>6
    <3>6. a[m + 1][1] < a[l][1]
      BY <3>5, <2>1, <1>3
    <3>7. a[l][1] \in Nat /\ a[m + 1][1] \in Nat
      BY <2>1, <1>2
    <3> QED
      BY <3>3, <3>6, <3>7
  <2>8. a[m + 1] = b[m + 1]
    BY <2>2, <2>7
  <2>9. \A i \in 1..(m + 1) : i \in 1..m \/ i = m + 1
    OBVIOUS
  <2>10. \A i \in 1..(m + 1) : a[i] = b[i]
    BY <2>1, <2>8, <2>9
  <2> QED
    BY <2>1, <2>4, <2>10
<1> HIDE DEF S
<1>6. A \in S
  <2>1. \A m \in 0..A : m \in S
    BY <1>4, <1>5, UpTo
  <2> QED
    BY <2>1
<1> QED
  BY <1>1, <1>6 DEF S

LEMMA SameElements ==
  ASSUME NEW S, NEW a \in Seq(S), NEW b \in Seq(S), Len(a) = Len(b), \A i \in 1..Len(a) : a[i] = b[i]
  PROVE  a = b
OBVIOUS

\* There is only one such sequence.
LEMMA ListsUnique ==
  ASSUME NEW a, NEW b, NEW E, Lists(a, E), Lists(b, E)
  PROVE  a = b
<1>1. PICK A \in Nat, B \in Nat : A = Len(a) /\ B = Len(b)
  BY ListsAre
<1>2. A <= B /\ B <= A /\ \A i \in 1..A : a[i] = b[i]
  BY <1>1, ListsBegin
<1>3. A = B
  BY <1>2
<1>4. a \in Seq(Entry) /\ b \in Seq(Entry)
  BY DEF Lists
<1> QED
  BY <1>1, <1>2, <1>3, <1>4, SameElements

\* There are as many as the list is long.
LEMMA ListsCount ==
  ASSUME NEW es, NEW E, Lists(es, E)
  PROVE  IsFiniteSet(E) /\ Cardinality(E) = Len(es)
<1>1. PICK n \in Nat : n = Len(es)
  BY ListsAre
<1>2. /\ \A i \in 1..n : es[i] \in E /\ es[i][1] \in Nat
      /\ \A x \in E : \E i \in 1..n : x = es[i]
  BY <1>1, ListsAre
<1>3. \A i, j \in 1..n : i < j => es[i][1] < es[j][1]
  BY <1>1 DEF Lists
<1>4. \A i, j \in 1..n : es[i] = es[j] => i = j
  <2> SUFFICES ASSUME NEW i \in 1..n, NEW j \in 1..n, es[i] = es[j], i # j PROVE FALSE
    OBVIOUS
  <2>1. i < j \/ j < i
    OBVIOUS
  <2>2. es[i][1] < es[j][1] \/ es[j][1] < es[i][1]
    BY <2>1, <1>3
  <2> QED
    BY <2>2, <1>2
<1> DEFINE g == [i \in 1..n |-> es[i]]
<1>5. g \in Bijection(1..n, E)
  <2>1. g \in [1..n -> E]
    BY <1>2
  <2>2. IsInjective(g)
    BY <1>4 DEF IsInjective
  <2>3. \A x \in E : \E i \in 1..n : g[i] = x
    BY <1>2
  <2> HIDE DEF g
  <2> QED
    BY <2>1, <2>2, <2>3 DEF Bijection, Injection, Surjection
<1>6. ExistsBijection(1..n, E)
  BY <1>5 DEF ExistsBijection
<1>7. IsFiniteSet(1..n) /\ Cardinality(1..n) = n
  BY FS_Interval
<1> QED
  BY <1>1, <1>6, <1>7, FS_Bijection

\* The entries of A before those of B.
Precede(A, B) == \A x \in A, y \in B : x[1] < y[1]

\* Two of them, one after the other.
LEMMA ConcatLists ==
  ASSUME NEW a, NEW b, NEW A, NEW B, Lists(a, A), Lists(b, B), Precede(A, B)
  PROVE  Lists(a \o b, A \cup B)
<1>1. PICK L \in Nat, R \in Nat : L = Len(a) /\ R = Len(b)
  BY ListsAre
<1>2. PICK c : c = a \o b
  OBVIOUS
<1>3. c \in Seq(Entry) /\ Len(c) = L + R /\ Joins(L, R, a, b, c)
  <2>1. Concatenated(Entry, a, b, L, R, c)
    BY <1>1, <1>2 DEF Concatenated, Lists
  <2> QED
    BY <2>1, <1>1, ConcatJoins
<1>4. JoinedSets(L, R, a, b, c)
  BY <1>3, JoinSets
<1>5. {c[j] : j \in 1..Len(c)} = A \cup B
  BY <1>1, <1>3, <1>4 DEF JoinedSets, Lists
<1> DEFINE ka == [j \in 1..L |-> a[j][1]]
           kb == [j \in 1..R |-> b[j][1]]
           kc == [j \in 1..(L + R) |-> c[j][1]]
<1>6. Joins(L, R, ka, kb, kc)
  <2>1. \A j \in 1..L : j \in 1..(L + R)
    BY JoinPlace
  <2>2. \A j \in 1..R : L + j \in 1..(L + R)
    BY JoinPlace
  <2> QED
    BY <2>1, <2>2, <1>3 DEF Joins
<1>7. \A i, j \in 1..L : i < j => ka[i] < ka[j]
  BY <1>1 DEF Lists
<1>8. \A i, j \in 1..R : i < j => kb[i] < kb[j]
  BY <1>1 DEF Lists
<1>9. \A i \in 1..L, j \in 1..R : ka[i] < kb[j]
  BY <1>1, ListsAre DEF Precede
<1>10. \A i, j \in 1..(L + R) : i < j => kc[i] < kc[j]
  <2> HIDE DEF ka, kb, kc
  <2> QED
    BY <1>6, <1>7, <1>8, <1>9, JoinAscends
<1>11. \A i, j \in 1..Len(c) : i < j => c[i][1] < c[j][1]
  BY <1>3, <1>10
<1> QED
  BY <1>2, <1>3, <1>5, <1>11 DEF Lists

ListRows(ss, n, E) ==
  /\ n \in Nat /\ ss = [i \in 1..n |-> ss[i]]
  /\ \A i \in 1..n : Lists(ss[i], E[i])
  /\ \A i, j \in 1..n : i < j => Precede(E[i], E[j])

LEMMA NothingLists == Lists(<<>>, {})
<1>1. <<>> \in Seq(Entry) /\ Len(<<>>) = 0
  OBVIOUS
<1>2. {<<>>[i] : i \in 1..Len(<<>>)} = {}
  BY <1>1
<1> QED
  BY <1>1, <1>2 DEF Lists

\* Any number of them, one after the other.
LEMMA FlattenLists ==
  ASSUME NEW ss, NEW n, NEW E, ListRows(ss, n, E)
  PROVE  Lists(FlattenSeq(ss), UNION {E[i] : i \in 1..n})
<1>1. /\ n \in Nat /\ ss = [i \in 1..n |-> ss[i]]
      /\ \A i \in 1..n : Lists(ss[i], E[i])
      /\ \A i, j \in 1..n : i < j => Precede(E[i], E[j])
  BY DEF ListRows
<1>2. \A i \in 1..n : ss[i] \in Seq(Entry)
  BY <1>1 DEF Lists
<1>3. ss \in Seq(Seq(Entry)) /\ Len(ss) = n
  <2> HIDE DEF Entry
  <2> QED
    BY <1>1, <1>2
<1>4. CASE n = 0
  <2>1. ss = <<>>
    BY <1>3, <1>4
  <2>2. FlattenSeq(ss) = <<>>
    BY <2>1, <1>3, <1>4 DEF FlattenSeq
  <2>3. UNION {E[i] : i \in 1..n} = {}
    BY <1>4
  <2> QED
    BY <2>2, <2>3, NothingLists
<1>5. CASE n # 0
  <2> DEFINE U(i) == UNION {E[j] : j \in 1..i}
             I == [i \in 1..n |-> {x \in Seq(Entry) : Lists(x, U(i))}]
  <2>1. ss[1] \in I[1]
    <3>1. 1 \in 1..n /\ 1..1 = {1}
      BY <1>1, <1>5
    <3>2. U(1) = E[1]
      BY <3>1
    <3> QED
      BY <3>1, <3>2, <1>1, <1>2
  <2>2. ASSUME NEW i \in 1..n, NEW x \in Seq(Entry), i < n, x \in I[i] PROVE x \o ss[i + 1] \in I[i + 1]
    <3>1. i + 1 \in 1..n /\ \A j \in 1..i : j \in 1..n /\ j < i + 1
      BY <2>2, <1>1
    <3>2. Lists(x, U(i)) /\ Lists(ss[i + 1], E[i + 1])
      BY <3>1, <2>2, <1>1
    <3>3. Precede(U(i), E[i + 1])
      <4>1. \A j \in 1..i : Precede(E[j], E[i + 1])
        BY <3>1, <1>1
      <4> QED
        BY <4>1 DEF Precede
    <3>4. U(i + 1) = U(i) \cup E[i + 1]
      <4>1. \A j : j \in 1..(i + 1) <=> j \in 1..i \/ j = i + 1
        BY <3>1
      <4> QED
        BY <4>1
    <3>5. Lists(x \o ss[i + 1], U(i) \cup E[i + 1])
      <4> HIDE DEF U
      <4> QED
        BY <3>2, <3>3, ConcatLists
    <3>6. Lists(x \o ss[i + 1], U(i + 1))
      <4> HIDE DEF U
      <4> QED
        BY <3>4, <3>5
    <3>7. x \o ss[i + 1] \in Seq(Entry)
      BY <3>6 DEF Lists
    <3> HIDE DEF U
    <3> QED
      BY <3>1, <3>6, <3>7
  <2>3. FlattenSeq(ss) \in I[n]
    <3> HIDE DEF I
    <3>1. n = Len(ss) /\ n >= 1 /\ n \in Nat
      BY <1>1, <1>3, <1>5
    <3> QED
      BY <3>1, <2>1, <2>2, <1>3, FlattenReach
  <2>4. n \in 1..n
    BY <1>1, <1>5
  <2> QED
    BY <2>3, <2>4
<1> QED
  BY <1>4, <1>5

Limited(E, min, max) == {x \in E : InRange(x, min, max)}

\* What is in a range of them.
LEMMA WithinLists ==
  ASSUME NEW es, NEW E, Lists(es, E), NEW min, NEW max
  PROVE  Lists(Within(es, min, max), Limited(E, min, max))
<1>1. PICK n \in Nat : n = Len(es)
  BY ListsAre
<1>2. /\ \A i \in 1..n : es[i] \in E /\ es[i] \in Entry
      /\ \A x \in E : \E i \in 1..n : x = es[i]
      /\ \A i, j \in 1..n : i < j => es[i][1] < es[j][1]
      /\ DOMAIN es = 1..n
  BY <1>1, ListsAre DEF Lists
<1> DEFINE P(i) == InRange(es[i], min, max)
           ss == [i \in 1..n |-> IF P(i) THEN <<es[i]>> ELSE <<>>]
           F == [i \in 1..n |-> IF P(i) THEN {es[i]} ELSE {}]
<1>3. \A i \in 1..n : Lists(ss[i], F[i])
  <2> SUFFICES ASSUME NEW i \in 1..n PROVE Lists(ss[i], F[i])
    OBVIOUS
  <2>1. Lists(<<es[i]>>, {es[i]})
    <3>1. PICK x \in Entry : x = es[i]
      BY <1>2
    <3>2. <<x>> \in Seq(Entry) /\ Len(<<x>>) = 1 /\ <<x>>[1] = x
      BY OneIs
    <3>3. {<<x>>[j] : j \in 1..Len(<<x>>)} = {x}
      BY <3>2
    <3>4. Lists(<<x>>, {x})
      BY <3>2, <3>3 DEF Lists
    <3> QED
      BY <3>1, <3>4
  <2> HIDE DEF P
  <2> QED
    BY <2>1, NothingLists
<1>4. ListRows(ss, n, F)
  <2>1. \A i, j \in 1..n : i < j => Precede(F[i], F[j])
    <3> SUFFICES ASSUME NEW i \in 1..n, NEW j \in 1..n, i < j, NEW x \in F[i], NEW y \in F[j] PROVE x[1] < y[1]
      BY DEF Precede
    <3>1. x = es[i] /\ y = es[j]
      OBVIOUS
    <3> QED
      BY <3>1, <1>2
  <2>2. ss = [i \in 1..n |-> ss[i]]
    OBVIOUS
  <2> HIDE DEF ss, F
  <2> QED
    BY <2>1, <2>2, <1>3 DEF ListRows
<1>5. Within(es, min, max) = FlattenSeq(ss)
  BY <1>2 DEF Within
<1>6. UNION {F[i] : i \in 1..n} = Limited(E, min, max)
  <2>1. ASSUME NEW x \in UNION {F[i] : i \in 1..n} PROVE x \in Limited(E, min, max)
    BY <1>2 DEF Limited
  <2>2. ASSUME NEW x \in Limited(E, min, max) PROVE x \in UNION {F[i] : i \in 1..n}
    <3>1. PICK i \in 1..n : x = es[i]
      BY <1>2 DEF Limited
    <3>2. x \in F[i]
      BY <3>1 DEF Limited
    <3> HIDE DEF F
    <3> QED
      BY <3>2
  <2> HIDE DEF F
  <2> QED
    BY <2>1, <2>2
<1> HIDE DEF ss, F
<1> QED
  BY <1>4, <1>5, <1>6, FlattenLists

-----------------------------------------------------------------------------
(* What is read is a function of the nodes, too.                           *)

\* The separators up to a key, and the children between two keys.
LEMMA Spans ==
  ASSUME NEW f, NEW w, NEW loaded, TreesOK(f, w, loaded), NEW q \in Nodes(f), f[q].kind # "leaf",
         NEW min \in Nat, NEW max \in Nat, min <= max
  PROVE  /\ UpperBound(f[q].keys, min) \in 1..UpperBound(f[q].keys, max)
         /\ UpperBound(f[q].keys, max) \in 1..Len(f[q].kids) /\ Len(f[q].kids) \in Nat
<1>1. PICK n : n = f[q]
  OBVIOUS
<1>2. NodeOK(f, w, n) /\ n.kind = "node" /\ Len(n.kids) \in Nat
  BY <1>1, KidsBelow
<1>3. n.keys \in Seq(Keys) /\ Ascends(n.keys) /\ Len(n.kids) = Len(n.keys) + 1 /\ Len(n.keys) \in Nat
  BY <1>2, RecordKinds DEF NodeOK
<1>4. PICK lo, hi : lo = UpperBound(n.keys, min) /\ hi = UpperBound(n.keys, max)
  OBVIOUS
<1>5. /\ lo \in 1..(Len(n.keys) + 1) /\ hi \in 1..(Len(n.keys) + 1)
      /\ \A j \in 1..Len(n.keys) : IF j < lo THEN n.keys[j] <= min ELSE min < n.keys[j]
      /\ \A j \in 1..Len(n.keys) : IF j < hi THEN n.keys[j] <= max ELSE max < n.keys[j]
  BY <1>3, <1>4, UpperIs
<1>6. lo <= hi
  <2> SUFFICES ASSUME hi < lo PROVE FALSE
    BY <1>5
  <2>1. hi \in 1..Len(n.keys) /\ ~(hi < hi)
    BY <1>3, <1>5
  <2>2. n.keys[hi] <= min /\ max < n.keys[hi]
    BY <2>1, <1>5
  <2>3. n.keys[hi] \in Nat
    BY <2>1, <1>3, KeyRows
  <2> QED
    BY <2>2, <2>3
<1> QED
  BY <1>1, <1>3, <1>4, <1>5, <1>6

\* Entries is what its recursion says, at each node of a file whose trees are in order.
LEMMA EntriesIs ==
  ASSUME NEW f, NEW w, NEW loaded, TreesOK(f, w, loaded),
         NEW p \in Nodes(f)
  PROVE  Entries(f, p) =
    IF f[p].kind = "leaf" THEN LeafEntries(f, f[p])
    ELSE FlattenSeq([i \in DOMAIN f[p].kids |-> Entries(f, f[p].kids[i])])
<1> DEFINE B(g, q) ==
            IF f[q].kind = "leaf" THEN LeafEntries(f, f[q])
            ELSE FlattenSeq([i \in DOMAIN f[q].kids |-> g[f[q].kids[i]]])
           R(m) == Nodes(f) \cap (1..m)
           S == {m \in 0..Len(f) : \E g : g = [q \in R(m) |-> B(g, q)]}
<1>0. Len(f) \in Nat /\ \A q \in Nodes(f) : q \in 1..Len(f)
  BY NodesIs DEF TreesOK
<1>1. 0 \in S
  <2> DEFINE g == [q \in R(0) |-> 0]
  <2>1. R(0) = {}
    OBVIOUS
  <2> HIDE DEF B
  <2>2. g = [q \in R(0) |-> B(g, q)]
    BY <2>1
  <2> HIDE DEF g, R
  <2>3. \E gg : gg = [q \in R(0) |-> B(gg, q)]
    BY <2>2
  <2> QED
    BY <2>3, <1>0
<1>2. ASSUME NEW m \in 0..Len(f), m < Len(f), m \in S PROVE m + 1 \in S
  <2>1. PICK g : g = [q \in R(m) |-> B(g, q)]
    BY <1>2
  <2> DEFINE h == [q \in R(m + 1) |-> IF q <= m THEN g[q] ELSE B(g, q)]
  <2>2. \A q \in Nodes(f) : q <= m => q \in R(m) /\ q \in R(m + 1)
    BY <1>0
  <2>3. ASSUME NEW q \in Nodes(f), q <= m PROVE h[q] = g[q]
    <3> HIDE DEF B, R
    <3> QED
      BY <2>2, <2>3
  <2>4. ASSUME NEW q \in R(m + 1) PROVE B(h, q) = B(g, q)
    <3>1. q \in Nodes(f) /\ q <= m + 1
      BY <1>0
    <3> HIDE DEF h, B, R
    <3>2. CASE f[q].kind = "leaf"
      BY <3>2 DEF B
    <3>3. CASE f[q].kind # "leaf"
      <4>1. \A i \in DOMAIN f[q].kids : f[q].kids[i] \in Nodes(f) /\ f[q].kids[i] <= m
        BY <3>1, <3>3, KidsBelow
      <4>2. \A i \in DOMAIN f[q].kids : h[f[q].kids[i]] = g[f[q].kids[i]]
        BY <4>1, <2>3
      <4> QED
        BY <4>2 DEF B
    <3> QED
      BY <3>2, <3>3
  <2>5. ASSUME NEW q \in R(m + 1) PROVE h[q] = B(h, q)
    <3>1. CASE q <= m
      <4>1. q \in Nodes(f) /\ q \in R(m)
        BY <3>1, <2>2
      <4> HIDE DEF h, B, R
      <4>2. g[q] = B(g, q)
        BY <4>1, <2>1
      <4> QED
        BY <4>1, <4>2, <3>1, <2>3, <2>4
    <3>2. CASE ~ (q <= m)
      <4> HIDE DEF B, R
      <4>1. h[q] = B(g, q)
        BY <3>2
      <4> HIDE DEF h
      <4> QED
        BY <4>1, <2>4
    <3> HIDE DEF h, B, R, S
    <3> QED
      BY <3>1, <3>2
  <2>6. h = [q \in R(m + 1) |-> B(h, q)]
    <3> HIDE DEF B, R
    <3>1. h = [q \in R(m + 1) |-> h[q]]
      OBVIOUS
    <3> HIDE DEF h
    <3> QED
      BY <3>1, <2>5
  <2>7. m + 1 \in 0..Len(f)
    BY <1>0, <1>2
  <2> HIDE DEF h, B, R
  <2> QED
    BY <2>6, <2>7
<1> HIDE DEF S
<1>3. Len(f) \in S
  <2>1. \A i \in 0..Len(f) : i < Len(f) /\ i \in S => i + 1 \in S
    BY <1>2
  <2>2. \A i \in 0..Len(f) : i \in S
    BY <1>0, <1>1, <2>1, UpTo
  <2> QED
    BY <2>2, <1>0
<1>4. R(Len(f)) = Nodes(f)
  BY <1>0
<1> HIDE DEF R
<1>5. PICK g : g = [q \in Nodes(f) |-> B(g, q)]
  <2> HIDE DEF B
  <2>1. \E gg : gg = [q \in R(Len(f)) |-> B(gg, q)]
    BY <1>3 DEF S
  <2> QED
    BY <2>1, <1>4
<1> DEFINE c == CHOOSE gg : gg = [q \in Nodes(f) |-> B(gg, q)]
<1>6. c = [q \in Nodes(f) |-> B(c, q)]
  <2> HIDE DEF B
  <2> QED
    BY <1>5
<1>7. \A q : Entries(f, q) = c[q]
  BY DEF Entries
<1> HIDE DEF c
<1>8. c[p] = B(c, p)
  <2> HIDE DEF B
  <2> QED
    BY <1>6
<1> QED
  BY <1>7, <1>8

LEMMA SearchIs ==
  ASSUME NEW f, NEW w, NEW loaded, TreesOK(f, w, loaded), NEW k \in Nat,
         NEW p \in Nodes(f)
  PROVE  Search(f, p, k) =
    IF f[p].kind = "leaf"
    THEN {ResolveValue(f, f[p].vals[i]) : i \in {j \in DOMAIN f[p].keys : f[p].keys[j] = k}}
    ELSE Search(f, f[p].kids[UpperBound(f[p].keys, k)], k)
<1> DEFINE B(g, q) ==
            IF f[q].kind = "leaf"
            THEN {ResolveValue(f, f[q].vals[i]) : i \in {j \in DOMAIN f[q].keys : f[q].keys[j] = k}}
            ELSE g[f[q].kids[UpperBound(f[q].keys, k)]]
           R(m) == Nodes(f) \cap (1..m)
           S == {m \in 0..Len(f) : \E g : g = [q \in R(m) |-> B(g, q)]}
<1>0. Len(f) \in Nat /\ \A q \in Nodes(f) : q \in 1..Len(f)
  BY NodesIs DEF TreesOK
<1>1. 0 \in S
  <2> DEFINE g == [q \in R(0) |-> 0]
  <2>1. R(0) = {}
    OBVIOUS
  <2> HIDE DEF B
  <2>2. g = [q \in R(0) |-> B(g, q)]
    BY <2>1
  <2> HIDE DEF g, R
  <2>3. \E gg : gg = [q \in R(0) |-> B(gg, q)]
    BY <2>2
  <2> QED
    BY <2>3, <1>0
<1>2. ASSUME NEW m \in 0..Len(f), m < Len(f), m \in S PROVE m + 1 \in S
  <2>1. PICK g : g = [q \in R(m) |-> B(g, q)]
    BY <1>2
  <2> DEFINE h == [q \in R(m + 1) |-> IF q <= m THEN g[q] ELSE B(g, q)]
  <2>2. \A q \in Nodes(f) : q <= m => q \in R(m) /\ q \in R(m + 1)
    BY <1>0
  <2>3. ASSUME NEW q \in Nodes(f), q <= m PROVE h[q] = g[q]
    <3> HIDE DEF B, R
    <3> QED
      BY <2>2, <2>3
  <2>4. ASSUME NEW q \in R(m + 1) PROVE B(h, q) = B(g, q)
    <3>1. q \in Nodes(f) /\ q <= m + 1
      BY <1>0
    <3> HIDE DEF h, B, R
    <3>2. CASE f[q].kind = "leaf"
      BY <3>2 DEF B
    <3>3. CASE f[q].kind # "leaf"
      <4>1. f[q].kids[UpperBound(f[q].keys, k)] \in Nodes(f) /\ f[q].kids[UpperBound(f[q].keys, k)] <= m
        BY <3>1, <3>3, KidsBelow
      <4>2. h[f[q].kids[UpperBound(f[q].keys, k)]] = g[f[q].kids[UpperBound(f[q].keys, k)]]
        BY <4>1, <2>3
      <4> QED
        BY <4>2 DEF B
    <3> QED
      BY <3>2, <3>3
  <2>5. ASSUME NEW q \in R(m + 1) PROVE h[q] = B(h, q)
    <3>1. CASE q <= m
      <4>1. q \in Nodes(f) /\ q \in R(m)
        BY <3>1, <2>2
      <4> HIDE DEF h, B, R
      <4>2. g[q] = B(g, q)
        BY <4>1, <2>1
      <4> QED
        BY <4>1, <4>2, <3>1, <2>3, <2>4
    <3>2. CASE ~ (q <= m)
      <4> HIDE DEF B, R
      <4>1. h[q] = B(g, q)
        BY <3>2
      <4> HIDE DEF h
      <4> QED
        BY <4>1, <2>4
    <3> HIDE DEF h, B, R, S
    <3> QED
      BY <3>1, <3>2
  <2>6. h = [q \in R(m + 1) |-> B(h, q)]
    <3> HIDE DEF B, R
    <3>1. h = [q \in R(m + 1) |-> h[q]]
      OBVIOUS
    <3> HIDE DEF h
    <3> QED
      BY <3>1, <2>5
  <2>7. m + 1 \in 0..Len(f)
    BY <1>0, <1>2
  <2> HIDE DEF h, B, R
  <2> QED
    BY <2>6, <2>7
<1> HIDE DEF S
<1>3. Len(f) \in S
  <2>1. \A i \in 0..Len(f) : i < Len(f) /\ i \in S => i + 1 \in S
    BY <1>2
  <2>2. \A i \in 0..Len(f) : i \in S
    BY <1>0, <1>1, <2>1, UpTo
  <2> QED
    BY <2>2, <1>0
<1>4. R(Len(f)) = Nodes(f)
  BY <1>0
<1> HIDE DEF R
<1>5. PICK g : g = [q \in Nodes(f) |-> B(g, q)]
  <2> HIDE DEF B
  <2>1. \E gg : gg = [q \in R(Len(f)) |-> B(gg, q)]
    BY <1>3 DEF S
  <2> QED
    BY <2>1, <1>4
<1> DEFINE c == CHOOSE gg : gg = [q \in Nodes(f) |-> B(gg, q)]
<1>6. c = [q \in Nodes(f) |-> B(c, q)]
  <2> HIDE DEF B
  <2> QED
    BY <1>5
<1>7. \A q : Search(f, q, k) = c[q]
  BY DEF Search
<1> HIDE DEF c
<1>8. c[p] = B(c, p)
  <2> HIDE DEF B
  <2> QED
    BY <1>6
<1> QED
  BY <1>7, <1>8

LEMMA CollectIs ==
  ASSUME NEW f, NEW w, NEW loaded, TreesOK(f, w, loaded), NEW min \in Nat, NEW max \in Nat, min <= max,
         NEW p \in Nodes(f)
  PROVE  Collect(f, p, min, max) =
    IF f[p].kind = "leaf"
    THEN Within(LeafEntries(f, f[p]), min, max)
    ELSE FlattenSeq([i \in 1..(UpperBound(f[p].keys, max) - UpperBound(f[p].keys, min) + 1) |-> Collect(f, f[p].kids[UpperBound(f[p].keys, min) + i - 1], min, max)])
<1> DEFINE B(g, q) ==
            IF f[q].kind = "leaf"
            THEN Within(LeafEntries(f, f[q]), min, max)
            ELSE FlattenSeq([i \in 1..(UpperBound(f[q].keys, max) - UpperBound(f[q].keys, min) + 1) |-> g[f[q].kids[UpperBound(f[q].keys, min) + i - 1]]])
           R(m) == Nodes(f) \cap (1..m)
           S == {m \in 0..Len(f) : \E g : g = [q \in R(m) |-> B(g, q)]}
<1>0. Len(f) \in Nat /\ \A q \in Nodes(f) : q \in 1..Len(f)
  BY NodesIs DEF TreesOK
<1>1. 0 \in S
  <2> DEFINE g == [q \in R(0) |-> 0]
  <2>1. R(0) = {}
    OBVIOUS
  <2> HIDE DEF B
  <2>2. g = [q \in R(0) |-> B(g, q)]
    BY <2>1
  <2> HIDE DEF g, R
  <2>3. \E gg : gg = [q \in R(0) |-> B(gg, q)]
    BY <2>2
  <2> QED
    BY <2>3, <1>0
<1>2. ASSUME NEW m \in 0..Len(f), m < Len(f), m \in S PROVE m + 1 \in S
  <2>1. PICK g : g = [q \in R(m) |-> B(g, q)]
    BY <1>2
  <2> DEFINE h == [q \in R(m + 1) |-> IF q <= m THEN g[q] ELSE B(g, q)]
  <2>2. \A q \in Nodes(f) : q <= m => q \in R(m) /\ q \in R(m + 1)
    BY <1>0
  <2>3. ASSUME NEW q \in Nodes(f), q <= m PROVE h[q] = g[q]
    <3> HIDE DEF B, R
    <3> QED
      BY <2>2, <2>3
  <2>4. ASSUME NEW q \in R(m + 1) PROVE B(h, q) = B(g, q)
    <3>1. q \in Nodes(f) /\ q <= m + 1
      BY <1>0
    <3> HIDE DEF h, B, R
    <3>2. CASE f[q].kind = "leaf"
      BY <3>2 DEF B
    <3>3. CASE f[q].kind # "leaf"
      <4> DEFINE lo == UpperBound(f[q].keys, min)
                 hi == UpperBound(f[q].keys, max)
      <4>1. lo \in 1..hi /\ hi \in 1..Len(f[q].kids) /\ Len(f[q].kids) \in Nat
        BY <3>1, <3>3, Spans
      <4>2. \A i \in 1..(hi - lo + 1) : lo + i - 1 \in DOMAIN f[q].kids
        <5>1. DOMAIN f[q].kids = 1..Len(f[q].kids)
          BY <3>1, <3>3, KidsBelow
        <5> HIDE DEF lo, hi
        <5> QED
          BY <5>1, <4>1
      <4>3. \A i \in DOMAIN f[q].kids : f[q].kids[i] \in Nodes(f) /\ f[q].kids[i] <= m
        BY <3>1, <3>3, KidsBelow
      <4>4. \A i \in DOMAIN f[q].kids : h[f[q].kids[i]] = g[f[q].kids[i]]
        BY <4>3, <2>3
      <4>5. \A i \in 1..(hi - lo + 1) : h[f[q].kids[lo + i - 1]] = g[f[q].kids[lo + i - 1]]
        <5> HIDE DEF lo, hi
        <5> QED
          BY <4>2, <4>4
      <4> QED
        BY <4>5 DEF B
    <3> QED
      BY <3>2, <3>3
  <2>5. ASSUME NEW q \in R(m + 1) PROVE h[q] = B(h, q)
    <3>1. CASE q <= m
      <4>1. q \in Nodes(f) /\ q \in R(m)
        BY <3>1, <2>2
      <4> HIDE DEF h, B, R
      <4>2. g[q] = B(g, q)
        BY <4>1, <2>1
      <4> QED
        BY <4>1, <4>2, <3>1, <2>3, <2>4
    <3>2. CASE ~ (q <= m)
      <4> HIDE DEF B, R
      <4>1. h[q] = B(g, q)
        BY <3>2
      <4> HIDE DEF h
      <4> QED
        BY <4>1, <2>4
    <3> HIDE DEF h, B, R, S
    <3> QED
      BY <3>1, <3>2
  <2>6. h = [q \in R(m + 1) |-> B(h, q)]
    <3> HIDE DEF B, R
    <3>1. h = [q \in R(m + 1) |-> h[q]]
      OBVIOUS
    <3> HIDE DEF h
    <3> QED
      BY <3>1, <2>5
  <2>7. m + 1 \in 0..Len(f)
    BY <1>0, <1>2
  <2> HIDE DEF h, B, R
  <2> QED
    BY <2>6, <2>7
<1> HIDE DEF S
<1>3. Len(f) \in S
  <2>1. \A i \in 0..Len(f) : i < Len(f) /\ i \in S => i + 1 \in S
    BY <1>2
  <2>2. \A i \in 0..Len(f) : i \in S
    BY <1>0, <1>1, <2>1, UpTo
  <2> QED
    BY <2>2, <1>0
<1>4. R(Len(f)) = Nodes(f)
  BY <1>0
<1> HIDE DEF R
<1>5. PICK g : g = [q \in Nodes(f) |-> B(g, q)]
  <2> HIDE DEF B
  <2>1. \E gg : gg = [q \in R(Len(f)) |-> B(gg, q)]
    BY <1>3 DEF S
  <2> QED
    BY <2>1, <1>4
<1> DEFINE c == CHOOSE gg : gg = [q \in Nodes(f) |-> B(gg, q)]
<1>6. c = [q \in Nodes(f) |-> B(c, q)]
  <2> HIDE DEF B
  <2> QED
    BY <1>5
<1>7. \A q : Collect(f, q, min, max) = c[q]
  BY DEF Collect
<1> HIDE DEF c
<1>8. c[p] = B(c, p)
  <2> HIDE DEF B
  <2> QED
    BY <1>6
<1> QED
  BY <1>7, <1>8

LEMMA LeafDepthsIs ==
  ASSUME NEW f, NEW w, NEW loaded, TreesOK(f, w, loaded),
         NEW p \in Nodes(f)
  PROVE  LeafDepths(f, p) =
    IF f[p].kind = "leaf" THEN {0}
    ELSE UNION {{d + 1 : d \in LeafDepths(f, f[p].kids[i])} : i \in DOMAIN f[p].kids}
<1> DEFINE B(g, q) ==
            IF f[q].kind = "leaf" THEN {0}
            ELSE UNION {{d + 1 : d \in g[f[q].kids[i]]} : i \in DOMAIN f[q].kids}
           R(m) == Nodes(f) \cap (1..m)
           S == {m \in 0..Len(f) : \E g : g = [q \in R(m) |-> B(g, q)]}
<1>0. Len(f) \in Nat /\ \A q \in Nodes(f) : q \in 1..Len(f)
  BY NodesIs DEF TreesOK
<1>1. 0 \in S
  <2> DEFINE g == [q \in R(0) |-> 0]
  <2>1. R(0) = {}
    OBVIOUS
  <2> HIDE DEF B
  <2>2. g = [q \in R(0) |-> B(g, q)]
    BY <2>1
  <2> HIDE DEF g, R
  <2>3. \E gg : gg = [q \in R(0) |-> B(gg, q)]
    BY <2>2
  <2> QED
    BY <2>3, <1>0
<1>2. ASSUME NEW m \in 0..Len(f), m < Len(f), m \in S PROVE m + 1 \in S
  <2>1. PICK g : g = [q \in R(m) |-> B(g, q)]
    BY <1>2
  <2> DEFINE h == [q \in R(m + 1) |-> IF q <= m THEN g[q] ELSE B(g, q)]
  <2>2. \A q \in Nodes(f) : q <= m => q \in R(m) /\ q \in R(m + 1)
    BY <1>0
  <2>3. ASSUME NEW q \in Nodes(f), q <= m PROVE h[q] = g[q]
    <3> HIDE DEF B, R
    <3> QED
      BY <2>2, <2>3
  <2>4. ASSUME NEW q \in R(m + 1) PROVE B(h, q) = B(g, q)
    <3>1. q \in Nodes(f) /\ q <= m + 1
      BY <1>0
    <3> HIDE DEF h, B, R
    <3>2. CASE f[q].kind = "leaf"
      BY <3>2 DEF B
    <3>3. CASE f[q].kind # "leaf"
      <4>1. \A i \in DOMAIN f[q].kids : f[q].kids[i] \in Nodes(f) /\ f[q].kids[i] <= m
        BY <3>1, <3>3, KidsBelow
      <4>2. \A i \in DOMAIN f[q].kids : h[f[q].kids[i]] = g[f[q].kids[i]]
        BY <4>1, <2>3
      <4>3. \A i \in DOMAIN f[q].kids : {d + 1 : d \in h[f[q].kids[i]]} = {d + 1 : d \in g[f[q].kids[i]]}
        BY <4>2
      <4> QED
        BY <4>3 DEF B
    <3> QED
      BY <3>2, <3>3
  <2>5. ASSUME NEW q \in R(m + 1) PROVE h[q] = B(h, q)
    <3>1. CASE q <= m
      <4>1. q \in Nodes(f) /\ q \in R(m)
        BY <3>1, <2>2
      <4> HIDE DEF h, B, R
      <4>2. g[q] = B(g, q)
        BY <4>1, <2>1
      <4> QED
        BY <4>1, <4>2, <3>1, <2>3, <2>4
    <3>2. CASE ~ (q <= m)
      <4> HIDE DEF B, R
      <4>1. h[q] = B(g, q)
        BY <3>2
      <4> HIDE DEF h
      <4> QED
        BY <4>1, <2>4
    <3> HIDE DEF h, B, R, S
    <3> QED
      BY <3>1, <3>2
  <2>6. h = [q \in R(m + 1) |-> B(h, q)]
    <3> HIDE DEF B, R
    <3>1. h = [q \in R(m + 1) |-> h[q]]
      OBVIOUS
    <3> HIDE DEF h
    <3> QED
      BY <3>1, <2>5
  <2>7. m + 1 \in 0..Len(f)
    BY <1>0, <1>2
  <2> HIDE DEF h, B, R
  <2> QED
    BY <2>6, <2>7
<1> HIDE DEF S
<1>3. Len(f) \in S
  <2>1. \A i \in 0..Len(f) : i < Len(f) /\ i \in S => i + 1 \in S
    BY <1>2
  <2>2. \A i \in 0..Len(f) : i \in S
    BY <1>0, <1>1, <2>1, UpTo
  <2> QED
    BY <2>2, <1>0
<1>4. R(Len(f)) = Nodes(f)
  BY <1>0
<1> HIDE DEF R
<1>5. PICK g : g = [q \in Nodes(f) |-> B(g, q)]
  <2> HIDE DEF B
  <2>1. \E gg : gg = [q \in R(Len(f)) |-> B(gg, q)]
    BY <1>3 DEF S
  <2> QED
    BY <2>1, <1>4
<1> DEFINE c == CHOOSE gg : gg = [q \in Nodes(f) |-> B(gg, q)]
<1>6. c = [q \in Nodes(f) |-> B(c, q)]
  <2> HIDE DEF B
  <2> QED
    BY <1>5
<1>7. \A q : LeafDepths(f, q) = c[q]
  BY DEF LeafDepths
<1> HIDE DEF c
<1>8. c[p] = B(c, p)
  <2> HIDE DEF B
  <2> QED
    BY <1>6
<1> QED
  BY <1>7, <1>8

LEMMA ChildrenFilledIs ==
  ASSUME NEW f, NEW w, NEW loaded, TreesOK(f, w, loaded),
         NEW p \in Nodes(f)
  PROVE  ChildrenFilled(f, p) =
    (f[p].kind = "node" =>
       \A i \in DOMAIN f[p].kids : Len(f[f[p].kids[i]].keys) >= MinKeys /\ ChildrenFilled(f, f[p].kids[i]))
<1> DEFINE B(g, q) ==
            f[q].kind = "node" =>
              \A i \in DOMAIN f[q].kids : Len(f[f[q].kids[i]].keys) >= MinKeys /\ g[f[q].kids[i]]
           R(m) == Nodes(f) \cap (1..m)
           S == {m \in 0..Len(f) : \E g : g = [q \in R(m) |-> B(g, q)]}
<1>0. Len(f) \in Nat /\ \A q \in Nodes(f) : q \in 1..Len(f)
  BY NodesIs DEF TreesOK
<1>1. 0 \in S
  <2> DEFINE g == [q \in R(0) |-> 0]
  <2>1. R(0) = {}
    OBVIOUS
  <2> HIDE DEF B
  <2>2. g = [q \in R(0) |-> B(g, q)]
    BY <2>1
  <2> HIDE DEF g, R
  <2>3. \E gg : gg = [q \in R(0) |-> B(gg, q)]
    BY <2>2
  <2> QED
    BY <2>3, <1>0
<1>2. ASSUME NEW m \in 0..Len(f), m < Len(f), m \in S PROVE m + 1 \in S
  <2>1. PICK g : g = [q \in R(m) |-> B(g, q)]
    BY <1>2
  <2> DEFINE h == [q \in R(m + 1) |-> IF q <= m THEN g[q] ELSE B(g, q)]
  <2>2. \A q \in Nodes(f) : q <= m => q \in R(m) /\ q \in R(m + 1)
    BY <1>0
  <2>3. ASSUME NEW q \in Nodes(f), q <= m PROVE h[q] = g[q]
    <3> HIDE DEF B, R
    <3> QED
      BY <2>2, <2>3
  <2>4. ASSUME NEW q \in R(m + 1) PROVE B(h, q) = B(g, q)
    <3>1. q \in Nodes(f) /\ q <= m + 1
      BY <1>0
    <3> HIDE DEF h, B, R
    <3>2. CASE f[q].kind = "leaf"
      BY <3>2 DEF B
    <3>3. CASE f[q].kind # "leaf"
      <4>1. \A i \in DOMAIN f[q].kids : f[q].kids[i] \in Nodes(f) /\ f[q].kids[i] <= m
        BY <3>1, <3>3, KidsBelow
      <4>2. \A i \in DOMAIN f[q].kids : h[f[q].kids[i]] = g[f[q].kids[i]]
        BY <4>1, <2>3
      <4> QED
        BY <4>2 DEF B
    <3> QED
      BY <3>2, <3>3
  <2>5. ASSUME NEW q \in R(m + 1) PROVE h[q] = B(h, q)
    <3>1. CASE q <= m
      <4>1. q \in Nodes(f) /\ q \in R(m)
        BY <3>1, <2>2
      <4> HIDE DEF h, B, R
      <4>2. g[q] = B(g, q)
        BY <4>1, <2>1
      <4> QED
        BY <4>1, <4>2, <3>1, <2>3, <2>4
    <3>2. CASE ~ (q <= m)
      <4> HIDE DEF B, R
      <4>1. h[q] = B(g, q)
        BY <3>2
      <4> HIDE DEF h
      <4> QED
        BY <4>1, <2>4
    <3> HIDE DEF h, B, R, S
    <3> QED
      BY <3>1, <3>2
  <2>6. h = [q \in R(m + 1) |-> B(h, q)]
    <3> HIDE DEF B, R
    <3>1. h = [q \in R(m + 1) |-> h[q]]
      OBVIOUS
    <3> HIDE DEF h
    <3> QED
      BY <3>1, <2>5
  <2>7. m + 1 \in 0..Len(f)
    BY <1>0, <1>2
  <2> HIDE DEF h, B, R
  <2> QED
    BY <2>6, <2>7
<1> HIDE DEF S
<1>3. Len(f) \in S
  <2>1. \A i \in 0..Len(f) : i < Len(f) /\ i \in S => i + 1 \in S
    BY <1>2
  <2>2. \A i \in 0..Len(f) : i \in S
    BY <1>0, <1>1, <2>1, UpTo
  <2> QED
    BY <2>2, <1>0
<1>4. R(Len(f)) = Nodes(f)
  BY <1>0
<1> HIDE DEF R
<1>5. PICK g : g = [q \in Nodes(f) |-> B(g, q)]
  <2> HIDE DEF B
  <2>1. \E gg : gg = [q \in R(Len(f)) |-> B(gg, q)]
    BY <1>3 DEF S
  <2> QED
    BY <2>1, <1>4
<1> DEFINE c == CHOOSE gg : gg = [q \in Nodes(f) |-> B(gg, q)]
<1>6. c = [q \in Nodes(f) |-> B(c, q)]
  <2> HIDE DEF B
  <2> QED
    BY <1>5
<1>7. \A q : ChildrenFilled(f, q) = c[q]
  BY DEF ChildrenFilled
<1> HIDE DEF c
<1>8. c[p] = B(c, p)
  <2> HIDE DEF B
  <2> QED
    BY <1>6
<1> QED
  BY <1>7, <1>8

LEMMA SubtreeVerifiesIs ==
  ASSUME NEW f, NEW w, NEW loaded, TreesOK(f, w, loaded), NEW lo \in Nat, NEW hi \in Nat,
         NEW p \in Nodes(f)
  PROVE  SubtreeVerifies(f, p, lo, hi) =
    (/\ NodeVerifies(f, p, lo, hi)
     /\ (f[p].kind = "node" =>
           \A i \in DOMAIN f[p].kids :
             SubtreeVerifies(f, f[p].kids[i], ChildBounds(f[p], i, <<lo, hi>>)[1], ChildBounds(f[p], i, <<lo, hi>>)[2])))
<1> DEFINE B(g, q) ==
            [b \in Nat \X Nat |->
               (/\ NodeVerifies(f, q, b[1], b[2])
                /\ (f[q].kind = "node" =>
                      \A i \in DOMAIN f[q].kids : g[f[q].kids[i]][ChildBounds(f[q], i, b)]))]
           R(m) == Nodes(f) \cap (1..m)
           S == {m \in 0..Len(f) : \E g : g = [q \in R(m) |-> B(g, q)]}
<1>0. Len(f) \in Nat /\ \A q \in Nodes(f) : q \in 1..Len(f)
  BY NodesIs DEF TreesOK
<1>1. 0 \in S
  <2> DEFINE g == [q \in R(0) |-> 0]
  <2>1. R(0) = {}
    OBVIOUS
  <2> HIDE DEF B
  <2>2. g = [q \in R(0) |-> B(g, q)]
    BY <2>1
  <2> HIDE DEF g, R
  <2>3. \E gg : gg = [q \in R(0) |-> B(gg, q)]
    BY <2>2
  <2> QED
    BY <2>3, <1>0
<1>2. ASSUME NEW m \in 0..Len(f), m < Len(f), m \in S PROVE m + 1 \in S
  <2>1. PICK g : g = [q \in R(m) |-> B(g, q)]
    BY <1>2
  <2> DEFINE h == [q \in R(m + 1) |-> IF q <= m THEN g[q] ELSE B(g, q)]
  <2>2. \A q \in Nodes(f) : q <= m => q \in R(m) /\ q \in R(m + 1)
    BY <1>0
  <2>3. ASSUME NEW q \in Nodes(f), q <= m PROVE h[q] = g[q]
    <3> HIDE DEF B, R
    <3> QED
      BY <2>2, <2>3
  <2>4. ASSUME NEW q \in R(m + 1) PROVE B(h, q) = B(g, q)
    <3>1. q \in Nodes(f) /\ q <= m + 1
      BY <1>0
    <3> HIDE DEF h, B, R
    <3>2. CASE f[q].kind = "leaf"
      BY <3>2 DEF B
    <3>3. CASE f[q].kind # "leaf"
      <4>1. \A i \in DOMAIN f[q].kids : f[q].kids[i] \in Nodes(f) /\ f[q].kids[i] <= m
        BY <3>1, <3>3, KidsBelow
      <4>2. \A i \in DOMAIN f[q].kids : h[f[q].kids[i]] = g[f[q].kids[i]]
        BY <4>1, <2>3
      <4> QED
        BY <4>2 DEF B
    <3> QED
      BY <3>2, <3>3
  <2>5. ASSUME NEW q \in R(m + 1) PROVE h[q] = B(h, q)
    <3>1. CASE q <= m
      <4>1. q \in Nodes(f) /\ q \in R(m)
        BY <3>1, <2>2
      <4> HIDE DEF h, B, R
      <4>2. g[q] = B(g, q)
        BY <4>1, <2>1
      <4> QED
        BY <4>1, <4>2, <3>1, <2>3, <2>4
    <3>2. CASE ~ (q <= m)
      <4> HIDE DEF B, R
      <4>1. h[q] = B(g, q)
        BY <3>2
      <4> HIDE DEF h
      <4> QED
        BY <4>1, <2>4
    <3> HIDE DEF h, B, R, S
    <3> QED
      BY <3>1, <3>2
  <2>6. h = [q \in R(m + 1) |-> B(h, q)]
    <3> HIDE DEF B, R
    <3>1. h = [q \in R(m + 1) |-> h[q]]
      OBVIOUS
    <3> HIDE DEF h
    <3> QED
      BY <3>1, <2>5
  <2>7. m + 1 \in 0..Len(f)
    BY <1>0, <1>2
  <2> HIDE DEF h, B, R
  <2> QED
    BY <2>6, <2>7
<1> HIDE DEF S
<1>3. Len(f) \in S
  <2>1. \A i \in 0..Len(f) : i < Len(f) /\ i \in S => i + 1 \in S
    BY <1>2
  <2>2. \A i \in 0..Len(f) : i \in S
    BY <1>0, <1>1, <2>1, UpTo
  <2> QED
    BY <2>2, <1>0
<1>4. R(Len(f)) = Nodes(f)
  BY <1>0
<1> HIDE DEF R
<1>5. PICK g : g = [q \in Nodes(f) |-> B(g, q)]
  <2> HIDE DEF B
  <2>1. \E gg : gg = [q \in R(Len(f)) |-> B(gg, q)]
    BY <1>3 DEF S
  <2> QED
    BY <2>1, <1>4
<1> DEFINE c == CHOOSE gg : gg = [q \in Nodes(f) |-> B(gg, q)]
<1>6. c = [q \in Nodes(f) |-> B(c, q)]
  <2> HIDE DEF B
  <2> QED
    BY <1>5
<1>7. \A q, a, b : SubtreeVerifies(f, q, a, b) = c[q][<<a, b>>]
  BY DEF SubtreeVerifies
<1> HIDE DEF c
<1>8. c[p] = B(c, p)
  <2> HIDE DEF B
  <2> QED
    BY <1>6
<1>9. <<lo, hi>> \in Nat \X Nat /\ <<lo, hi>>[1] = lo /\ <<lo, hi>>[2] = hi
  OBVIOUS
<1>10. \A b \in Nat \X Nat : c[p][b] = (/\ NodeVerifies(f, p, b[1], b[2])
                                         /\ (f[p].kind = "node" =>
                                               \A i \in DOMAIN f[p].kids : c[f[p].kids[i]][ChildBounds(f[p], i, b)]))
  BY <1>8
<1> DEFINE bs == <<lo, hi>>
<1> HIDE DEF B, bs
<1>11. c[p][bs] = (/\ NodeVerifies(f, p, bs[1], bs[2])
                   /\ (f[p].kind = "node" =>
                         \A i \in DOMAIN f[p].kids : c[f[p].kids[i]][ChildBounds(f[p], i, bs)]))
  BY <1>10, <1>9 DEF bs
<1>12. \A i : ChildBounds(f[p], i, bs) = <<ChildBounds(f[p], i, bs)[1], ChildBounds(f[p], i, bs)[2]>>
  BY DEF ChildBounds
<1>13. \A i : c[f[p].kids[i]][ChildBounds(f[p], i, bs)] = SubtreeVerifies(f, f[p].kids[i], ChildBounds(f[p], i, bs)[1], ChildBounds(f[p], i, bs)[2])
  BY <1>7, <1>12
<1>14. SubtreeVerifies(f, p, lo, hi) = c[p][bs] /\ bs[1] = lo /\ bs[2] = hi
  BY <1>7, <1>9 DEF bs
<1>15. SubtreeVerifies(f, p, lo, hi) = (/\ NodeVerifies(f, p, lo, hi)
                   /\ (f[p].kind = "node" =>
                         \A i \in DOMAIN f[p].kids :
                           SubtreeVerifies(f, f[p].kids[i], ChildBounds(f[p], i, bs)[1], ChildBounds(f[p], i, bs)[2])))
  BY <1>11, <1>13, <1>14
<1> QED
  BY <1>15 DEF bs

-----------------------------------------------------------------------------
(* What holds of a node when it holds of its children holds of all nodes.  *)

\* G holds of all nodes when it holds of each whose children are in it.
LEMMA NodesUpward ==
  ASSUME NEW f, NEW w, NEW loaded, TreesOK(f, w, loaded), NEW G,
         \A p \in Nodes(f) : (f[p].kind # "leaf" => \A i \in 1..Len(f[p].kids) : f[p].kids[i] \in G) => p \in G
  PROVE  \A p \in Nodes(f) : p \in G
<1> DEFINE S == {m \in 0..Len(f) : \A p \in Nodes(f) : p <= m => p \in G}
<1>0. f \in Seq(Records) /\ Len(f) \in Nat /\ \A p \in Nodes(f) : p \in 1..Len(f)
  BY NodesIs DEF TreesOK
<1>1. 0 \in S
  BY <1>0
<1>2. ASSUME NEW m \in 0..Len(f), m < Len(f), m \in S PROVE m + 1 \in S
  <2>1. m + 1 \in 0..Len(f) /\ m \in Nat
    BY <1>0, <1>2
  <2>2. ASSUME NEW p \in Nodes(f), p <= m + 1 PROVE p \in G
    <3>1. CASE f[p].kind = "leaf"
      BY <3>1
    <3>2. CASE f[p].kind # "leaf"
      <4>1. \A i \in 1..Len(f[p].kids) : f[p].kids[i] \in Nodes(f) /\ f[p].kids[i] <= m
        BY <3>2, <2>1, <2>2, KidsBelow
      <4>2. \A i \in 1..Len(f[p].kids) : f[p].kids[i] \in G
        BY <4>1, <1>2
      <4> QED
        BY <4>2
    <3> QED
      BY <3>1, <3>2
  <2> QED
    BY <2>1, <2>2
<1> HIDE DEF S
<1>3. \A m \in 0..Len(f) : m \in S
  <2>1. \A i \in 0..Len(f) : i < Len(f) /\ i \in S => i + 1 \in S
    BY <1>2
  <2> QED
    BY <2>1, <1>0, <1>1, UpTo
<1>4. Len(f) \in S
  BY <1>3, <1>0
<1> QED
  BY <1>4, <1>0 DEF S

\* The node q and its K children.
HasKids(f, w, q, K) ==
  /\ f[q].kind = "node" /\ K \in Nat /\ K >= 1 /\ K = Len(f[q].kids) /\ Len(f[q].keys) = K - 1
  /\ DOMAIN f[q].kids = 1..K /\ DOMAIN f[q].keys = 1..(K - 1)
  /\ \A i \in 1..K : /\ f[q].kids[i] \in Nodes(f) /\ f[q].kids[i] < q /\ SummaryOK(w[f[q].kids[i]])
                     /\ w[f[q].kids[i]].h = w[f[q].kids[1]].h
                     /\ w[f[q].kids[i]].ks \subseteq Keys /\ w[f[q].kids[i]].e \subseteq Entry
                     /\ \A x \in w[f[q].kids[i]].e : x[1] \in w[f[q].kids[i]].ks
  /\ \A j \in 1..(K - 1) : f[q].keys[j] \in Keys /\ w[f[q].kids[j]].solid
  /\ \A i, j \in 1..(K - 1) : i < j => f[q].keys[i] < f[q].keys[j]
  /\ \A i \in 1..K, j \in 1..(K - 1) : \A k \in w[f[q].kids[i]].ks :
       IF j < i THEN f[q].keys[j] <= k ELSE k < f[q].keys[j]
  /\ w[q].h = w[f[q].kids[1]].h + 1
  /\ w[q].e = UNION {w[f[q].kids[i]].e : i \in 1..K}
  /\ w[q].ks = {f[q].keys[i] : i \in 1..(K - 1)} \cup UNION {w[f[q].kids[i]].ks : i \in 1..K}

LEMMA KidsAre ==
  ASSUME NEW f, NEW w, NEW loaded, TreesOK(f, w, loaded), NEW q \in Nodes(f), f[q].kind # "leaf"
  PROVE  \E K \in Nat : HasKids(f, w, q, K)
<1>1. PICK n : n = f[q]
  OBVIOUS
<1>2. /\ n.kind = "node" /\ NodeOK(f, w, n) /\ DOMAIN n.kids = 1..Len(n.kids) /\ Len(n.kids) \in Nat
      /\ \A i \in 1..Len(n.kids) : n.kids[i] \in Nodes(f) /\ n.kids[i] < q
  BY <1>1, KidsBelow
<1>3. n.keys \in Seq(Keys) /\ Len(n.kids) = Len(n.keys) + 1 /\ Len(n.keys) \in Nat /\ DOMAIN n.keys = 1..Len(n.keys)
  BY <1>2, RecordKinds DEF NodeOK
<1>4. PICK K \in Nat : K = Len(n.kids)
  BY <1>2
<1>5. K >= 1 /\ Len(n.keys) = K - 1
  BY <1>3, <1>4
<1>6. \A p \in Nodes(f) : /\ SummaryOK(w[p]) /\ w[p].ks \subseteq Keys /\ w[p].e \subseteq Entry
                          /\ \A x \in w[p].e : x[1] \in w[p].ks
  BY DEF TreesOK, SummaryOK, Summaries, Entry
<1>7. \A j \in 1..(K - 1) : n.keys[j] \in Keys
  BY <1>3, <1>5
<1>8. w[q] = NodeSummary(w, n)
  BY <1>1, <1>2 DEF TreesOK, Summary
<1>9. /\ w[q].h = w[n.kids[1]].h + 1
      /\ w[q].e = UNION {w[n.kids[i]].e : i \in 1..K}
      /\ w[q].ks = {n.keys[i] : i \in 1..(K - 1)} \cup UNION {w[n.kids[i]].ks : i \in 1..K}
  BY <1>8, <1>4, <1>5 DEF NodeSummary
<1>10. /\ \A i \in 1..K : w[n.kids[i]].h = w[n.kids[1]].h
       /\ \A j \in 1..(K - 1) : w[n.kids[j]].solid
       /\ \A i, j \in 1..(K - 1) : i < j => n.keys[i] < n.keys[j]
       /\ \A i \in 1..K, j \in 1..(K - 1) : \A k \in w[n.kids[i]].ks : IF j < i THEN n.keys[j] <= k ELSE k < n.keys[j]
  BY <1>2, <1>4, <1>5 DEF NodeOK, Ascends
<1>11. HasKids(f, w, q, K)
  BY <1>1, <1>2, <1>3, <1>4, <1>5, <1>6, <1>7, <1>9, <1>10 DEF HasKids
<1> QED
  BY <1>11

LEMMA KidKeys ==
  ASSUME NEW f, NEW w, NEW q, NEW K, HasKids(f, w, q, K), NEW a \in 1..K, NEW b \in 1..K, a < b,
         NEW k \in w[f[q].kids[a]].ks, NEW l \in w[f[q].kids[b]].ks
  PROVE  k < l /\ k \in Nat /\ l \in Nat
<1>1. K \in Nat /\ a \in 1..(K - 1)
  BY DEF HasKids
<1>2. k < f[q].keys[a] /\ f[q].keys[a] <= l
  BY <1>1 DEF HasKids
<1>3. f[q].keys[a] \in Keys /\ k \in Keys /\ l \in Keys
  BY <1>1 DEF HasKids
<1>4. \A x \in Keys : x \in Nat
  BY MapAssumption DEF Keys
<1>5. f[q].keys[a] \in Nat /\ k \in Nat /\ l \in Nat
  BY <1>3, <1>4
<1> QED
  BY <1>2, <1>5

-----------------------------------------------------------------------------
(* A walk over the leaves.                                                 *)

LEMMA LeafFacts ==
  ASSUME NEW f, NEW w, NEW loaded, TreesOK(f, w, loaded), NEW p \in Nodes(f), f[p].kind = "leaf"
  PROVE  /\ LeafOK(f, f[p]) /\ f[p].keys \in Seq(Keys) /\ Ascends(f[p].keys) /\ Len(f[p].keys) \in Nat
         /\ DOMAIN f[p].keys = 1..Len(f[p].keys)
         /\ w[p] = LeafSummary(f, f[p])
<1>1. f \in Seq(Records) /\ Fits(f, w, loaded, f[p]) /\ w[p] = Summary(f, w, f[p])
  BY DEF TreesOK
<1>2. LeafOK(f, f[p])
  BY <1>1, RecordKinds DEF Fits, RecordOK, NodeOK
<1>3. f[p].keys \in Seq(Keys) /\ Ascends(f[p].keys)
  BY <1>2, RecordKinds DEF LeafOK
<1> QED
  BY <1>1, <1>2, <1>3 DEF Summary

LEMMA LeafLists ==
  ASSUME NEW f \in Seq(Records), NEW n, LeafOK(f, n)
  PROVE  Lists(LeafEntries(f, n), LeafSummary(f, n).e)
<1>1. n.keys \in Seq(Keys) /\ Ascends(n.keys)
  BY RecordKinds DEF LeafOK
<1>2. PICK L \in Nat : L = Len(n.keys) /\ DOMAIN n.keys = 1..L
  BY <1>1
<1>3. \A i \in 1..L : <<n.keys[i], ResolveValue(f, n.vals[i])>> \in Entry
  BY <1>2, ResolveIs DEF Entry
<1> DEFINE r(i) == <<n.keys[i], ResolveValue(f, n.vals[i])>>
           es == [i \in 1..L |-> r(i)]
<1>4. LeafEntries(f, n) = es
  BY <1>2 DEF LeafEntries
<1>5. es \in Seq(Entry) /\ Len(es) = L
  <2> HIDE DEF r
  <2>1. \A i \in 1..L : r(i) \in Entry
    BY <1>3 DEF r
  <2> QED
    BY <2>1
<1>6. \A i, j \in 1..L : i < j => es[i][1] < es[j][1]
  BY <1>1, <1>2 DEF Ascends
<1>7. LeafSummary(f, n).e = {es[i] : i \in 1..L}
  BY <1>2 DEF LeafSummary
<1> HIDE DEF es
<1> QED
  BY <1>4, <1>5, <1>6, <1>7 DEF Lists

\* The entries of the children of q, in order.
LEMMA KidLists ==
  ASSUME NEW f, NEW w, NEW q, NEW K, HasKids(f, w, q, K), NEW r, DOMAIN r = 1..K, r = [i \in 1..K |-> r[i]],
         \A i \in 1..K : Lists(r[i], w[f[q].kids[i]].e)
  PROVE  Lists(FlattenSeq(r), w[q].e)
<1> DEFINE E == [i \in 1..K |-> w[f[q].kids[i]].e]
<1>1. K \in Nat /\ w[q].e = UNION {E[i] : i \in 1..K}
  <2>1. K \in Nat /\ w[q].e = UNION {w[f[q].kids[i]].e : i \in 1..K}
    BY DEF HasKids
  <2>2. {E[i] : i \in 1..K} = {w[f[q].kids[i]].e : i \in 1..K}
    OBVIOUS
  <2> QED
    BY <2>1, <2>2
<1>2. ASSUME NEW i \in 1..K, NEW j \in 1..K, i < j PROVE Precede(E[i], E[j])
  <2> SUFFICES ASSUME NEW x \in E[i], NEW y \in E[j] PROVE x[1] < y[1]
    BY DEF Precede
  <2>1. x[1] \in w[f[q].kids[i]].ks /\ y[1] \in w[f[q].kids[j]].ks
    BY DEF HasKids
  <2> QED
    BY <2>1, <1>2, KidKeys
<1>3. \A i \in 1..K : Lists(r[i], E[i])
  OBVIOUS
<1> HIDE DEF E
<1>4. ListRows(r, K, E)
  BY <1>1, <1>2, <1>3 DEF ListRows
<1> QED
  BY <1>4, <1>1, FlattenLists

\* A walk over the leaves gives the entries of the summary in order.
LEMMA EntriesList ==
  ASSUME NEW f, NEW w, NEW loaded, TreesOK(f, w, loaded)
  PROVE  \A p \in Nodes(f) : Lists(Entries(f, p), w[p].e)
<1> DEFINE G == {p \in Nodes(f) : Lists(Entries(f, p), w[p].e)}
<1>1. ASSUME NEW p \in Nodes(f), f[p].kind # "leaf" => \A i \in 1..Len(f[p].kids) : f[p].kids[i] \in G
      PROVE  p \in G
  <2>1. CASE f[p].kind = "leaf"
    <3>1. Entries(f, p) = LeafEntries(f, f[p])
      BY <2>1, EntriesIs
    <3>2. LeafOK(f, f[p]) /\ w[p] = LeafSummary(f, f[p]) /\ f \in Seq(Records)
      BY <2>1, LeafFacts DEF TreesOK
    <3> QED
      BY <3>1, <3>2, LeafLists
  <2>2. CASE f[p].kind # "leaf"
    <3>1. PICK K \in Nat : HasKids(f, w, p, K)
      BY <2>2, KidsAre
    <3>2. DOMAIN f[p].kids = 1..K /\ Len(f[p].kids) = K
      BY <3>1 DEF HasKids
    <3> DEFINE r == [i \in 1..K |-> Entries(f, f[p].kids[i])]
    <3>3. Entries(f, p) = FlattenSeq(r)
      BY <2>2, <3>2, EntriesIs
    <3>4. \A i \in 1..K : Lists(r[i], w[f[p].kids[i]].e)
      BY <1>1, <2>2, <3>2
    <3>5. DOMAIN r = 1..K /\ r = [i \in 1..K |-> r[i]]
      OBVIOUS
    <3> HIDE DEF r
    <3> QED
      BY <3>1, <3>3, <3>4, <3>5, KidLists
  <2> QED
    BY <2>1, <2>2
<1> HIDE DEF G
<1>2. \A p \in Nodes(f) : p \in G
  BY <1>1, NodesUpward
<1> QED
  BY <1>2 DEF G

-----------------------------------------------------------------------------
(* What the separators lead to.                                            *)

Found(E, k) == {x[2] : x \in {y \in E : y[1] = k}}

\* A search finds what the summary has under the key.
LEMMA SearchFinds ==
  ASSUME NEW f, NEW w, NEW loaded, TreesOK(f, w, loaded), NEW k \in Keys
  PROVE  \A p \in Nodes(f) : Search(f, p, k) = Found(w[p].e, k)
<1> DEFINE G == {p \in Nodes(f) : Search(f, p, k) = Found(w[p].e, k)}
<1>0. k \in Nat /\ f \in Seq(Records) /\ \A p \in Nodes(f) : SummaryOK(w[p])
  BY MapAssumption DEF Keys, TreesOK
<1>1. ASSUME NEW p \in Nodes(f), f[p].kind # "leaf" => \A i \in 1..Len(f[p].kids) : f[p].kids[i] \in G
      PROVE  p \in G
  <2>1. CASE f[p].kind = "leaf"
    <3> DEFINE n == f[p]
               L == Len(n.keys)
    <3>1. /\ DOMAIN n.keys = 1..L /\ w[p].e = {<<n.keys[i], ResolveValue(f, n.vals[i])>> : i \in 1..L}
      <4>1. w[p].e = LeafSummary(f, n).e /\ DOMAIN n.keys = 1..L
        BY <2>1, LeafFacts
      <4> QED
        BY <4>1 DEF LeafSummary
    <3>2. Search(f, p, k) = {ResolveValue(f, n.vals[i]) : i \in {j \in 1..L : n.keys[j] = k}}
      BY <2>1, <3>1, <1>0, SearchIs
    <3> HIDE DEF n, L
    <3>3. ASSUME NEW v \in Found(w[p].e, k) PROVE v \in Search(f, p, k)
      <4>1. PICK i \in 1..L : n.keys[i] = k /\ v = ResolveValue(f, n.vals[i])
        BY <3>1 DEF Found
      <4> QED
        BY <4>1, <3>2
    <3>4. ASSUME NEW v \in Search(f, p, k) PROVE v \in Found(w[p].e, k)
      <4>1. PICK i \in 1..L : n.keys[i] = k /\ v = ResolveValue(f, n.vals[i])
        BY <3>2
      <4>2. <<n.keys[i], ResolveValue(f, n.vals[i])>> \in w[p].e
        BY <3>1
      <4> QED
        BY <4>1, <4>2 DEF Found
    <3> QED
      BY <3>3, <3>4
  <2>2. CASE f[p].kind # "leaf"
    <3>1. PICK i : i = UpperBound(f[p].keys, k)
      OBVIOUS
    <3>2. NodeOK(f, w, f[p])
      BY <2>2, KidsBelow
    <3>3. /\ i \in 1..Len(f[p].kids)
          /\ \A j \in 1..Len(f[p].kids) : j # i => \A x \in w[f[p].kids[j]].e : x[1] # k
      BY <1>0, <3>1, <3>2, ChildOfKey
    <3>4. PICK K \in Nat : HasKids(f, w, p, K)
      BY <2>2, KidsAre
    <3>5. K = Len(f[p].kids) /\ w[p].e = UNION {w[f[p].kids[j]].e : j \in 1..K}
      BY <3>4 DEF HasKids
    <3>6. Search(f, p, k) = Search(f, f[p].kids[i], k)
      BY <1>0, <2>2, <3>1, SearchIs
    <3>7. Search(f, f[p].kids[i], k) = Found(w[f[p].kids[i]].e, k)
      BY <1>1, <2>2, <3>3
    <3>8. {y \in w[p].e : y[1] = k} = {y \in w[f[p].kids[i]].e : y[1] = k}
      BY <3>3, <3>5
    <3> QED
      BY <3>6, <3>7, <3>8 DEF Found
  <2> QED
    BY <2>1, <2>2
<1> HIDE DEF G
<1>2. \A p \in Nodes(f) : p \in G
  BY <1>1, NodesUpward
<1> QED
  BY <1>2 DEF G

\* A child before the one min leads to has no key from min on, one after that of max
\* none up to max.
LEMMA OutsideSpan ==
  ASSUME NEW f, NEW w, NEW loaded, TreesOK(f, w, loaded), NEW q \in Nodes(f), f[q].kind # "leaf",
         NEW K \in Nat, HasKids(f, w, q, K), NEW min \in Nat, NEW max \in Nat,
         NEW i \in 1..K, NEW k \in w[f[q].kids[i]].ks
  PROVE  /\ i < UpperBound(f[q].keys, min) => k < min
         /\ UpperBound(f[q].keys, max) < i => max < k
<1>1. PICK n : n = f[q]
  OBVIOUS
<1>2. n.keys \in Seq(Keys) /\ Ascends(n.keys) /\ Len(n.keys) = K - 1
  <2>1. NodeOK(f, w, n)
    BY <1>1, KidsBelow
  <2> QED
    BY <2>1, <1>1, RecordKinds DEF NodeOK, HasKids
<1>3. PICK lo, hi : lo = UpperBound(n.keys, min) /\ hi = UpperBound(n.keys, max)
  OBVIOUS
<1>4. /\ lo \in 1..K /\ hi \in 1..K
      /\ \A j \in 1..(K - 1) : IF j < lo THEN n.keys[j] <= min ELSE min < n.keys[j]
      /\ \A j \in 1..(K - 1) : IF j < hi THEN n.keys[j] <= max ELSE max < n.keys[j]
  <2>1. (K - 1) + 1 = K
    OBVIOUS
  <2>2. /\ UpperBound(n.keys, min) \in 1..(Len(n.keys) + 1) /\ UpperBound(n.keys, max) \in 1..(Len(n.keys) + 1)
        /\ \A j \in 1..Len(n.keys) : IF j < UpperBound(n.keys, min) THEN n.keys[j] <= min ELSE min < n.keys[j]
        /\ \A j \in 1..Len(n.keys) : IF j < UpperBound(n.keys, max) THEN n.keys[j] <= max ELSE max < n.keys[j]
    BY <1>2, UpperIs
  <2> QED
    BY <2>1, <2>2, <1>2, <1>3
<1>5. \A j \in 1..(K - 1) : IF j < i THEN n.keys[j] <= k ELSE k < n.keys[j]
  BY <1>1 DEF HasKids
<1>6. \A j \in 1..(K - 1) : n.keys[j] \in Nat
  BY <1>2, KeyRows
<1>7. k \in Nat
  BY MapAssumption DEF HasKids, Keys
<1>8. ASSUME i < lo PROVE k < min
  <2>1. i \in 1..(K - 1) /\ ~ (i < i)
    BY <1>8, <1>4
  <2>2. k < n.keys[i] /\ n.keys[i] <= min /\ n.keys[i] \in Nat
    BY <2>1, <1>8, <1>4, <1>5, <1>6
  <2> QED
    BY <2>2, <1>7
<1>9. ASSUME hi < i PROVE max < k
  <2>1. hi \in 1..(K - 1) /\ ~ (hi < hi)
    BY <1>9, <1>4
  <2>2. n.keys[hi] <= k /\ max < n.keys[hi] /\ n.keys[hi] \in Nat
    BY <2>1, <1>9, <1>4, <1>5, <1>6
  <2> QED
    BY <2>2, <1>7
<1> QED
  BY <1>1, <1>3, <1>8, <1>9

\* A range scan gives the entries of the summary that are in the range, in order.
LEMMA CollectLists ==
  ASSUME NEW f, NEW w, NEW loaded, TreesOK(f, w, loaded), NEW min \in Nat, NEW max \in Nat, min <= max
  PROVE  \A p \in Nodes(f) : Lists(Collect(f, p, min, max), Limited(w[p].e, min, max))
<1> DEFINE G == {p \in Nodes(f) : Lists(Collect(f, p, min, max), Limited(w[p].e, min, max))}
<1>1. ASSUME NEW p \in Nodes(f), f[p].kind # "leaf" => \A i \in 1..Len(f[p].kids) : f[p].kids[i] \in G
      PROVE  p \in G
  <2>1. CASE f[p].kind = "leaf"
    <3>1. Collect(f, p, min, max) = Within(LeafEntries(f, f[p]), min, max)
      BY <2>1, CollectIs
    <3>2. LeafOK(f, f[p]) /\ w[p] = LeafSummary(f, f[p]) /\ f \in Seq(Records)
      BY <2>1, LeafFacts DEF TreesOK
    <3> QED
      BY <3>1, <3>2, LeafLists, WithinLists
  <2>2. CASE f[p].kind # "leaf"
    <3>1. PICK K \in Nat : HasKids(f, w, p, K)
      BY <2>2, KidsAre
    <3>2. Len(f[p].kids) = K
      BY <3>1 DEF HasKids
    <3>3. PICK lo, hi : lo = UpperBound(f[p].keys, min) /\ hi = UpperBound(f[p].keys, max)
      OBVIOUS
    <3>4. lo \in Nat /\ hi \in Nat /\ 1 <= lo /\ lo <= hi /\ hi <= K
      <4>1. lo \in 1..hi /\ hi \in 1..K
        BY <2>2, <3>2, <3>3, Spans
      <4> QED
        BY <4>1
    <3>5. PICK m \in Nat : m = hi - lo + 1
      BY <3>4
    <3>6. \A i \in 1..m : lo + i - 1 \in 1..K /\ \A j \in 1..m : i < j => lo + i - 1 < lo + j - 1
      BY <3>4, <3>5
    <3> DEFINE r == [i \in 1..m |-> Collect(f, f[p].kids[lo + i - 1], min, max)]
               E == [i \in 1..m |-> Limited(w[f[p].kids[lo + i - 1]].e, min, max)]
    <3>7. Collect(f, p, min, max) = FlattenSeq(r)
      <4>1. Collect(f, p, min, max) =
              FlattenSeq([i \in 1..(UpperBound(f[p].keys, max) - UpperBound(f[p].keys, min) + 1) |->
                            Collect(f, f[p].kids[UpperBound(f[p].keys, min) + i - 1], min, max)])
        <5>1. Collect(f, p, min, max) =
                IF f[p].kind = "leaf" THEN Within(LeafEntries(f, f[p]), min, max)
                ELSE FlattenSeq([i \in 1..(UpperBound(f[p].keys, max) - UpperBound(f[p].keys, min) + 1) |->
                            Collect(f, f[p].kids[UpperBound(f[p].keys, min) + i - 1], min, max)])
          BY CollectIs
        <5> QED
          BY <5>1, <2>2
      <4>2. Collect(f, p, min, max) = FlattenSeq([i \in 1..(hi - lo + 1) |-> Collect(f, f[p].kids[lo + i - 1], min, max)])
        BY <4>1, <3>3
      <4> QED
        BY <4>2, <3>5
    <3>8. \A i \in 1..m : Lists(r[i], E[i])
      BY <1>1, <2>2, <3>2, <3>6
    <3>9. ASSUME NEW i \in 1..m, NEW j \in 1..m, i < j PROVE Precede(E[i], E[j])
      <4> SUFFICES ASSUME NEW x \in E[i], NEW y \in E[j] PROVE x[1] < y[1]
        BY DEF Precede
      <4>1. PICK a \in 1..K, b \in 1..K : a = lo + i - 1 /\ b = lo + j - 1 /\ a < b
        BY <3>6, <3>9
      <4>2. x \in w[f[p].kids[a]].e /\ y \in w[f[p].kids[b]].e
        BY <4>1 DEF Limited
      <4>3. x[1] \in w[f[p].kids[a]].ks /\ y[1] \in w[f[p].kids[b]].ks
        BY <4>2, <3>1 DEF HasKids
      <4> QED
        BY <4>1, <4>3, <3>1, KidKeys
    <3>10. UNION {E[i] : i \in 1..m} = Limited(w[p].e, min, max)
      <4>1. ASSUME NEW x \in UNION {E[i] : i \in 1..m} PROVE x \in Limited(w[p].e, min, max)
        <5>1. PICK i \in 1..m : x \in E[i]
          OBVIOUS
        <5>2. PICK a \in 1..K : a = lo + i - 1
          BY <3>6
        <5>3. x \in w[f[p].kids[a]].e /\ InRange(x, min, max)
          BY <5>1, <5>2 DEF Limited
        <5>4. w[p].e = UNION {w[f[p].kids[b]].e : b \in 1..K}
          BY <3>1 DEF HasKids
        <5> QED
          BY <5>3, <5>4 DEF Limited
      <4>2. ASSUME NEW x \in Limited(w[p].e, min, max) PROVE x \in UNION {E[i] : i \in 1..m}
        <5>1. PICK a \in 1..K : x \in w[f[p].kids[a]].e
          <6>1. w[p].e = UNION {w[f[p].kids[b]].e : b \in 1..K}
            BY <3>1 DEF HasKids
          <6> QED
            BY <6>1 DEF Limited
        <5>2. x[1] \in w[f[p].kids[a]].ks
          BY <3>1, <5>1 DEF HasKids
        <5>3. (a < lo => x[1] < min) /\ (hi < a => max < x[1])
          BY <2>2, <3>1, <3>3, <5>2, OutsideSpan
        <5>4. x[1] >= min /\ x[1] <= max /\ x[1] \in Nat
          <6>1. x[1] \in Keys
            BY <3>1, <5>2 DEF HasKids
          <6> QED
            BY <6>1, MapAssumption DEF Limited, InRange, Keys
        <5>5. lo <= a /\ a <= hi
          BY <5>3, <5>4, <3>4
        <5>6. a - lo + 1 \in 1..m /\ lo + (a - lo + 1) - 1 = a
          BY <5>5, <3>4, <3>5
        <5>7. PICK i \in 1..m : a = lo + i - 1
          BY <5>6
        <5>8. x \in E[i]
          BY <5>1, <5>7 DEF Limited
        <5> HIDE DEF E
        <5> QED
          BY <5>8
      <4> HIDE DEF E
      <4> QED
        BY <4>1, <4>2
    <3>11. r = [i \in 1..m |-> r[i]]
      OBVIOUS
    <3> HIDE DEF r, E
    <3>12. ListRows(r, m, E)
      BY <3>8, <3>9, <3>11 DEF ListRows
    <3>13. Lists(FlattenSeq(r), UNION {E[i] : i \in 1..m})
      BY <3>12, FlattenLists
    <3> QED
      BY <3>7, <3>10, <3>13
  <2> QED
    BY <2>1, <2>2
<1> HIDE DEF G
<1>2. \A p \in Nodes(f) : p \in G
  BY <1>1, NodesUpward
<1> QED
  BY <1>2 DEF G

\* Search and range scan find what the walk finds.
LEMMA CollectIsWithin ==
  ASSUME NEW f, NEW w, NEW loaded, TreesOK(f, w, loaded), NEW min \in Nat, NEW max \in Nat, min <= max,
         NEW p \in Nodes(f)
  PROVE  Collect(f, p, min, max) = Within(Entries(f, p), min, max)
<1>1. Lists(Within(Entries(f, p), min, max), Limited(w[p].e, min, max))
  BY EntriesList, WithinLists
<1> QED
  BY <1>1, CollectLists, ListsUnique

-----------------------------------------------------------------------------
(* bpt_verify.                                                             *)

Bounded(ks, lo, hi) == \A k \in ks : lo <= k /\ k < hi

LEMMA NodeVerified ==
  ASSUME NEW f, NEW w, NEW loaded, TreesOK(f, w, loaded), NEW p \in Nodes(f), NEW lo \in Nat, NEW hi \in Nat,
         Bounded(w[p].ks, lo, hi)
  PROVE  NodeVerifies(f, p, lo, hi)
<1>1. PICK n : n = f[p]
  OBVIOUS
<1>2. RecordOK(f, w, n) /\ Len(n.keys) < Order /\ Before(n, p) /\ w[p] = Summary(f, w, n)
  BY <1>1 DEF TreesOK, Fits
<1>3. n.keys \in Seq(Keys) /\ Ascends(n.keys)
  BY <1>2, RecordKinds DEF RecordOK, LeafOK, NodeOK
<1>4. PICK L \in Nat : L = Len(n.keys) /\ DOMAIN n.keys = 1..L
  BY <1>3
<1>5. \A i \in 1..L : n.keys[i] \in w[p].ks
  <2>1. CASE n.kind = "leaf"
    BY <2>1, <1>2, <1>4 DEF Summary, LeafSummary
  <2>2. CASE n.kind # "leaf"
    BY <2>2, <1>2, <1>4 DEF Summary, NodeSummary
  <2> QED
    BY <2>1, <2>2
<1>6. ASSUME NEW i \in 1..L
      PROVE  (i > 1 => n.keys[i - 1] < n.keys[i]) /\ lo <= n.keys[i] /\ n.keys[i] < hi
  <2>1. i > 1 => i - 1 \in 1..L /\ i - 1 < i
    OBVIOUS
  <2> QED
    BY <2>1, <1>3, <1>4, <1>5 DEF Ascends, Bounded
<1>7. IF n.kind = "leaf"
      THEN \A i \in DOMAIN n.vals : n.vals[i][1] = "at" => n.vals[i][2] < p
      ELSE Len(n.kids) = Len(n.keys) + 1 /\ \A i \in DOMAIN n.kids : n.kids[i] < p
  <2>1. CASE n.kind = "leaf"
    <3>1. n.vals \in Seq(Refs)
      BY <2>1, <1>2, RecordKinds DEF RecordOK, LeafOK, NodeOK
    <3>2. DOMAIN n.vals = 1..Len(n.vals)
      BY <3>1
    <3> QED
      BY <3>2, <2>1, <1>2 DEF Before
  <2>2. CASE n.kind # "leaf"
    <3>1. NodeOK(f, w, n) /\ n.kids \in Seq(Nat)
      BY <2>2, <1>2, RecordKinds DEF RecordOK, LeafOK, NodeOK
    <3>2. DOMAIN n.kids = 1..Len(n.kids)
      BY <3>1
    <3> QED
      BY <3>1, <3>2, <2>2, <1>2 DEF Before, NodeOK
  <2> QED
    BY <2>1, <2>2
<1> QED
  BY <1>1, <1>2, <1>4, <1>6, <1>7 DEF NodeVerifies

\* The children of a node keep within the bounds that are handed down.
LEMMA KidBounded ==
  ASSUME NEW f, NEW w, NEW p, NEW K, HasKids(f, w, p, K), NEW lo \in Nat, NEW hi \in Nat,
         Bounded(w[p].ks, lo, hi), NEW i \in 1..K, NEW a, NEW b, <<a, b>> = ChildBounds(f[p], i, <<lo, hi>>)
  PROVE  a \in Nat /\ b \in Nat /\ Bounded(w[f[p].kids[i]].ks, a, b)
<1>1. PICK n : n = f[p]
  OBVIOUS
<1>2. /\ K \in Nat /\ Len(n.kids) = K
      /\ \A j \in 1..(K - 1) : n.keys[j] \in Keys
      /\ \A j \in 1..(K - 1) : \A k \in w[n.kids[i]].ks : IF j < i THEN n.keys[j] <= k ELSE k < n.keys[j]
      /\ w[p].ks = {n.keys[j] : j \in 1..(K - 1)} \cup UNION {w[n.kids[j]].ks : j \in 1..K}
  BY <1>1 DEF HasKids
<1>3. \A x \in Keys : x \in Nat
  BY MapAssumption DEF Keys
<1>4. a = (IF i = 1 THEN lo ELSE n.keys[i - 1]) /\ b = (IF i = K THEN hi ELSE n.keys[i])
  BY <1>1, <1>2 DEF ChildBounds
<1>5. (i # 1 => i - 1 \in 1..(K - 1) /\ i - 1 < i) /\ (i # K => i \in 1..(K - 1) /\ ~ (i < i))
  BY <1>2
<1>6. a \in Nat /\ b \in Nat
  BY <1>2, <1>3, <1>4, <1>5
<1>7. ASSUME NEW k \in w[n.kids[i]].ks PROVE a <= k /\ k < b
  <2>1. k \in w[p].ks
    BY <1>2
  <2>2. lo <= k /\ k < hi
    BY <2>1 DEF Bounded
  <2> QED
    BY <2>2, <1>2, <1>4, <1>5
<1> QED
  BY <1>1, <1>6, <1>7 DEF Bounded

\* Every node passes the checks of verify_node within bounds that hold its keys.
LEMMA SubtreesVerify ==
  ASSUME NEW f, NEW w, NEW loaded, TreesOK(f, w, loaded)
  PROVE  \A p \in Nodes(f) : \A lo, hi \in Nat : Bounded(w[p].ks, lo, hi) => SubtreeVerifies(f, p, lo, hi)
<1> DEFINE G == {p \in Nodes(f) : \A lo, hi \in Nat : Bounded(w[p].ks, lo, hi) => SubtreeVerifies(f, p, lo, hi)}
<1>1. ASSUME NEW p \in Nodes(f), f[p].kind # "leaf" => \A i \in 1..Len(f[p].kids) : f[p].kids[i] \in G
      PROVE  p \in G
  <2>1. SUFFICES ASSUME NEW lo \in Nat, NEW hi \in Nat, Bounded(w[p].ks, lo, hi)
                 PROVE  SubtreeVerifies(f, p, lo, hi)
    OBVIOUS
  <2>2. NodeVerifies(f, p, lo, hi)
    BY <2>1, NodeVerified
  <2>3. ASSUME f[p].kind = "node", NEW i \in DOMAIN f[p].kids
        PROVE  SubtreeVerifies(f, f[p].kids[i], ChildBounds(f[p], i, <<lo, hi>>)[1], ChildBounds(f[p], i, <<lo, hi>>)[2])
    <3>1. PICK K \in Nat : HasKids(f, w, p, K)
      BY <2>3, KidsAre
    <3>2. DOMAIN f[p].kids = 1..K /\ Len(f[p].kids) = K
      BY <3>1 DEF HasKids
    <3>3. PICK a, b : a = ChildBounds(f[p], i, <<lo, hi>>)[1] /\ b = ChildBounds(f[p], i, <<lo, hi>>)[2]
      OBVIOUS
    <3>4. <<a, b>> = ChildBounds(f[p], i, <<lo, hi>>)
      BY <3>3 DEF ChildBounds
    <3>5. a \in Nat /\ b \in Nat /\ Bounded(w[f[p].kids[i]].ks, a, b)
      BY <2>1, <2>3, <3>1, <3>2, <3>4, KidBounded
    <3>6. f[p].kids[i] \in G
      BY <2>3, <1>1, <3>2
    <3>7. SubtreeVerifies(f, f[p].kids[i], a, b)
      BY <3>5, <3>6
    <3> QED
      BY <3>3, <3>7
  <2>4. SubtreeVerifies(f, p, lo, hi) =
          (/\ NodeVerifies(f, p, lo, hi)
           /\ (f[p].kind = "node" =>
                 \A i \in DOMAIN f[p].kids :
                   SubtreeVerifies(f, f[p].kids[i], ChildBounds(f[p], i, <<lo, hi>>)[1], ChildBounds(f[p], i, <<lo, hi>>)[2])))
    BY SubtreeVerifiesIs
  <2> QED
    BY <2>2, <2>3, <2>4
<1> HIDE DEF G
<1>2. \A p \in Nodes(f) : p \in G
  BY <1>1, NodesUpward
<1> QED
  BY <1>2 DEF G

\* All leaves below a node are at its height.
LEMMA OneDepth ==
  ASSUME NEW f, NEW w, NEW loaded, TreesOK(f, w, loaded)
  PROVE  \A p \in Nodes(f) : LeafDepths(f, p) = {w[p].h}
<1> DEFINE G == {p \in Nodes(f) : LeafDepths(f, p) = {w[p].h}}
<1>1. ASSUME NEW p \in Nodes(f), f[p].kind # "leaf" => \A i \in 1..Len(f[p].kids) : f[p].kids[i] \in G
      PROVE  p \in G
  <2>0. LeafDepths(f, p) =
          IF f[p].kind = "leaf" THEN {0}
          ELSE UNION {{d + 1 : d \in LeafDepths(f, f[p].kids[i])} : i \in DOMAIN f[p].kids}
    BY LeafDepthsIs
  <2>1. CASE f[p].kind = "leaf"
    <3>1. w[p].h = 0
      <4>1. w[p].h = LeafSummary(f, f[p]).h
        BY <2>1, LeafFacts
      <4> QED
        BY <4>1 DEF LeafSummary
    <3> QED
      BY <3>1, <2>0, <2>1
  <2>2. CASE f[p].kind # "leaf"
    <3>1. PICK K \in Nat : HasKids(f, w, p, K)
      BY <2>2, KidsAre
    <3>2. DOMAIN f[p].kids = 1..K /\ Len(f[p].kids) = K /\ 1 \in 1..K /\ w[p].h = w[f[p].kids[1]].h + 1
      BY <3>1 DEF HasKids
    <3>3. \A i \in 1..K : LeafDepths(f, f[p].kids[i]) = {w[f[p].kids[1]].h}
      <4>1. \A i \in 1..K : LeafDepths(f, f[p].kids[i]) = {w[f[p].kids[i]].h}
        BY <1>1, <2>2, <3>2
      <4>2. \A i \in 1..K : w[f[p].kids[i]].h = w[f[p].kids[1]].h
        BY <3>1 DEF HasKids
      <4> QED
        BY <4>1, <4>2
    <3>4. \A i \in 1..K : {d + 1 : d \in LeafDepths(f, f[p].kids[i])} = {w[p].h}
      BY <3>2, <3>3
    <3>5. UNION {{d + 1 : d \in LeafDepths(f, f[p].kids[i])} : i \in 1..K} = {w[p].h}
      BY <3>2, <3>4
    <3> QED
      BY <3>2, <3>5, <2>0, <2>2
  <2> QED
    BY <2>1, <2>2
<1> HIDE DEF G
<1>2. \A p \in Nodes(f) : p \in G
  BY <1>1, NodesUpward
<1> QED
  BY <1>2 DEF G

\* In a file that did not begin as a bulk load no child is sparse.
LEMMA FilledTree ==
  ASSUME NEW f, NEW w, TreesOK(f, w, FALSE)
  PROVE  \A p \in Nodes(f) : ChildrenFilled(f, p)
<1> DEFINE G == {p \in Nodes(f) : ChildrenFilled(f, p)}
<1>1. ASSUME NEW p \in Nodes(f), f[p].kind # "leaf" => \A i \in 1..Len(f[p].kids) : f[p].kids[i] \in G
      PROVE  p \in G
  <2>1. ChildrenFilled(f, p) =
          (f[p].kind = "node" =>
             \A i \in DOMAIN f[p].kids : Len(f[f[p].kids[i]].keys) >= MinKeys /\ ChildrenFilled(f, f[p].kids[i]))
    BY ChildrenFilledIs
  <2>2. ASSUME f[p].kind = "node", NEW i \in DOMAIN f[p].kids
        PROVE  Len(f[f[p].kids[i]].keys) >= MinKeys /\ ChildrenFilled(f, f[p].kids[i])
    <3>1. PICK K \in Nat : HasKids(f, w, p, K)
      BY <2>2, KidsAre
    <3>2. DOMAIN f[p].kids = 1..K /\ Len(f[p].kids) = K
      BY <3>1 DEF HasKids
    <3>3. KidsFilled(f, f[p])
      BY DEF TreesOK, Fits, Dense
    <3> QED
      BY <3>2, <3>3, <2>2, <1>1 DEF KidsFilled
  <2> QED
    BY <2>1, <2>2
<1> HIDE DEF G
<1>2. \A p \in Nodes(f) : p \in G
  BY <1>1, NodesUpward
<1> QED
  BY <1>2 DEF G

\* Every tree of the file passes bpt_verify with the number of its entries.
LEMMA TreesVerify ==
  ASSUME NEW f, NEW w, NEW loaded, TreesOK(f, w, loaded), NEW p \in Nodes(f)
  PROVE  VerifyNode(f, p, Cardinality(w[p].e), MaxKey + 1)
<1>1. SubtreeVerifies(f, p, 0, MaxKey + 1)
  <2>1. Bounded(w[p].ks, 0, MaxKey + 1)
    BY MapAssumption DEF TreesOK, SummaryOK, Summaries, Keys, Bounded
  <2>2. 0 \in Nat /\ MaxKey + 1 \in Nat
    BY MapAssumption
  <2> QED
    BY <2>1, <2>2, SubtreesVerify
<1>2. Cardinality(LeafDepths(f, p)) = 1
  <2>1. LeafDepths(f, p) = {w[p].h}
    BY OneDepth
  <2> QED
    BY <2>1, FS_Singleton
<1>3. Len(Entries(f, p)) = Cardinality(w[p].e)
  BY EntriesList, ListsCount
<1> QED
  BY <1>1, <1>2, <1>3 DEF VerifyNode

LEMMA CursorDescendIs ==
  ASSUME NEW f, NEW w, NEW loaded, TreesOK(f, w, loaded), NEW min \in Nat,
         NEW p \in Nodes(f)
  PROVE  CursorDescend(f, p, min) =
    IF f[p].kind = "leaf" THEN [leaf |-> f[p], ahead |-> <<>>]
    ELSE [leaf  |-> CursorDescend(f, f[p].kids[UpperBound(f[p].keys, min)], min).leaf,
          ahead |-> CursorDescend(f, f[p].kids[UpperBound(f[p].keys, min)], min).ahead
                      \o SubSeq(f[p].kids, UpperBound(f[p].keys, min) + 1, Len(f[p].kids))]
<1> DEFINE B(g, q) ==
            IF f[q].kind = "leaf" THEN [leaf |-> f[q], ahead |-> <<>>]
            ELSE [leaf  |-> g[f[q].kids[UpperBound(f[q].keys, min)]].leaf,
                  ahead |-> g[f[q].kids[UpperBound(f[q].keys, min)]].ahead
                              \o SubSeq(f[q].kids, UpperBound(f[q].keys, min) + 1, Len(f[q].kids))]
           R(m) == Nodes(f) \cap (1..m)
           S == {m \in 0..Len(f) : \E g : g = [q \in R(m) |-> B(g, q)]}
<1>0. Len(f) \in Nat /\ \A q \in Nodes(f) : q \in 1..Len(f)
  BY NodesIs DEF TreesOK
<1>1. 0 \in S
  <2> DEFINE g == [q \in R(0) |-> 0]
  <2>1. R(0) = {}
    OBVIOUS
  <2> HIDE DEF B
  <2>2. g = [q \in R(0) |-> B(g, q)]
    BY <2>1
  <2> HIDE DEF g, R
  <2>3. \E gg : gg = [q \in R(0) |-> B(gg, q)]
    BY <2>2
  <2> QED
    BY <2>3, <1>0
<1>2. ASSUME NEW m \in 0..Len(f), m < Len(f), m \in S PROVE m + 1 \in S
  <2>1. PICK g : g = [q \in R(m) |-> B(g, q)]
    BY <1>2
  <2> DEFINE h == [q \in R(m + 1) |-> IF q <= m THEN g[q] ELSE B(g, q)]
  <2>2. \A q \in Nodes(f) : q <= m => q \in R(m) /\ q \in R(m + 1)
    BY <1>0
  <2>3. ASSUME NEW q \in Nodes(f), q <= m PROVE h[q] = g[q]
    <3> HIDE DEF B, R
    <3> QED
      BY <2>2, <2>3
  <2>4. ASSUME NEW q \in R(m + 1) PROVE B(h, q) = B(g, q)
    <3>1. q \in Nodes(f) /\ q <= m + 1
      BY <1>0
    <3> HIDE DEF h, B, R
    <3>2. CASE f[q].kind = "leaf"
      BY <3>2 DEF B
    <3>3. CASE f[q].kind # "leaf"
      <4>1. f[q].kids[UpperBound(f[q].keys, min)] \in Nodes(f) /\ f[q].kids[UpperBound(f[q].keys, min)] <= m
        BY <3>1, <3>3, KidsBelow
      <4>2. h[f[q].kids[UpperBound(f[q].keys, min)]] = g[f[q].kids[UpperBound(f[q].keys, min)]]
        BY <4>1, <2>3
      <4> QED
        BY <4>2 DEF B
    <3> QED
      BY <3>2, <3>3
  <2>5. ASSUME NEW q \in R(m + 1) PROVE h[q] = B(h, q)
    <3>1. CASE q <= m
      <4>1. q \in Nodes(f) /\ q \in R(m)
        BY <3>1, <2>2
      <4> HIDE DEF h, B, R
      <4>2. g[q] = B(g, q)
        BY <4>1, <2>1
      <4> QED
        BY <4>1, <4>2, <3>1, <2>3, <2>4
    <3>2. CASE ~ (q <= m)
      <4> HIDE DEF B, R
      <4>1. h[q] = B(g, q)
        BY <3>2
      <4> HIDE DEF h
      <4> QED
        BY <4>1, <2>4
    <3> HIDE DEF h, B, R, S
    <3> QED
      BY <3>1, <3>2
  <2>6. h = [q \in R(m + 1) |-> B(h, q)]
    <3> HIDE DEF B, R
    <3>1. h = [q \in R(m + 1) |-> h[q]]
      OBVIOUS
    <3> HIDE DEF h
    <3> QED
      BY <3>1, <2>5
  <2>7. m + 1 \in 0..Len(f)
    <3> HIDE DEF h, B, R, S
    <3> QED
      BY <1>0, <1>2
  <2> HIDE DEF h, B, R
  <2> QED
    BY <2>6, <2>7
<1> HIDE DEF S
<1>3. Len(f) \in S
  <2>1. \A i \in 0..Len(f) : i < Len(f) /\ i \in S => i + 1 \in S
    BY <1>2
  <2>2. \A i \in 0..Len(f) : i \in S
    BY <1>0, <1>1, <2>1, UpTo
  <2> QED
    BY <2>2, <1>0
<1>4. R(Len(f)) = Nodes(f)
  BY <1>0
<1> HIDE DEF R
<1>5. PICK g : g = [q \in Nodes(f) |-> B(g, q)]
  <2> HIDE DEF B
  <2>1. \E gg : gg = [q \in R(Len(f)) |-> B(gg, q)]
    BY <1>3 DEF S
  <2> QED
    BY <2>1, <1>4
<1> DEFINE c == CHOOSE gg : gg = [q \in Nodes(f) |-> B(gg, q)]
<1>6. c = [q \in Nodes(f) |-> B(c, q)]
  <2> HIDE DEF B
  <2> QED
    BY <1>5
<1>7. \A q : CursorDescend(f, q, min) = c[q]
  BY DEF CursorDescend
<1> HIDE DEF c
<1>8. c[p] = B(c, p)
  <2> HIDE DEF B
  <2> QED
    BY <1>6
<1> QED
  BY <1>7, <1>8

LEMMA ListedIs ==
  ASSUME NEW f, NEW w, NEW loaded, TreesOK(f, w, loaded),
         NEW p \in Nodes(f)
  PROVE  Listed(f, p) =
    Append(IF f[p].kind = "leaf"
           THEN FlattenSeq([i \in DOMAIN f[p].vals |->
                  IF f[p].vals[i][1] = "at" THEN <<f[p].vals[i][2]>> ELSE <<>>])
           ELSE FlattenSeq([i \in DOMAIN f[p].kids |-> Listed(f, f[p].kids[i])]), p)
<1> DEFINE B(g, q) ==
            Append(IF f[q].kind = "leaf"
                   THEN FlattenSeq([i \in DOMAIN f[q].vals |->
                          IF f[q].vals[i][1] = "at" THEN <<f[q].vals[i][2]>> ELSE <<>>])
                   ELSE FlattenSeq([i \in DOMAIN f[q].kids |-> g[f[q].kids[i]]]), q)
           R(m) == Nodes(f) \cap (1..m)
           S == {m \in 0..Len(f) : \E g : g = [q \in R(m) |-> B(g, q)]}
<1>0. Len(f) \in Nat /\ \A q \in Nodes(f) : q \in 1..Len(f)
  BY NodesIs DEF TreesOK
<1>1. 0 \in S
  <2> DEFINE g == [q \in R(0) |-> 0]
  <2>1. R(0) = {}
    OBVIOUS
  <2> HIDE DEF B
  <2>2. g = [q \in R(0) |-> B(g, q)]
    BY <2>1
  <2> HIDE DEF g, R
  <2>3. \E gg : gg = [q \in R(0) |-> B(gg, q)]
    BY <2>2
  <2> QED
    BY <2>3, <1>0
<1>2. ASSUME NEW m \in 0..Len(f), m < Len(f), m \in S PROVE m + 1 \in S
  <2>1. PICK g : g = [q \in R(m) |-> B(g, q)]
    BY <1>2
  <2> DEFINE h == [q \in R(m + 1) |-> IF q <= m THEN g[q] ELSE B(g, q)]
  <2>2. \A q \in Nodes(f) : q <= m => q \in R(m) /\ q \in R(m + 1)
    BY <1>0
  <2>3. ASSUME NEW q \in Nodes(f), q <= m PROVE h[q] = g[q]
    <3> HIDE DEF B, R
    <3> QED
      BY <2>2, <2>3
  <2>4. ASSUME NEW q \in R(m + 1) PROVE B(h, q) = B(g, q)
    <3>1. q \in Nodes(f) /\ q <= m + 1
      BY <1>0
    <3> HIDE DEF h, B, R
    <3>2. CASE f[q].kind = "leaf"
      BY <3>2 DEF B
    <3>3. CASE f[q].kind # "leaf"
      <4>1. \A i \in DOMAIN f[q].kids : f[q].kids[i] \in Nodes(f) /\ f[q].kids[i] <= m
        BY <3>1, <3>3, KidsBelow
      <4>2. \A i \in DOMAIN f[q].kids : h[f[q].kids[i]] = g[f[q].kids[i]]
        BY <4>1, <2>3
      <4> QED
        BY <4>2 DEF B
    <3> QED
      BY <3>2, <3>3
  <2>5. ASSUME NEW q \in R(m + 1) PROVE h[q] = B(h, q)
    <3>1. CASE q <= m
      <4>1. q \in Nodes(f) /\ q \in R(m)
        BY <3>1, <2>2
      <4> HIDE DEF h, B, R
      <4>2. g[q] = B(g, q)
        BY <4>1, <2>1
      <4> QED
        BY <4>1, <4>2, <3>1, <2>3, <2>4
    <3>2. CASE ~ (q <= m)
      <4> HIDE DEF B, R
      <4>1. h[q] = B(g, q)
        BY <3>2
      <4> HIDE DEF h
      <4> QED
        BY <4>1, <2>4
    <3> HIDE DEF h, B, R, S
    <3> QED
      BY <3>1, <3>2
  <2>6. h = [q \in R(m + 1) |-> B(h, q)]
    <3> HIDE DEF B, R
    <3>1. h = [q \in R(m + 1) |-> h[q]]
      OBVIOUS
    <3> HIDE DEF h
    <3> QED
      BY <3>1, <2>5
  <2>7. m + 1 \in 0..Len(f)
    <3> HIDE DEF h, B, R, S
    <3> QED
      BY <1>0, <1>2
  <2> HIDE DEF h, B, R
  <2> QED
    BY <2>6, <2>7
<1> HIDE DEF S
<1>3. Len(f) \in S
  <2>1. \A i \in 0..Len(f) : i < Len(f) /\ i \in S => i + 1 \in S
    BY <1>2
  <2>2. \A i \in 0..Len(f) : i \in S
    BY <1>0, <1>1, <2>1, UpTo
  <2> QED
    BY <2>2, <1>0
<1>4. R(Len(f)) = Nodes(f)
  BY <1>0
<1> HIDE DEF R
<1>5. PICK g : g = [q \in Nodes(f) |-> B(g, q)]
  <2> HIDE DEF B
  <2>1. \E gg : gg = [q \in R(Len(f)) |-> B(gg, q)]
    BY <1>3 DEF S
  <2> QED
    BY <2>1, <1>4
<1> DEFINE c == CHOOSE gg : gg = [q \in Nodes(f) |-> B(gg, q)]
<1>6. c = [q \in Nodes(f) |-> B(c, q)]
  <2> HIDE DEF B
  <2> QED
    BY <1>5
<1>7. \A q : Listed(f, q) = c[q]
  BY DEF Listed
<1> HIDE DEF c
<1>8. c[p] = B(c, p)
  <2> HIDE DEF B
  <2> QED
    BY <1>6
<1> QED
  BY <1>7, <1>8

-----------------------------------------------------------------------------
(* The records of one tree.                                                *)

TargetsIn(n, T) ==
  /\ n.kind = "leaf" => \A i \in 1..Len(n.vals) : n.vals[i][1] = "at" => n.vals[i][2] \in T
  /\ n.kind = "node" => \A i \in 1..Len(n.kids) : n.kids[i] \in T

\* Records of f, each after what it points at.
Closed(f, ls) ==
  /\ ls \in Seq(1..Len(f))
  /\ \A i \in 1..Len(ls) : /\ f[ls[i]].kind # "meta"
                           /\ TargetsIn(f[ls[i]], {ls[j] : j \in 1..(i - 1)})

LEMMA TargetsGrow ==
  ASSUME NEW n, NEW S, NEW T, TargetsIn(n, S), S \subseteq T
  PROVE  TargetsIn(n, T)
BY DEF TargetsIn

LEMMA ClosedWhen ==
  ASSUME NEW f, NEW c \in Seq(1..Len(f)), NEW n \in Nat, Len(c) = n,
         \A i \in 1..n : f[c[i]].kind # "meta" /\ TargetsIn(f[c[i]], {c[j] : j \in 1..(i - 1)})
  PROVE  Closed(f, c)
BY DEF Closed

LEMMA ConcatClosed ==
  ASSUME NEW f \in Seq(Records), NEW a, NEW b, Closed(f, a), Closed(f, b)
  PROVE  Closed(f, a \o b)
<1>1. a \in Seq(1..Len(f)) /\ b \in Seq(1..Len(f))
  BY DEF Closed
<1>2. PICK A \in Nat, B \in Nat : A = Len(a) /\ B = Len(b)
  BY <1>1
<1>3. PICK c : c = a \o b
  OBVIOUS
<1>4. /\ c \in Seq(1..Len(f)) /\ Len(c) = A + B
      /\ \A i \in 1..A : c[i] = a[i]
      /\ \A i \in 1..B : c[A + i] = b[i]
  BY <1>1, <1>2, <1>3, ConcatIs
<1>5. ASSUME NEW i \in 1..(A + B)
      PROVE  f[c[i]].kind # "meta" /\ TargetsIn(f[c[i]], {c[j] : j \in 1..(i - 1)})
  <2>1. CASE i <= A
    <3>1. i \in 1..A /\ \A j \in 1..(i - 1) : j \in 1..A
      BY <2>1, <1>5
    <3>2. f[a[i]].kind # "meta" /\ TargetsIn(f[a[i]], {a[j] : j \in 1..(i - 1)})
      BY <3>1, <1>2 DEF Closed
    <3>3. {a[j] : j \in 1..(i - 1)} \subseteq {c[j] : j \in 1..(i - 1)}
      BY <3>1, <1>4
    <3> QED
      BY <3>1, <3>2, <3>3, <1>4, TargetsGrow
  <2>2. CASE ~ (i <= A)
    <3>1. PICK m \in 1..B : i = A + m
      <4>1. i - A \in 1..B /\ i = A + (i - A)
        BY <2>2, <1>5
      <4> QED
        BY <4>1
    <3>2. \A j \in 1..(m - 1) : j \in 1..B /\ A + j \in 1..(i - 1)
      BY <3>1
    <3>3. f[b[m]].kind # "meta" /\ TargetsIn(f[b[m]], {b[j] : j \in 1..(m - 1)})
      BY <1>2 DEF Closed
    <3>4. {b[j] : j \in 1..(m - 1)} \subseteq {c[j] : j \in 1..(i - 1)}
      <4> SUFFICES ASSUME NEW j \in 1..(m - 1) PROVE b[j] \in {c[l] : l \in 1..(i - 1)}
        OBVIOUS
      <4>1. b[j] = c[A + j] /\ A + j \in 1..(i - 1)
        BY <3>2, <1>4
      <4> QED
        BY <4>1
    <3>5. c[i] = b[m]
      BY <3>1, <1>4
    <3> QED
      BY <3>3, <3>4, <3>5, TargetsGrow
  <2> QED
    BY <2>1, <2>2
<1>6. A + B \in Nat /\ c \in Seq(1..Len(f)) /\ Len(c) = A + B
  BY <1>4
<1>7. Closed(f, c)
  BY <1>5, <1>6, ClosedWhen
<1> QED
  BY <1>3, <1>7

Holds(x, ss, m) == \A i \in 1..m : \A a \in 1..Len(ss[i]) : \E j \in 1..Len(x) : x[j] = ss[i][a]

ClosedRows(f, ss, n) ==
  n \in Nat /\ ss = [i \in 1..n |-> ss[i]] /\ \A i \in 1..n : Closed(f, ss[i])

LEMMA FlattenClosed ==
  ASSUME NEW f \in Seq(Records), NEW ss, NEW n, ClosedRows(f, ss, n)
  PROVE  Closed(f, FlattenSeq(ss)) /\ Holds(FlattenSeq(ss), ss, n)
<1> DEFINE T == 1..Len(f)
<1>1. n \in Nat /\ ss = [i \in 1..n |-> ss[i]] /\ \A i \in 1..n : Closed(f, ss[i]) /\ ss[i] \in Seq(T)
  BY DEF ClosedRows, Closed
<1> HIDE DEF T
<1>2. ss \in Seq(Seq(T)) /\ Len(ss) = n
  BY <1>1
<1>3. CASE n = 0
  <2>1. FlattenSeq(ss) = ss /\ ss = <<>>
    BY <1>2, <1>3 DEF FlattenSeq
  <2>2. <<>> \in Seq(1..Len(f)) /\ Len(<<>>) = 0
    OBVIOUS
  <2>3. Closed(f, <<>>)
    BY <2>2 DEF Closed
  <2> QED
    BY <2>1, <2>3, <1>3 DEF Holds
<1>4. CASE n # 0
  <2> DEFINE I == [m \in 1..n |-> {x \in Seq(T) : Closed(f, x) /\ Holds(x, ss, m)}]
  <2>1. n >= 1 /\ 1 \in 1..n
    BY <1>1, <1>4
  <2>2. ss[1] \in I[1]
    <3>1. Holds(ss[1], ss, 1)
      BY DEF Holds
    <3> QED
      BY <3>1, <2>1, <1>1
  <2>3. ASSUME NEW i \in 1..n, NEW x \in Seq(T), i < n, x \in I[i] PROVE x \o ss[i + 1] \in I[i + 1]
    <3>1. i + 1 \in 1..n
      BY <2>3, <1>1
    <3>2. PICK b \in Seq(T) : b = ss[i + 1] /\ Closed(f, b)
      BY <3>1, <1>1
    <3>3. Closed(f, x) /\ Holds(x, ss, i)
      BY <2>3
    <3>4. Closed(f, x \o b)
      BY <3>2, <3>3, ConcatClosed
    <3>5. /\ x \o b \in Seq(T) /\ Len(x \o b) = Len(x) + Len(b) /\ Len(x) \in Nat /\ Len(b) \in Nat
          /\ \A j \in 1..Len(x) : (x \o b)[j] = x[j]
          /\ \A j \in 1..Len(b) : (x \o b)[Len(x) + j] = b[j]
      BY ConcatIs
    <3>6. ASSUME NEW j \in 1..(i + 1), NEW a \in 1..Len(ss[j]) PROVE \E l \in 1..Len(x \o b) : (x \o b)[l] = ss[j][a]
      <4>1. CASE j = i + 1
        <5>1. a \in 1..Len(b) /\ Len(x) + a \in 1..Len(x \o b)
          BY <4>1, <3>2, <3>5
        <5> QED
          BY <5>1, <4>1, <3>2, <3>5
      <4>2. CASE j # i + 1
        <5>1. j \in 1..i
          BY <4>2
        <5>2. PICK l \in 1..Len(x) : x[l] = ss[j][a]
          BY <5>1, <3>3 DEF Holds
        <5>3. l \in 1..Len(x \o b)
          BY <3>5
        <5> QED
          BY <5>2, <5>3, <3>5
      <4> QED
        BY <4>1, <4>2
    <3>7. Holds(x \o b, ss, i + 1)
      BY <3>6 DEF Holds
    <3> QED
      BY <3>1, <3>2, <3>4, <3>5, <3>7
  <2>4. FlattenSeq(ss) \in I[n]
    <3> HIDE DEF I
    <3> QED
      BY <1>1, <1>2, <2>1, <2>2, <2>3, FlattenReach
  <2>5. n \in 1..n
    <3> HIDE DEF I
    <3> QED
      BY <1>1, <2>1
  <2> QED
    BY <2>4, <2>5
<1> QED
  BY <1>3, <1>4

\* The records below p, with p at the end.
Below(f, p, ls) == Closed(f, ls) /\ Len(ls) \in Nat /\ Len(ls) >= 1 /\ ls[Len(ls)] = p

LEMMA AppendClosed ==
  ASSUME NEW f \in Seq(Records), NEW a, Closed(f, a), NEW p \in Nodes(f), TargetsIn(f[p], {a[j] : j \in 1..Len(a)})
  PROVE  Below(f, p, Append(a, p))
<1>1. a \in Seq(1..Len(f)) /\ p \in 1..Len(f) /\ f[p].kind # "meta"
  BY NodesIs DEF Closed, Nodes
<1>2. PICK A \in Nat : A = Len(a)
  BY <1>1
<1>3. PICK c : c = Append(a, p)
  OBVIOUS
<1>4. c \in Seq(1..Len(f)) /\ Len(c) = A + 1 /\ c[A + 1] = p /\ \A i \in 1..A : c[i] = a[i]
  BY <1>1, <1>2, <1>3, AppendIs
<1>5. ASSUME NEW i \in 1..(A + 1)
      PROVE  f[c[i]].kind # "meta" /\ TargetsIn(f[c[i]], {c[j] : j \in 1..(i - 1)})
  <2>1. CASE i <= A
    <3>1. i \in 1..A /\ \A j \in 1..(i - 1) : j \in 1..A
      BY <2>1, <1>5
    <3>2. f[a[i]].kind # "meta" /\ TargetsIn(f[a[i]], {a[j] : j \in 1..(i - 1)})
      BY <3>1, <1>2 DEF Closed
    <3>3. {a[j] : j \in 1..(i - 1)} \subseteq {c[j] : j \in 1..(i - 1)}
      BY <3>1, <1>4
    <3> QED
      BY <3>1, <3>2, <3>3, <1>4, TargetsGrow
  <2>2. CASE ~ (i <= A)
    <3>1. i = A + 1 /\ i - 1 = A
      BY <2>2
    <3>2. {a[j] : j \in 1..Len(a)} \subseteq {c[j] : j \in 1..(i - 1)}
      BY <3>1, <1>2, <1>4
    <3> QED
      BY <3>1, <3>2, <1>1, <1>4, TargetsGrow
  <2> QED
    BY <2>1, <2>2
<1>6. Len(c) \in Nat /\ Len(c) >= 1 /\ c[Len(c)] = p
  BY <1>4
<1>7. A + 1 \in Nat /\ c \in Seq(1..Len(f)) /\ Len(c) = A + 1
  BY <1>4
<1>8. Closed(f, c)
  BY <1>5, <1>7, ClosedWhen
<1> QED
  BY <1>3, <1>6, <1>8 DEF Below

\* The records that are listed below a node are closed under what they point at.
LEMMA ListedBelow ==
  ASSUME NEW f, NEW w, NEW loaded, TreesOK(f, w, loaded)
  PROVE  \A p \in Nodes(f) : Below(f, p, Listed(f, p))
<1> DEFINE G == {p \in Nodes(f) : Below(f, p, Listed(f, p))}
<1>0. f \in Seq(Records)
  BY DEF TreesOK
<1>1. ASSUME NEW p \in Nodes(f), f[p].kind # "leaf" => \A i \in 1..Len(f[p].kids) : f[p].kids[i] \in G
      PROVE  p \in G
  <2>0. Listed(f, p) =
          Append(IF f[p].kind = "leaf"
                 THEN FlattenSeq([i \in DOMAIN f[p].vals |->
                        IF f[p].vals[i][1] = "at" THEN <<f[p].vals[i][2]>> ELSE <<>>])
                 ELSE FlattenSeq([i \in DOMAIN f[p].kids |-> Listed(f, f[p].kids[i])]), p)
    BY ListedIs
  <2>1. CASE f[p].kind = "leaf"
    <3>1. LeafOK(f, f[p]) /\ f[p].vals \in Seq(Refs)
      BY <2>1, LeafFacts, RecordKinds DEF LeafOK
    <3>2. PICK n \in Nat : n = Len(f[p].vals) /\ DOMAIN f[p].vals = 1..n
      BY <3>1
    <3>3. PICK vs : vs = f[p].vals
      OBVIOUS
    <3> DEFINE ss == [i \in 1..n |-> IF vs[i][1] = "at" THEN <<vs[i][2]>> ELSE <<>>]
    <3>4. ASSUME NEW i \in 1..n, vs[i][1] = "at" PROVE Closed(f, <<vs[i][2]>>)
      <4>1. PICK t \in 1..Len(f) : t = vs[i][2] /\ f[t] \in ValueRecords
        BY <3>1, <3>2, <3>3, <3>4 DEF LeafOK
      <4>2. <<t>> \in Seq(1..Len(f)) /\ Len(<<t>>) = 1 /\ <<t>>[1] = t
        BY OneIs
      <4>3. f[t].kind = "value"
        BY <4>1, RecordKinds
      <4>4. \A j \in 1..1 : f[<<t>>[j]].kind # "meta" /\ \A T : TargetsIn(f[<<t>>[j]], T)
        BY <4>2, <4>3 DEF TargetsIn
      <4> QED
        BY <4>1, <4>2, <4>4 DEF Closed
    <3>5. Closed(f, <<>>)
      <4>1. <<>> \in Seq(1..Len(f)) /\ Len(<<>>) = 0
        OBVIOUS
      <4> QED
        BY <4>1 DEF Closed
    <3>6. \A i \in 1..n : Closed(f, ss[i])
      BY <3>4, <3>5
    <3>7. ss = [i \in 1..n |-> ss[i]]
      OBVIOUS
    <3>8. ClosedRows(f, ss, n)
      <4> HIDE DEF ss
      <4> QED
        BY <3>6, <3>7 DEF ClosedRows
    <3>9. PICK a : a = FlattenSeq(ss)
      OBVIOUS
    <3>10. Closed(f, a) /\ Holds(a, ss, n)
      <4> HIDE DEF ss
      <4> QED
        BY <1>0, <3>8, <3>9, FlattenClosed
    <3>11. ASSUME NEW i \in 1..n, vs[i][1] = "at" PROVE vs[i][2] \in {a[j] : j \in 1..Len(a)}
      <4>1. ss[i] = <<vs[i][2]>>
        BY <3>11
      <4>2. Len(ss[i]) = 1 /\ ss[i][1] = vs[i][2]
        BY <4>1
      <4> HIDE DEF ss
      <4>3. PICK j \in 1..Len(a) : a[j] = ss[i][1]
        BY <4>2, <3>10 DEF Holds
      <4> QED
        BY <4>2, <4>3
    <3>12. TargetsIn(f[p], {a[j] : j \in 1..Len(a)})
      BY <3>11, <3>2, <3>3, <2>1 DEF TargetsIn
    <3>13. Listed(f, p) = Append(a, p)
      BY <2>0, <2>1, <3>2, <3>3, <3>9
    <3> HIDE DEF ss
    <3> QED
      BY <1>0, <3>10, <3>12, <3>13, AppendClosed
  <2>2. CASE f[p].kind # "leaf"
    <3>1. PICK n \in Nat : HasKids(f, w, p, n)
      BY <2>2, KidsAre
    <3>2. DOMAIN f[p].kids = 1..n /\ Len(f[p].kids) = n /\ f[p].kind = "node"
      BY <3>1 DEF HasKids
    <3> DEFINE ss == [i \in 1..n |-> Listed(f, f[p].kids[i])]
    <3>6. \A i \in 1..n : Below(f, f[p].kids[i], ss[i])
      BY <1>1, <2>2, <3>2
    <3>7. ss = [i \in 1..n |-> ss[i]]
      OBVIOUS
    <3>9. PICK a : a = FlattenSeq(ss)
      OBVIOUS
    <3>13. Listed(f, p) = Append(a, p)
      BY <2>0, <2>2, <3>2, <3>9
    <3> HIDE DEF ss
    <3>8. ClosedRows(f, ss, n)
      BY <3>6, <3>7 DEF ClosedRows, Below
    <3>10. Closed(f, a) /\ Holds(a, ss, n)
      BY <1>0, <3>8, <3>9, FlattenClosed
    <3>11. ASSUME NEW i \in 1..n PROVE f[p].kids[i] \in {a[j] : j \in 1..Len(a)}
      <4>1. PICK m \in Nat : m = Len(ss[i]) /\ m \in 1..m /\ ss[i][m] = f[p].kids[i]
        BY <3>6 DEF Below
      <4>2. PICK j \in 1..Len(a) : a[j] = ss[i][m]
        BY <4>1, <3>10 DEF Holds
      <4> QED
        BY <4>1, <4>2
    <3>12. TargetsIn(f[p], {a[j] : j \in 1..Len(a)})
      BY <3>11, <3>2 DEF TargetsIn
    <3> QED
      BY <1>0, <3>10, <3>12, <3>13, AppendClosed
  <2> QED
    BY <2>1, <2>2
<1> HIDE DEF G
<1>2. \A p \in Nodes(f) : p \in G
  BY <1>1, NodesUpward
<1> QED
  BY <1>2 DEF G

-----------------------------------------------------------------------------
(* A file of the records of one tree.                                      *)

Place(ps, q) == SelectInSeq(ps, LAMBDA x : x = q)

MovedRef(ps, r) == IF r[1] = "at" THEN <<"at", Place(ps, r[2])>> ELSE r

MovedNode(ps, n) ==
  CASE n.kind = "leaf" -> Leaf(n.keys, [i \in DOMAIN n.vals |-> MovedRef(ps, n.vals[i])])
    [] n.kind = "node" -> Node(n.keys, [i \in DOMAIN n.kids |-> Place(ps, n.kids[i])])
    [] OTHER           -> n

LEMMA KeptIs ==
  ASSUME NEW f, NEW p
  PROVE  Kept(f, p) = [i \in DOMAIN Listed(f, p) |-> MovedNode(Listed(f, p), f[Listed(f, p)[i]])]
BY DEF Kept, MovedNode, MovedRef, Place

LEMMA PlaceIs ==
  ASSUME NEW f, NEW ps \in Seq(1..Len(f)), NEW i \in 1..Len(ps), NEW q, q \in {ps[j] : j \in 1..(i - 1)}
  PROVE  /\ Place(ps, q) \in 1..Len(ps) /\ Place(ps, q) \in 1..(i - 1) /\ Place(ps, q) < i /\ Place(ps, q) \in Nat
         /\ ps[Place(ps, q)] = q
<1> DEFINE I == {j \in 1..Len(ps) : ps[j] = q}
<1>1. PICK j \in 1..(i - 1) : ps[j] = q
  OBVIOUS
<1>2. Len(ps) \in Nat
  OBVIOUS
<1>3. j \in 1..Len(ps) /\ j < i
  BY <1>1, <1>2
<1>4. j \in I /\ I \in SUBSET Nat
  BY <1>1, <1>3
<1>5. Place(ps, q) = Min(I)
  BY <1>4 DEF Place, SelectInSeq
<1>6. \A x \in I : x \in 1..Len(ps) /\ ps[x] = q
  OBVIOUS
<1> HIDE DEF I
<1>7. Min(I) \in I /\ Min(I) <= j
  BY <1>4, MinOfNats
<1>8. Min(I) \in 1..Len(ps) /\ ps[Min(I)] = q
  BY <1>6, <1>7
<1> QED
  BY <1>2, <1>3, <1>5, <1>7, <1>8

\* g has the records of f that ps lists, with the summaries u.
Moves(f, w, loaded, ps, N, g, u) ==
  /\ TreesOK(f, w, loaded) /\ Closed(f, ps) /\ N \in Nat /\ N = Len(ps)
  /\ g = [i \in 1..N |-> MovedNode(ps, f[ps[i]])]
  /\ u = [i \in Nodes(g) |-> w[ps[i]]]

MovedAs(f, w, ps, g, u, i) ==
  /\ f \in Seq(Records) /\ ps \in Seq(1..Len(f)) /\ ps[i] \in 1..Len(f) /\ f[ps[i]] \in Records /\ f[ps[i]].kind # "meta"
  /\ TargetsIn(f[ps[i]], {ps[j] : j \in 1..(i - 1)})
  /\ g[i] = MovedNode(ps, f[ps[i]]) /\ g[i].kind = f[ps[i]].kind
  /\ (g[i].kind \in {"leaf", "node"} => g[i].keys = f[ps[i]].keys)
  /\ (f[ps[i]].kind \in {"leaf", "node"} => ps[i] \in Nodes(f) /\ i \in Nodes(g) /\ u[i] = w[ps[i]])

LEMMA MovedFacts ==
  ASSUME NEW f, NEW w, NEW loaded, NEW ps, NEW N, NEW g, NEW u, Moves(f, w, loaded, ps, N, g, u),
         NEW i \in 1..N
  PROVE  MovedAs(f, w, ps, g, u, i)
<1>1. f \in Seq(Records) /\ ps \in Seq(1..Len(f)) /\ N = Len(ps) /\ N \in Nat
  BY DEF Moves, TreesOK, Closed
<1>2. PICK q : q = ps[i]
  OBVIOUS
<1>3. q \in 1..Len(f) /\ f[q] \in Records
  BY <1>1, <1>2
<1>4. f[q].kind # "meta" /\ TargetsIn(f[ps[i]], {ps[j] : j \in 1..(i - 1)})
  BY <1>1, <1>2 DEF Moves, Closed
<1>5. g[i] = MovedNode(ps, f[q])
  BY <1>2 DEF Moves
<1>6. g[i].kind = f[q].kind /\ (g[i].kind \in {"leaf", "node"} => g[i].keys = f[q].keys)
  <2>1. CASE f[q].kind = "leaf"
    BY <2>1, <1>5 DEF MovedNode, Leaf
  <2>2. CASE f[q].kind = "node"
    BY <2>2, <1>5 DEF MovedNode, Node
  <2>3. CASE f[q].kind \notin {"leaf", "node"}
    <3>1. g[i] = f[q]
      BY <2>3, <1>5 DEF MovedNode
    <3> QED
      BY <3>1
  <2> QED
    BY <2>1, <2>2, <2>3
<1>7. ASSUME f[q].kind \in {"leaf", "node"} PROVE q \in Nodes(f) /\ i \in Nodes(g) /\ u[i] = w[q]
  <2>1. DOMAIN g = 1..N
    BY DEF Moves
  <2>2. i \in Nodes(g)
    BY <2>1, <1>6, <1>7 DEF Nodes
  <2>3. q \in Nodes(f)
    BY <1>1, <1>3, <1>7, NodesIs
  <2> QED
    BY <2>2, <2>3, <1>2 DEF Moves
<1> QED
  BY <1>1, <1>2, <1>3, <1>4, <1>5, <1>6, <1>7 DEF MovedAs

LEMMA LeafMoved ==
  ASSUME NEW f, NEW w, NEW loaded, NEW ps, NEW N, NEW g, NEW u, Moves(f, w, loaded, ps, N, g, u),
         NEW i \in 1..N, f[ps[i]].kind = "leaf"
  PROVE  /\ LeafOK(g, g[i]) /\ g[i].kind = "leaf" /\ g[i] \in LeafRecords /\ Summary(g, u, g[i]) = w[ps[i]]
         /\ Before(g[i], i)
<1>1. /\ f \in Seq(Records) /\ ps \in Seq(1..Len(f)) /\ TargetsIn(f[ps[i]], {ps[j] : j \in 1..(i - 1)})
      /\ g[i] = MovedNode(ps, f[ps[i]]) /\ ps[i] \in Nodes(f)
  <2>1. MovedAs(f, w, ps, g, u, i)
    BY MovedFacts
  <2> QED
    BY <2>1 DEF MovedAs
<1>2. N = Len(ps) /\ TreesOK(f, w, loaded)
  BY DEF Moves
<1>3. PICK n : n = f[ps[i]]
  OBVIOUS
<1>4. LeafOK(f, n) /\ w[ps[i]] = LeafSummary(f, n)
  BY <1>1, <1>2, <1>3, LeafFacts
<1>5. n.keys \in Seq(Keys) /\ n.vals \in Seq(Refs) /\ Len(n.vals) = Len(n.keys) /\ Ascends(n.keys)
  BY <1>4, RecordKinds DEF LeafOK
<1>6. PICK L \in Nat : L = Len(n.keys) /\ DOMAIN n.vals = 1..L
  BY <1>5
<1>7. PICK vs : vs = [j \in 1..L |-> MovedRef(ps, n.vals[j])]
  OBVIOUS
<1>8. g[i] = Leaf(n.keys, vs)
  BY <1>1, <1>3, <1>6, <1>7 DEF MovedNode
<1>9. ASSUME NEW j \in 1..L
      PROVE  /\ vs[j] \in Refs /\ ResolveValue(g, vs[j]) = ResolveValue(f, n.vals[j])
             /\ vs[j][1] = "at" => vs[j][2] \in 1..N /\ vs[j][2] < i /\ g[vs[j][2]] \in ValueRecords
  <2>1. n.vals[j] \in Refs /\ vs[j] = MovedRef(ps, n.vals[j])
    BY <1>5, <1>6, <1>7
  <2>2. CASE n.vals[j][1] = "at"
    <3>1. PICK q : q = n.vals[j][2]
      OBVIOUS
    <3>2. q \in {ps[l] : l \in 1..(i - 1)}
      BY <1>1, <1>3, <1>5, <1>6, <2>2, <3>1 DEF TargetsIn
    <3>3. PICK m : m = Place(ps, q)
      OBVIOUS
    <3>4. m \in 1..N /\ m < i /\ m \in Nat /\ ps[m] = q
      BY <1>1, <1>2, <3>2, <3>3, PlaceIs
    <3>5. vs[j] = <<"at", m>>
      BY <2>1, <2>2, <3>1, <3>3 DEF MovedRef
    <3>6. f[q] \in ValueRecords
      BY <1>4, <1>5, <1>6, <2>2, <3>1 DEF LeafOK
    <3>7. g[m] = MovedNode(ps, f[q]) /\ f[q].kind = "value"
      <4>1. MovedAs(f, w, ps, g, u, m)
        BY <3>4, MovedFacts
      <4>2. g[m] = MovedNode(ps, f[ps[m]])
        BY <4>1 DEF MovedAs
      <4> QED
        BY <4>2, <3>4, <3>6, RecordKinds
    <3>8. g[m] = f[q]
      BY <3>7 DEF MovedNode
    <3>9. vs[j] \in Refs /\ vs[j][1] = "at" /\ vs[j][2] = m
      BY <3>4, <3>5 DEF Refs
    <3>10. ResolveValue(g, vs[j]) = g[m].val /\ ResolveValue(f, n.vals[j]) = f[q].val
      BY <2>2, <3>1, <3>9 DEF ResolveValue
    <3> QED
      BY <3>4, <3>6, <3>8, <3>9, <3>10
  <2>3. CASE n.vals[j][1] # "at"
    <3>1. vs[j] = n.vals[j]
      BY <2>1, <2>3 DEF MovedRef
    <3> QED
      BY <2>1, <2>3, <3>1 DEF ResolveValue
  <2> QED
    BY <2>2, <2>3
<1>10. vs \in Seq(Refs) /\ Len(vs) = L
  <2>1. vs = [j \in 1..L |-> vs[j]] /\ \A j \in 1..L : vs[j] \in Refs
    BY <1>7, <1>9
  <2> HIDE DEF Refs
  <2>2. vs \in [1..L -> Refs]
    BY <2>1
  <2> QED
    BY <2>2
<1>11. g[i] \in LeafRecords /\ g[i].keys = n.keys /\ g[i].vals = vs /\ g[i].kind = "leaf"
  BY <1>5, <1>8, <1>10 DEF Leaf, LeafRecords
<1>12. Len(g) = N
  BY DEF Moves
<1>13. LeafOK(g, g[i])
  BY <1>5, <1>6, <1>9, <1>10, <1>11, <1>12 DEF LeafOK
<1>14. Summary(g, u, g[i]) = w[ps[i]]
  <2>1. \A j \in 1..L : ResolveValue(g, vs[j]) = ResolveValue(f, n.vals[j])
    BY <1>9
  <2>2. {<<n.keys[j], ResolveValue(g, vs[j])>> : j \in 1..L} = {<<n.keys[j], ResolveValue(f, n.vals[j])>> : j \in 1..L}
    BY <2>1
  <2>3. Summary(g, u, g[i]) = LeafSummary(g, g[i])
    BY <1>11 DEF Summary
  <2> QED
    BY <2>2, <2>3, <1>4, <1>6, <1>11 DEF LeafSummary
<1>15. Before(g[i], i)
  BY <1>9, <1>10, <1>11 DEF Before
<1> QED
  BY <1>11, <1>13, <1>14, <1>15

LEMMA NodeMoved ==
  ASSUME NEW f, NEW w, NEW loaded, NEW ps, NEW N, NEW g, NEW u, Moves(f, w, loaded, ps, N, g, u),
         NEW i \in 1..N, f[ps[i]].kind = "node"
  PROVE  /\ NodeOK(g, u, g[i]) /\ g[i].kind = "node" /\ g[i] \in NodeRecords /\ Summary(g, u, g[i]) = w[ps[i]]
         /\ Before(g[i], i) /\ (KidsFilled(f, f[ps[i]]) => KidsFilled(g, g[i]))
<1>1. /\ f \in Seq(Records) /\ ps \in Seq(1..Len(f)) /\ TargetsIn(f[ps[i]], {ps[j] : j \in 1..(i - 1)})
      /\ g[i] = MovedNode(ps, f[ps[i]]) /\ ps[i] \in Nodes(f)
  <2>1. MovedAs(f, w, ps, g, u, i)
    BY MovedFacts
  <2> QED
    BY <2>1 DEF MovedAs
<1>2. N = Len(ps) /\ TreesOK(f, w, loaded)
  BY DEF Moves
<1>3. PICK n : n = f[ps[i]]
  OBVIOUS
<1>4. NodeOK(f, w, n) /\ w[ps[i]] = NodeSummary(w, n) /\ n.kind = "node"
  <2>1. NodeOK(f, w, n)
    BY <1>1, <1>2, <1>3, KidsBelow
  <2> QED
    BY <2>1, <1>1, <1>2, <1>3 DEF TreesOK, Summary
<1>5. n.keys \in Seq(Keys) /\ n.kids \in Seq(Nat) /\ Len(n.kids) = Len(n.keys) + 1
  BY <1>4, RecordKinds DEF NodeOK
<1>6. PICK K \in Nat : K = Len(n.kids) /\ DOMAIN n.kids = 1..K
  BY <1>5
<1>7. PICK ks : ks = [j \in 1..K |-> Place(ps, n.kids[j])]
  OBVIOUS
<1>8. g[i] = Node(n.keys, ks)
  BY <1>1, <1>3, <1>4, <1>6, <1>7 DEF MovedNode
<1>9. ASSUME NEW j \in 1..K
      PROVE  /\ ks[j] \in Nat /\ ks[j] < i /\ ks[j] \in Nodes(g) /\ u[ks[j]] = w[n.kids[j]]
             /\ g[ks[j]].keys = f[n.kids[j]].keys
  <2>1. n.kids[j] \in {ps[l] : l \in 1..(i - 1)}
    BY <1>1, <1>3, <1>4, <1>6 DEF TargetsIn
  <2>2. PICK m : m = Place(ps, n.kids[j])
    OBVIOUS
  <2>3. m \in 1..N /\ m < i /\ m \in Nat /\ ps[m] = n.kids[j]
    BY <1>1, <1>2, <2>1, <2>2, PlaceIs
  <2>4. n.kids[j] \in Nodes(f)
    BY <1>4, <1>6 DEF NodeOK
  <2>5. f[n.kids[j]].kind \in {"leaf", "node"}
    BY <2>4 DEF Nodes
  <2>6. m \in Nodes(g) /\ u[m] = w[n.kids[j]] /\ g[m].keys = f[n.kids[j]].keys
    <3>1. MovedAs(f, w, ps, g, u, m)
      BY <2>3, MovedFacts
    <3>2. PICK q : q = ps[m]
      OBVIOUS
    <3>3. /\ g[m].kind = f[q].kind /\ (g[m].kind \in {"leaf", "node"} => g[m].keys = f[q].keys)
          /\ (f[q].kind \in {"leaf", "node"} => m \in Nodes(g) /\ u[m] = w[q])
      BY <3>1, <3>2 DEF MovedAs
    <3> QED
      BY <3>2, <3>3, <2>3, <2>5
  <2>7. ks[j] = m
    BY <1>7, <2>2
  <2> QED
    BY <2>3, <2>6, <2>7
<1>10. ks \in Seq(Nat) /\ Len(ks) = K
  <2>1. \A j \in 1..K : ks[j] \in Nat
    BY <1>9
  <2>2. ks \in [1..K -> Nat]
    BY <1>7, <2>1
  <2> QED
    BY <2>2
<1>11. g[i] \in NodeRecords /\ g[i].keys = n.keys /\ g[i].kids = ks /\ g[i].kind = "node"
  BY <1>5, <1>8, <1>10 DEF Node, NodeRecords
<1>12. 1 \in 1..K /\ K \in 1..K /\ \A j \in 1..Len(n.keys) : j \in 1..K
  BY <1>5, <1>6
<1>13. NodeOK(g, u, g[i])
  <2>1. \A j \in 1..K : ks[j] \in Nodes(g) /\ u[ks[j]].h = u[ks[1]].h
    <3>1. \A j \in 1..K : w[n.kids[j]].h = w[n.kids[1]].h
      BY <1>4, <1>6 DEF NodeOK
    <3> QED
      BY <3>1, <1>9, <1>12
  <2>2. \A j \in 1..Len(n.keys) : u[ks[j]].solid
    <3>1. \A j \in 1..Len(n.keys) : w[n.kids[j]].solid
      BY <1>4 DEF NodeOK
    <3> QED
      BY <3>1, <1>9, <1>12
  <2>3. \A a \in 1..K, j \in 1..Len(n.keys) : \A k \in u[ks[a]].ks : IF j < a THEN n.keys[j] <= k ELSE k < n.keys[j]
    <3>1. \A a \in 1..K, j \in 1..Len(n.keys) : \A k \in w[n.kids[a]].ks : IF j < a THEN n.keys[j] <= k ELSE k < n.keys[j]
      BY <1>4, <1>6 DEF NodeOK
    <3> QED
      BY <3>1, <1>9
  <2>4. Ascends(n.keys)
    BY <1>4 DEF NodeOK
  <2> QED
    BY <2>1, <2>2, <2>3, <2>4, <1>5, <1>6, <1>10, <1>11 DEF NodeOK
<1>14. Summary(g, u, g[i]) = w[ps[i]]
  <2>1. \A j \in 1..K : u[ks[j]] = w[n.kids[j]]
    BY <1>9
  <2>2. {u[ks[j]].e : j \in 1..K} = {w[n.kids[j]].e : j \in 1..K}
    BY <2>1
  <2>3. {u[ks[j]].ks : j \in 1..K} = {w[n.kids[j]].ks : j \in 1..K}
    BY <2>1
  <2>4. Summary(g, u, g[i]) = NodeSummary(u, g[i])
    BY <1>11 DEF Summary
  <2>5. u[ks[1]] = w[n.kids[1]] /\ u[ks[K]] = w[n.kids[K]]
    BY <2>1, <1>12
  <2>6. NodeSummary(w, n) =
          [h |-> w[n.kids[1]].h + 1, e |-> UNION {w[n.kids[j]].e : j \in 1..K},
           ks |-> {n.keys[j] : j \in 1..Len(n.keys)} \cup UNION {w[n.kids[j]].ks : j \in 1..K},
           solid |-> Len(n.keys) >= MinKeys /\ w[n.kids[K]].solid]
    BY <1>6 DEF NodeSummary
  <2>7. NodeSummary(u, g[i]) =
          [h |-> u[ks[1]].h + 1, e |-> UNION {u[ks[j]].e : j \in 1..K},
           ks |-> {n.keys[j] : j \in 1..Len(n.keys)} \cup UNION {u[ks[j]].ks : j \in 1..K},
           solid |-> Len(n.keys) >= MinKeys /\ u[ks[K]].solid]
    BY <1>10, <1>11 DEF NodeSummary
  <2> QED
    BY <2>2, <2>3, <2>4, <2>5, <2>6, <2>7, <1>4
<1>15. Before(g[i], i)
  BY <1>9, <1>10, <1>11 DEF Before
<1>16. ASSUME KidsFilled(f, n) PROVE KidsFilled(g, g[i])
  BY <1>16, <1>4, <1>6, <1>9, <1>10, <1>11 DEF KidsFilled
<1> QED
  BY <1>3, <1>11, <1>13, <1>14, <1>15, <1>16

\* Moved together, they are a file whose trees are in order.
LEMMA MovedTrees ==
  ASSUME NEW f, NEW w, NEW loaded, NEW ps, NEW N, NEW g, NEW u, Moves(f, w, loaded, ps, N, g, u)
  PROVE  TreesOK(g, u, loaded) /\ Len(g) = N
<1>1. TreesOK(f, w, loaded) /\ N \in Nat /\ DOMAIN g = 1..N /\ Len(g) = N /\ g = [i \in 1..N |-> g[i]]
  BY DEF Moves
<1>2. ASSUME NEW i \in 1..N PROVE g[i] \in Records
  <2>1. /\ f[ps[i]] \in Records /\ f[ps[i]].kind # "meta" /\ g[i] = MovedNode(ps, f[ps[i]])
    <3>1. MovedAs(f, w, ps, g, u, i)
      BY MovedFacts
    <3> QED
      BY <3>1 DEF MovedAs
  <2>2. CASE f[ps[i]].kind = "leaf"
    BY <2>2, LeafMoved, RecordKinds
  <2>3. CASE f[ps[i]].kind = "node"
    BY <2>3, NodeMoved, RecordKinds
  <2>4. CASE f[ps[i]].kind \notin {"leaf", "node"}
    BY <2>1, <2>4 DEF MovedNode
  <2> QED
    BY <2>2, <2>3, <2>4
<1>3. g \in Seq(Records)
  <2> HIDE DEF Records
  <2>1. g \in [1..N -> Records]
    BY <1>1, <1>2
  <2> QED
    BY <1>1, <2>1
<1>4. ASSUME NEW i \in Nodes(g)
      PROVE  /\ SummaryOK(u[i]) /\ u[i] = Summary(g, u, g[i])
             /\ Fits(g, u, loaded, g[i]) /\ Before(g[i], i)
  <2>1. i \in 1..N /\ g[i].kind \in {"leaf", "node"}
    BY <1>1 DEF Nodes
  <2>2. PICK q : q = ps[i]
    OBVIOUS
  <2>3. q \in Nodes(f) /\ u[i] = w[q] /\ g[i].keys = f[q].keys /\ f[q].kind = g[i].kind
    <3>1. MovedAs(f, w, ps, g, u, i)
      BY <2>1, MovedFacts
    <3> QED
      BY <3>1, <2>1, <2>2 DEF MovedAs
  <2>4. SummaryOK(w[q]) /\ Fits(f, w, loaded, f[q])
    BY <1>1, <2>3 DEF TreesOK
  <2>5. CASE g[i].kind = "leaf"
    <3>1. LeafOK(g, g[i]) /\ Summary(g, u, g[i]) = w[q] /\ Before(g[i], i)
      BY <2>1, <2>2, <2>3, <2>5, LeafMoved
    <3>2. Fits(g, u, loaded, g[i])
      BY <3>1, <2>3, <2>4, <2>5 DEF Fits, RecordOK, Dense, KidsFilled
    <3> QED
      BY <3>1, <3>2, <2>3, <2>4
  <2>6. CASE g[i].kind # "leaf"
    <3>1. NodeOK(g, u, g[i]) /\ Summary(g, u, g[i]) = w[q] /\ Before(g[i], i) /\ (KidsFilled(f, f[q]) => KidsFilled(g, g[i]))
      BY <2>1, <2>2, <2>3, <2>6, NodeMoved
    <3>2. Fits(g, u, loaded, g[i])
      BY <3>1, <2>3, <2>4, <2>6 DEF Fits, RecordOK, Dense
    <3> QED
      BY <3>1, <3>2, <2>3, <2>4
  <2> QED
    BY <2>5, <2>6
<1> QED
  BY <1>1, <1>3, <1>4 DEF TreesOK

NoMeta(f) == \A p \in 1..Len(f) : f[p].kind # "meta"

\* What is kept is a file like f with the same tree at its end.
LEMMA KeptTrees ==
  ASSUME NEW f, NEW w, NEW loaded, TreesOK(f, w, loaded), NEW p \in Nodes(f)
  PROVE  /\ Kept(f, p) \in Seq(Records) /\ Len(Kept(f, p)) \in Nodes(Kept(f, p))
         /\ \E u : TreesOK(Kept(f, p), u, loaded) /\ u[Len(Kept(f, p))] = w[p]
         /\ NoMeta(Kept(f, p))
<1>1. PICK ps : ps = Listed(f, p)
  OBVIOUS
<1>2. Below(f, p, ps)
  BY <1>1, ListedBelow
<1>3. PICK N \in Nat : N = Len(ps) /\ DOMAIN ps = 1..N /\ N \in 1..N /\ ps[N] = p
  BY <1>2 DEF Below, Closed
<1>4. PICK g : g = Kept(f, p)
  OBVIOUS
<1>5. g = [i \in 1..N |-> MovedNode(ps, f[ps[i]])]
  BY <1>1, <1>3, <1>4, KeptIs
<1>6. PICK u : u = [i \in Nodes(g) |-> w[ps[i]]]
  OBVIOUS
<1>7. Moves(f, w, loaded, ps, N, g, u)
  BY <1>2, <1>3, <1>5, <1>6 DEF Moves, Below
<1>8. TreesOK(g, u, loaded) /\ Len(g) = N /\ g \in Seq(Records)
  BY <1>7, MovedTrees DEF TreesOK
<1>9. N \in Nodes(g) /\ u[N] = w[p]
  <2>1. f[p].kind \in {"leaf", "node"}
    BY DEF Nodes
  <2> QED
    <3>1. MovedAs(f, w, ps, g, u, N)
      BY <1>3, <1>7, MovedFacts
    <3> QED
      BY <3>1, <2>1, <1>3 DEF MovedAs
<1>10. NoMeta(g)
  <2> SUFFICES ASSUME NEW i \in 1..N PROVE g[i].kind # "meta"
    BY <1>8 DEF NoMeta
  <2>1. MovedAs(f, w, ps, g, u, i)
    BY <1>7, MovedFacts
  <2> QED
    BY <2>1 DEF MovedAs
<1> QED
  BY <1>4, <1>8, <1>9, <1>10

-----------------------------------------------------------------------------
(* Cursors.                                                                *)

Leaves(f) == {f[p] : p \in {q \in Nodes(f) : f[q].kind = "leaf"}}

Descent(f, d) == d.leaf \in Leaves(f) /\ d.ahead \in Seq(Nodes(f))

LEMMA DescentWhen ==
  ASSUME NEW f, NEW l \in Leaves(f), NEW a \in Seq(Nodes(f))
  PROVE  Descent(f, [leaf |-> l, ahead |-> a])
BY DEF Descent

\* A descent ends at a leaf of the file with nodes of the file ahead.
LEMMA DescentIs ==
  ASSUME NEW f, NEW w, NEW loaded, TreesOK(f, w, loaded), NEW min \in Nat
  PROVE  \A p \in Nodes(f) : Descent(f, CursorDescend(f, p, min))
<1> DEFINE G == {p \in Nodes(f) : Descent(f, CursorDescend(f, p, min))}
<1>1. ASSUME NEW p \in Nodes(f), f[p].kind # "leaf" => \A i \in 1..Len(f[p].kids) : f[p].kids[i] \in G
      PROVE  p \in G
  <2>0. CursorDescend(f, p, min) =
          IF f[p].kind = "leaf" THEN [leaf |-> f[p], ahead |-> <<>>]
          ELSE [leaf  |-> CursorDescend(f, f[p].kids[UpperBound(f[p].keys, min)], min).leaf,
                ahead |-> CursorDescend(f, f[p].kids[UpperBound(f[p].keys, min)], min).ahead
                            \o SubSeq(f[p].kids, UpperBound(f[p].keys, min) + 1, Len(f[p].kids))]
    BY CursorDescendIs
  <2>1. CASE f[p].kind = "leaf"
    <3>1. f[p] \in Leaves(f)
      BY <2>1 DEF Leaves
    <3>2. <<>> \in Seq(Nodes(f))
      OBVIOUS
    <3> QED
      BY <2>0, <2>1, <3>1, <3>2, DescentWhen
  <2>2. CASE f[p].kind # "leaf"
    <3>1. PICK K \in Nat : HasKids(f, w, p, K)
      BY <2>2, KidsAre
    <3>2. PICK i : i = UpperBound(f[p].keys, min)
      OBVIOUS
    <3>3. PICK ks : ks = f[p].kids
      OBVIOUS
    <3>4. DOMAIN ks = 1..K /\ Len(ks) = K /\ \A j \in 1..K : ks[j] \in Nodes(f)
      BY <3>1, <3>3 DEF HasKids
    <3>5. i \in 1..K /\ ks \in Seq(Nat)
      BY <2>2, <3>2, <3>3, <3>4, KidsBelow
    <3>6. ks \in Seq(Nodes(f))
      <4> HIDE DEF Nodes
      <4> QED
        BY <3>4, <3>5
    <3>7. PICK d : d = CursorDescend(f, ks[i], min)
      OBVIOUS
    <3>8. Descent(f, d)
      BY <1>1, <2>2, <3>3, <3>4, <3>5, <3>7
    <3>9. CursorDescend(f, p, min) = [leaf |-> d.leaf, ahead |-> d.ahead \o SubSeq(ks, i + 1, K)]
      BY <2>0, <2>2, <3>2, <3>3, <3>4, <3>7
    <3>10. SubSeq(ks, i + 1, K) \in Seq(Nodes(f))
      <4>1. i + 1 \in 1..(Len(ks) + 1) /\ K \in 0..Len(ks) /\ i + 1 <= K + 1
        BY <3>4, <3>5
      <4> QED
        BY <4>1, <3>6, SubSeqIs
    <3>11. d.ahead \o SubSeq(ks, i + 1, K) \in Seq(Nodes(f))
      BY <3>8, <3>10, ConcatIs DEF Descent
    <3> QED
      BY <3>8, <3>9, <3>11, DescentWhen DEF Descent
  <2> QED
    BY <2>1, <2>2
<1> HIDE DEF G
<1>2. \A p \in Nodes(f) : p \in G
  BY <1>1, NodesUpward
<1> QED
  BY <1>2 DEF G

LEMMA CursorFields ==
  ASSUME NEW f, NEW cur, CursorOK(f, cur)
  PROVE  cur.ahead \in Seq(Nodes(f)) /\ cur = CursorRecord(cur.leaf, cur.pos, cur.ahead, cur.min, cur.max, cur.last)
<1>1. PICK l, p, a, min, max, last : a \in Seq(Nodes(f)) /\ cur = CursorRecord(l, p, a, min, max, last)
  BY DEF CursorOK
<1> QED
  BY <1>1 DEF CursorRecord

LEMMA SkippedOK ==
  ASSUME NEW w, NEW loaded, TreesOK(file, w, loaded), NEW cur, CursorOK(file, cur)
  PROVE  CursorOK(file, Skipped(cur))
<1> DEFINE X == [leaf : {cur.leaf} \cup Leaves(file), pos : {cur.pos, 1}, ahead : Seq(Nodes(file)),
                 min : {cur.min}, max : {cur.max}, last : {cur.last}]
<1>1. cur \in X
  BY CursorFields DEF CursorRecord
<1>2. ASSUME NEW x \in X PROVE Skip(x) \in X
  <2>1. CASE x.pos <= Len(x.leaf.keys) \/ x.ahead = <<>>
    BY <2>1 DEF Skip
  <2>2. CASE ~ (x.pos <= Len(x.leaf.keys) \/ x.ahead = <<>>)
    <3>1. x.ahead \in Seq(Nodes(file)) /\ x.ahead # <<>>
      BY <2>2
    <3>2. Head(x.ahead) \in Nodes(file) /\ Tail(x.ahead) \in Seq(Nodes(file))
      BY <3>1
    <3>3. PICK d : d = CursorDescend(file, Head(x.ahead), 0)
      OBVIOUS
    <3>4. d.leaf \in Leaves(file) /\ d.ahead \in Seq(Nodes(file))
      BY <3>2, <3>3, DescentIs DEF Descent
    <3>5. d.ahead \o Tail(x.ahead) \in Seq(Nodes(file))
      BY <3>2, <3>4, ConcatIs
    <3>6. Skip(x) = [x EXCEPT !.leaf = d.leaf, !.pos = 1, !.ahead = d.ahead \o Tail(x.ahead)]
      BY <2>2, <3>3 DEF Skip
    <3> QED
      BY <3>4, <3>5, <3>6
  <2> QED
    BY <2>1, <2>2
<1>3. cur.ahead \in Seq(Nodes(file))
  BY CursorFields
<1> DEFINE ss == [i \in DOMAIN cur.ahead |-> Listed(file, cur.ahead[i])]
           most == Len(FlattenSeq(ss))
           step == [y \in (1..most) \X X |-> Skip(y[2])]
<1>4. most \in Nat
  <2>1. PICK n \in Nat : n = Len(cur.ahead) /\ DOMAIN cur.ahead = 1..n /\ \A i \in 1..n : cur.ahead[i] \in Nodes(file)
    BY <1>3
  <2>2. \A i \in 1..n : Closed(file, ss[i])
    BY <2>1, ListedBelow DEF Below
  <2>3. ss = [i \in 1..n |-> ss[i]]
    BY <2>1
  <2> HIDE DEF ss
  <2>4. ClosedRows(file, ss, n)
    BY <2>1, <2>2, <2>3 DEF ClosedRows
  <2>5. file \in Seq(Records)
    BY DEF TreesOK
  <2>6. Closed(file, FlattenSeq(ss))
    BY <2>4, <2>5, FlattenClosed
  <2> QED
    BY <2>6 DEF Closed
<1>5. step \in [(1..most) \X X -> X]
  <2> HIDE DEF X, most
  <2> QED
    BY <1>2
<1> DEFINE D(v) == v = [n \in 0..most |-> IF n = 0 THEN cur ELSE Skip(v[n - 1])]
<1>6. \E v : D(v)
  <2> HIDE DEF X, most, step
  <2>1. PICK v \in [0..most -> X] : Recurses(v, cur, most, step)
    BY <1>1, <1>4, <1>5, Recursion
  <2>2. v = [n \in 0..most |-> IF n = 0 THEN cur ELSE step[<<n, v[n - 1]>>]]
    BY <2>1 DEF Recurses
  <2>3. ASSUME NEW n \in 0..most, n # 0 PROVE step[<<n, v[n - 1]>>] = Skip(v[n - 1])
    <3>1. n - 1 \in 0..most /\ n \in 1..most
      BY <1>4, <2>3
    <3>2. v[n - 1] \in X
      BY <3>1
    <3>3. <<n, v[n - 1]>> \in (1..most) \X X
      BY <3>1, <3>2
    <3> QED
      BY <3>3 DEF step
  <2>4. v = [n \in 0..most |-> IF n = 0 THEN cur ELSE Skip(v[n - 1])]
    BY <2>2, <2>3
  <2> QED
    BY <2>4
<1> DEFINE c == CHOOSE v : D(v)
<1>7. D(c)
  <2> HIDE DEF D
  <2> QED
    BY <1>6
<1>8. Skipped(cur) = c[most]
  BY DEF Skipped
<1>9. ASSUME NEW y, D(y) PROVE \A n \in 0..most : y[n] \in X
  <2> HIDE DEF X, most
  <2> DEFINE S == {n \in 0..most : y[n] \in X}
  <2>1. 0 \in S
    BY <1>1, <1>4, <1>9
  <2>2. ASSUME NEW i \in 0..most, i < most, i \in S PROVE i + 1 \in S
    <3>1. i + 1 \in 0..most /\ i + 1 # 0 /\ (i + 1) - 1 = i
      BY <1>4, <2>2
    <3>2. y[i + 1] = Skip(y[(i + 1) - 1])
      BY <1>9, <3>1
    <3> QED
      BY <3>1, <3>2, <2>2, <1>2
  <2> HIDE DEF S
  <2>3. \A i \in 0..most : i < most /\ i \in S => i + 1 \in S
    BY <2>2
  <2>4. \A i \in 0..most : i \in S
    BY <2>1, <2>3, <1>4, UpTo
  <2> QED
    BY <2>4 DEF S
<1> HIDE DEF c, D, X, most
<1>10. c[most] \in X
  <2>1. most \in 0..most
    BY <1>4
  <2> QED
    BY <2>1, <1>7, <1>9
<1>11. PICK x \in X : x = Skipped(cur)
  BY <1>8, <1>10
<1>12. x = CursorRecord(x.leaf, x.pos, x.ahead, x.min, x.max, x.last) /\ x.ahead \in Seq(Nodes(file))
  BY DEF X, CursorRecord
<1> QED
  BY <1>11, <1>12 DEF CursorOK

\* A cursor that moves on stays on the file.
LEMMA AdvancedOK ==
  ASSUME NEW w, NEW loaded, TreesOK(file, w, loaded), NEW cur, CursorOK(file, cur)
  PROVE  CursorOK(file, Advanced(cur))
<1>1. PICK at : at = Skipped(cur)
  OBVIOUS
<1>2. CursorOK(file, at)
  BY <1>1, SkippedOK
<1>3. at.ahead \in Seq(Nodes(file)) /\ at = CursorRecord(at.leaf, at.pos, at.ahead, at.min, at.max, at.last)
  BY <1>2, CursorFields
<1>4. PICK e, q : e = LeafEntries(file, at.leaf)[at.pos] /\ q = at.pos + 1
  OBVIOUS
<1>5. PICK l : l = Leaf(<<>>, <<>>)
  OBVIOUS
<1>6. <<>> \in Seq(Nodes(file))
  OBVIOUS
<1> DEFINE X == [leaf : {at.leaf, l}, pos : {at.pos, 1, q}, ahead : Seq(Nodes(file)),
                 min : {at.min}, max : {at.max}, last : {at.last, None, e}]
<1>7. at \in X
  BY <1>3 DEF CursorRecord
<1>8. Advanced(cur) \in X
  <2>1. CASE at.pos > Len(at.leaf.keys) \/ at.leaf.keys[at.pos] > at.max
    <3>1. Advanced(cur) = [at EXCEPT !.leaf = l, !.pos = 1, !.ahead = <<>>, !.last = None]
      BY <1>1, <1>5, <2>1 DEF Advanced, Done
    <3> QED
      BY <3>1, <1>6, <1>7
  <2>2. CASE ~ (at.pos > Len(at.leaf.keys) \/ at.leaf.keys[at.pos] > at.max)
    <3>1. Advanced(cur) = [at EXCEPT !.last = LeafEntries(file, at.leaf)[at.pos], !.pos = @ + 1]
      BY <1>1, <2>2 DEF Advanced
    <3>2. Advanced(cur) = [at EXCEPT !.last = e, !.pos = q]
      BY <3>1, <1>4, <1>3 DEF CursorRecord
    <3> QED
      BY <3>2, <1>7
  <2> QED
    BY <2>1, <2>2
<1>9. PICK x \in X : x = Advanced(cur)
  BY <1>8
<1>10. x = CursorRecord(x.leaf, x.pos, x.ahead, x.min, x.max, x.last) /\ x.ahead \in Seq(Nodes(file))
  BY DEF CursorRecord
<1> QED
  BY <1>9, <1>10 DEF CursorOK

-----------------------------------------------------------------------------
(* A sequence cut into full rows and a rest.                               *)

LEMMA DivIs ==
  ASSUME NEW n \in Nat, n >= 1, NEW x \in Nat
  PROVE  x \div n \in Nat /\ n * (x \div n) <= x /\ x < n * (x \div n) + n
OBVIOUS

LEMMA TimesIs ==
  ASSUME NEW n \in Nat, NEW a \in Nat
  PROVE  a * n \in Nat /\ (a - 1) * n = a * n - n /\ 0 * n = 0 /\ n * a = a * n
OBVIOUS

LEMMA TimesGrows ==
  ASSUME NEW n \in Nat, NEW a \in Nat, NEW b \in Nat, a <= b
  PROVE  a * n <= b * n
OBVIOUS

RowEnd(L, n, c) == IF c * n < L THEN c * n ELSE L

RowsOf(L, n) == (L + n - 1) \div n

\* The rows of L elements, C of them; row c ends with element RowEnd(L, n, c).
RowsEnd(L, n, C) ==
  /\ C \in Nat /\ C >= 1 /\ C <= L /\ (n >= 2 /\ L >= 2 => C < L)
  /\ \A c \in 0..C : RowEnd(L, n, c) \in 0..L
  /\ RowEnd(L, n, 0) = 0 /\ RowEnd(L, n, C) = L
  /\ \A c \in 1..C : /\ RowEnd(L, n, c - 1) = (c - 1) * n /\ (c - 1) * n \in Nat
                     /\ RowEnd(L, n, c - 1) < RowEnd(L, n, c)
                     /\ RowEnd(L, n, c) - RowEnd(L, n, c - 1) <= n
                     /\ (c < C => RowEnd(L, n, c) - RowEnd(L, n, c - 1) = n /\ RowEnd(L, n, c) < L)
  /\ \A c, d \in 1..C : c < d => RowEnd(L, n, c) <= RowEnd(L, n, d - 1)

\* Rows end n elements apart, the last one at the end, and none is empty.
LEMMA RowEnds ==
  ASSUME NEW L \in Nat, L >= 1, NEW n \in Nat, n >= 1, NEW C, C = RowsOf(L, n)
  PROVE  RowsEnd(L, n, C)
<1>1. L + n - 1 \in Nat
  OBVIOUS
<1>2. C \in Nat /\ n * C <= L + n - 1 /\ L + n - 1 < n * C + n
  BY <1>1, DivIs DEF RowsOf
<1>3. C * n = n * C /\ (C - 1) * n = C * n - n /\ C * n \in Nat
  BY <1>2, TimesIs
<1>4. C * n >= L /\ (C - 1) * n < L
  BY <1>2, <1>3
<1>5. C >= 1
  <2> SUFFICES ASSUME C = 0 PROVE FALSE
    BY <1>2
  <2> QED
    BY <1>4, TimesIs
<1>6. ASSUME NEW c \in 1..C PROVE c * n \in Nat /\ (c - 1) * n = c * n - n /\ (c - 1) * n \in Nat /\ (c - 1) * n < L
  <2>1. c \in Nat /\ c - 1 \in Nat /\ C - 1 \in Nat /\ c - 1 <= C - 1
    BY <1>2, <1>5
  <2>2. (c - 1) * n <= (C - 1) * n /\ (c - 1) * n \in Nat /\ c * n \in Nat /\ (c - 1) * n = c * n - n
    BY <2>1, TimesIs, TimesGrows
  <2>3. (C - 1) * n \in Nat
    BY <2>1, TimesIs
  <2> QED
    BY <2>2, <2>3, <1>4
<1>7. ASSUME NEW c \in 1..C, c < C PROVE c * n < L
  <2>1. c + 1 \in 1..C /\ (c + 1) - 1 = c
    BY <1>2, <1>7
  <2> QED
    BY <2>1, <1>6
<1>8. RowEnd(L, n, 0) = 0 /\ RowEnd(L, n, C) = L
  BY <1>3, <1>4, TimesIs DEF RowEnd
<1>9. ASSUME NEW c \in 1..C
      PROVE  /\ RowEnd(L, n, c - 1) = (c - 1) * n
             /\ RowEnd(L, n, c - 1) < RowEnd(L, n, c)
             /\ RowEnd(L, n, c) - RowEnd(L, n, c - 1) <= n
             /\ (c < C => RowEnd(L, n, c) - RowEnd(L, n, c - 1) = n /\ RowEnd(L, n, c) < L)
             /\ RowEnd(L, n, c) \in 0..L
  <2>1. PICK m \in Nat, l \in Nat : m = c * n /\ l = (c - 1) * n /\ l = m - n /\ l < L
    BY <1>6
  <2>2. RowEnd(L, n, c) = (IF m < L THEN m ELSE L) /\ RowEnd(L, n, c - 1) = l
    BY <2>1 DEF RowEnd
  <2>3. c < C => m < L
    BY <2>1, <1>7
  <2> QED
    BY <2>1, <2>2, <2>3
<1>10. \A c \in 0..C : RowEnd(L, n, c) \in 0..L
  <2> SUFFICES ASSUME NEW c \in 0..C PROVE RowEnd(L, n, c) \in 0..L
    OBVIOUS
  <2>1. c = 0 \/ c \in 1..C
    BY <1>2
  <2> QED
    BY <2>1, <1>8, <1>9
<1>11. ASSUME NEW c \in 1..C, NEW d \in 1..C, c < d PROVE RowEnd(L, n, c) <= RowEnd(L, n, d - 1)
  <2>1. c \in Nat /\ d - 1 \in Nat /\ c <= d - 1 /\ c < C
    BY <1>2, <1>11
  <2>2. PICK m \in Nat, l \in Nat : m = c * n /\ l = (d - 1) * n /\ m <= l
    BY <2>1, TimesIs, TimesGrows
  <2>3. m < L
    BY <2>1, <2>2, <1>7
  <2>4. RowEnd(L, n, d - 1) = l
    BY <1>9, <2>2
  <2>5. RowEnd(L, n, c) = m
    BY <2>2, <2>3 DEF RowEnd
  <2> QED
    BY <2>2, <2>4, <2>5
<1>12. C <= L /\ (n >= 2 /\ L >= 2 => C < L)
  <2>1. PICK q \in Nat : q = C - 1
    BY <1>2, <1>5
  <2>2. q * n \in Nat /\ q * n < L
    BY <2>1, <1>4, TimesIs
  <2>3. q * 1 <= q * n /\ (n >= 2 => q * 2 <= q * n)
    <3>1. 1 * q <= n * q /\ (n >= 2 => 2 * q <= n * q) /\ n * q = q * n /\ 1 * q = q * 1 /\ 2 * q = q * 2
      BY TimesGrows, TimesIs
    <3> QED
      BY <3>1
  <2>4. q < L /\ (n >= 2 => 2 * q < L)
    BY <2>2, <2>3
  <2> QED
    BY <2>1, <2>4, <1>2
<1> QED
  BY <1>2, <1>5, <1>6, <1>8, <1>9, <1>10, <1>11, <1>12 DEF RowsEnd

\* s cut into C rows of n; row c begins after the first o[c - 1] elements.
Rows(S, s, n, rows, C, o) ==
  /\ C \in Nat /\ C >= 1 /\ rows = [c \in 1..C |-> rows[c]]
  /\ s \in Seq(S) /\ Len(s) \in Nat /\ C <= Len(s) /\ (n >= 2 /\ Len(s) >= 2 => C < Len(s))
  /\ \A c \in 0..C : o[c] \in 0..Len(s)
  /\ o[0] = 0 /\ o[C] = Len(s)
  /\ \A c \in 1..C : /\ o[c - 1] \in Nat /\ o[c] \in Nat /\ o[c - 1] < o[c] /\ (c < C => o[c] < Len(s))
                     /\ rows[c] \in Seq(S) /\ Len(rows[c]) = o[c] - o[c - 1]
                     /\ Len(rows[c]) \in 1..n /\ (c < C => Len(rows[c]) = n)
                     /\ \A a \in 1..Len(rows[c]) : rows[c][a] = s[o[c - 1] + a] /\ o[c - 1] + a \in 1..Len(s)
  /\ \A c, d \in 1..C : c < d => o[c] <= o[d - 1]

\* Chunks cuts a sequence into such rows.
LEMMA ChunksAre ==
  ASSUME NEW S, NEW s \in Seq(S), NEW n \in Nat, n >= 1, Len(s) >= 1
  PROVE  \E C \in Nat : \E o : Rows(S, s, n, Chunks(s, n), C, o)
<1>1. PICK L \in Nat : L = Len(s) /\ L >= 1
  OBVIOUS
<1>2. PICK C : C = RowsOf(L, n)
  OBVIOUS
<1> DEFINE o == [c \in 0..C |-> RowEnd(L, n, c)]
<1>3. RowsEnd(L, n, C)
  BY <1>1, <1>2, RowEnds
<1>4. C \in Nat /\ C >= 1 /\ \A c \in 1..C : c \in 0..C /\ c - 1 \in 0..C
  BY <1>3 DEF RowsEnd
<1>5. PICK rows : rows = Chunks(s, n)
  OBVIOUS
<1>6. rows = [c \in 1..C |-> SubSeq(s, (c - 1) * n + 1, RowEnd(L, n, c))]
  BY <1>1, <1>2, <1>5 DEF Chunks, RowsOf, RowEnd
<1>7. ASSUME NEW c \in 1..C
      PROVE  /\ o[c - 1] \in Nat /\ o[c] \in Nat /\ o[c - 1] < o[c] /\ (c < C => o[c] < L)
             /\ rows[c] \in Seq(S) /\ Len(rows[c]) = o[c] - o[c - 1]
             /\ Len(rows[c]) \in 1..n /\ (c < C => Len(rows[c]) = n)
             /\ \A a \in 1..Len(rows[c]) : rows[c][a] = s[o[c - 1] + a] /\ o[c - 1] + a \in 1..L
  <2>0. RowEnd(L, n, c - 1) \in 0..L /\ RowEnd(L, n, c) \in 0..L
    BY <1>3, <1>4 DEF RowsEnd
  <2>1. PICK l \in Nat, m \in Nat : l = RowEnd(L, n, c - 1) /\ m = RowEnd(L, n, c) /\ m <= L
    BY <2>0
  <2>2. l < m /\ m - l <= n /\ (c < C => m - l = n /\ m < L) /\ l = (c - 1) * n
    BY <1>3, <2>1 DEF RowsEnd
  <2>3. rows[c] = SubSeq(s, l + 1, m)
    BY <1>6, <2>1, <2>2
  <2>4. l + 1 \in 1..(Len(s) + 1) /\ m \in 0..Len(s) /\ l + 1 <= m + 1 /\ m - (l + 1) + 1 = m - l
    BY <1>1, <2>1, <2>2
  <2>5. /\ rows[c] \in Seq(S) /\ Len(rows[c]) = m - l
        /\ \A a \in 1..(m - l) : rows[c][a] = s[(l + 1) + a - 1]
    BY <2>3, <2>4, SubSeqIs
  <2>6. \A a \in 1..(m - l) : (l + 1) + a - 1 = l + a /\ l + a \in 1..L
    BY <2>1, <2>2
  <2>7. o[c - 1] = l /\ o[c] = m
    BY <1>4, <2>1
  <2>8. Len(rows[c]) \in 1..n
    BY <2>1, <2>2, <2>5
  <2> HIDE DEF o
  <2>9. \A a \in 1..Len(rows[c]) : rows[c][a] = s[l + a] /\ l + a \in 1..L
    BY <2>5, <2>6
  <2> QED
    BY <2>1, <2>2, <2>5, <2>7, <2>8, <2>9
<1>8. \A c \in 0..C : o[c] = RowEnd(L, n, c)
  OBVIOUS
<1>9. rows = [c \in 1..C |-> rows[c]]
  BY <1>6
<1>10. 0 \in 0..C /\ C \in 0..C
  BY <1>4
<1> HIDE DEF o
<1>11. Rows(S, s, n, rows, C, o)
  <2>1. /\ C <= L /\ (n >= 2 /\ L >= 2 => C < L) /\ o[0] = 0 /\ o[C] = L
        /\ \A c \in 0..C : o[c] \in 0..L
        /\ \A c, d \in 1..C : c < d => o[c] <= o[d - 1]
    BY <1>3, <1>4, <1>8, <1>10 DEF RowsEnd
  <2> QED
    BY <1>1, <1>4, <1>7, <1>9, <2>1 DEF Rows
<1> QED
  BY <1>4, <1>5, <1>11

\* Every element is in a row.
LEMMA InRow ==
  ASSUME NEW S, NEW s, NEW n, NEW rows, NEW C, NEW o, Rows(S, s, n, rows, C, o), NEW i \in 1..Len(s)
  PROVE  \E c \in 1..C : \E a \in 1..Len(rows[c]) : i = o[c - 1] + a
<1>1. PICK L \in Nat : L = Len(s) /\ C \in Nat /\ C >= 1 /\ o[0] = 0 /\ o[C] = L
  BY DEF Rows
<1> DEFINE T == {c \in 0..C : i <= o[c]}
<1>2. T \in SUBSET Nat /\ T # {}
  <2>1. C \in T
    BY <1>1
  <2> QED
    BY <2>1
<1>3. PICK c \in 0..C : i <= o[c] /\ \A d \in T : c <= d
  <2>1. Min(T) \in T /\ \A d \in T : Min(T) <= d
    BY <1>2, MinOfNats
  <2> QED
    BY <2>1
<1>4. c # 0
  BY <1>1, <1>3
<1>5. c \in 1..C /\ c - 1 \in 0..C /\ c - 1 < c
  BY <1>1, <1>3, <1>4
<1>6. c - 1 \notin T
  <2>1. c - 1 \in T => c <= c - 1
    BY <1>3
  <2> QED
    BY <2>1, <1>5, <1>1
<1>7. ~ (i <= o[c - 1])
  BY <1>5, <1>6
<1>8. PICK l \in Nat, m \in Nat : l = o[c - 1] /\ m = o[c] /\ Len(rows[c]) = m - l
  BY <1>5 DEF Rows
<1>9. i - l \in 1..(m - l) /\ i = l + (i - l)
  BY <1>1, <1>3, <1>7, <1>8
<1> QED
  BY <1>5, <1>8, <1>9

-----------------------------------------------------------------------------
(* The values, first in the file.                                          *)

Row == Keys \X Refs

\* b holds the first n of the entries.
ValuesOK(es, n, b) ==
  /\ b.file \in Seq(ValueRecords) /\ b.refs \in Seq(Row) /\ Len(b.refs) = n
  /\ \A i \in 1..n : /\ b.refs[i][1] = es[i][1] /\ ResolveValue(b.file, b.refs[i][2]) = es[i][2]
                     /\ b.refs[i][2][1] = "at" => b.refs[i][2][2] \in 1..Len(b.file)

PutValue(b, e) ==
  LET s == StoreValue(b.file, e[2]) IN [file |-> s.file, refs |-> Append(b.refs, <<e[1], s.ref>>)]

LEMMA PutValueIs ==
  ASSUME NEW es \in Seq(Entry), NEW n \in Nat, n + 1 <= Len(es), NEW b, ValuesOK(es, n, b)
  PROVE  ValuesOK(es, n + 1, PutValue(b, es[n + 1]))
<1>1. PICK e \in Entry : e = es[n + 1]
  <2>1. n + 1 \in 1..Len(es)
    OBVIOUS
  <2> QED
    BY <2>1
<1>2. e[1] \in Keys /\ e[2] \in Value
  BY DEF Entry
<1>3. PICK s : s = StoreValue(b.file, e[2])
  OBVIOUS
<1>4. b.file \in Seq(ValueRecords) /\ b.refs \in Seq(Row) /\ Len(b.refs) = n
  BY DEF ValuesOK
<1>5. /\ s.file \in Seq(ValueRecords) /\ s.ref \in Refs /\ ResolveValue(s.file, s.ref) = e[2]
      /\ s.ref[1] = "at" => s.ref[2] \in 1..Len(s.file)
      /\ Len(b.file) <= Len(s.file) /\ \A i \in 1..Len(b.file) : s.file[i] = b.file[i]
  <2>1. CASE e[2] \in Large
    <3>1. PICK r : r = [kind |-> "value", val |-> e[2]]
      OBVIOUS
    <3>2. r \in ValueRecords /\ r.val = e[2]
      BY <3>1, <1>2 DEF ValueRecords
    <3>3. s.file = Append(b.file, r) /\ s.ref = <<"at", Len(b.file) + 1>>
      BY <1>3, <2>1, <3>1 DEF StoreValue
    <3>4. /\ s.file \in Seq(ValueRecords) /\ Len(s.file) = Len(b.file) + 1 /\ s.file[Len(b.file) + 1] = r
          /\ \A i \in 1..Len(b.file) : s.file[i] = b.file[i]
      BY <3>2, <3>3, <1>4, AppendIs
    <3>5. Len(b.file) \in Nat
      BY <1>4
    <3>6. s.ref \in Refs /\ s.ref[1] = "at" /\ s.ref[2] = Len(b.file) + 1
      BY <3>3, <3>5 DEF Refs
    <3>7. ResolveValue(s.file, s.ref) = e[2]
      BY <3>2, <3>4, <3>6 DEF ResolveValue
    <3> QED
      BY <3>4, <3>5, <3>6, <3>7
  <2>2. CASE e[2] \notin Large
    <3>1. s.file = b.file /\ s.ref = <<"here", e[2]>>
      BY <1>3, <2>2 DEF StoreValue
    <3>2. s.ref \in Refs /\ s.ref[1] = "here" /\ s.ref[2] = e[2]
      BY <3>1, <1>2 DEF Refs
    <3>3. ResolveValue(s.file, s.ref) = e[2]
      BY <3>2 DEF ResolveValue
    <3>4. Len(b.file) \in Nat
      BY <1>4
    <3> QED
      BY <3>1, <3>2, <3>3, <3>4, <1>4
  <2> QED
    BY <2>1, <2>2
<1>6. PICK row : row = <<e[1], s.ref>>
  OBVIOUS
<1>7. row \in Row /\ row[1] = e[1] /\ row[2] = s.ref
  BY <1>2, <1>5, <1>6 DEF Row
<1>8. PICK c : c = PutValue(b, e)
  OBVIOUS
<1>9. c.file = s.file /\ c.refs = Append(b.refs, row)
  BY <1>3, <1>6, <1>8 DEF PutValue
<1>10. /\ c.refs \in Seq(Row) /\ Len(c.refs) = n + 1 /\ c.refs[n + 1] = row
       /\ \A i \in 1..n : c.refs[i] = b.refs[i]
  BY <1>4, <1>7, <1>9, AppendIs
<1>11. ASSUME NEW i \in 1..(n + 1)
       PROVE  /\ c.refs[i][1] = es[i][1] /\ ResolveValue(c.file, c.refs[i][2]) = es[i][2]
              /\ c.refs[i][2][1] = "at" => c.refs[i][2][2] \in 1..Len(c.file)
  <2>1. CASE i = n + 1
    BY <2>1, <1>1, <1>5, <1>7, <1>9, <1>10
  <2>2. CASE i # n + 1
    <3>1. i \in 1..n
      BY <2>2
    <3>2. PICK r : r = b.refs[i][2]
      OBVIOUS
    <3>3. /\ b.refs[i][1] = es[i][1] /\ ResolveValue(b.file, r) = es[i][2]
          /\ r[1] = "at" => r[2] \in 1..Len(b.file)
      BY <3>1, <3>2 DEF ValuesOK
    <3>4. ResolveValue(c.file, r) = ResolveValue(b.file, r) /\ (r[1] = "at" => r[2] \in 1..Len(c.file))
      <4>1. Len(b.file) \in Nat /\ Len(c.file) \in Nat
        BY <1>4, <1>5, <1>9
      <4> QED
        BY <4>1, <3>3, <1>5, <1>9 DEF ResolveValue
    <3> QED
      BY <3>1, <3>2, <3>3, <3>4, <1>10
  <2> QED
    BY <2>1, <2>2
<1> QED
  BY <1>1, <1>5, <1>8, <1>9, <1>10, <1>11 DEF ValuesOK

\* The values of all entries, and what refers to them.
LEMMA BulkValuesIs ==
  ASSUME NEW es \in Seq(Entry)
  PROVE  ValuesOK(es, Len(es), BulkValues(es))
<1> DEFINE X == [file : Seq(ValueRecords), refs : Seq(Row)]
           step == [y \in (1..Len(es)) \X X |-> PutValue(y[2], es[y[1]])]
           none == [file |-> <<>>, refs |-> <<>>]
           D(v) == v = [n \in 0..Len(es) |-> IF n = 0 THEN none ELSE PutValue(v[n - 1], es[n])]
<1>1. Len(es) \in Nat
  OBVIOUS
<1>2. none \in X
  <2>1. <<>> \in Seq(ValueRecords) /\ <<>> \in Seq(Row)
    OBVIOUS
  <2> QED
    BY <2>1
<1>3. ASSUME NEW i \in 1..Len(es), NEW x \in X PROVE PutValue(x, es[i]) \in X
  <2>1. PICK e \in Entry : e = es[i]
    OBVIOUS
  <2>2. e[1] \in Keys /\ e[2] \in Value
    BY DEF Entry
  <2>3. PICK s : s = StoreValue(x.file, e[2])
    OBVIOUS
  <2>4. PICK r : r = [kind |-> "value", val |-> e[2]]
    OBVIOUS
  <2>5. r \in ValueRecords
    BY <2>4, <2>2 DEF ValueRecords
  <2>6. x.file \in Seq(ValueRecords) /\ x.refs \in Seq(Row) /\ Len(x.file) + 1 \in Nat
    OBVIOUS
  <2>7. s.file \in Seq(ValueRecords)
    BY <2>3, <2>4, <2>5, <2>6, AppendIs DEF StoreValue
  <2>8. s.ref \in Refs
    BY <2>2, <2>3, <2>6 DEF StoreValue, Refs
  <2>9. <<e[1], s.ref>> \in Row
    BY <2>2, <2>8 DEF Row
  <2>10. Append(x.refs, <<e[1], s.ref>>) \in Seq(Row)
    BY <2>6, <2>9, AppendIs
  <2>11. PutValue(x, e) = [file |-> s.file, refs |-> Append(x.refs, <<e[1], s.ref>>)]
    BY <2>3 DEF PutValue
  <2> QED
    BY <2>1, <2>7, <2>10, <2>11
<1>4. step \in [(1..Len(es)) \X X -> X]
  <2> HIDE DEF X
  <2> QED
    BY <1>3
<1>5. \E v : D(v)
  <2> HIDE DEF X, none
  <2>1. PICK v \in [0..Len(es) -> X] : Recurses(v, none, Len(es), step)
    <3> HIDE DEF step
    <3> QED
      BY <1>1, <1>2, <1>4, Recursion
  <2>2. v = [n \in 0..Len(es) |-> IF n = 0 THEN none ELSE step[<<n, v[n - 1]>>]]
    BY <2>1 DEF Recurses
  <2>3. ASSUME NEW n \in 0..Len(es), n # 0 PROVE step[<<n, v[n - 1]>>] = PutValue(v[n - 1], es[n])
    <3>1. n - 1 \in 0..Len(es) /\ n \in 1..Len(es)
      BY <1>1, <2>3
    <3>2. v[n - 1] \in X
      BY <3>1
    <3>3. <<n, v[n - 1]>> \in (1..Len(es)) \X X
      BY <3>1, <3>2
    <3> QED
      BY <3>3
  <2> HIDE DEF step
  <2>4. v = [n \in 0..Len(es) |-> IF n = 0 THEN none ELSE PutValue(v[n - 1], es[n])]
    BY <2>2, <2>3
  <2> QED
    BY <2>4
<1> DEFINE c == CHOOSE v : D(v)
<1>6. D(c)
  <2> HIDE DEF D
  <2> QED
    BY <1>5
<1>7. BulkValues(es) = c[Len(es)]
  BY DEF BulkValues, PutValue
<1> HIDE DEF c, step
<1> DEFINE S == {n \in 0..Len(es) : ValuesOK(es, n, c[n])}
<1>8. 0 \in S
  <2>1. c[0] = none /\ 0 \in 0..Len(es)
    BY <1>1, <1>6
  <2>2. <<>> \in Seq(ValueRecords) /\ <<>> \in Seq(Row) /\ Len(<<>>) = 0
    OBVIOUS
  <2>3. ValuesOK(es, 0, none)
    BY <2>2 DEF ValuesOK
  <2> QED
    BY <2>1, <2>3
<1>9. ASSUME NEW i \in 0..Len(es), i < Len(es), i \in S PROVE i + 1 \in S
  <2>1. i + 1 \in 0..Len(es) /\ i + 1 # 0 /\ (i + 1) - 1 = i /\ i \in Nat /\ i + 1 <= Len(es)
    BY <1>1, <1>9
  <2>2. c[i + 1] = PutValue(c[i], es[i + 1])
    BY <1>6, <2>1
  <2> QED
    BY <2>1, <2>2, <1>9, PutValueIs
<1> HIDE DEF S
<1>10. Len(es) \in S
  <2>1. \A i \in 0..Len(es) : i < Len(es) /\ i \in S => i + 1 \in S
    BY <1>9
  <2>2. \A i \in 0..Len(es) : i \in S
    BY <2>1, <1>1, <1>8, UpTo
  <2> QED
    BY <2>2, <1>1
<1> QED
  BY <1>7, <1>10 DEF S

-----------------------------------------------------------------------------
(* A level: nodes at the end of a file, with their least keys.             *)

\* The node at q may follow the key m and come before the keys of ms after i.
Between(ks, ms, C, i) == \A k \in ks : ms[i] <= k /\ \A j \in 1..C : i < j => k < ms[j]

\* Nodes to be saved as a level with the entries E.
Piece(f, u, ns, C, ms, E) ==
  /\ C \in Nat /\ C >= 1 /\ ns = [i \in 1..C |-> ns[i]]
  /\ \A i \in 1..C : /\ ms[i] \in Keys /\ ns[i] \in Records /\ ns[i].kind \in {"leaf", "node"}
                     /\ Fits(f, u, TRUE, ns[i])
                     /\ Summary(f, u, ns[i]).h = Summary(f, u, ns[1]).h
                     /\ (i < C => Summary(f, u, ns[i]).solid)
                     /\ Between(Summary(f, u, ns[i]).ks, ms, C, i)
  /\ \A i, j \in 1..C : i < j => ms[i] < ms[j]
  /\ UNION {Summary(f, u, ns[i]).e : i \in 1..C} = E

Pairs == Keys \X Nat

LevelNode(f, u, lv, ms, N, i) ==
  /\ lv[i] \in Pairs /\ lv[i][1] = ms[i] /\ lv[i][2] \in Nodes(f)
  /\ u[lv[i][2]].h = u[lv[1][2]].h
  /\ (i < N => u[lv[i][2]].solid)
  /\ Between(u[lv[i][2]].ks, ms, N, i)

Level(f, u, lv, ms, N, E) ==
  /\ TreesOK(f, u, TRUE) /\ NoMeta(f)
  /\ N \in Nat /\ N >= 1 /\ Len(lv) = N /\ lv \in Seq(Pairs)
  /\ \A i \in 1..N : LevelNode(f, u, lv, ms, N, i)
  /\ \A i, j \in 1..N : i < j => ms[i] < ms[j]
  /\ UNION {u[lv[i][2]].e : i \in 1..N} = E
  /\ lv[N][2] = Len(f)

LEMMA NoMetaGrows ==
  ASSUME NEW f \in Seq(Records), NEW ns \in Seq(Records), NoMeta(f), NoMeta(ns)
  PROVE  NoMeta(f \o ns)
<1>1. PICK l \in Nat, m \in Nat : l = Len(f) /\ m = Len(ns) /\ Len(f \o ns) = l + m
  BY ConcatIs
<1> SUFFICES ASSUME NEW p \in 1..(l + m) PROVE (f \o ns)[p].kind # "meta"
  BY <1>1 DEF NoMeta
<1>2. CASE p <= l
  BY <1>1, <1>2, ConcatIs DEF NoMeta
<1>3. CASE p > l
  <2>1. p - l \in 1..m /\ l + (p - l) = p
    BY <1>3
  <2>2. (f \o ns)[l + (p - l)] = ns[p - l]
    BY <1>1, <2>1, ConcatIs
  <2> QED
    BY <2>1, <2>2, <1>1 DEF NoMeta
<1>4. p <= l \/ p > l
  OBVIOUS
<1> QED
  BY <1>2, <1>3, <1>4

\* Such nodes may be saved, and are a level.
LEMMA NewLevel ==
  ASSUME NEW f, NEW u, TreesOK(f, u, TRUE), NoMeta(f), NEW ns, NEW C, NEW ms, NEW E, Piece(f, u, ns, C, ms, E),
         NEW lv, lv = [i \in 1..C |-> <<ms[i], Len(f) + i>>]
  PROVE  \E v : Level(f \o ns, v, lv, ms, C, E)
<1>1. /\ C \in Nat /\ C >= 1 /\ ns = [i \in 1..C |-> ns[i]]
      /\ \A i \in 1..C : /\ ms[i] \in Keys /\ ns[i] \in Records /\ ns[i].kind \in {"leaf", "node"}
                         /\ Fits(f, u, TRUE, ns[i])
  BY DEF Piece
<1>2. ns \in Seq(Records) /\ Len(ns) = C
  <2> HIDE DEF Records
  <2>1. ns \in [1..C -> Records]
    BY <1>1
  <2> QED
    BY <2>1, <1>1
<1>3. PICK g, v : g = f \o ns /\ v = Grown(f, u, ns)
  OBVIOUS
<1>4. /\ TreesOK(g, v, TRUE) /\ Len(g) = Len(f) + C
      /\ \A i \in 1..C : Len(f) + i \in Nodes(g) /\ v[Len(f) + i] = Summary(f, u, ns[i])
  <2>1. \A i \in 1..Len(ns) : ns[i].kind \in {"leaf", "node"} => Fits(f, u, TRUE, ns[i])
    BY <1>1, <1>2
  <2>2. /\ TreesOK(f \o ns, Grown(f, u, ns), TRUE)
        /\ Len(f \o ns) = Len(f) + Len(ns)
        /\ \A i \in 1..Len(ns) : ns[i].kind \in {"leaf", "node"} =>
                    /\ Len(f) + i \in Nodes(f \o ns)
                    /\ Grown(f, u, ns)[Len(f) + i] = Summary(f, u, ns[i])
    BY <1>2, <2>1, SaveAll
  <2> QED
    BY <1>1, <1>2, <1>3, <2>2
<1>5. f \in Seq(Records) /\ Len(f) \in Nat
  BY DEF TreesOK
<1>6. \A i \in 1..C : lv[i] = <<ms[i], Len(f) + i>> /\ lv[i] \in Pairs /\ lv[i][1] = ms[i] /\ lv[i][2] = Len(f) + i
  <2> SUFFICES ASSUME NEW i \in 1..C
               PROVE lv[i] = <<ms[i], Len(f) + i>> /\ lv[i] \in Pairs /\ lv[i][1] = ms[i] /\ lv[i][2] = Len(f) + i
    OBVIOUS
  <2>1. PICK k \in Keys : k = ms[i]
    BY <1>1
  <2>2. PICK q \in Nat : q = Len(f) + i
    BY <1>1, <1>5
  <2>3. lv[i] = <<k, q>>
    BY <2>1, <2>2
  <2> HIDE DEF Keys
  <2>4. <<k, q>> \in Keys \X Nat
    OBVIOUS
  <2> QED
    BY <2>1, <2>2, <2>3, <2>4 DEF Pairs
<1>7. 1 \in 1..C /\ C \in 1..C
  BY <1>1
<1>8. \A i \in 1..C : v[lv[i][2]] = Summary(f, u, ns[i]) /\ lv[i][2] \in Nodes(g)
  BY <1>4, <1>6
<1>9. \A i \in 1..C : LevelNode(g, v, lv, ms, C, i)
  <2> SUFFICES ASSUME NEW i \in 1..C PROVE LevelNode(g, v, lv, ms, C, i)
    OBVIOUS
  <2>1. /\ Summary(f, u, ns[i]).h = Summary(f, u, ns[1]).h
        /\ (i < C => Summary(f, u, ns[i]).solid)
        /\ Between(Summary(f, u, ns[i]).ks, ms, C, i)
    BY DEF Piece
  <2> QED
    BY <2>1, <1>6, <1>7, <1>8 DEF LevelNode
<1>10. UNION {v[lv[i][2]].e : i \in 1..C} = E
  <2>1. {v[lv[i][2]].e : i \in 1..C} = {Summary(f, u, ns[i]).e : i \in 1..C}
    BY <1>8
  <2>2. UNION {Summary(f, u, ns[i]).e : i \in 1..C} = E
    BY DEF Piece
  <2> QED
    BY <2>1, <2>2
<1>11. lv \in Seq(Pairs) /\ Len(lv) = C
  <2> HIDE DEF Pairs
  <2>1. lv = [i \in 1..C |-> lv[i]]
    OBVIOUS
  <2>2. lv \in [1..C -> Pairs]
    BY <1>6, <2>1
  <2> QED
    BY <2>2, <1>1
<1>12. lv[C][2] = Len(g)
  BY <1>4, <1>6, <1>7
<1>13. \A i, j \in 1..C : i < j => ms[i] < ms[j]
  BY DEF Piece
<1>14. NoMeta(g)
  <2>1. NoMeta(ns)
    BY <1>1, <1>2 DEF NoMeta
  <2> QED
    BY <2>1, <1>2, <1>3, <1>5, NoMetaGrows
<1>15. Level(g, v, lv, ms, C, E)
  BY <1>1, <1>4, <1>9, <1>10, <1>11, <1>12, <1>13, <1>14 DEF Level
<1> QED
  BY <1>3, <1>15

\* The first c-th rows' elements come before those of the d-th.
LEMMA RowOrder ==
  ASSUME NEW S, NEW s, NEW n, NEW rows, NEW C, NEW o, Rows(S, s, n, rows, C, o),
         NEW c \in 1..C, NEW d \in 1..C, c < d, NEW a \in 1..Len(rows[c]), NEW b \in 1..Len(rows[d])
  PROVE  o[c - 1] + a < o[d - 1] + b
<1>1. PICK x \in Nat, y \in Nat, l \in Nat : x = o[c - 1] /\ y = o[c] /\ Len(rows[c]) = y - x /\ l = o[d - 1] /\ Len(rows[d]) \in Nat
  BY DEF Rows
<1>2. y <= l
  BY <1>1 DEF Rows
<1>3. PICK aa \in Nat, bb \in Nat : aa = a /\ bb = b /\ aa <= y - x /\ bb >= 1
  BY <1>1
<1>4. x + aa < l + bb
  BY <1>2, <1>3
<1> QED
  BY <1>1, <1>3, <1>4

-----------------------------------------------------------------------------
(* The leaves.                                                             *)

RowLeaf(row) == Leaf(Column(row, 1), Column(row, 2))

\* Row c of the entries es, whose values are in f.
LeafRow(es, f, refs, rows, C, o, c) ==
  /\ \A i, j \in 1..Len(es) : i < j => es[i][1] < es[j][1]
  /\ es \in Seq(Entry) /\ Len(es) \in Nat /\ Len(refs) = Len(es)
  /\ ValuesOK(es, Len(es), [file |-> f, refs |-> refs])
  /\ Rows(Row, refs, Order - 1, rows, C, o) /\ c \in 1..C

LeafMade(es, f, u, o, c, m, n) ==
  /\ LeafOK(f, n) /\ n.kind = "leaf" /\ Len(n.keys) = m
  /\ \A a \in 1..m : n.keys[a] = es[o[c - 1] + a][1]
  /\ Summary(f, u, n).h = 0
  /\ Summary(f, u, n).e = {es[o[c - 1] + a] : a \in 1..m}
  /\ Summary(f, u, n).ks = {es[o[c - 1] + a][1] : a \in 1..m}
  /\ Summary(f, u, n).solid = (m >= MinKeys)

PairsOf(S, T, row) == row \in Seq(S \X T)

Columns(S, T, row) ==
  /\ Column(row, 1) \in Seq(S) /\ Column(row, 2) \in Seq(T)
  /\ Len(Column(row, 1)) = Len(row) /\ Len(Column(row, 2)) = Len(row)
  /\ \A a \in 1..Len(row) : Column(row, 1)[a] = row[a][1] /\ Column(row, 2)[a] = row[a][2]

LEMMA ColumnIs ==
  ASSUME NEW S, NEW T, NEW row, PairsOf(S, T, row)
  PROVE  Columns(S, T, row)
<1>0. row \in Seq(S \X T)
  BY DEF PairsOf
<1>1. PICK m \in Nat : m = Len(row) /\ DOMAIN row = 1..m
  BY <1>0
<1>2. \A a \in 1..m : row[a][1] \in S /\ row[a][2] \in T
  <2> SUFFICES ASSUME NEW a \in 1..m PROVE row[a][1] \in S /\ row[a][2] \in T
    OBVIOUS
  <2>1. row[a] \in S \X T
    BY <1>0, <1>1
  <2> QED
    BY <2>1
<1>3. PICK x, y : x = [a \in 1..m |-> row[a][1]] /\ y = [a \in 1..m |-> row[a][2]]
  OBVIOUS
<1>4. Column(row, 1) = x /\ Column(row, 2) = y
  BY <1>1, <1>3 DEF Column
<1>5. x \in Seq(S) /\ Len(x) = m
  <2>1. x \in [1..m -> S]
    BY <1>2, <1>3
  <2> QED
    BY <2>1
<1>6. y \in Seq(T) /\ Len(y) = m
  <2>1. y \in [1..m -> T]
    BY <1>2, <1>3
  <2> QED
    BY <2>1
<1> QED
  BY <1>1, <1>3, <1>4, <1>5, <1>6 DEF Columns

LEMMA RowLeafIs ==
  ASSUME NEW es, NEW f, NEW refs, NEW rows, NEW C, NEW o, NEW c, LeafRow(es, f, refs, rows, C, o, c), NEW u
  PROVE  LeafMade(es, f, u, o, c, Len(rows[c]), RowLeaf(rows[c]))
<1>1. PICK m \in Nat, l \in Nat : m = Len(rows[c]) /\ l = o[c - 1] /\ m >= 1 /\ rows[c] \in Seq(Row)
  BY DEF LeafRow, Rows
<1>2. PICK row \in Seq(Row) : row = rows[c] /\ Len(row) = m
  BY <1>1
<1>3. \A a \in 1..m : row[a] = refs[l + a] /\ l + a \in 1..Len(es)
  BY <1>1, <1>2 DEF LeafRow, Rows
<1>4. PICK n : n = RowLeaf(row)
  OBVIOUS
<1>5. /\ n.kind = "leaf" /\ n.keys \in Seq(Keys) /\ n.vals \in Seq(Refs) /\ Len(n.keys) = m /\ Len(n.vals) = m
      /\ n \in LeafRecords
      /\ \A a \in 1..m : n.keys[a] = row[a][1] /\ n.vals[a] = row[a][2]
  <2>1. n.kind = "leaf" /\ n.keys = Column(row, 1) /\ n.vals = Column(row, 2)
    BY <1>4 DEF RowLeaf, Leaf
  <2>0. /\ Column(row, 1) \in Seq(Keys) /\ Column(row, 2) \in Seq(Refs)
        /\ Len(Column(row, 1)) = Len(row) /\ Len(Column(row, 2)) = Len(row)
        /\ \A a \in 1..Len(row) : Column(row, 1)[a] = row[a][1] /\ Column(row, 2)[a] = row[a][2]
    <3>1. PairsOf(Keys, Refs, row)
      BY DEF Row, PairsOf
    <3> QED
      BY <3>1, ColumnIs DEF Columns
  <2>2. n.keys \in Seq(Keys) /\ n.vals \in Seq(Refs)
    BY <2>1, <2>0
  <2>3. n \in LeafRecords
    BY <1>4, <2>1, <2>2 DEF RowLeaf, Leaf, LeafRecords
  <2> QED
    BY <1>2, <2>0, <2>1, <2>2, <2>3
<1>6. f \in Seq(ValueRecords)
  BY DEF LeafRow, ValuesOK
<1>7. ASSUME NEW a \in 1..m
      PROVE  /\ n.keys[a] = es[l + a][1] /\ ResolveValue(f, n.vals[a]) = es[l + a][2]
             /\ n.vals[a][1] = "at" => n.vals[a][2] \in 1..Len(f) /\ f[n.vals[a][2]] \in ValueRecords
             /\ <<n.keys[a], ResolveValue(f, n.vals[a])>> = es[l + a]
  <2>1. PICK i \in 1..Len(es) : i = l + a /\ row[a] = refs[i]
    BY <1>3
  <2>2. /\ refs[i][1] = es[i][1] /\ ResolveValue(f, refs[i][2]) = es[i][2]
        /\ refs[i][2][1] = "at" => refs[i][2][2] \in 1..Len(f)
    BY DEF LeafRow, ValuesOK
  <2>3. es[i] \in Entry
    BY DEF LeafRow
  <2>4. es[i] = <<es[i][1], es[i][2]>>
    BY <2>3 DEF Entry
  <2>5. \A j \in 1..Len(f) : f[j] \in ValueRecords
    <3> HIDE DEF ValueRecords
    <3> QED
      BY <1>6
  <2> QED
    BY <1>5, <2>1, <2>2, <2>4, <2>5
<1>8. Ascends(n.keys)
  <2> SUFFICES ASSUME NEW a \in 1..m, NEW b \in 1..m, a < b PROVE n.keys[a] < n.keys[b]
    BY <1>5 DEF Ascends
  <2>1. l + a < l + b /\ l + a \in 1..Len(es) /\ l + b \in 1..Len(es)
    BY <1>3
  <2>2. es[l + a][1] < es[l + b][1]
    BY <2>1 DEF LeafRow
  <2> QED
    BY <2>2, <1>7
<1>9. LeafOK(f, n)
  BY <1>5, <1>7, <1>8 DEF LeafOK
<1>10. /\ Summary(f, u, n).h = 0
       /\ Summary(f, u, n).e = {<<n.keys[a], ResolveValue(f, n.vals[a])>> : a \in 1..m}
       /\ Summary(f, u, n).ks = {n.keys[a] : a \in 1..m}
       /\ Summary(f, u, n).solid = (m >= MinKeys)
  BY <1>5 DEF Summary, LeafSummary
<1>11. /\ {<<n.keys[a], ResolveValue(f, n.vals[a])>> : a \in 1..m} = {es[l + a] : a \in 1..m}
       /\ {n.keys[a] : a \in 1..m} = {es[l + a][1] : a \in 1..m}
  <2>1. \A a \in 1..m : <<n.keys[a], ResolveValue(f, n.vals[a])>> = es[l + a] /\ n.keys[a] = es[l + a][1]
    BY <1>7
  <2>2. {<<n.keys[a], ResolveValue(f, n.vals[a])>> : a \in 1..m} = {es[l + a] : a \in 1..m}
    BY ONLY <2>1
  <2>3. {n.keys[a] : a \in 1..m} = {es[l + a][1] : a \in 1..m}
    <3>1. PICK x : x = n.keys
      OBVIOUS
    <3>2. \A a \in 1..m : x[a] = es[l + a][1]
      BY <2>1, <3>1
    <3>3. {x[a] : a \in 1..m} = {es[l + a][1] : a \in 1..m}
      BY ONLY <3>2, Zenon
    <3> QED
      BY <3>1, <3>3
  <2> QED
    BY <2>2, <2>3
<1>12. /\ {es[l + a] : a \in 1..m} = {es[o[c - 1] + a] : a \in 1..m}
       /\ {es[l + a][1] : a \in 1..m} = {es[o[c - 1] + a][1] : a \in 1..m}
  BY <1>1
<1>13. \A a \in 1..m : n.keys[a] = es[o[c - 1] + a][1]
  BY <1>1, <1>7
<1>14. LeafMade(es, f, u, o, c, m, n)
  BY <1>5, <1>9, <1>10, <1>11, <1>12, <1>13 DEF LeafMade
<1> QED
  BY <1>1, <1>2, <1>4, <1>14

\* The keys of the rows ascend from entry to entry.
LEMMA LeafOrder ==
  ASSUME NEW es, NEW f, NEW refs, NEW rows, NEW C, NEW o, NEW c, LeafRow(es, f, refs, rows, C, o, c),
         NEW d \in 1..C, NEW a \in 1..Len(rows[c]), NEW b \in 1..Len(rows[d]), c < d \/ (c = d /\ a < b)
  PROVE  es[o[c - 1] + a][1] < es[o[d - 1] + b][1]
<1>1. Rows(Row, refs, Order - 1, rows, C, o) /\ c \in 1..C /\ Len(refs) = Len(es)
  BY DEF LeafRow
<1>2. o[c - 1] + a \in 1..Len(es) /\ o[d - 1] + b \in 1..Len(es)
  BY <1>1 DEF Rows
<1>3. o[c - 1] + a < o[d - 1] + b
  <2>1. CASE c < d
    BY <2>1, <1>1, RowOrder
  <2>2. CASE c = d /\ a < b
    <3>1. PICK x \in Nat : x = o[c - 1] /\ x = o[d - 1]
      BY <1>1, <2>2 DEF Rows
    <3>2. PICK y \in Nat, z \in Nat : y = a /\ z = b
      BY <1>1 DEF Rows
    <3> QED
      BY <2>2, <3>1, <3>2
  <2> QED
    BY <2>1, <2>2
<1> QED
  BY <1>2, <1>3 DEF LeafRow

LeafRows(es, f, refs, rows, C, o) == \A c \in 1..C : LeafRow(es, f, refs, rows, C, o, c)

LeastKeys(rows, C, ms) == ms = [c \in 1..C |-> rows[c][1][1]]

LEMMA LeafLeast ==
  ASSUME NEW es, NEW f, NEW refs, NEW rows, NEW C, NEW o, NEW c, LeafRow(es, f, refs, rows, C, o, c),
         NEW ms, LeastKeys(rows, C, ms)
  PROVE  ms[c] = es[o[c - 1] + 1][1] /\ ms[c] \in Keys /\ 1 \in 1..Len(rows[c]) /\ Len(rows[c]) \in Nat
<1>1. Rows(Row, refs, Order - 1, rows, C, o) /\ c \in 1..C
  BY DEF LeafRow
<1>2. 1 \in 1..Len(rows[c]) /\ Len(rows[c]) \in Nat
  BY <1>1 DEF Rows
<1>3. PICK i \in 1..Len(es) : i = o[c - 1] + 1 /\ rows[c][1] = refs[i]
  BY <1>1, <1>2 DEF Rows, LeafRow
<1>4. refs[i][1] = es[i][1]
  BY DEF LeafRow, ValuesOK
<1>5. es[i] \in Entry
  BY DEF LeafRow
<1>6. es[i][1] \in Keys
  BY <1>5 DEF Entry
<1> QED
  BY <1>1, <1>2, <1>3, <1>4, <1>6 DEF LeastKeys

LEMMA UnionOf ==
  ASSUME NEW I, NEW F, NEW E, \A c \in I : F[c] \subseteq E, \A x \in E : \E c \in I : x \in F[c]
  PROVE  UNION {F[c] : c \in I} = E
OBVIOUS

LEMMA LeavesPiece ==
  ASSUME NEW es, NEW f, NEW refs, NEW rows, NEW C, NEW o, LeafRows(es, f, refs, rows, C, o), C \in Nat, C >= 1,
         NEW ms, LeastKeys(rows, C, ms), NEW u, NEW ns, ns = [c \in 1..C |-> RowLeaf(rows[c])]
  PROVE  Piece(f, u, ns, C, ms, {es[i] : i \in 1..Len(es)})
<1>1. ASSUME NEW c \in 1..C
      PROVE  LeafRow(es, f, refs, rows, C, o, c) /\ LeafMade(es, f, u, o, c, Len(rows[c]), ns[c])
             /\ Rows(Row, refs, Order - 1, rows, C, o)
  <2>1. LeafRow(es, f, refs, rows, C, o, c)
    BY DEF LeafRows
  <2> QED
    BY <2>1, RowLeafIs DEF LeafRow
<1>2. ASSUME NEW c \in 1..C
      PROVE  /\ ms[c] \in Keys /\ ns[c] \in Records /\ ns[c].kind \in {"leaf", "node"}
             /\ Fits(f, u, TRUE, ns[c])
             /\ Summary(f, u, ns[c]).h = 0
             /\ c < C => Summary(f, u, ns[c]).solid
  <2>1. PICK m \in Nat : m = Len(rows[c]) /\ m <= Order - 1 /\ (c < C => m = Order - 1)
    BY <1>1 DEF Rows
  <2>2. /\ LeafOK(f, ns[c]) /\ ns[c].kind = "leaf" /\ Len(ns[c].keys) = m
        /\ Summary(f, u, ns[c]).h = 0
        /\ Summary(f, u, ns[c]).solid = (m >= MinKeys)
    BY <2>1, <1>1 DEF LeafMade
  <2>4. c < C => m >= MinKeys
    BY <2>1, MinKeysIs, OrderAssumption
  <2>5. ns[c] \in Records
    BY <2>2, RecordKinds DEF LeafOK
  <2>6. Fits(f, u, TRUE, ns[c])
    BY <2>1, <2>2, OrderAssumption DEF Fits, RecordOK
  <2> QED
    BY <2>2, <2>4, <2>5, <2>6, <1>1, LeafLeast
<1>3. ASSUME NEW c \in 1..C PROVE Between(Summary(f, u, ns[c]).ks, ms, C, c)
  <2>1. Summary(f, u, ns[c]).ks = {es[o[c - 1] + a][1] : a \in 1..Len(rows[c])}
    BY <1>1 DEF LeafMade
  <2>2. ASSUME NEW a \in 1..Len(rows[c]) PROVE ms[c] <= es[o[c - 1] + a][1]
    <3>1. ms[c] = es[o[c - 1] + 1][1] /\ ms[c] \in Nat /\ 1 \in 1..Len(rows[c]) /\ Len(rows[c]) \in Nat
      BY <1>1, LeafLeast, MapAssumption DEF Keys
    <3>2. CASE a = 1
      BY <3>1, <3>2
    <3>3. CASE a # 1
      <4>1. 1 < a
        BY <3>1, <3>3
      <4>2. es[o[c - 1] + 1][1] < es[o[c - 1] + a][1]
        BY <4>1, <3>1, <1>1, LeafOrder
      <4>3. PICK i : i = o[c - 1] + a
        OBVIOUS
      <4>4. i \in 1..Len(es)
        <5>1. Len(refs) = Len(es)
          BY <1>1 DEF LeafRow
        <5> QED
          BY <5>1, <1>1, <4>3 DEF Rows
      <4>5. es[i] \in Entry
        BY <4>4, <1>1 DEF LeafRow
      <4>6. es[i][1] \in Nat
        BY <4>5, MapAssumption DEF Entry, Keys
      <4> QED
        BY <4>2, <4>3, <4>6, <3>1
    <3> QED
      BY <3>2, <3>3
  <2>3. ASSUME NEW a \in 1..Len(rows[c]), NEW j \in 1..C, c < j PROVE es[o[c - 1] + a][1] < ms[j]
    <3>1. ms[j] = es[o[j - 1] + 1][1] /\ 1 \in 1..Len(rows[j])
      BY <1>1, LeafLeast
    <3> QED
      BY <3>1, <2>3, <1>1, LeafOrder
  <2> QED
    BY <2>1, <2>2, <2>3 DEF Between
<1>4. ASSUME NEW i \in 1..C, NEW j \in 1..C, i < j PROVE ms[i] < ms[j]
  <2>1. /\ ms[i] = es[o[i - 1] + 1][1] /\ 1 \in 1..Len(rows[i])
        /\ ms[j] = es[o[j - 1] + 1][1] /\ 1 \in 1..Len(rows[j])
    BY <1>1, LeafLeast
  <2> QED
    BY <2>1, <1>1, <1>4, LeafOrder
<1>5. UNION {Summary(f, u, ns[c]).e : c \in 1..C} = {es[i] : i \in 1..Len(es)}
  <2>1. \A c \in 1..C : Summary(f, u, ns[c]).e = {es[o[c - 1] + a] : a \in 1..Len(rows[c])}
    BY <1>1 DEF LeafMade
  <2>2. \A c \in 1..C : \A a \in 1..Len(rows[c]) : o[c - 1] + a \in 1..Len(es)
    <3> SUFFICES ASSUME NEW c \in 1..C, NEW a \in 1..Len(rows[c]) PROVE o[c - 1] + a \in 1..Len(es)
      OBVIOUS
    <3>1. Len(refs) = Len(es)
      BY <1>1 DEF LeafRow
    <3> QED
      BY <3>1, <1>1 DEF Rows
  <2>3. \A i \in 1..Len(es) : \E c \in 1..C : \E a \in 1..Len(rows[c]) : i = o[c - 1] + a
    <3> SUFFICES ASSUME NEW i \in 1..Len(es) PROVE \E c \in 1..C : \E a \in 1..Len(rows[c]) : i = o[c - 1] + a
      OBVIOUS
    <3>1. 1 \in 1..C
      OBVIOUS
    <3>2. Len(refs) = Len(es) /\ Rows(Row, refs, Order - 1, rows, C, o)
      BY <1>1, <3>1 DEF LeafRow
    <3>3. i \in 1..Len(refs)
      BY <3>2
    <3> QED
      BY <3>2, <3>3, InRow
  <2>4. PICK F, E : F = [c \in 1..C |-> Summary(f, u, ns[c]).e] /\ E = {es[i] : i \in 1..Len(es)}
    OBVIOUS
  <2>5. \A c \in 1..C : F[c] \subseteq E
    <3> SUFFICES ASSUME NEW c \in 1..C, NEW x \in F[c] PROVE x \in E
      OBVIOUS
    <3>1. PICK a \in 1..Len(rows[c]) : x = es[o[c - 1] + a]
      BY <2>1, <2>4
    <3> QED
      BY <3>1, <2>2, <2>4
  <2>6. \A x \in E : \E c \in 1..C : x \in F[c]
    <3> SUFFICES ASSUME NEW i \in 1..Len(es) PROVE \E c \in 1..C : es[i] \in F[c]
      BY <2>4
    <3>1. PICK c \in 1..C : \E a \in 1..Len(rows[c]) : i = o[c - 1] + a
      BY <2>3
    <3>2. PICK a \in 1..Len(rows[c]) : i = o[c - 1] + a
      BY <3>1
    <3>3. es[i] \in {es[o[c - 1] + b] : b \in 1..Len(rows[c])}
      BY <3>2
    <3> QED
      BY <3>3, <2>1, <2>4
  <2>7. UNION {F[c] : c \in 1..C} = E
    BY <2>5, <2>6, UnionOf
  <2>8. {F[c] : c \in 1..C} = {Summary(f, u, ns[c]).e : c \in 1..C}
    BY <2>4
  <2> QED
    BY <2>4, <2>7, <2>8
<1>6. ns = [i \in 1..C |-> ns[i]] /\ 1 \in 1..C
  OBVIOUS
<1> QED
  BY <1>2, <1>3, <1>4, <1>5, <1>6 DEF Piece

\* The leaves are a level that holds all entries.
LEMMA LeavesLevel ==
  ASSUME NEW es, NEW E, Lists(es, E), Len(es) >= 1
  PROVE  \E u, ms : \E N \in Nat : Level(BulkLeaves(es).file, u, BulkLeaves(es).level, ms, N, E)
<1>1. /\ es \in Seq(Entry) /\ Len(es) \in Nat /\ \A i, j \in 1..Len(es) : i < j => es[i][1] < es[j][1]
      /\ {es[i] : i \in 1..Len(es)} = E
  BY DEF Lists
<1>2. PICK b : b = BulkValues(es) /\ ValuesOK(es, Len(es), b)
  BY <1>1, BulkValuesIs
<1>3. PICK f, refs : f = b.file /\ refs = b.refs /\ f \in Seq(ValueRecords) /\ refs \in Seq(Row) /\ Len(refs) = Len(es)
  BY <1>2 DEF ValuesOK
<1>4. ValuesOK(es, Len(es), [file |-> f, refs |-> refs])
  <2>1. PICK b2 : b2 = [file |-> f, refs |-> refs]
    OBVIOUS
  <2>2. b2.file = b.file /\ b2.refs = b.refs
    BY <2>1, <1>3
  <2>3. ValuesOK(es, Len(es), b2)
    BY <2>2, <1>2 DEF ValuesOK
  <2> QED
    BY <2>1, <2>3
<1>5. PICK rows : rows = Chunks(refs, Order - 1)
  OBVIOUS
<1>6. PICK C \in Nat : \E o : Rows(Row, refs, Order - 1, rows, C, o)
  <2>1. Order - 1 \in Nat /\ Order - 1 >= 1 /\ Len(refs) >= 1
    BY <1>3, OrderAssumption
  <2> QED
    BY <2>1, <1>3, <1>5, ChunksAre
<1>7. PICK o : Rows(Row, refs, Order - 1, rows, C, o)
  BY <1>6
<1>8. LeafRows(es, f, refs, rows, C, o)
  BY <1>1, <1>3, <1>4, <1>7 DEF LeafRows, LeafRow
<1>9. C >= 1 /\ DOMAIN rows = 1..C
  BY <1>7 DEF Rows
<1>10. PICK ms, ns, u : LeastKeys(rows, C, ms) /\ ns = [c \in 1..C |-> RowLeaf(rows[c])] /\ u = [p \in {} |-> 0]
  BY DEF LeastKeys
<1>11. TreesOK(f, u, TRUE)
  <2>1. f \in Seq(Records)
    <3>1. \A i \in 1..Len(f) : f[i] \in Records
      <4> SUFFICES ASSUME NEW i \in 1..Len(f) PROVE f[i] \in Records
        OBVIOUS
      <4>1. f[i] \in ValueRecords
        <5> HIDE DEF ValueRecords
        <5> QED
          BY <1>3
      <4> QED
        BY <4>1, RecordKinds
    <3>2. f = [i \in 1..Len(f) |-> f[i]] /\ Len(f) \in Nat
      <4> HIDE DEF ValueRecords
      <4> QED
        BY <1>3
    <3> HIDE DEF Records
    <3> QED
      BY <3>1, <3>2
  <2>2. Nodes(f) = {}
    <3> SUFFICES ASSUME NEW p \in Nodes(f) PROVE FALSE
      OBVIOUS
    <3>1. f[p].kind \in {"leaf", "node"} /\ p \in 1..Len(f)
      BY <2>1, NodesIs
    <3>2. f[p] \in ValueRecords
      <4> HIDE DEF ValueRecords
      <4> QED
        BY <1>3, <3>1
    <3> QED
      BY <3>1, <3>2, RecordKinds
  <2> QED
    BY <2>1, <2>2 DEF TreesOK
<1>17. NoMeta(f)
  <2> SUFFICES ASSUME NEW i \in 1..Len(f) PROVE f[i].kind # "meta"
    BY DEF NoMeta
  <2>1. f[i] \in ValueRecords
    <3> HIDE DEF ValueRecords
    <3> QED
      BY <1>3
  <2> QED
    BY <2>1, RecordKinds
<1>12. Piece(f, u, ns, C, ms, E)
  <2>1. Piece(f, u, ns, C, ms, {es[i] : i \in 1..Len(es)})
    BY <1>8, <1>9, <1>10, LeavesPiece
  <2> QED
    BY <2>1, <1>1
<1>13. PICK lv : lv = [i \in 1..C |-> <<ms[i], Len(f) + i>>]
  OBVIOUS
<1>14. \E v : Level(f \o ns, v, lv, ms, C, E)
  BY <1>11, <1>12, <1>13, <1>17, NewLevel
<1>15. BulkLeaves(es).file = f \o ns
  BY <1>2, <1>3, <1>5, <1>9, <1>10 DEF BulkLeaves, RowLeaf
<1>16. BulkLeaves(es).level = lv
  <2>1. \A i \in 1..C : ms[i] = rows[i][1][1]
    BY <1>10 DEF LeastKeys
  <2>2. BulkLeaves(es).level = [i \in 1..C |-> <<rows[i][1][1], Len(f) + i>>]
    BY <1>2, <1>3, <1>5, <1>9 DEF BulkLeaves
  <2> QED
    BY <2>1, <2>2, <1>13
<1> QED
  BY <1>14, <1>15, <1>16

-----------------------------------------------------------------------------
(* A level of nodes over a level.                                          *)

RowNode(row) == Node(Tail(Column(row, 1)), Column(row, 2))

\* Row c of a level.
LevelRow(f, u, lv, ms, N, E, rows, C, o, c) ==
  Level(f, u, lv, ms, N, E) /\ Rows(Pairs, lv, Order, rows, C, o) /\ c \in 1..C

\* The node of the m places of a level after l.
NodeMade(f, u, lv, ms, N, l, m, n) ==
  /\ n \in NodeRecords /\ n.kind = "node" /\ Len(n.kids) = m /\ Len(n.keys) = m - 1
  /\ m \in Nat /\ m >= 1 /\ l \in Nat /\ l + m <= N
  /\ \A a \in 1..m : n.kids[a] = lv[l + a][2] /\ l + a \in 1..N
  /\ \A a \in 1..(m - 1) : n.keys[a] = ms[l + a + 1] /\ l + a + 1 \in 1..N

LEMMA RowNodeIs ==
  ASSUME NEW f, NEW u, NEW lv, NEW ms, NEW N, NEW E, NEW rows, NEW C, NEW o, NEW c,
         LevelRow(f, u, lv, ms, N, E, rows, C, o, c)
  PROVE  NodeMade(f, u, lv, ms, N, o[c - 1], Len(rows[c]), RowNode(rows[c]))
<1>1. N \in Nat /\ Len(lv) = N /\ lv \in Seq(Pairs) /\ Rows(Pairs, lv, Order, rows, C, o) /\ c \in 1..C
  BY DEF LevelRow, Level
<1>2. PICK m \in Nat, l \in Nat : m = Len(rows[c]) /\ l = o[c - 1] /\ m >= 1 /\ rows[c] \in Seq(Pairs)
  BY <1>1 DEF Rows
<1>3. PICK row \in Seq(Pairs) : row = rows[c] /\ Len(row) = m
  BY <1>2
<1>4. \A a \in 1..m : row[a] = lv[l + a] /\ l + a \in 1..N
  BY <1>1, <1>2, <1>3 DEF Rows
<1>5. l + m <= N
  BY <1>4, <1>2, <1>1
<1>6. PICK x, y : x = Column(row, 1) /\ y = Column(row, 2)
  OBVIOUS
<1>7. /\ x \in Seq(Keys) /\ y \in Seq(Nat) /\ Len(x) = m /\ Len(y) = m
      /\ \A a \in 1..m : x[a] = row[a][1] /\ y[a] = row[a][2]
  <2>1. PairsOf(Keys, Nat, row)
    BY DEF Pairs, PairsOf
  <2>2. /\ Column(row, 1) \in Seq(Keys) /\ Column(row, 2) \in Seq(Nat)
        /\ Len(Column(row, 1)) = Len(row) /\ Len(Column(row, 2)) = Len(row)
        /\ \A a \in 1..Len(row) : Column(row, 1)[a] = row[a][1] /\ Column(row, 2)[a] = row[a][2]
    BY <2>1, ColumnIs DEF Columns
  <2> QED
    BY <2>2, <1>3, <1>6
<1>8. PICK t : t = Tail(x)
  OBVIOUS
<1>9. t \in Seq(Keys) /\ Len(t) = m - 1 /\ \A a \in 1..(m - 1) : t[a] = x[a + 1]
  <2> HIDE DEF Keys
  <2>1. x # <<>>
    BY <1>2, <1>7
  <2> QED
    BY <2>1, <1>2, <1>7, <1>8
<1>10. PICK n : n = RowNode(row)
  OBVIOUS
<1>11. n = [kind |-> "node", keys |-> t, kids |-> y]
  BY <1>6, <1>8, <1>10 DEF RowNode, Node
<1>12. n \in NodeRecords /\ n.kind = "node" /\ n.keys = t /\ n.kids = y
  BY <1>11, <1>9, <1>7 DEF NodeRecords
<1>13. \A i \in 1..N : lv[i][1] = ms[i]
  BY DEF LevelRow, Level, LevelNode
<1>14. \A a \in 1..m : n.kids[a] = lv[l + a][2] /\ l + a \in 1..N
  BY <1>4, <1>7, <1>12
<1>15. \A a \in 1..(m - 1) : n.keys[a] = ms[l + a + 1] /\ l + a + 1 \in 1..N
  <2> SUFFICES ASSUME NEW a \in 1..(m - 1) PROVE n.keys[a] = ms[l + a + 1] /\ l + a + 1 \in 1..N
    OBVIOUS
  <2>1. a + 1 \in 1..m /\ l + (a + 1) = l + a + 1
    BY <1>2
  <2>2. n.keys[a] = row[a + 1][1]
    BY <2>1, <1>7, <1>9, <1>12
  <2>3. row[a + 1] = lv[l + a + 1] /\ l + a + 1 \in 1..N
    BY <2>1, <1>4
  <2> QED
    BY <2>2, <2>3, <1>13
<1>16. NodeMade(f, u, lv, ms, N, l, m, n)
  BY <1>2, <1>5, <1>7, <1>9, <1>12, <1>14, <1>15 DEF NodeMade
<1> QED
  BY <1>2, <1>3, <1>10, <1>16

\* The facts of one place of a level, with its keys typed.
LEMMA LevelPlace ==
  ASSUME NEW f, NEW u, NEW lv, NEW ms, NEW N, NEW E, Level(f, u, lv, ms, N, E), NEW i \in 1..N
  PROVE  /\ ms[i] \in Keys /\ ms[i] \in Nat /\ lv[i][2] \in Nodes(f) /\ SummaryOK(u[lv[i][2]])
         /\ u[lv[i][2]].h = u[lv[1][2]].h /\ (i < N => u[lv[i][2]].solid)
         /\ \A k \in u[lv[i][2]].ks : /\ k \in Nat /\ ms[i] <= k
                                      /\ \A j \in 1..N : i < j => k < ms[j]
         /\ \A j \in 1..N : i < j => ms[i] < ms[j]
<1>1. LevelNode(f, u, lv, ms, N, i) /\ TreesOK(f, u, TRUE)
  BY DEF Level
<1>2. /\ lv[i] \in Pairs /\ lv[i][1] = ms[i] /\ lv[i][2] \in Nodes(f)
      /\ u[lv[i][2]].h = u[lv[1][2]].h
      /\ (i < N => u[lv[i][2]].solid)
      /\ \A k \in u[lv[i][2]].ks : ms[i] <= k /\ \A j \in 1..N : i < j => k < ms[j]
  BY <1>1 DEF LevelNode, Between
<1>3. ms[i] \in Keys
  <2> HIDE DEF Keys
  <2> QED
    BY <1>2 DEF Pairs
<1>4. ms[i] \in Nat
  BY <1>3, MapAssumption DEF Keys
<1>5. SummaryOK(u[lv[i][2]])
  BY <1>1, <1>2 DEF TreesOK
<1>6. \A k \in u[lv[i][2]].ks : k \in Nat
  BY <1>5, MapAssumption DEF SummaryOK, Summaries, Keys
<1>7. \A j \in 1..N : i < j => ms[i] < ms[j]
  BY DEF Level
<1> QED
  BY <1>2, <1>3, <1>4, <1>5, <1>6, <1>7

\* The keys of the node are above its least one, and below those of the places after it.
NodeFits(f, u, lv, ms, N, l, m, n) ==
  /\ NodeOK(f, u, n)
  /\ Summary(f, u, n).h = u[lv[1][2]].h + 1
  /\ Summary(f, u, n).e = UNION {u[lv[l + a][2]].e : a \in 1..m}
  /\ \A k \in Summary(f, u, n).ks : ms[l + 1] <= k /\ \A j \in 1..N : l + m < j => k < ms[j]
  /\ (m = Order /\ l + m < N) => Summary(f, u, n).solid

LEMMA NodeFitsLevel ==
  ASSUME NEW f, NEW u, NEW lv, NEW ms, NEW N, NEW E, Level(f, u, lv, ms, N, E),
         NEW l, NEW m, NEW n, NodeMade(f, u, lv, ms, N, l, m, n)
  PROVE  NodeFits(f, u, lv, ms, N, l, m, n)
<1>1. /\ n \in NodeRecords /\ n.kind = "node" /\ Len(n.kids) = m /\ Len(n.keys) = m - 1
      /\ m \in Nat /\ m >= 1 /\ l \in Nat /\ l + m <= N /\ N \in Nat
      /\ \A a \in 1..m : n.kids[a] = lv[l + a][2] /\ l + a \in 1..N
      /\ \A a \in 1..(m - 1) : n.keys[a] = ms[l + a + 1] /\ l + a + 1 \in 1..N
  BY DEF NodeMade, Level
<1>2. 1 \in 1..m /\ m \in 1..m
  BY <1>1
<1>3. \A i \in 1..m : n.kids[i] \in Nodes(f) /\ u[n.kids[i]].h = u[n.kids[1]].h /\ u[n.kids[1]].h = u[lv[1][2]].h
  <2>1. \A i \in 1..m : n.kids[i] \in Nodes(f) /\ u[n.kids[i]].h = u[lv[1][2]].h
    <3> SUFFICES ASSUME NEW i \in 1..m PROVE n.kids[i] \in Nodes(f) /\ u[n.kids[i]].h = u[lv[1][2]].h
      OBVIOUS
    <3>1. PICK q \in 1..N : q = l + i /\ n.kids[i] = lv[q][2]
      BY <1>1
    <3> QED
      BY <3>1, LevelPlace
  <2> QED
    BY <2>1, <1>2
<1>4. ASSUME NEW i \in 1..(m - 1), NEW j \in 1..(m - 1), i < j PROVE n.keys[i] < n.keys[j]
  <2>1. PICK q \in 1..N, r \in 1..N : q = l + i + 1 /\ r = l + j + 1 /\ n.keys[i] = ms[q] /\ n.keys[j] = ms[r]
    BY <1>1
  <2>2. q < r
    BY <2>1, <1>1, <1>4
  <2> QED
    BY <2>1, <2>2, LevelPlace
<1>5. \A j \in 1..(m - 1) : u[n.kids[j]].solid
  <2> SUFFICES ASSUME NEW j \in 1..(m - 1) PROVE u[n.kids[j]].solid
    OBVIOUS
  <2>1. PICK q \in 1..N : q = l + j /\ n.kids[j] = lv[q][2]
    BY <1>1
  <2>2. q < N
    BY <2>1, <1>1
  <2> QED
    BY <2>1, <2>2, LevelPlace
<1>6. ASSUME NEW i \in 1..m, NEW j \in 1..(m - 1), NEW k \in u[n.kids[i]].ks
      PROVE  IF j < i THEN n.keys[j] <= k ELSE k < n.keys[j]
  <2>1. PICK q \in 1..N, r \in 1..N : q = l + i /\ n.kids[i] = lv[q][2] /\ r = l + j + 1 /\ n.keys[j] = ms[r]
    BY <1>1
  <2>2. k \in Nat /\ ms[q] <= k /\ (\A s \in 1..N : q < s => k < ms[s]) /\ ms[q] \in Nat
    BY <2>1, LevelPlace
  <2>3. r < q => ms[r] < ms[q]
    BY LevelPlace
  <2>4. ms[r] \in Nat
    BY LevelPlace
  <2>5. IF j < i THEN r < q \/ r = q ELSE q < r
    BY <2>1, <1>1
  <2> QED
    BY <2>1, <2>2, <2>3, <2>4, <2>5
<1>7. NodeOK(f, u, n)
  BY <1>1, <1>3, <1>4, <1>5, <1>6 DEF NodeOK, Ascends
<1>8. /\ Summary(f, u, n).h = u[n.kids[1]].h + 1
      /\ Summary(f, u, n).e = UNION {u[n.kids[i]].e : i \in 1..Len(n.kids)}
      /\ Summary(f, u, n).ks = {n.keys[i] : i \in 1..Len(n.keys)} \cup UNION {u[n.kids[i]].ks : i \in 1..Len(n.kids)}
      /\ Summary(f, u, n).solid = (Len(n.keys) >= MinKeys /\ u[n.kids[Len(n.kids)]].solid)
  BY <1>1 DEF Summary, NodeSummary
<1>9. Summary(f, u, n).e = UNION {u[lv[l + a][2]].e : a \in 1..m}
  <2>1. {u[n.kids[i]].e : i \in 1..Len(n.kids)} = {u[lv[l + a][2]].e : a \in 1..m}
    <3>1. Len(n.kids) = m /\ \A a \in 1..m : n.kids[a] = lv[l + a][2]
      BY <1>1
    <3> QED
      BY ONLY <3>1
  <2> QED
    BY <2>1, <1>8
<1>10. ASSUME NEW k \in Summary(f, u, n).ks
       PROVE  ms[l + 1] <= k /\ \A j \in 1..N : l + m < j => k < ms[j]
  <2>1. (\E i \in 1..(m - 1) : k = n.keys[i]) \/ (\E i \in 1..m : k \in u[n.kids[i]].ks)
    BY <1>1, <1>8
  <2>2. PICK z \in 1..N : z = l + 1 /\ ms[z] \in Nat
    BY <1>1, <1>2, LevelPlace
  <2>3. CASE \E i \in 1..(m - 1) : k = n.keys[i]
    <3>1. PICK i \in 1..(m - 1) : k = n.keys[i]
      BY <2>3
    <3>2. PICK q \in 1..N : q = l + i + 1 /\ k = ms[q]
      BY <3>1, <1>1
    <3>3. z < q /\ \A j \in 1..N : l + m < j => q < j
      BY <3>2, <2>2, <1>1
    <3>4. ms[q] \in Nat /\ ms[z] < ms[q] /\ \A j \in 1..N : q < j => ms[q] < ms[j]
      BY <3>3, LevelPlace
    <3> QED
      BY <2>2, <3>2, <3>3, <3>4
  <2>4. CASE \E i \in 1..m : k \in u[n.kids[i]].ks
    <3>1. PICK i \in 1..m : k \in u[n.kids[i]].ks
      BY <2>4
    <3>2. PICK q \in 1..N : q = l + i /\ n.kids[i] = lv[q][2]
      BY <1>1
    <3>3. (z < q \/ z = q) /\ \A j \in 1..N : l + m < j => q < j
      BY <3>2, <2>2, <1>1
    <3>4. z < q => ms[z] < ms[q]
      BY LevelPlace
    <3>5. k \in Nat /\ ms[q] <= k /\ (\A s \in 1..N : q < s => k < ms[s]) /\ ms[q] \in Nat
      BY <3>1, <3>2, LevelPlace
    <3> QED
      BY <2>2, <3>3, <3>4, <3>5
  <2> QED
    BY <2>1, <2>3, <2>4
<1>11. (m = Order /\ l + m < N) => Summary(f, u, n).solid
  <2> SUFFICES ASSUME m = Order, l + m < N PROVE Summary(f, u, n).solid
    OBVIOUS
  <2>1. PICK q \in 1..N : q = l + m /\ n.kids[m] = lv[q][2]
    BY <1>1, <1>2
  <2>2. u[n.kids[m]].solid
    BY <2>1, LevelPlace
  <2>3. Len(n.keys) >= MinKeys
    BY <1>1, MinKeysIs, OrderAssumption
  <2> QED
    BY <2>2, <2>3, <1>1, <1>8
<1>12. Summary(f, u, n).h = u[lv[1][2]].h + 1
  BY <1>2, <1>3, <1>8
<1> QED
  BY <1>7, <1>9, <1>10, <1>11, <1>12 DEF NodeFits

\* The nodes over a level hold what it holds.
LEMMA NodesPiece ==
  ASSUME NEW f, NEW u, NEW lv, NEW ms, NEW N, NEW E, Level(f, u, lv, ms, N, E),
         NEW rows, NEW C, NEW o, Rows(Pairs, lv, Order, rows, C, o),
         NEW least, LeastKeys(rows, C, least), NEW ns, ns = [c \in 1..C |-> RowNode(rows[c])]
  PROVE  Piece(f, u, ns, C, least, E)
<1>1. C \in Nat /\ C >= 1 /\ N \in Nat /\ Len(lv) = N /\ 1 \in 1..C
  BY DEF Rows, Level
<1>2. ASSUME NEW c \in 1..C
      PROVE  /\ NodeMade(f, u, lv, ms, N, o[c - 1], Len(rows[c]), ns[c])
             /\ NodeFits(f, u, lv, ms, N, o[c - 1], Len(rows[c]), ns[c])
  <2>1. LevelRow(f, u, lv, ms, N, E, rows, C, o, c)
    BY DEF LevelRow
  <2>2. NodeMade(f, u, lv, ms, N, o[c - 1], Len(rows[c]), ns[c])
    BY <2>1, RowNodeIs
  <2> QED
    BY <2>2, NodeFitsLevel
<1>3. ASSUME NEW c \in 1..C
      PROVE  \E m \in Nat, l \in Nat :
               /\ m = Len(rows[c]) /\ l = o[c - 1] /\ m >= 1 /\ l + m <= N /\ m <= Order
               /\ (c < C => m = Order /\ l + m < N)
               /\ l + 1 \in 1..N /\ least[c] = ms[l + 1]
               /\ \A j \in 1..C : c < j => l + m < o[j - 1] + 1
  <2>1. PICK m \in Nat, l \in Nat, r \in Nat :
          /\ m = Len(rows[c]) /\ l = o[c - 1] /\ r = o[c] /\ m = r - l /\ m >= 1 /\ m <= Order
          /\ (c < C => m = Order /\ r < N)
    BY <1>1 DEF Rows
  <2>2. 1 \in 1..m
    BY <2>1
  <2>3. PICK i \in 1..N : i = l + 1 /\ rows[c][1] = lv[i]
    BY <2>1, <2>2, <1>1 DEF Rows
  <2>4. lv[i][1] = ms[i]
    BY DEF Level, LevelNode
  <2>5. least[c] = rows[c][1][1]
    BY DEF LeastKeys
  <2>6. r <= N
    <3>1. c \in 0..C
      BY <1>1
    <3> QED
      BY <3>1, <2>1, <1>1 DEF Rows
  <2>7. \A j \in 1..C : c < j => r < o[j - 1] + 1
    <3> SUFFICES ASSUME NEW j \in 1..C, c < j PROVE r < o[j - 1] + 1
      OBVIOUS
    <3>1. r <= o[j - 1] /\ o[j - 1] \in Nat
      BY <2>1 DEF Rows
    <3> QED
      BY <3>1
  <2>8. l + m = r
    BY <2>1
  <2> QED
    BY <2>1, <2>3, <2>4, <2>5, <2>6, <2>7, <2>8
<1>4. ASSUME NEW c \in 1..C, NEW j \in 1..C, c < j PROVE least[c] < least[j]
  <2>1. PICK m \in Nat, l \in Nat :
          l = o[c - 1] /\ m >= 1 /\ l + 1 \in 1..N /\ least[c] = ms[l + 1] /\ l + m < o[j - 1] + 1
    BY <1>3, <1>4
  <2>2. PICK k \in Nat : k = o[j - 1] /\ k + 1 \in 1..N /\ least[j] = ms[k + 1]
    BY <1>3
  <2>3. l + 1 < k + 1
    BY <2>1, <2>2
  <2> QED
    BY <2>1, <2>2, <2>3, LevelPlace
<1>5. ASSUME NEW c \in 1..C
      PROVE  /\ least[c] \in Keys /\ ns[c] \in Records /\ ns[c].kind \in {"leaf", "node"}
             /\ Fits(f, u, TRUE, ns[c])
             /\ Summary(f, u, ns[c]).h = u[lv[1][2]].h + 1
             /\ c < C => Summary(f, u, ns[c]).solid
             /\ Between(Summary(f, u, ns[c]).ks, least, C, c)
  <2>1. PICK m \in Nat, l \in Nat :
               /\ m = Len(rows[c]) /\ l = o[c - 1] /\ m >= 1 /\ l + m <= N /\ m <= Order
               /\ (c < C => m = Order /\ l + m < N)
               /\ l + 1 \in 1..N /\ least[c] = ms[l + 1]
               /\ \A j \in 1..C : c < j => l + m < o[j - 1] + 1
    BY <1>3
  <2>2. least[c] \in Keys
    BY <2>1, LevelPlace
  <2>3. ns[c] \in NodeRecords /\ ns[c].kind = "node" /\ Len(ns[c].keys) = m - 1
    BY <1>2, <2>1 DEF NodeMade
  <2>4. /\ NodeOK(f, u, ns[c])
        /\ Summary(f, u, ns[c]).h = u[lv[1][2]].h + 1
        /\ (m = Order /\ l + m < N) => Summary(f, u, ns[c]).solid
        /\ \A k \in Summary(f, u, ns[c]).ks : ms[l + 1] <= k /\ \A j \in 1..N : l + m < j => k < ms[j]
    BY <1>2, <2>1 DEF NodeFits
  <2>5. \A j \in 1..C : c < j => \E i \in 1..N : l + m < i /\ least[j] = ms[i]
    <3> SUFFICES ASSUME NEW j \in 1..C, c < j PROVE \E i \in 1..N : l + m < i /\ least[j] = ms[i]
      OBVIOUS
    <3>1. o[j - 1] + 1 \in 1..N /\ least[j] = ms[o[j - 1] + 1]
      BY <1>3
    <3> QED
      BY <3>1, <2>1
  <2>6. Between(Summary(f, u, ns[c]).ks, least, C, c)
    BY <2>1, <2>4, <2>5 DEF Between
  <2>7. Fits(f, u, TRUE, ns[c])
    BY <2>1, <2>3, <2>4, OrderAssumption DEF Fits, RecordOK
  <2>8. ns[c] \in Records
    BY <2>3, RecordKinds
  <2> QED
    BY <2>1, <2>2, <2>3, <2>4, <2>6, <2>7, <2>8
<1>6. UNION {Summary(f, u, ns[c]).e : c \in 1..C} = E
  <2>1. \A c \in 1..C : Summary(f, u, ns[c]).e = UNION {u[lv[o[c - 1] + a][2]].e : a \in 1..Len(rows[c])}
    BY <1>2 DEF NodeFits
  <2>2. \A c \in 1..C : \A a \in 1..Len(rows[c]) : o[c - 1] + a \in 1..N
    BY <1>2 DEF NodeMade
  <2>3. \A i \in 1..N : \E c \in 1..C : \E a \in 1..Len(rows[c]) : i = o[c - 1] + a
    <3> SUFFICES ASSUME NEW i \in 1..N PROVE \E c \in 1..C : \E a \in 1..Len(rows[c]) : i = o[c - 1] + a
      OBVIOUS
    <3>1. i \in 1..Len(lv)
      BY <1>1
    <3> QED
      BY <3>1, InRow
  <2>4. PICK F : F = [c \in 1..C |-> Summary(f, u, ns[c]).e]
    OBVIOUS
  <2>5. UNION {u[lv[i][2]].e : i \in 1..N} = E
    BY DEF Level
  <2>6. \A c \in 1..C : F[c] \subseteq E
    <3> SUFFICES ASSUME NEW c \in 1..C, NEW x \in F[c] PROVE x \in E
      OBVIOUS
    <3>1. x \in UNION {u[lv[o[c - 1] + a][2]].e : a \in 1..Len(rows[c])}
      BY <2>1, <2>4
    <3>2. PICK a \in 1..Len(rows[c]) : x \in u[lv[o[c - 1] + a][2]].e
      BY <3>1
    <3>3. PICK i \in 1..N : x \in u[lv[i][2]].e
      BY <3>2, <2>2
    <3> QED
      BY <3>3, <2>5
  <2>7. \A x \in E : \E c \in 1..C : x \in F[c]
    <3> SUFFICES ASSUME NEW x \in E PROVE \E c \in 1..C : x \in F[c]
      OBVIOUS
    <3>1. PICK i \in 1..N : x \in u[lv[i][2]].e
      BY <2>5
    <3>2. PICK c \in 1..C : \E a \in 1..Len(rows[c]) : i = o[c - 1] + a
      BY <2>3
    <3>3. PICK a \in 1..Len(rows[c]) : i = o[c - 1] + a
      BY <3>2
    <3>4. x \in UNION {u[lv[o[c - 1] + b][2]].e : b \in 1..Len(rows[c])}
      BY <3>1, <3>3
    <3> QED
      BY <3>4, <2>1, <2>4
  <2>8. UNION {F[c] : c \in 1..C} = E
    BY <2>6, <2>7, UnionOf
  <2>9. {F[c] : c \in 1..C} = {Summary(f, u, ns[c]).e : c \in 1..C}
    BY <2>4
  <2> QED
    BY <2>8, <2>9
<1>7. ns = [c \in 1..C |-> ns[c]]
  OBVIOUS
<1>8. \A c \in 1..C : Summary(f, u, ns[c]).h = Summary(f, u, ns[1]).h
  BY <1>1, <1>5
<1> QED
  BY <1>1, <1>4, <1>5, <1>6, <1>7, <1>8 DEF Piece

IsLevel(b, N, E) == \E u, ms : Level(b.file, u, b.level, ms, N, E)

\* A level over a level holds the same entries, in fewer nodes.
LEMMA BulkLevelIs ==
  ASSUME NEW b, NEW N, NEW E, IsLevel(b, N, E), N >= 2
  PROVE  \E C \in Nat : C < N /\ IsLevel(BulkLevel(b), C, E)
<1>1. PICK f, lv : f = b.file /\ lv = b.level
  OBVIOUS
<1>2. PICK u, ms : Level(f, u, lv, ms, N, E)
  BY <1>1 DEF IsLevel
<1>3. N \in Nat /\ Len(lv) = N /\ lv \in Seq(Pairs) /\ TreesOK(f, u, TRUE) /\ NoMeta(f)
  BY <1>2 DEF Level
<1>4. PICK rows : rows = Chunks(lv, Order)
  OBVIOUS
<1>5. PICK C \in Nat : \E o : Rows(Pairs, lv, Order, rows, C, o)
  <2>1. Order \in Nat /\ Order >= 1 /\ Len(lv) >= 1
    BY <1>3, OrderAssumption
  <2> HIDE DEF Pairs
  <2> QED
    BY <2>1, <1>3, <1>4, ChunksAre
<1>6. PICK o : Rows(Pairs, lv, Order, rows, C, o)
  BY <1>5
<1>7. C < N /\ DOMAIN rows = 1..C
  BY <1>3, <1>6, OrderAssumption DEF Rows
<1>8. PICK least, ns : LeastKeys(rows, C, least) /\ ns = [c \in 1..C |-> RowNode(rows[c])]
  BY DEF LeastKeys
<1>9. Piece(f, u, ns, C, least, E)
  BY <1>2, <1>6, <1>8, NodesPiece
<1>10. PICK new : new = [i \in 1..C |-> <<least[i], Len(f) + i>>]
  OBVIOUS
<1>11. \E v : Level(f \o ns, v, new, least, C, E)
  BY <1>3, <1>9, <1>10, NewLevel
<1>12. BulkLevel(b).file = f \o ns
  BY <1>1, <1>4, <1>7, <1>8 DEF BulkLevel, RowNode
<1>13. BulkLevel(b).level = new
  <2>1. \A i \in 1..C : least[i] = rows[i][1][1]
    BY <1>8 DEF LeastKeys
  <2>2. BulkLevel(b).level = [i \in 1..C |-> <<rows[i][1][1], Len(f) + i>>]
    BY <1>1, <1>4, <1>7 DEF BulkLevel
  <2> QED
    BY <2>1, <2>2, <1>10
<1> QED
  BY <1>7, <1>11, <1>12, <1>13 DEF IsLevel

LEMMA StepsLeft ==
  ASSUME NEW N \in Nat, NEW M \in Nat, NEW K \in Nat, NEW j \in Nat,
         M >= 1, M >= 2 => K < M, M = 1 => K = 1, M + j <= N \/ M = 1
  PROVE  K + (j + 1) <= N \/ K = 1
OBVIOUS

\* One node is left in the end, and holds them.
LEMMA BulkLevelsIs ==
  ASSUME NEW b, NEW N, NEW E, IsLevel(b, N, E), b \in [file : Seq(Records), level : Seq(Pairs)]
  PROVE  IsLevel(BulkLevels(b), 1, E)
<1> DEFINE R == [file : Seq(Records), level : Seq(Pairs)]
           X == {x \in R : IsLevel(x, Len(x.level), E)}
           over(x) == IF Len(x.level) = 1 THEN x ELSE BulkLevel(x)
           step == [y \in (1..N) \X X |-> over(y[2])]
           D(v) == v = [n \in 0..N |-> IF n = 0 THEN b ELSE over(v[n - 1])]
<1>1. N \in Nat /\ N >= 1 /\ Len(b.level) = N
  BY DEF IsLevel, Level
<1>2. ASSUME NEW x, NEW M, IsLevel(x, M, E)
      PROVE  M \in Nat /\ M >= 1 /\ Len(x.level) = M /\ x.file \in Seq(Records) /\ x.level \in Seq(Pairs)
  BY <1>2 DEF IsLevel, Level, TreesOK
<1>3. b \in X
  <2> HIDE DEF Records, Pairs
  <2> QED
    BY <1>1
<1>4. ASSUME NEW x \in X
      PROVE  /\ Len(x.level) \in Nat /\ Len(x.level) >= 1 /\ over(x) \in X
             /\ Len(x.level) >= 2 => Len(over(x).level) < Len(x.level)
  <2>1. IsLevel(x, Len(x.level), E) /\ x \in R
    BY <1>4
  <2>2. PICK M \in Nat : M = Len(x.level) /\ M >= 1
    BY <2>1, <1>2
  <2>3. CASE M = 1
    BY <2>2, <2>3
  <2>4. CASE M # 1
    <3>1. PICK C \in Nat : C < M /\ IsLevel(BulkLevel(x), C, E)
      <4> HIDE DEF X, over, R
      <4>1. M >= 2
        <5>1. M >= 1 /\ M # 1
          BY <2>2, <2>4
        <5> QED
          BY <5>1
      <4>2. IsLevel(x, M, E)
        BY <2>1, <2>2
      <4> QED
        BY <4>1, <4>2, BulkLevelIs
    <3>2. PICK y : y = BulkLevel(x)
      OBVIOUS
    <3>3. Len(y.level) = C /\ y.file \in Seq(Records) /\ y.level \in Seq(Pairs)
      BY <3>1, <3>2, <1>2
    <3>4. y = [file |-> y.file, level |-> y.level]
      BY <3>2 DEF BulkLevel
    <3>5. y \in R
      <4> HIDE DEF Records, Pairs
      <4> QED
        BY <3>3, <3>4
    <3>6. y \in X
      <4> HIDE DEF R
      <4> QED
        BY <3>1, <3>2, <3>3, <3>5
    <3>7. over(x) = y
      BY <3>2, <2>2, <2>4
    <3> HIDE DEF over, X
    <3> QED
      BY <3>1, <3>3, <3>6, <3>7, <2>2
  <2> QED
    BY <2>3, <2>4
<1>5. \E v : D(v)
  <2> HIDE DEF X, over
  <2>1. step \in [(1..N) \X X -> X]
    BY <1>4
  <2> HIDE DEF step
  <2>2. PICK v \in [0..N -> X] : Recurses(v, b, N, step)
    BY <1>1, <1>3, <2>1, Recursion
  <2>3. v = [n \in 0..N |-> IF n = 0 THEN b ELSE step[<<n, v[n - 1]>>]]
    BY <2>2 DEF Recurses
  <2>4. ASSUME NEW n \in 0..N, n # 0 PROVE step[<<n, v[n - 1]>>] = over(v[n - 1])
    <3>1. n - 1 \in 0..N /\ n \in 1..N
      BY <1>1, <2>4
    <3>2. v[n - 1] \in X
      BY <3>1
    <3>3. <<n, v[n - 1]>> \in (1..N) \X X
      BY <3>1, <3>2
    <3> QED
      BY <3>3 DEF step
  <2>5. v = [n \in 0..N |-> IF n = 0 THEN b ELSE over(v[n - 1])]
    BY <2>3, <2>4
  <2> QED
    BY <2>5
<1> DEFINE c == CHOOSE v : D(v)
<1>6. D(c)
  <2> HIDE DEF D
  <2> QED
    BY <1>5
<1>7. BulkLevels(b) = c[N]
  BY <1>1 DEF BulkLevels
<1> HIDE DEF c, step, X, over
<1> DEFINE S == {n \in 0..N : c[n] \in X /\ (Len(c[n].level) + n <= N \/ Len(c[n].level) = 1)}
<1>8. 0 \in S
  <2>1. c[0] = b /\ 0 \in 0..N
    BY <1>1, <1>6
  <2> QED
    BY <2>1, <1>1, <1>3
<1>9. ASSUME NEW i \in 0..N, i < N, i \in S PROVE i + 1 \in S
  <2>1. i + 1 \in 0..N /\ i + 1 # 0 /\ (i + 1) - 1 = i /\ i \in Nat
    BY <1>1, <1>9
  <2>2. c[i + 1] = over(c[i])
    BY <1>6, <2>1
  <2>3. c[i] \in X /\ (Len(c[i].level) + i <= N \/ Len(c[i].level) = 1)
    BY <1>9
  <2>4. PICK x : x = c[i]
    OBVIOUS
  <2>5. over(x) \in X
    BY <2>3, <2>4, <1>4
  <2>6. PICK M \in Nat, K \in Nat : M = Len(x.level) /\ M >= 1 /\ K = Len(over(x).level) /\ (M >= 2 => K < M)
    BY <2>3, <2>4, <2>5, <1>4
  <2>7. M = 1 => K = 1
    BY <2>6 DEF over
  <2>8. K + (i + 1) <= N \/ K = 1
    <3>1. M + i <= N \/ M = 1
      BY <2>3, <2>4, <2>6
    <3>2. PICK j \in Nat : j = i
      BY <2>1
    <3>3. K + (j + 1) <= N \/ K = 1
      <4>1. M + j <= N \/ M = 1
        BY <3>1, <3>2, <1>1
      <4>2. M >= 1 /\ (M >= 2 => K < M) /\ (M = 1 => K = 1)
        BY <2>6, <2>7
      <4>3. N \in Nat
        BY <1>1
      <4> QED
        BY <4>1, <4>2, <4>3, StepsLeft
    <3> QED
      BY <3>2, <3>3
  <2> QED
    BY <2>1, <2>2, <2>4, <2>5, <2>6, <2>8
<1> HIDE DEF S
<1>10. N \in S
  <2>1. \A i \in 0..N : i < N /\ i \in S => i + 1 \in S
    BY <1>9
  <2>2. \A i \in 0..N : i \in S
    BY <2>1, <1>1, <1>8, UpTo
  <2> QED
    BY <2>2, <1>1
<1>11. c[N] \in X /\ (Len(c[N].level) + N <= N \/ Len(c[N].level) = 1)
  BY <1>10 DEF S
<1>12. Len(c[N].level) = 1
  <2>1. PICK M \in Nat : M = Len(c[N].level) /\ M >= 1
    BY <1>11, <1>4
  <2> QED
    BY <2>1, <1>1, <1>11
<1> QED
  BY <1>7, <1>11, <1>12 DEF X

-----------------------------------------------------------------------------
(* The whole load.                                                         *)

RootHolds(f, u, loaded, E) ==
  TreesOK(f, u, loaded) /\ Len(f) \in Nodes(f) /\ u[Len(f)].e = E /\ NoMeta(f)

LEMMA EmptyLoad ==
  ASSUME NEW loaded \in BOOLEAN
  PROVE  \E u : RootHolds(<<Leaf(<<>>, <<>>)>>, u, loaded, {})
<1>1. PICK f, u, n, ns : f = <<>> /\ u = [p \in {} |-> 0] /\ n = Leaf(<<>>, <<>>) /\ ns = <<n>>
  OBVIOUS
<1>2. n \in LeafRecords /\ n.kind = "leaf" /\ n.keys = <<>> /\ n.vals = <<>> /\ n \in Records
  <2>1. n \in LeafRecords /\ n.keys = <<>> /\ n.vals = <<>>
    BY <1>1 DEF LeafRecords, Leaf
  <2> QED
    BY <2>1, RecordKinds
<1>3. Len(n.keys) = 0 /\ Len(n.vals) = 0 /\ Len(f) = 0
  BY <1>1, <1>2
<1>0. f \in Seq(Records) /\ ns \in Seq(Records)
  <2> HIDE DEF Records
  <2> QED
    BY <1>1, <1>2
<1>4. f \in Seq(Records) /\ ns \in Seq(Records) /\ Len(ns) = 1 /\ ns[1] = n /\ f \o ns = ns
  <2> HIDE DEF Records
  <2> QED
    BY <1>1, <1>2
<1>5. TreesOK(f, u, loaded)
  <2>1. Nodes(f) = {}
    BY <1>1 DEF Nodes
  <2> QED
    BY <2>1, <1>4 DEF TreesOK
<1>6. LeafOK(f, n)
  BY <1>2, <1>3 DEF LeafOK, Ascends
<1>7. Fits(f, u, loaded, n)
  BY <1>2, <1>3, <1>6, OrderAssumption DEF Fits, RecordOK, Dense, KidsFilled
<1>8. Summary(f, u, n).e = {}
  <2>1. Summary(f, u, n).e = {<<n.keys[i], ResolveValue(f, n.vals[i])>> : i \in 1..Len(n.keys)}
    BY <1>2 DEF Summary, LeafSummary
  <2> QED
    BY <2>1, <1>3
<1>9. \A i \in 1..Len(ns) : ns[i].kind \in {"leaf", "node"} => Fits(f, u, loaded, ns[i])
  BY <1>4, <1>7
<1>10. PICK v : v = Grown(f, u, ns)
  OBVIOUS
<1>11. /\ TreesOK(f \o ns, v, loaded)
       /\ \A i \in 1..Len(ns) : ns[i].kind \in {"leaf", "node"} =>
            Len(f) + i \in Nodes(f \o ns) /\ v[Len(f) + i] = Summary(f, u, ns[i])
  <2>1. /\ TreesOK(f \o ns, Grown(f, u, ns), loaded)
        /\ \A i \in 1..Len(ns) :
              /\ Len(f) + i \in 1..Len(f \o ns) /\ (f \o ns)[Len(f) + i] = ns[i]
              /\ ns[i].kind \in {"leaf", "node"} =>
                    /\ Len(f) + i \in Nodes(f \o ns)
                    /\ Grown(f, u, ns)[Len(f) + i] = Summary(f, u, ns[i])
    BY <1>0, <1>5, <1>9, SaveAll
  <2> QED
    BY <2>1, <1>10
<1>12. Len(ns) \in Nodes(ns) /\ v[Len(ns)] = Summary(f, u, n)
  <2>1. 1 \in 1..Len(ns) /\ ns[1].kind \in {"leaf", "node"} /\ Len(f) + 1 = Len(ns)
    BY <1>2, <1>3, <1>4
  <2> QED
    BY <2>1, <1>4, <1>11
<1>14. NoMeta(ns)
  BY <1>2, <1>4 DEF NoMeta
<1>13. RootHolds(ns, v, loaded, {})
  BY <1>4, <1>8, <1>11, <1>12, <1>14 DEF RootHolds
<1> QED
  BY <1>1, <1>13

LEMMA LevelRoot ==
  ASSUME NEW f, NEW u, NEW lv, NEW ms, NEW E, Level(f, u, lv, ms, 1, E)
  PROVE  RootHolds(f, u, TRUE, E)
<1>0. PICK N : N = 1 /\ Level(f, u, lv, ms, N, E)
  OBVIOUS
<1>1. TreesOK(f, u, TRUE) /\ NoMeta(f) /\ lv[1][2] = Len(f) /\ LevelNode(f, u, lv, ms, N, 1)
  <2>1. TreesOK(f, u, TRUE) /\ NoMeta(f) /\ lv[N][2] = Len(f) /\ \A i \in 1..N : LevelNode(f, u, lv, ms, N, i)
    BY <1>0 DEF Level
  <2>2. 1 \in 1..N
    BY <1>0
  <2> QED
    BY <2>1, <2>2, <1>0
<1>2. Len(f) \in Nodes(f)
  BY <1>1 DEF LevelNode
<1>3. UNION {u[lv[i][2]].e : i \in 1..N} = E
  BY <1>0 DEF Level
<1>4. u[lv[1][2]].e = E
  <2>1. 1..N = {1}
    BY <1>0
  <2>2. {u[lv[i][2]].e : i \in 1..N} = {u[lv[1][2]].e}
    BY <2>1
  <2> QED
    BY <2>2, <1>3
<1> QED
  BY <1>1, <1>2, <1>4 DEF RootHolds

\* A bulk load gives a file of trees in order, the last of which holds what was loaded.
LEMMA BulkLoadIs ==
  ASSUME NEW es, NEW E, Lists(es, E)
  PROVE  \E u : RootHolds(BulkLoad(es), u, TRUE, E)
<1>1. CASE es = <<>>
  <2>1. E = {}
    <3>1. {es[i] : i \in 1..Len(es)} = E
      BY DEF Lists
    <3>2. 1..Len(es) = {}
      BY <1>1
    <3> QED
      BY <3>1, <3>2
  <2> QED
    BY <2>1, <1>1, EmptyLoad DEF BulkLoad
<1>2. CASE es # <<>>
  <2>1. es \in Seq(Entry) /\ Len(es) >= 1
    <3>1. es \in Seq(Entry)
      BY DEF Lists
    <3> HIDE DEF Entry
    <3> QED
      BY <3>1, <1>2
  <2>2. PICK b : b = BulkLeaves(es)
    OBVIOUS
  <2>3. PICK N \in Nat : IsLevel(b, N, E)
    BY <2>1, <2>2, LeavesLevel DEF IsLevel
  <2>4. b.file \in Seq(Records) /\ b.level \in Seq(Pairs)
    BY <2>3 DEF IsLevel, Level, TreesOK
  <2>5. b \in [file : Seq(Records), level : Seq(Pairs)]
    <3>1. b = [file |-> b.file, level |-> b.level]
      BY <2>2 DEF BulkLeaves
    <3> HIDE DEF Records, Pairs
    <3> QED
      BY <3>1, <2>4
  <2>6. IsLevel(BulkLevels(b), 1, E)
    BY <2>3, <2>5, BulkLevelsIs
  <2>7. PICK f : f = BulkLevels(b).file
    OBVIOUS
  <2>8. \E u : RootHolds(f, u, TRUE, E)
    BY <2>6, <2>7, LevelRoot DEF IsLevel
  <2>9. BulkLoad(es) = f
    BY <1>2, <2>2, <2>7 DEF BulkLoad
  <2> QED
    BY <2>8, <2>9
<1> QED
  BY <1>1, <1>2

-----------------------------------------------------------------------------
(* What an insert or a delete appends are nodes and values.                *)

Plain(f, g) == Extends(f, g) /\ \A p \in 1..Len(g) : Len(f) < p => g[p].kind # "meta"

LEMMA PlainOn ==
  ASSUME NEW f \in Seq(Records), NEW g \in Seq(Records), NEW h \in Seq(Records), Plain(f, g), Plain(g, h)
  PROVE  Plain(f, h)
<1>1. PICK l \in Nat, m \in Nat, n \in Nat : l = Len(f) /\ m = Len(g) /\ n = Len(h)
  OBVIOUS
<1>2. l <= m /\ m <= n /\ (\A p \in 1..l : g[p] = f[p]) /\ (\A p \in 1..m : h[p] = g[p])
  BY <1>1 DEF Plain, Extends
<1>3. \A p \in 1..l : h[p] = f[p]
  BY <1>2
<1>4. ASSUME NEW p \in 1..n, l < p PROVE h[p].kind # "meta"
  <2>1. CASE p <= m
    <3>1. p \in 1..m
      BY <2>1
    <3>2. h[p] = g[p] /\ g[p].kind # "meta"
      BY <3>1, <1>1, <1>2, <1>4 DEF Plain
    <3> QED
      BY <3>2
  <2>2. CASE ~ (p <= m)
    <3>1. m < p
      BY <2>2
    <3> QED
      BY <3>1, <1>1 DEF Plain
  <2> QED
    BY <2>1, <2>2
<1> QED
  BY <1>1, <1>2, <1>3, <1>4 DEF Plain, Extends

LEMMA PlainConcat ==
  ASSUME NEW f \in Seq(Records), NEW ns \in Seq(Records), NoMeta(ns)
  PROVE  Plain(f, f \o ns) /\ f \o ns \in Seq(Records)
<1>1. PICK l \in Nat, m \in Nat : l = Len(f) /\ m = Len(ns) /\ Len(f \o ns) = l + m
  BY ConcatIs
<1>2. f \o ns \in Seq(Records) /\ \A p \in 1..l : (f \o ns)[p] = f[p]
  BY <1>1, ConcatIs
<1>3. ASSUME NEW p \in 1..(l + m), l < p PROVE (f \o ns)[p].kind # "meta"
  <2>1. p - l \in 1..m /\ l + (p - l) = p
    BY <1>3
  <2>2. (f \o ns)[l + (p - l)] = ns[p - l]
    BY <1>1, <2>1, ConcatIs
  <2> QED
    BY <2>1, <2>2, <1>1 DEF NoMeta
<1> QED
  BY <1>1, <1>2, <1>3 DEF Plain, Extends

LEMMA PlainAppend ==
  ASSUME NEW f \in Seq(Records), NEW n \in Records, n.kind # "meta"
  PROVE  Plain(f, Append(f, n)) /\ Append(f, n) \in Seq(Records)
<1>1. PICK ns : ns = <<n>>
  OBVIOUS
<1>2. ns \in Seq(Records) /\ Len(ns) = 1 /\ ns[1] = n
  <2> HIDE DEF Records
  <2> QED
    BY <1>1
<1>3. NoMeta(ns)
  BY <1>2 DEF NoMeta
<1>4. Append(f, n) = f \o ns
  BY <1>1, AppendIs
<1> QED
  BY <1>2, <1>3, <1>4, PlainConcat

LEMMA PlainSelf ==
  ASSUME NEW f \in Seq(Records)
  PROVE  Plain(f, f)
BY DEF Plain, Extends

\* Halves are nodes.
LEMMA HalvesPlain ==
  ASSUME NEW f, NEW w, NEW loaded, NEW m, NEW hs, NEW seps, Halves(f, w, loaded, m, hs, seps)
  PROVE  hs \in Seq(Records) /\ NoMeta(hs)
<1>1. hs \in Seq(Records) /\ \A i \in 1..Len(hs) : RecordOK(f, w, hs[i])
  BY DEF Halves
<1>2. \A i \in 1..Len(hs) : hs[i].kind \in {"leaf", "node"}
  BY <1>1, RecordShape
<1> QED
  BY <1>1, <1>2 DEF NoMeta

LEMMA AddPlain ==
  ASSUME NEW f, NEW w, NEW loaded \in BOOLEAN, TreesOK(f, w, loaded), NEW k \in Keys, NEW v \in Value
  PROVE  \A p \in Nodes(f) : Plain(f, AddNode(f, p, k, v).file)
<1> DEFINE G == {p \in Nodes(f) : Plain(f, AddNode(f, p, k, v).file)}
<1>0. f \in Seq(Records) /\ k \in Nat
  BY MapAssumption DEF TreesOK, Keys
<1>1. ASSUME NEW p \in Nodes(f), f[p].kind # "leaf" => \A i \in 1..Len(f[p].kids) : f[p].kids[i] \in G
      PROVE  p \in G
  <2>1. AddNode(f, p, k, v) =
          IF f[p].kind = "leaf" THEN AddToLeaf(f, f[p], k, v)
          ELSE AddToNode(f[p], UpperBound(f[p].keys, k), AddNode(f, f[p].kids[UpperBound(f[p].keys, k)], k, v))
    BY <1>0, AddNodeIs
  <2>2. CASE f[p].kind = "leaf"
    <3>1. PICK r : r = [kind |-> "value", val |-> v]
      OBVIOUS
    <3>2. r \in Records /\ r.kind # "meta"
      <4>1. r \in ValueRecords
        BY <3>1 DEF ValueRecords
      <4> QED
        BY <4>1, RecordKinds
    <3>3. AddNode(f, p, k, v).file = StoreValue(f, v).file
      BY <2>1, <2>2 DEF AddToLeaf
    <3>4. StoreValue(f, v).file = Append(f, r) \/ StoreValue(f, v).file = f
      BY <3>1 DEF StoreValue
    <3> QED
      BY <3>2, <3>3, <3>4, <1>0, PlainAppend, PlainSelf
  <2>3. CASE f[p].kind # "leaf"
    <3>1. PICK i, q : i = UpperBound(f[p].keys, k) /\ q = f[p].kids[i]
      OBVIOUS
    <3>2. i \in 1..Len(f[p].kids) /\ q \in Nodes(f)
      <4>2. NodeOK(f, w, f[p])
        BY <2>3, RecordKinds DEF TreesOK, Fits, RecordOK, LeafOK
      <4>3. f[p].keys \in Seq(Keys) /\ Ascends(f[p].keys) /\ Len(f[p].kids) = Len(f[p].keys) + 1
        BY <4>2, RecordKinds DEF NodeOK
      <4>4. i \in 1..Len(f[p].kids)
        BY <4>3, <3>1, <1>0, UpperIs
      <4> QED
        BY <4>2, <4>4, <3>1 DEF NodeOK
    <3>3. q \in G
      BY <1>1, <2>3, <3>1, <3>2
    <3>4. PICK c : c = AddNode(f, q, k, v)
      OBVIOUS
    <3>5. Plain(f, c.file)
      BY <3>3, <3>4
    <3>6. Added(f, w, loaded, q, k, v, c)
      BY <3>2, <3>4, AddNodeAdds
    <3>7. c.file \in Seq(Records) /\ c.halves \in Seq(Records) /\ NoMeta(c.halves)
      BY <3>6, HalvesPlain DEF Added
    <3>8. AddNode(f, p, k, v).file = c.file \o c.halves
      <4>1. AddNode(f, p, k, v) = AddToNode(f[p], i, c)
        BY <2>1, <2>3, <3>1, <3>4
      <4>2. AddToNode(f[p], i, c).file = c.file \o c.halves
        BY DEF AddToNode
      <4> QED
        BY <4>1, <4>2
    <3>9. Plain(c.file, c.file \o c.halves) /\ c.file \o c.halves \in Seq(Records)
      BY <3>7, PlainConcat
    <3>10. Plain(f, c.file \o c.halves)
      BY <3>5, <3>7, <3>9, <1>0, PlainOn
    <3> QED
      BY <3>8, <3>10
  <2> QED
    BY <2>2, <2>3
<1> HIDE DEF G
<1>2. \A p \in Nodes(f) : p \in G
  BY <1>1, NodesUpward
<1> QED
  BY <1>2 DEF G

\* An insert appends nodes and values only.
LEMMA AddRootPlain ==
  ASSUME NEW f, NEW w, NEW loaded \in BOOLEAN, TreesOK(f, w, loaded), NEW top \in Nodes(f),
         NEW k \in Keys, NEW v \in Value
  PROVE  Plain(f, AddRoot(f, top, k, v).file)
<1>1. PICK r : r = AddNode(f, top, k, v)
  OBVIOUS
<1>2. Plain(f, r.file) /\ f \in Seq(Records)
  BY <1>1, AddPlain DEF TreesOK
<1>3. Added(f, w, loaded, top, k, v, r)
  BY <1>1, AddNodeAdds
<1>4. r.file \in Seq(Records) /\ r.halves \in Seq(Records) /\ NoMeta(r.halves)
  BY <1>3, HalvesPlain DEF Added
<1>5. PICK g : g = r.file \o r.halves
  OBVIOUS
<1>6. Plain(f, g) /\ g \in Seq(Records)
  BY <1>2, <1>4, <1>5, PlainConcat, PlainOn
<1>7. CASE Len(r.halves) = 1
  BY <1>1, <1>5, <1>6, <1>7 DEF AddRoot
<1>8. CASE Len(r.halves) # 1
  <2>1. PICK n : n = Node(r.seps, Pointers(r.file, r.halves))
    OBVIOUS
  <2>2. n.kind = "node"
    BY <2>1 DEF Node
  <2>3. AddRoot(f, top, k, v).file = Append(g, n)
    BY <1>1, <1>5, <1>8, <2>1 DEF AddRoot
  <2>4. n \in Records
    <3>1. AddedRoot(f, w, loaded, top, k, v, AddRoot(f, top, k, v))
      BY AddRootIs
    <3>2. Append(g, n) \in Seq(Records)
      BY <3>1, <2>3 DEF AddedRoot, Rooted
    <3>3. Len(Append(g, n)) = Len(g) + 1 /\ Append(g, n)[Len(g) + 1] = n /\ Len(g) \in Nat
      <4> HIDE DEF Records
      <4> QED
        BY <1>6
    <3>4. Len(g) + 1 \in 1..Len(Append(g, n))
      BY <3>3
    <3> HIDE DEF Records
    <3> QED
      BY <3>2, <3>3, <3>4
  <2>5. Plain(g, Append(g, n)) /\ Append(g, n) \in Seq(Records)
    BY <1>6, <2>2, <2>4, PlainAppend
  <2>6. Plain(f, Append(g, n))
    BY <1>2, <1>6, <2>5, PlainOn
  <2> QED
    BY <2>3, <2>6
<1> QED
  BY <1>7, <1>8

\* What a node is cut into is nodes.
LEMMA FitPlain ==
  ASSUME NEW f \in Seq(Records), NEW n, n.kind \in {"leaf", "node"}, f \o Fit(n).halves \in Seq(Records)
  PROVE  Plain(f, f \o Fit(n).halves)
<1>1. PICK hs : hs = Fit(n).halves
  OBVIOUS
<1>2. (\E x : hs = <<x>> /\ x.kind # "meta") \/ (\E x, y : hs = <<x, y>> /\ x.kind # "meta" /\ y.kind # "meta")
  BY <1>1 DEF Fit, Whole, SplitLeaf, SplitNode, Leaf, Node
<1>3. PICK S : S = Records \cup {hs[i] : i \in 1..Len(hs)}
  OBVIOUS
<1>4. hs \in Seq(S) /\ Len(hs) \in Nat /\ \A i \in 1..Len(hs) : hs[i].kind # "meta"
  <2>1. CASE \E x : hs = <<x>> /\ x.kind # "meta"
    <3>1. PICK x : hs = <<x>> /\ x.kind # "meta"
      BY <2>1
    <3>2. Len(hs) = 1 /\ hs[1] = x
      BY <3>1
    <3>3. x \in S
      BY <3>2, <1>3
    <3>4. hs \in Seq(S)
      BY <3>1, <3>3, OneIs
    <3> QED
      BY <3>1, <3>2, <3>4
  <2>2. CASE \E x, y : hs = <<x, y>> /\ x.kind # "meta" /\ y.kind # "meta"
    <3>1. PICK x, y : hs = <<x, y>> /\ x.kind # "meta" /\ y.kind # "meta"
      BY <2>2
    <3>2. Len(hs) = 2 /\ hs[1] = x /\ hs[2] = y
      BY <3>1
    <3>3. x \in S /\ y \in S
      BY <3>2, <1>3
    <3>4. hs \in Seq(S)
      BY <3>1, <3>3, TwoIs
    <3> QED
      BY <3>1, <3>2, <3>4
  <2> QED
    BY <1>2, <2>1, <2>2
<1>5. f \in Seq(S)
  <2> HIDE DEF Records
  <2>1. f \in [1..Len(f) -> S] /\ Len(f) \in Nat
    BY <1>3
  <2> QED
    BY <2>1
<1>6. PICK l \in Nat, m \in Nat : l = Len(f) /\ m = Len(hs) /\ Len(f \o hs) = l + m
  BY <1>4, <1>5, ConcatIs
<1>7. (\A p \in 1..l : (f \o hs)[p] = f[p]) /\ \A p \in 1..m : (f \o hs)[l + p] = hs[p]
  BY <1>4, <1>5, <1>6, ConcatIs
<1>8. ASSUME NEW p \in 1..(l + m), l < p PROVE (f \o hs)[p].kind # "meta"
  <2>1. p - l \in 1..m /\ l + (p - l) = p
    BY <1>8
  <2>2. (f \o hs)[l + (p - l)] = hs[p - l]
    BY <1>7, <2>1
  <2> QED
    BY <2>1, <2>2, <1>4, <1>6
<1> QED
  BY <1>1, <1>6, <1>7, <1>8 DEF Plain, Extends

LEMMA JoinedKind ==
  ASSUME NEW l, NEW r, NEW sep
  PROVE  Joined(l, r, sep).kind \in {"leaf", "node"}
BY DEF Joined, Leaf, Node

LEMMA RebalancePlain ==
  ASSUME NEW f \in Seq(Records), NEW par, NEW i, NEW ch, RebalanceChild(f, par, i, ch).file \in Seq(Records)
  PROVE  Plain(f, RebalanceChild(f, par, i, ch).file)
<1>1. \E n : n.kind \in {"leaf", "node"} /\ RebalanceChild(f, par, i, ch).file = f \o Fit(n).halves
  <2>1. PICK si, li, sib : /\ si = IF i > 1 THEN i - 1 ELSE i + 1
                           /\ li = IF si < i THEN si ELSE i
                           /\ sib = f[par.kids[si]]
    OBVIOUS
  <2>2. PICK n : n = IF si < i THEN Joined(sib, ch, par.keys[li]) ELSE Joined(ch, sib, par.keys[li])
    OBVIOUS
  <2>3. n.kind \in {"leaf", "node"}
    BY <2>2, JoinedKind
  <2>4. RebalanceChild(f, par, i, ch).file = f \o Fit(n).halves
    BY <2>1, <2>2 DEF RebalanceChild
  <2> QED
    BY <2>3, <2>4
<1> QED
  BY <1>1, FitPlain

LEMMA DelPlain ==
  ASSUME NEW f, NEW w, NEW loaded \in BOOLEAN, TreesOK(f, w, loaded), NEW k \in Keys
  PROVE  \A p \in Nodes(f) : \A c \in DelNode(f, p, k) : Plain(f, c.file)
<1> DEFINE G == {p \in Nodes(f) : \A c \in DelNode(f, p, k) : Plain(f, c.file)}
<1>0. f \in Seq(Records) /\ k \in Nat
  BY MapAssumption DEF TreesOK, Keys
<1>1. ASSUME NEW p \in Nodes(f), f[p].kind # "leaf" => \A i \in 1..Len(f[p].kids) : f[p].kids[i] \in G
      PROVE  p \in G
  <2>1. DelNode(f, p, k) =
          IF f[p].kind = "leaf" THEN {DelFromLeaf(f, n, k) : n \in {x \in {f[p]} : k \in Range(x.keys)}}
          ELSE {DelFromNode(f[p], UpperBound(f[p].keys, k), c) : c \in DelNode(f, f[p].kids[UpperBound(f[p].keys, k)], k)}
    BY <1>0, DelNodeIs
  <2>2. CASE f[p].kind = "leaf"
    <3>1. ASSUME NEW c \in DelNode(f, p, k) PROVE c.file = f
      <4>1. PICK n : c = DelFromLeaf(f, n, k)
        BY <2>1, <2>2
      <4> QED
        BY <4>1 DEF DelFromLeaf
    <3> QED
      BY <3>1, <1>0, PlainSelf
  <2>3. CASE f[p].kind # "leaf"
    <3>1. PICK i, q : i = UpperBound(f[p].keys, k) /\ q = f[p].kids[i]
      OBVIOUS
    <3>2. i \in 1..Len(f[p].kids) /\ q \in Nodes(f)
      <4>2. NodeOK(f, w, f[p])
        BY <2>3, RecordKinds DEF TreesOK, Fits, RecordOK, LeafOK
      <4>3. f[p].keys \in Seq(Keys) /\ Ascends(f[p].keys) /\ Len(f[p].kids) = Len(f[p].keys) + 1
        BY <4>2, RecordKinds DEF NodeOK
      <4>4. i \in 1..Len(f[p].kids)
        BY <4>3, <3>1, <1>0, UpperIs
      <4> QED
        BY <4>2, <4>4, <3>1 DEF NodeOK
    <3>3. q \in G
      BY <1>1, <2>3, <3>1, <3>2
    <3>4. ASSUME NEW d \in DelNode(f, p, k) PROVE Plain(f, d.file)
      <4>1. PICK c \in DelNode(f, q, k) : d = DelFromNode(f[p], i, c)
        BY <2>1, <2>3, <3>1
      <4>2. Plain(f, c.file)
        BY <3>3, <4>1
      <4>3. Deleted(f, w, loaded, q, k, c) /\ Deleted(f, w, loaded, p, k, d)
        <5>1. Deletes(f, w, loaded, q, k, DelNode(f, q, k)) /\ Deletes(f, w, loaded, p, k, DelNode(f, p, k))
          BY <3>2, DelNodeDeletes
        <5> QED
          BY <5>1 DEF Deletes
      <4>4. c.file \in Seq(Records) /\ d.file \in Seq(Records) /\ c.node \in Records /\ c.node.kind \in {"leaf", "node"}
        BY <4>3, RecordShape DEF Deleted, Left
      <4>5. CASE Underfull(c.node, f[p])
        <5>1. d.file = RebalanceChild(c.file, f[p], i, c.node).file
          BY <4>1, <4>5 DEF DelFromNode
        <5>2. Plain(c.file, d.file)
          BY <4>4, <5>1, RebalancePlain
        <5> QED
          BY <5>2, <4>2, <4>4, <1>0, PlainOn
      <4>6. CASE ~ Underfull(c.node, f[p])
        <5>1. d.file = Append(c.file, c.node)
          BY <4>1, <4>6 DEF DelFromNode
        <5>2. Plain(c.file, d.file)
          BY <4>4, <5>1, PlainAppend
        <5> QED
          BY <5>2, <4>2, <4>4, <1>0, PlainOn
      <4> QED
        BY <4>5, <4>6
    <3> QED
      BY <3>4
  <2> QED
    BY <2>2, <2>3
<1> HIDE DEF G
<1>2. \A p \in Nodes(f) : p \in G
  BY <1>1, NodesUpward
<1> QED
  BY <1>2 DEF G

\* So does a delete.
LEMMA DeleteRootPlain ==
  ASSUME NEW f, NEW w, NEW loaded \in BOOLEAN, TreesOK(f, w, loaded), NEW top \in Nodes(f), NEW k \in Keys,
         NEW g \in DeleteRoot(f, top, k)
  PROVE  Plain(f, g)
<1>1. PICK r \in DelNode(f, top, k) : g = Append(r.file, Collapsed(r.file, r.node))
  BY DEF DeleteRoot
<1>2. Plain(f, r.file) /\ f \in Seq(Records)
  BY <1>1, DelPlain DEF TreesOK
<1>3. Deleted(f, w, loaded, top, k, r)
  BY <1>1, DelNodeDeletes DEF Deletes
<1>4. r.file \in Seq(Records)
  BY <1>3 DEF Deleted
<1>5. Collapsed(r.file, r.node) \in Records /\ Collapsed(r.file, r.node).kind # "meta"
  <2>1. PICK u : Left(f, w, loaded, top, k, r, u)
    BY <1>3 DEF Deleted
  <2>2. /\ TreesOK(r.file, u, loaded) /\ RecordOK(r.file, u, r.node)
        /\ (loaded \/ KidsFilled(r.file, r.node)) /\ Len(r.node.keys) < Order
    BY <2>1 DEF Left
  <2>3. Saveable(r.file, u, loaded, Summary(r.file, u, r.node).e, Collapsed(r.file, r.node))
    BY <2>2, LeftSaveable
  <2> QED
    BY <2>3 DEF Saveable
<1>6. Plain(r.file, g) /\ g \in Seq(Records)
  BY <1>1, <1>4, <1>5, PlainAppend
<1> QED
  BY <1>2, <1>4, <1>6, PlainOn

-----------------------------------------------------------------------------
(* The commits of a file.                                                  *)

LEMMA MetasAre ==
  ASSUME NEW f \in Seq(Records), NEW n \in Metas(f)
  PROVE  n \in 1..Len(f) /\ n \in Nat /\ f[n] \in MetaRecords /\ f[n].applied \in Nat /\ f[n].root \in Nat
<1>1. n \in 1..Len(f) /\ f[n].kind = "meta" /\ Len(f) \in Nat
  BY DEF Metas
<1>2. f[n] \in Records
  <2> HIDE DEF Records
  <2> QED
    BY <1>1
<1>3. f[n] \in MetaRecords
  BY <1>1, <1>2, RecordKinds
<1>4. f[n].applied \in Nat /\ f[n].root \in Nat
  BY <1>3, RecordKinds, MapAssumption
<1> QED
  BY <1>1, <1>3, <1>4

LEMMA CommittedOn ==
  ASSUME NEW f, NEW w, NEW loaded, Committed(f, w, loaded), NEW g, NEW u, Plain(f, g),
         TreesOK(g, u, loaded), Agrees(f, w, u)
  PROVE  Committed(g, u, loaded) /\ Metas(g) = Metas(f) /\ Extends(f, g)
<1>1. f \in Seq(Records) /\ g \in Seq(Records) /\ Extends(f, g)
  BY DEF Committed, TreesOK, Plain
<1>2. PICK l \in Nat, m \in Nat : l = Len(f) /\ m = Len(g) /\ l <= m /\ \A p \in 1..l : g[p] = f[p]
  BY <1>1 DEF Extends
<1>3. ASSUME NEW n \in Metas(g) PROVE n \in 1..l /\ n \in Metas(f)
  <2>1. n \in 1..m /\ g[n].kind = "meta"
    BY <1>2 DEF Metas
  <2>2. ~ (l < n)
    BY <2>1, <1>2 DEF Plain
  <2>3. n \in 1..l
    BY <2>1, <2>2
  <2> QED
    BY <2>1, <2>3, <1>2 DEF Metas
<1>4. ASSUME NEW n \in Metas(f) PROVE n \in Metas(g) /\ g[n] = f[n]
  <2>1. n \in 1..l /\ f[n].kind = "meta"
    BY <1>2 DEF Metas
  <2>2. n \in 1..m
    BY <2>1, <1>2
  <2> QED
    BY <2>1, <2>2, <1>2 DEF Metas
<1>5. Metas(g) = Metas(f)
  BY <1>3, <1>4
<1>6. ASSUME NEW n \in Metas(g) PROVE MetaOK(g, u, n)
  <2>1. MetaOK(f, w, n) /\ g[n] = f[n]
    BY <1>4, <1>5 DEF Committed
  <2>2. f[n].root \in Nodes(g) /\ u[f[n].root] = w[f[n].root]
    BY <2>1, <1>1, NodesGrow DEF MetaOK, Agrees
  <2> QED
    BY <2>1, <2>2 DEF MetaOK
<1>7. \A m1, n \in Metas(g) : m1 <= n => g[m1].applied <= g[n].applied
  BY <1>4, <1>5 DEF Committed
<1> QED
  BY <1>1, <1>5, <1>6, <1>7 DEF Committed

LEMMA NothingCommitted ==
  ASSUME NEW f, NEW w, NEW loaded, TreesOK(f, w, loaded), NoMeta(f)
  PROVE  Committed(f, w, loaded) /\ Metas(f) = {}
<1>1. Metas(f) = {}
  BY DEF Metas, NoMeta
<1> QED
  BY <1>1 DEF Committed

\* What a commit of the root at the end of g makes of it.
CommittedAs(g, u, loaded, m, h, v) ==
  /\ Committed(h, v, loaded) /\ Extends(g, h) /\ Agrees(g, u, v) /\ h \in Seq(Records)
  /\ Len(h) = Len(g) + 1 /\ Len(h) \in Metas(h) /\ h[Len(h)] = m /\ h # <<>>

RootOf(g, u, m) ==
  /\ m \in MetaRecords /\ Len(g) \in Nodes(g) /\ m.root = Len(g) /\ m.size = Cardinality(u[Len(g)].e)
  /\ \A n \in Metas(g) : g[n].applied <= m.applied

\* The metadata of a root at the end of a file make a commit of it.
LEMMA CommitMade ==
  ASSUME NEW g, NEW u, NEW loaded \in BOOLEAN, Committed(g, u, loaded), NEW m, RootOf(g, u, m)
  PROVE  \E v : CommittedAs(g, u, loaded, m, Append(g, m), v)
<1>1. g \in Seq(Records) /\ Len(g) \in Nat /\ TreesOK(g, u, loaded)
  BY DEF Committed, TreesOK
<1>2. m \in MetaRecords /\ m.kind = "meta" /\ m \in Records
  BY RecordKinds DEF RootOf
<1>3. PICK ns, h, v : ns = <<m>> /\ h = g \o ns /\ v = Grown(g, u, ns)
  OBVIOUS
<1>4. ns \in Seq(Records) /\ Len(ns) = 1 /\ ns[1] = m
  <2> HIDE DEF Records
  <2> QED
    BY <1>2, <1>3
<1>5. /\ TreesOK(h, v, loaded) /\ Extends(g, h) /\ Agrees(g, u, v) /\ Len(h) = Len(g) + 1 /\ h \in Seq(Records)
      /\ h[Len(g) + 1] = m
  <2>1. \A i \in 1..Len(ns) : ns[i].kind \in {"leaf", "node"} => Fits(g, u, loaded, ns[i])
    BY <1>2, <1>4
  <2>2. /\ TreesOK(g \o ns, Grown(g, u, ns), loaded)
        /\ Extends(g, g \o ns) /\ Agrees(g, u, Grown(g, u, ns))
        /\ Len(g \o ns) = Len(g) + Len(ns)
        /\ \A i \in 1..Len(ns) : (g \o ns)[Len(g) + i] = ns[i]
    BY <1>1, <1>4, <2>1, SaveAll
  <2>3. 1 \in 1..Len(ns)
    BY <1>4
  <2>4. h \in Seq(Records)
    BY <1>1, <1>3, <1>4, ConcatIs
  <2> QED
    BY <2>2, <2>3, <2>4, <1>3, <1>4
<1>6. PICK l \in Nat : l = Len(g) /\ Len(h) = l + 1 /\ \A p \in 1..l : h[p] = g[p]
  BY <1>1, <1>5 DEF Extends
<1>7. h[l + 1] = m /\ l + 1 \in Metas(h)
  BY <1>2, <1>5, <1>6 DEF Metas
<1>8. ASSUME NEW n \in Metas(h) PROVE n = l + 1 \/ (n \in Metas(g) /\ h[n] = g[n] /\ n \in 1..l)
  <2>1. n \in 1..(l + 1) /\ h[n].kind = "meta"
    BY <1>6 DEF Metas
  <2>2. n # l + 1 => n \in 1..l
    BY <2>1
  <2> QED
    BY <2>1, <2>2, <1>6 DEF Metas
<1>9. Nodes(g) \subseteq Nodes(h)
  BY <1>1, <1>5, NodesGrow
<1>10. ASSUME NEW n \in Metas(h) PROVE MetaOK(h, v, n)
  <2>1. CASE n = l + 1
    <3>1. l \in Nodes(h) /\ v[l] = u[l] /\ m.root = l /\ m.size = Cardinality(u[l].e)
      BY <1>5, <1>6, <1>9 DEF RootOf, Agrees
    <3> QED
      BY <3>1, <2>1, <1>7 DEF MetaOK
  <2>2. CASE n \in Metas(g) /\ h[n] = g[n]
    <3>1. MetaOK(g, u, n)
      BY <2>2 DEF Committed
    <3>2. g[n].root \in Nodes(h) /\ v[g[n].root] = u[g[n].root]
      BY <3>1, <1>5, <1>9 DEF MetaOK, Agrees
    <3> QED
      BY <3>1, <3>2, <2>2 DEF MetaOK
  <2> QED
    BY <1>8, <2>1, <2>2
<1>11. ASSUME NEW a \in Metas(h), NEW b \in Metas(h), a <= b PROVE h[a].applied <= h[b].applied
  <2>1. CASE b = l + 1
    <3>1. CASE a = l + 1
      <4>1. m.applied \in Nat
        BY <1>2, MapAssumption, RecordKinds
      <4> QED
        BY <4>1, <3>1, <2>1, <1>7
    <3>2. CASE a \in Metas(g) /\ h[a] = g[a]
      BY <3>2, <2>1, <1>7 DEF RootOf
    <3> QED
      BY <1>8, <3>1, <3>2
  <2>2. CASE b \in Metas(g) /\ h[b] = g[b] /\ b \in 1..l
    <3>1. a \in Nat
      BY <1>5, MetasAre
    <3>2. a # l + 1
      BY <3>1, <2>2, <1>11
    <3>3. a \in Metas(g) /\ h[a] = g[a]
      BY <3>2, <1>8
    <3> QED
      BY <3>3, <2>2, <1>11 DEF Committed
  <2> QED
    BY <1>8, <2>1, <2>2
<1>12. Committed(h, v, loaded)
  BY <1>5, <1>10, <1>11 DEF Committed
<1>13. h # <<>>
  BY <1>6
<1>14. CommittedAs(g, u, loaded, m, h, v)
  BY <1>5, <1>6, <1>7, <1>12, <1>13 DEF CommittedAs
<1>15. Append(g, m) = h
  BY <1>1, <1>2, <1>3, AppendIs
<1> QED
  BY <1>14, <1>15

\* A file that is cut keeps its earlier commits.
LEMMA CommittedCut ==
  ASSUME NEW f, NEW w, NEW loaded \in BOOLEAN, Committed(f, w, loaded), NEW n \in 0..Len(f)
  PROVE  /\ Committed(SubSeq(f, 1, n), w, loaded) /\ SubSeq(f, 1, n) \in Seq(Records) /\ Len(SubSeq(f, 1, n)) = n
         /\ \A m \in Metas(SubSeq(f, 1, n)) : m \in Metas(f) /\ SubSeq(f, 1, n)[m] = f[m]
         /\ n \in Metas(f) => n \in Metas(SubSeq(f, 1, n)) /\ SubSeq(f, 1, n)[n] = f[n]
<1>1. TreesOK(f, w, loaded) /\ f \in Seq(Records) /\ Len(f) \in Nat
  BY DEF Committed, TreesOK
<1>2. PICK g : g = SubSeq(f, 1, n)
  OBVIOUS
<1>3. TreesOK(g, w, loaded) /\ Len(g) = n /\ Extends(g, f) /\ g \in Seq(Records)
  <2>1. /\ TreesOK(SubSeq(f, 1, n), w, loaded) /\ Len(SubSeq(f, 1, n)) = n
        /\ Extends(SubSeq(f, 1, n), f)
    BY <1>1, CutTrees
  <2>2. TreesOK(g, w, loaded)
    BY <2>1, <1>2
  <2> QED
    BY <2>1, <2>2, <1>2 DEF TreesOK
<1>4. n \in Nat /\ n <= Len(f) /\ \A p \in 1..n : g[p] = f[p]
  BY <1>1, <1>3 DEF Extends
<1>5. ASSUME NEW m \in Metas(g) PROVE m \in 1..n /\ m \in Metas(f) /\ g[m] = f[m]
  BY <1>1, <1>3, <1>4 DEF Metas
<1>6. ASSUME NEW m \in Metas(g) PROVE MetaOK(g, w, m)
  <2>1. MetaOK(f, w, m) /\ m \in 1..n /\ g[m] = f[m]
    BY <1>5 DEF Committed
  <2>2. PICK r : r = f[m].root /\ r \in Nodes(f) /\ r < m
    BY <2>1 DEF MetaOK
  <2>3. r \in 1..n /\ f[r].kind \in {"leaf", "node"}
    <3>1. r \in 1..Len(f) /\ r \in Nat /\ f[r].kind \in {"leaf", "node"}
      BY <2>2, <1>1, NodesIs
    <3> QED
      BY <3>1, <2>1, <2>2, <1>4
  <2>4. r \in Nodes(g)
    BY <2>3, <1>3, <1>4, NodesIs
  <2> QED
    BY <2>1, <2>2, <2>4 DEF MetaOK
<1>7. \A a, b \in Metas(g) : a <= b => g[a].applied <= g[b].applied
  BY <1>5 DEF Committed
<1>8. n \in Metas(f) => n \in Metas(g) /\ g[n] = f[n]
  <2> SUFFICES ASSUME n \in Metas(f) PROVE n \in Metas(g) /\ g[n] = f[n]
    OBVIOUS
  <2>1. n \in 1..n /\ f[n].kind = "meta"
    BY <1>4 DEF Metas
  <2> QED
    BY <2>1, <1>3, <1>4 DEF Metas
<1>9. Committed(g, w, loaded)
  BY <1>3, <1>6, <1>7 DEF Committed
<1> QED
  BY <1>2, <1>3, <1>5, <1>8, <1>9

-----------------------------------------------------------------------------
(* The state.                                                              *)

NoneOf(ss, cs) == (\A s \in Snaps : ss[s] = None) /\ (\A c \in Cursors : cs[c] = None)

\* Readers do not notice what is appended.
LEMMA ReadersGrow ==
  ASSUME NEW f \in Seq(Records), NEW w, NEW ss, NEW cs, ReadersOK(f, w, ss, cs),
         NEW h \in Seq(Records), NEW v, Extends(f, h), Agrees(f, w, v)
  PROVE  ReadersOK(h, v, ss, cs)
<1>1. Nodes(f) \subseteq Nodes(h)
  BY NodesGrow
<1>2. ASSUME NEW s \in Snaps, ss[s] # None PROVE SnapOK(h, v, ss[s])
  <2>1. SnapOK(f, w, ss[s])
    BY <1>2 DEF ReadersOK
  <2> QED
    BY <2>1, <1>1 DEF SnapOK, Agrees
<1>3. ASSUME NEW c \in Cursors, cs[c] # None PROVE CursorOK(h, cs[c])
  <2>1. CursorOK(f, cs[c])
    BY <1>3 DEF ReadersOK
  <2>2. PICK l, p, a, min, max, last : a \in Seq(Nodes(f)) /\ cs[c] = CursorRecord(l, p, a, min, max, last)
    BY <2>1 DEF CursorOK
  <2>3. a \in Seq(Nodes(h))
    BY <2>2, <1>1
  <2> QED
    BY <2>2, <2>3 DEF CursorOK
<1> QED
  BY <1>2, <1>3 DEF ReadersOK

LEMMA NoReaders ==
  ASSUME NEW f, NEW w, NEW ss, NEW cs, NoneOf(ss, cs)
  PROVE  ReadersOK(f, w, ss, cs)
BY DEF NoneOf, ReadersOK

\* An empty file has no reader but a cursor at its end.
LEMMA ReadersOfNothing ==
  ASSUME NEW f, NEW w, NEW ss, NEW cs, f = <<>>, ReadersOK(f, w, ss, cs), NEW h \in Seq(Records), NEW v
  PROVE  ReadersOK(h, v, ss, cs)
<1>1. Nodes(f) = {} /\ f \in Seq(Records) /\ Len(f) = 0
  BY DEF Nodes
<1>2. Extends(f, h) /\ Agrees(f, w, v)
  BY <1>1 DEF Extends, Agrees
<1> QED
  BY <1>1, <1>2, ReadersGrow

LEMMA BoundariesAre == Boundaries = Metas(file)
<1>1. CF!CommitEnds(file) = {0} \cup {k \in 1..Len(file) : file[k].kind = "meta"}
  BY DEF CF!CommitEnds, CF!IsMeta
<1>2. 0 \notin {k \in 1..Len(file) : file[k].kind = "meta"}
  OBVIOUS
<1> QED
  BY <1>1, <1>2 DEF Boundaries, Metas

\* The file of an open tree ends with the metadata of the live version.
OpenFile(f, w, r, s, a) ==
  /\ f \in Seq(Records) /\ Len(f) \in Metas(f) /\ r \in Nodes(f) /\ s = Cardinality(w[r].e)
  /\ Len(f) \in Nat /\ f # <<>>
  /\ \A n \in Metas(f) : f[n].applied <= a

LEMMA OpenIs ==
  ASSUME Inv, up, NEW w, Committed(file, w, packed)
  PROVE  OpenFile(file, w, root, size, applied)
<1>1. /\ file # <<>> /\ root = file[Len(file)].root /\ size = file[Len(file)].size
      /\ file[Len(file)].applied <= applied /\ Len(file) \in Metas(file) /\ applied \in Nat
  BY MapAssumption DEF Inv, Handle, Types
<1>2. file \in Seq(Records) /\ Len(file) \in Nat
  BY DEF Committed, TreesOK
<1>3. MetaOK(file, w, Len(file))
  BY <1>1 DEF Committed
<1>4. ASSUME NEW n \in Metas(file) PROVE file[n].applied <= applied
  <2>1. n <= Len(file) /\ file[n].applied \in Nat /\ file[Len(file)].applied \in Nat
    BY <1>1, <1>2, MetasAre
  <2>2. file[n].applied <= file[Len(file)].applied
    BY <2>1, <1>1 DEF Committed
  <2> QED
    BY <2>1, <2>2, <1>1
<1> QED
  BY <1>1, <1>2, <1>3, <1>4 DEF OpenFile, MetaOK

-----------------------------------------------------------------------------
LEMMA InitInv == Init => Inv
<1> SUFFICES ASSUME Init PROVE Inv
  OBVIOUS
<1>1. Types
  <2>1. safe = 0 /\ applied = 0 /\ up = FALSE /\ packed = FALSE /\ use \in Uses
    BY DEF Init
  <2>2. safe \in Nat /\ applied \in 0..MaxApplied
    BY <2>1, MapAssumption
  <2>3. snaps = [s \in Snaps |-> None]
    BY DEF Init
  <2>4. snaps = [s \in Snaps |-> snaps[s]]
    BY <2>3
  <2>5. cursors = [c \in Cursors |-> None]
    BY DEF Init
  <2>6. cursors = [c \in Cursors |-> cursors[c]]
    BY <2>5
  <2> QED
    BY <2>1, <2>2, <2>4, <2>6 DEF Types
<1>2. file = <<>> /\ up = FALSE /\ \A s \in Snaps : snaps[s] = None
  BY DEF Init
<1>3. Handle
  BY <1>2 DEF Handle
<1>4. PICK w : w = [p \in {} |-> 0]
  OBVIOUS
<1>5. Committed(file, w, packed)
  <2>1. Nodes(file) = {} /\ file \in Seq(Records) /\ Len(file) = 0
    BY <1>2 DEF Nodes
  <2>2. TreesOK(file, w, packed)
    BY <2>1 DEF TreesOK
  <2>3. NoMeta(file)
    BY <2>1 DEF NoMeta
  <2> QED
    BY <2>2, <2>3, NothingCommitted
<1>6. ReadersOK(file, w, snaps, cursors)
  <2>1. NoneOf(snaps, cursors)
    BY DEF Init, NoneOf
  <2> QED
    BY <2>1, NoReaders
<1> QED
  BY <1>1, <1>3, <1>5, <1>6 DEF Inv, Sound

\* What a commit of the root at the end of g leaves.
Saved(h, m, v, loaded, ss, cs) ==
  /\ Committed(h, v, loaded) /\ ReadersOK(h, v, ss, cs)
  /\ h # <<>> /\ Len(h) \in Metas(h) /\ h[Len(h)] = m

\* A commit of a tree that an insert or a delete appended.
LEMMA AfterCommit ==
  ASSUME NEW f, NEW w, NEW loaded \in BOOLEAN, Committed(f, w, loaded), ReadersOK(f, w, snaps, cursors),
         NEW g, NEW u, Plain(f, g), TreesOK(g, u, loaded), Agrees(f, w, u), Len(g) \in Nodes(g),
         NEW s \in Nat, s = Cardinality(u[Len(g)].e), NEW a \in 0..MaxApplied,
         \A n \in Metas(f) : f[n].applied <= a,
         NEW m, m = Metadata(Len(g), s, a), NEW h, h = Append(g, m)
  PROVE  \E v : Saved(h, m, v, loaded, snaps, cursors)
<1>1. Committed(g, u, loaded) /\ Metas(g) = Metas(f) /\ Extends(f, g) /\ f \in Seq(Records) /\ g \in Seq(Records)
  BY CommittedOn DEF Committed, TreesOK
<1>3. m \in MetaRecords /\ m.root = Len(g) /\ m.size = s /\ m.applied = a
  BY <1>1 DEF Metadata, MetaRecords
<1>4. \A n \in Metas(g) : g[n].applied <= m.applied
  <2> SUFFICES ASSUME NEW n \in Metas(g) PROVE g[n].applied <= m.applied
    OBVIOUS
  <2>1. n \in 1..Len(f) /\ n \in Metas(f)
    BY <1>1 DEF Metas
  <2> QED
    BY <2>1, <1>1, <1>3 DEF Extends
<1>5. RootOf(g, u, m)
  BY <1>3, <1>4 DEF RootOf
<1>6. PICK v : CommittedAs(g, u, loaded, m, Append(g, m), v)
  BY <1>1, <1>5, CommitMade
<1>7. CommittedAs(g, u, loaded, m, h, v)
  BY <1>6
<1>8. /\ Committed(h, v, loaded) /\ Extends(g, h) /\ Agrees(g, u, v) /\ h \in Seq(Records)
      /\ Len(h) \in Metas(h) /\ h[Len(h)] = m /\ h # <<>>
  BY <1>7 DEF CommittedAs
<1>9. Extends(f, h) /\ Agrees(f, w, v)
  BY <1>1, <1>8, ExtendsOn
<1>10. ReadersOK(h, v, snaps, cursors)
  BY <1>1, <1>8, <1>9, ReadersGrow
<1> QED
  BY <1>8, <1>10 DEF Saved

-----------------------------------------------------------------------------
(* The steps.                                                              *)

LEMMA CreateKeeps ==
  ASSUME Inv, Create, UNCHANGED use
  PROVE  Inv'
<1>1. PICK w : Committed(file, w, packed) /\ ReadersOK(file, w, snaps, cursors)
  BY DEF Inv, Sound
<1>2. /\ file = <<>> /\ file' = EmptyFile(0) /\ root' = file'[2].root /\ size' = file'[2].size
      /\ applied' = file'[2].applied /\ up' = TRUE /\ packed' = FALSE /\ safe' = safe /\ snaps' = snaps
      /\ cursors' = cursors /\ use' = use
  BY DEF Create, Adopt
<1>3. PICK g, u : g = <<Leaf(<<>>, <<>>)>> /\ RootHolds(g, u, FALSE, {})
  BY EmptyLoad
<1>4. TreesOK(g, u, FALSE) /\ Len(g) \in Nodes(g) /\ u[Len(g)].e = {} /\ NoMeta(g) /\ Len(g) = 1
  BY <1>3 DEF RootHolds
<1>5. PICK m : m = Metadata(1, 0, 0)
  OBVIOUS
<1>6. m \in MetaRecords /\ m.root = 1 /\ m.size = 0 /\ m.applied = 0
  BY <1>5, MapAssumption DEF Metadata, MetaRecords
<1>7. Committed(g, u, FALSE) /\ Metas(g) = {}
  BY <1>4, NothingCommitted
<1>8. RootOf(g, u, m)
  <2>1. Cardinality(u[Len(g)].e) = 0
    BY <1>4, FS_EmptySet
  <2> QED
    BY <2>1, <1>4, <1>6, <1>7 DEF RootOf
<1>9. PICK v : CommittedAs(g, u, FALSE, m, Append(g, m), v)
  BY <1>7, <1>8, CommitMade
<1>10. file' = Append(g, m)
  BY <1>2, <1>3, <1>5 DEF EmptyFile
<1>11. CommittedAs(g, u, FALSE, m, file', v)
  BY <1>9, <1>10
<1>12. /\ Committed(file', v, FALSE) /\ file' \in Seq(Records) /\ Len(file') = 2 /\ Len(file') \in Metas(file')
       /\ file'[Len(file')] = m /\ file' # <<>> /\ file'[2] = m
  <2>1. /\ Committed(file', v, FALSE) /\ file' \in Seq(Records) /\ Len(file') = Len(g) + 1
        /\ Len(file') \in Metas(file') /\ file'[Len(file')] = m /\ file' # <<>>
    BY <1>11 DEF CommittedAs
  <2>2. Len(file') = 2
    BY <1>4, <2>1
  <2> QED
    BY <2>1, <2>2
<1>13. ReadersOK(file', v, snaps, cursors)
  BY <1>1, <1>2, <1>12, ReadersOfNothing
<1>14. Types'
  <2>1. applied' \in 0..MaxApplied
    BY <1>2, <1>6, <1>12, MapAssumption
  <2> QED
    BY <2>1, <1>2 DEF Inv, Types
<1>15. Handle'
  BY <1>2, <1>6, <1>12 DEF Handle
<1>16. Committed(file', v, packed') /\ ReadersOK(file', v, snaps', cursors')
  BY <1>2, <1>12, <1>13
<1>17. Sound'
  BY <1>16 DEF Sound
<1> QED
  BY <1>14, <1>15, <1>17 DEF Inv

LEMMA OpenKeeps ==
  ASSUME Inv, Open, UNCHANGED use
  PROVE  Inv'
<1>1. PICK w : Committed(file, w, packed) /\ ReadersOK(file, w, snaps, cursors)
  BY DEF Inv, Sound
<1>2. /\ file # <<>> /\ root' = file[Len(file)].root /\ size' = file[Len(file)].size
      /\ applied' = file[Len(file)].applied /\ up' = TRUE /\ packed' = packed /\ safe' = safe /\ snaps' = snaps
      /\ cursors' = cursors /\ use' = use /\ file' = file
  BY DEF Open, Adopt
<1>3. Len(file) \in Metas(file) /\ file \in Seq(Records)
  BY <1>1, <1>2 DEF Inv, Handle, Committed, TreesOK
<1>4. file[Len(file)] \in MetaRecords
  BY <1>3, MetasAre
<1>5. file[Len(file)].applied \in 0..MaxApplied
  BY <1>4 DEF MetaRecords
<1>6. Types'
  BY <1>2, <1>5 DEF Inv, Types
<1>7. Handle'
  BY <1>2, <1>3, <1>5 DEF Handle
<1>8. Committed(file', w, packed') /\ ReadersOK(file', w, snaps', cursors')
  BY <1>1, <1>2
<1>9. Sound'
  BY <1>8 DEF Sound
<1> QED
  BY <1>6, <1>7, <1>9 DEF Inv

LEMMA SyncKeeps ==
  ASSUME Inv, Sync, UNCHANGED use
  PROVE  Inv'
<1>1. PICK w : Committed(file, w, packed) /\ ReadersOK(file, w, snaps, cursors)
  BY DEF Inv, Sound
<1>2. safe' = Len(file) /\ UNCHANGED <<file, up, root, size, applied, snaps, cursors, packed, use>>
  BY DEF Sync
<1>3. Len(file) \in Nat
  BY <1>1 DEF Committed, TreesOK
<1>4. Types'
  BY <1>2, <1>3 DEF Inv, Types
<1>5. Handle'
  BY <1>2 DEF Inv, Handle
<1>6. Committed(file', w, packed') /\ ReadersOK(file', w, snaps', cursors')
  BY <1>1, <1>2
<1>7. Sound'
  BY <1>6 DEF Sound
<1> QED
  BY <1>4, <1>5, <1>7 DEF Inv

LEMMA SetAppliedIndexKeeps ==
  ASSUME Inv, NEW i \in 1..use.applied, SetAppliedIndex(i), UNCHANGED use
  PROVE  Inv'
<1>1. PICK w : Committed(file, w, packed) /\ ReadersOK(file, w, snaps, cursors)
  BY DEF Inv, Sound
<1>2. up /\ i >= applied /\ applied' = i /\ UNCHANGED <<file, safe, up, root, size, snaps, cursors, packed, use>>
  BY DEF SetAppliedIndex
<1>3. use.applied \in 0..MaxApplied
  BY UsesAssumption DEF Inv, Types
<1>4. i \in 0..MaxApplied /\ applied \in Nat /\ i \in Nat
  BY <1>3, MapAssumption DEF Inv, Types
<1>5. Types'
  BY <1>2, <1>4 DEF Inv, Types
<1>6. Handle'
  <2>1. file # <<>> /\ file[Len(file)].applied <= applied /\ Len(file) \in Metas(file) /\ file \in Seq(Records)
    BY <1>1, <1>2 DEF Inv, Handle, Committed, TreesOK
  <2>2. file[Len(file)].applied \in Nat
    BY <2>1, MetasAre
  <2>3. file[Len(file)].applied <= i
    BY <2>1, <2>2, <1>2, <1>4
  <2> QED
    BY <1>2, <2>3 DEF Inv, Handle
<1>7. Committed(file', w, packed') /\ ReadersOK(file', w, snaps', cursors')
  BY <1>1, <1>2
<1>8. Sound'
  BY <1>7 DEF Sound
<1> QED
  BY <1>5, <1>6, <1>8 DEF Inv

\* Entries without repeated keys.
Mapping(E) == IsFiniteSet(E) /\ E \subseteq Entry /\ \A x, y \in E : x[1] = y[1] => x = y

LEMMA EntriesMap ==
  ASSUME NEW f, NEW w, NEW loaded, TreesOK(f, w, loaded), NEW p \in Nodes(f)
  PROVE  Mapping(w[p].e)
<1>1. Lists(Entries(f, p), w[p].e)
  BY EntriesList
<1>2. IsFiniteSet(w[p].e)
  BY <1>1, ListsCount
<1>3. SummaryOK(w[p])
  BY DEF TreesOK
<1> QED
  BY <1>2, <1>3 DEF SummaryOK, Summaries, Mapping, Entry

\* The size of a map after one key is deleted, and after one is added.
LEMMA WithoutCount ==
  ASSUME NEW E, Mapping(E), NEW k
  PROVE  /\ IsFiniteSet(Without(E, k)) /\ Cardinality(E) \in Nat
         /\ (\E x \in E : x[1] = k) => Cardinality(E) - 1 \in Nat /\ Cardinality(Without(E, k)) = Cardinality(E) - 1
         /\ ~ (\E x \in E : x[1] = k) => Cardinality(Without(E, k)) = Cardinality(E)
<1>1. IsFiniteSet(E) /\ Cardinality(E) \in Nat
  BY FS_CardinalityType DEF Mapping
<1>2. IsFiniteSet(Without(E, k))
  <2>1. Without(E, k) \in SUBSET E
    BY DEF Without
  <2> QED
    BY <1>1, <2>1, FS_Subset
<1>3. ASSUME NEW x \in E, x[1] = k
      PROVE  Cardinality(E) - 1 \in Nat /\ Cardinality(Without(E, k)) = Cardinality(E) - 1
  <2>1. Without(E, k) = E \ {x}
    BY <1>3 DEF Without, Mapping
  <2>2. Cardinality(E \ {x}) = Cardinality(E) - 1
    BY <1>1, FS_RemoveElement
  <2>3. Cardinality(E \ {x}) \in Nat
    BY <1>2, <2>1, FS_CardinalityType
  <2> QED
    BY <2>1, <2>2, <2>3
<1>4. ASSUME ~ (\E x \in E : x[1] = k) PROVE Cardinality(Without(E, k)) = Cardinality(E)
  <2>1. Without(E, k) = E
    BY <1>4 DEF Without
  <2> QED
    BY <2>1
<1> QED
  BY <1>1, <1>2, <1>3, <1>4

LEMMA WithCount ==
  ASSUME NEW m, Mapping(m.e), NEW k, NEW v, NEW s \in Nat, s = Cardinality(m.e), NEW known \in BOOLEAN,
         known <=> \E x \in m.e : x[1] = k
  PROVE  Cardinality(With(m, k, v).e) = (IF known THEN s ELSE s + 1)
<1>1. With(m, k, v).e = Without(m.e, k) \cup {<<k, v>>}
  BY DEF With, Without
<1>2. <<k, v>> \notin Without(m.e, k)
  BY DEF Without
<1>3. IsFiniteSet(Without(m.e, k))
  BY WithoutCount
<1>4. Cardinality(With(m, k, v).e) = Cardinality(Without(m.e, k)) + 1
  BY <1>1, <1>2, <1>3, FS_AddElement
<1>5. CASE known
  <2>1. Cardinality(Without(m.e, k)) = s - 1
    BY <1>5, WithoutCount
  <2>2. Cardinality(With(m, k, v).e) = s
    BY <1>4, <2>1
  <2> QED
    BY <2>2, <1>5
<1>6. CASE ~known
  <2>1. Cardinality(Without(m.e, k)) = s
    BY <1>6, WithoutCount
  <2>2. Cardinality(With(m, k, v).e) = s + 1
    BY <1>4, <2>1
  <2> QED
    BY <2>2, <1>6
<1> QED
  BY <1>5, <1>6

\* A commit of the tree at the end of g, which holds es.
LEMMA SaveKeeps ==
  ASSUME Inv, up, NEW w, Committed(file, w, packed), ReadersOK(file, w, snaps, cursors),
         NEW g, NEW es, Plain(file, g), Rooted(file, w, packed, es, g), NEW s \in Nat, s = Cardinality(es),
         SaveMetadata(g, s), UNCHANGED use
  PROVE  Inv'
<1>1. OpenFile(file, w, root, size, applied)
  BY OpenIs
<1>2. PICK u : TreesOK(g, u, packed) /\ Agrees(file, w, u) /\ u[Len(g)].e = es
  BY DEF Rooted
<1>3. Len(g) \in Nodes(g) /\ s = Cardinality(u[Len(g)].e)
  BY <1>2 DEF Rooted
<1>4. applied \in 0..MaxApplied /\ packed \in BOOLEAN /\ \A n \in Metas(file) : file[n].applied <= applied
  BY <1>1 DEF OpenFile, Inv, Types
<1>5. /\ file' = Append(g, Metadata(Len(g), s, applied)) /\ root' = Len(g) /\ size' = s
      /\ UNCHANGED <<safe, up, applied, snaps, cursors, packed, use>>
  BY DEF SaveMetadata
<1>a. PICK m, h : m = Metadata(Len(g), s, applied) /\ h = Append(g, m)
  OBVIOUS
<1>b. PICK v : Saved(h, m, v, packed, snaps, cursors)
  <2>1. PICK a : a = applied
    OBVIOUS
  <2>2. a \in 0..MaxApplied /\ m = Metadata(Len(g), s, a) /\ \A n \in Metas(file) : file[n].applied <= a
    BY <1>4, <1>a, <2>1
  <2> QED
    BY <1>2, <1>3, <1>4, <1>a, <2>2, AfterCommit
<1>6. /\ Committed(file', v, packed) /\ ReadersOK(file', v, snaps, cursors)
      /\ file' # <<>> /\ Len(file') \in Metas(file') /\ file'[Len(file')] = Metadata(Len(g), s, applied)
  BY <1>a, <1>b, <1>5 DEF Saved
<1>7. Types'
  BY <1>5 DEF Inv, Types
<1>8. Handle'
  <2>1. file'[Len(file')].root = Len(g) /\ file'[Len(file')].size = s /\ file'[Len(file')].applied = applied
    BY <1>6 DEF Metadata
  <2>2. applied <= applied
    BY <1>4, MapAssumption
  <2> QED
    BY <2>1, <2>2, <1>5, <1>6 DEF Handle
<1>9. Committed(file', v, packed') /\ ReadersOK(file', v, snaps', cursors')
  BY <1>5, <1>6
<1>10. Sound'
  BY <1>9 DEF Sound
<1> QED
  BY <1>7, <1>8, <1>10 DEF Inv

LEMMA AddKeeps ==
  ASSUME Inv, NEW k \in use.keys, NEW v \in use.values, Add(k, v), UNCHANGED use
  PROVE  Inv'
<1>1. PICK w : Committed(file, w, packed) /\ ReadersOK(file, w, snaps, cursors)
  BY DEF Inv, Sound
<1>2. PICK r : r = AddRoot(file, root, k, v)
  OBVIOUS
<1>3. up /\ SaveMetadata(r.file, IF r.updated THEN size ELSE size + 1)
  BY <1>2 DEF Add
<1>4. use \in Uses /\ packed \in BOOLEAN
  BY DEF Inv, Types
<1>5. k \in Keys /\ v \in Value
  BY <1>4, UsesAssumption DEF Keys
<1>6. OpenFile(file, w, root, size, applied)
  BY <1>1, <1>3, OpenIs
<1>7. root \in Nodes(file) /\ size = Cardinality(w[root].e) /\ TreesOK(file, w, packed)
  BY <1>1, <1>6 DEF OpenFile, Committed
<1>8. AddedRoot(file, w, packed, root, k, v, AddRoot(file, root, k, v)) /\ Plain(file, AddRoot(file, root, k, v).file)
  BY <1>4, <1>5, <1>7, AddRootIs, AddRootPlain
<1>9. PICK es : es = With(w[root], k, v).e
  OBVIOUS
<1>10. /\ Rooted(file, w, packed, es, r.file) /\ Plain(file, r.file) /\ r.updated \in BOOLEAN
       /\ r.updated <=> \E x \in w[root].e : x[1] = k
  BY <1>2, <1>8, <1>9 DEF AddedRoot
<1>11. Mapping(w[root].e)
  BY <1>7, EntriesMap
<1>12. size \in Nat
  BY <1>7, <1>11, FS_CardinalityType DEF Mapping
<1>13. PICK s : s = (IF r.updated THEN size ELSE size + 1)
  OBVIOUS
<1>14. Cardinality(es) = s
  BY <1>7, <1>9, <1>10, <1>11, <1>12, <1>13, WithCount
<1>15. s \in Nat
  BY <1>12, <1>13
<1>16. SaveMetadata(r.file, s)
  BY <1>3, <1>13
<1> QED
  BY <1>1, <1>3, <1>10, <1>14, <1>15, <1>16, SaveKeeps

LEMMA DeleteKeeps ==
  ASSUME Inv, NEW k \in use.keys, Delete(k), UNCHANGED use
  PROVE  Inv'
<1>1. PICK w : Committed(file, w, packed) /\ ReadersOK(file, w, snaps, cursors)
  BY DEF Inv, Sound
<1>2. PICK g \in DeleteRoot(file, root, k) : SaveMetadata(g, size - 1)
  BY DEF Delete
<1>3. up
  BY DEF Delete
<1>4. use \in Uses /\ packed \in BOOLEAN
  BY DEF Inv, Types
<1>5. k \in Keys
  BY <1>4, UsesAssumption DEF Keys
<1>6. OpenFile(file, w, root, size, applied)
  BY <1>1, <1>3, OpenIs
<1>7. root \in Nodes(file) /\ size = Cardinality(w[root].e) /\ TreesOK(file, w, packed)
  BY <1>1, <1>6 DEF OpenFile, Committed
<1>8. DeletedRoots(file, w, packed, root, k, DeleteRoot(file, root, k)) /\ Plain(file, g)
  BY <1>2, <1>4, <1>5, <1>7, DeleteRootIs, DeleteRootPlain
<1>9. PICK es : es = Without(w[root].e, k)
  OBVIOUS
<1>10. Rooted(file, w, packed, es, g) /\ \E x \in w[root].e : x[1] = k
  BY <1>2, <1>8, <1>9 DEF DeletedRoots
<1>11. Mapping(w[root].e)
  BY <1>7, EntriesMap
<1>12. size - 1 \in Nat /\ size - 1 = Cardinality(es)
  BY <1>7, <1>9, <1>10, <1>11, WithoutCount
<1>13. PICK s : s = size - 1
  OBVIOUS
<1>14. s \in Nat /\ s = Cardinality(es) /\ SaveMetadata(g, s)
  BY <1>2, <1>12, <1>13
<1> QED
  BY <1>1, <1>3, <1>8, <1>10, <1>14, SaveKeeps

\* The file is cut at a commit, or before all of them, and nobody reads.
CutAt(f, n) == n = 0 \/ n \in Metas(f)

CutTo(f, w, loaded, n, ss, cs, g) ==
  /\ Committed(g, w, loaded) /\ ReadersOK(g, w, ss, cs)
  /\ g # <<>> => n \in Metas(f) /\ Len(g) = n /\ Len(g) \in Metas(g) /\ g[Len(g)] = f[n]

\* What is left has its commits, and the last of them at its end.
LEMMA CutKeeps ==
  ASSUME NEW w, NEW f, NEW loaded \in BOOLEAN, Committed(f, w, loaded), NEW n, CutAt(f, n),
         NEW ss, NEW cs, NoneOf(ss, cs)
  PROVE  CutTo(f, w, loaded, n, ss, cs, SubSeq(f, 1, n))
<1>a. PICK g : g = SubSeq(f, 1, n)
  OBVIOUS
<1>1. f \in Seq(Records)
  BY DEF Committed, TreesOK
<1>2. n \in 0..Len(f) /\ n \in Nat
  BY <1>1, MetasAre DEF CutAt
<1>3. /\ Committed(SubSeq(f, 1, n), w, loaded) /\ Len(SubSeq(f, 1, n)) = n
      /\ n \in Metas(f) => n \in Metas(SubSeq(f, 1, n)) /\ SubSeq(f, 1, n)[n] = f[n]
  BY <1>2, CommittedCut
<1>4. Committed(g, w, loaded) /\ Len(g) = n /\ (n \in Metas(f) => n \in Metas(g) /\ g[n] = f[n])
  BY <1>a, <1>3
<1>5. ReadersOK(g, w, ss, cs)
  BY NoReaders
<1>6. ASSUME g # <<>> PROVE n \in Metas(f)
  <2>1. g \in Seq(Records)
    BY <1>4 DEF Committed, TreesOK
  <2>2. Len(g) # 0
    BY <2>1, <1>6
  <2> QED
    BY <2>2, <1>4 DEF CutAt
<1>7. CutTo(f, w, loaded, n, ss, cs, g)
  BY <1>4, <1>5, <1>6 DEF CutTo
<1> QED
  BY <1>a, <1>7

LEMMA RewindKeeps ==
  ASSUME Inv, NEW n \in Boundaries, Rewind(n), UNCHANGED use
  PROVE  Inv'
<1>1. PICK w : Committed(file, w, packed) /\ ReadersOK(file, w, snaps, cursors)
  BY DEF Inv, Sound
<1>2. /\ NoReader /\ file' = SubSeq(file, 1, n) /\ safe' = (IF safe > n THEN n ELSE safe)
      /\ root' = file[n].root /\ size' = file[n].size /\ applied' = file[n].applied
      /\ UNCHANGED <<up, snaps, cursors, packed, use>>
  BY DEF Rewind, Cut, Adopt
<1>3. n \in Metas(file) /\ packed \in BOOLEAN /\ NoneOf(snaps, cursors)
  BY <1>2, BoundariesAre DEF Inv, Types, NoReader, NoneOf
<1>4. n \in Nat /\ file[n] \in MetaRecords /\ file \in Seq(Records) /\ n \in 1..Len(file)
  BY <1>1, <1>3, MetasAre DEF Committed, TreesOK
<1>5. /\ Committed(file', w, packed) /\ ReadersOK(file', w, snaps, cursors)
      /\ file' # <<>> => Len(file') \in Metas(file') /\ file'[Len(file')] = file[n]
  <2>1. CutAt(file, n)
    BY <1>3 DEF CutAt
  <2>2. CutTo(file, w, packed, n, snaps, cursors, SubSeq(file, 1, n))
    BY <2>1, <1>1, <1>3, CutKeeps
  <2>3. CutTo(file, w, packed, n, snaps, cursors, file')
    BY <2>2, <1>2
  <2> QED
    BY <2>3 DEF CutTo
<1>6. file' # <<>>
  BY <1>2, <1>4
<1>7. file[n].applied \in 0..MaxApplied
  BY <1>4 DEF MetaRecords
<1>8. Types'
  BY <1>2, <1>4, <1>7 DEF Inv, Types
<1>9. Handle'
  <2>1. file[n].applied <= file[n].applied
    BY <1>7, MapAssumption
  <2> QED
    BY <2>1, <1>2, <1>5, <1>6 DEF Handle
<1>10. Committed(file', w, packed') /\ ReadersOK(file', w, snaps', cursors')
  BY <1>2, <1>5
<1>11. Sound'
  BY <1>10 DEF Sound
<1> QED
  BY <1>8, <1>9, <1>11 DEF Inv

LEMMA CrashKeeps ==
  ASSUME Inv, Crash, UNCHANGED use
  PROVE  Inv'
<1>1. PICK w : Committed(file, w, packed) /\ ReadersOK(file, w, snaps, cursors)
  BY DEF Inv, Sound
<1>2. PICK n \in CF!CrashPoints(file, safe) : file' = SubSeq(file, 1, n)
  BY DEF Crash
<1>3. /\ up' = FALSE /\ applied' = 0 /\ snaps' = [s \in Snaps |-> None] /\ cursors' = [c \in Cursors |-> None]
      /\ UNCHANGED <<safe, packed, use>>
  BY DEF Crash
<1>4. n = 0 \/ n \in Metas(file)
  BY <1>2, BoundariesAre DEF CF!CrashPoints, Boundaries
<1>5. packed \in BOOLEAN /\ NoneOf(snaps', cursors')
  BY <1>3 DEF Inv, Types, NoneOf
<1>6. /\ Committed(file', w, packed) /\ ReadersOK(file', w, snaps', cursors')
      /\ file' # <<>> => Len(file') \in Metas(file')
  <2>1. CutAt(file, n)
    BY <1>4 DEF CutAt
  <2>2. CutTo(file, w, packed, n, snaps', cursors', SubSeq(file, 1, n))
    BY <2>1, <1>1, <1>5, CutKeeps
  <2>3. CutTo(file, w, packed, n, snaps', cursors', file')
    BY <2>2, <1>2
  <2> QED
    BY <2>3, <1>4 DEF CutTo
<1>7. Types'
  <2>1. applied' \in 0..MaxApplied
    BY <1>3, MapAssumption
  <2>2. snaps' = [s \in Snaps |-> snaps'[s]]
    BY <1>3
  <2>3. cursors' = [c \in Cursors |-> cursors'[c]]
    BY <1>3
  <2> QED
    BY <2>1, <2>2, <2>3, <1>3 DEF Inv, Types
<1>8. Handle'
  BY <1>3, <1>6 DEF Handle
<1>9. Committed(file', w, packed') /\ ReadersOK(file', w, snaps', cursors')
  BY <1>3, <1>6
<1>10. Sound'
  BY <1>9 DEF Sound
<1> QED
  BY <1>7, <1>8, <1>10 DEF Inv

\* A new file that holds one tree takes the place of the old one.
NewFile(h, m, v, loaded) ==
  /\ Committed(h, v, loaded) /\ h \in Seq(Records)
  /\ h # <<>> /\ Len(h) \in Metas(h) /\ h[Len(h)] = m

LEMMA NewFileIs ==
  ASSUME NEW g, NEW u, NEW loaded \in BOOLEAN, TreesOK(g, u, loaded), Len(g) \in Nodes(g), NoMeta(g),
         NEW m \in MetaRecords, m.root = Len(g), m.size = Cardinality(u[Len(g)].e), NEW h, h = Append(g, m)
  PROVE  \E v : NewFile(h, m, v, loaded)
<1>1. Committed(g, u, loaded) /\ Metas(g) = {}
  BY NothingCommitted
<1>2. RootOf(g, u, m)
  BY <1>1 DEF RootOf
<1>3. PICK v : CommittedAs(g, u, loaded, m, Append(g, m), v)
  BY <1>1, <1>2, CommitMade
<1>4. CommittedAs(g, u, loaded, m, h, v)
  BY <1>3
<1> QED
  BY <1>4 DEF CommittedAs, NewFile

LEMMA ReplaceKeeps ==
  ASSUME Inv, NoneOf(snaps, cursors), NEW m \in MetaRecords, NEW v, NewFile(file', m, v, packed'),
         packed' \in BOOLEAN, safe' \in Nat, root' = m.root, size' = m.size, applied' = m.applied,
         UNCHANGED <<up, snaps, cursors, use>>
  PROVE  Inv'
<1>1. m.applied \in 0..MaxApplied
  BY DEF MetaRecords
<1>2. Types'
  BY <1>1 DEF Inv, Types
<1>3. Handle'
  <2>1. m.applied <= m.applied
    BY <1>1, MapAssumption
  <2>2. file' # <<>> /\ Len(file') \in Metas(file') /\ file'[Len(file')] = m
    BY DEF NewFile
  <2> QED
    BY <2>1, <2>2 DEF Handle
<1>4. Committed(file', v, packed')
  BY DEF NewFile
<1>5. NoneOf(snaps', cursors')
  OBVIOUS
<1>6. ReadersOK(file', v, snaps', cursors')
  BY <1>5, NoReaders
<1>7. Sound'
  BY <1>4, <1>6 DEF Sound
<1> QED
  BY <1>2, <1>3, <1>7 DEF Inv

LEMMA ResetKeeps ==
  ASSUME Inv, Reset, UNCHANGED use
  PROVE  Inv'
<1>1. /\ NoReader /\ file' = EmptyFile(applied) /\ safe' = 0 /\ root' = 1 /\ size' = 0 /\ packed' = FALSE
      /\ UNCHANGED <<up, applied, snaps, cursors, use>>
  BY DEF Reset
<1>2. PICK g, u : g = <<Leaf(<<>>, <<>>)>> /\ RootHolds(g, u, FALSE, {})
  BY EmptyLoad
<1>3. TreesOK(g, u, FALSE) /\ Len(g) \in Nodes(g) /\ u[Len(g)].e = {} /\ NoMeta(g) /\ Len(g) = 1
  BY <1>2 DEF RootHolds
<1>4. PICK m : m = Metadata(1, 0, applied)
  OBVIOUS
<1>5. m \in MetaRecords /\ m.root = 1 /\ m.size = 0 /\ m.applied = applied
  BY <1>4 DEF Inv, Types, Metadata, MetaRecords
<1>6. Cardinality(u[Len(g)].e) = 0
  BY <1>3, FS_EmptySet
<1>7. file' = Append(g, m)
  BY <1>1, <1>2, <1>4 DEF EmptyFile
<1>8. PICK v : NewFile(file', m, v, FALSE)
  BY <1>3, <1>5, <1>6, <1>7, NewFileIs
<1>9. NoneOf(snaps, cursors) /\ NewFile(file', m, v, packed')
  BY <1>1, <1>8 DEF NoReader, NoneOf
<1> QED
  BY <1>1, <1>5, <1>9, ReplaceKeeps

LEMMA CompactKeeps ==
  ASSUME Inv, Compact, UNCHANGED use
  PROVE  Inv'
<1>1. PICK w : Committed(file, w, packed) /\ ReadersOK(file, w, snaps, cursors)
  BY DEF Inv, Sound
<1>2. PICK es, g : es = Entries(file, root) /\ g = BulkLoad(es)
  OBVIOUS
<1>3. PICK m : m = Metadata(Len(g), Len(es), applied)
  OBVIOUS
<1>4. /\ up /\ NoReader /\ file' = Append(g, m) /\ root' = Len(g) /\ size' = Len(es)
      /\ safe' = Len(file') /\ packed' = TRUE /\ UNCHANGED <<up, applied, snaps, cursors, use>>
  BY <1>2, <1>3 DEF Compact
<1>5. OpenFile(file, w, root, size, applied)
  BY <1>1, <1>4, OpenIs
<1>6. root \in Nodes(file) /\ TreesOK(file, w, packed)
  BY <1>1, <1>5 DEF OpenFile, Committed
<1>7. Lists(es, w[root].e)
  BY <1>2, <1>6, EntriesList
<1>8. PICK u : RootHolds(g, u, TRUE, w[root].e)
  BY <1>2, <1>7, BulkLoadIs
<1>9. TreesOK(g, u, TRUE) /\ Len(g) \in Nodes(g) /\ u[Len(g)].e = w[root].e /\ NoMeta(g) /\ g \in Seq(Records)
  BY <1>8 DEF RootHolds, TreesOK
<1>10. Len(es) = Cardinality(u[Len(g)].e) /\ Len(es) \in Nat
  BY <1>7, <1>9, ListsCount, ListsAre
<1>11. m \in MetaRecords /\ m.root = Len(g) /\ m.size = Len(es) /\ m.applied = applied
  BY <1>3, <1>9, <1>10 DEF Inv, Types, Metadata, MetaRecords
<1>12. PICK v : NewFile(file', m, v, TRUE)
  BY <1>4, <1>9, <1>10, <1>11, NewFileIs
<1>13. safe' \in Nat
  BY <1>4, <1>12 DEF NewFile
<1>14. NoneOf(snaps, cursors) /\ NewFile(file', m, v, packed')
  BY <1>4, <1>12 DEF NoReader, NoneOf
<1> QED
  BY <1>4, <1>11, <1>13, <1>14, ReplaceKeeps

LEMMA ForgetKeeps ==
  ASSUME Inv, Forget, UNCHANGED use
  PROVE  Inv'
<1>1. PICK w : Committed(file, w, packed) /\ ReadersOK(file, w, snaps, cursors)
  BY DEF Inv, Sound
<1>2. PICK g, l : g = Kept(file, root) /\ l = file[Len(file)]
  OBVIOUS
<1>3. PICK m : m = [l EXCEPT !.root = Len(g)]
  OBVIOUS
<1>4. /\ up /\ NoReader /\ file' = Append(g, m) /\ root' = Len(g) /\ safe' = Len(file')
      /\ UNCHANGED <<up, size, applied, snaps, cursors, packed, use>>
  BY <1>2, <1>3 DEF Forget
<1>5. OpenFile(file, w, root, size, applied)
  BY <1>1, <1>4, OpenIs
<1>6. root \in Nodes(file) /\ TreesOK(file, w, packed) /\ size = Cardinality(w[root].e)
  BY <1>1, <1>5 DEF OpenFile, Committed
<1>7. /\ g \in Seq(Records) /\ Len(g) \in Nodes(g) /\ NoMeta(g)
      /\ \E u : TreesOK(g, u, packed) /\ u[Len(g)] = w[root]
  BY <1>2, <1>6, KeptTrees
<1>8. PICK u : TreesOK(g, u, packed) /\ u[Len(g)] = w[root]
  BY <1>7
<1>9. l \in MetaRecords /\ size = l.size /\ l.applied <= applied
  <2>1. Len(file) \in Metas(file) /\ file \in Seq(Records)
    BY <1>5 DEF OpenFile
  <2> QED
    BY <2>1, <1>2, <1>4, MetasAre DEF Inv, Handle
<1>10. m \in MetaRecords /\ m.root = Len(g) /\ m.size = size /\ m.applied = l.applied
  BY <1>3, <1>7, <1>9 DEF MetaRecords
<1>11. PICK v : NewFile(file', m, v, packed)
  <2>1. packed \in BOOLEAN /\ m.size = Cardinality(u[Len(g)].e)
    BY <1>6, <1>8, <1>10 DEF Inv, Types
  <2> QED
    BY <2>1, <1>4, <1>7, <1>8, <1>10, NewFileIs
<1>12. /\ Committed(file', v, packed) /\ file' \in Seq(Records)
       /\ file' # <<>> /\ Len(file') \in Metas(file') /\ file'[Len(file')] = m
  BY <1>11 DEF NewFile
<1>13. Types'
  BY <1>4, <1>12 DEF Inv, Types
<1>14. Handle'
  BY <1>4, <1>9, <1>10, <1>12 DEF Handle
<1>15. ReadersOK(file', v, snaps', cursors')
  <2>1. NoneOf(snaps', cursors')
    BY <1>4 DEF NoReader, NoneOf
  <2> QED
    BY <2>1, NoReaders
<1>16. Committed(file', v, packed')
  BY <1>4, <1>12
<1>17. Sound'
  BY <1>15, <1>16 DEF Sound
<1> QED
  BY <1>13, <1>14, <1>17 DEF Inv

\* What the steps of readers leave alone.
LEMMA ReadersChange ==
  ASSUME Inv, NEW w, Committed(file, w, packed), ReadersOK(file, w, snaps', cursors'),
         snaps' = [s \in Snaps |-> snaps'[s]], cursors' = [c \in Cursors |-> cursors'[c]],
         UNCHANGED <<file, safe, up, root, size, applied, packed, use>>
  PROVE  Inv'
<1>1. Types'
  BY DEF Inv, Types
<1>2. Handle'
  BY DEF Inv, Handle
<1>3. Committed(file', w, packed') /\ ReadersOK(file', w, snaps', cursors')
  OBVIOUS
<1>4. Sound'
  BY <1>3 DEF Sound
<1> QED
  BY <1>1, <1>2, <1>4 DEF Inv

LEMMA SnapshotKeeps ==
  ASSUME Inv, NEW s \in Snaps, NEW x, snaps' = [snaps EXCEPT ![s] = x],
         x # None => \A w : Committed(file, w, packed) => SnapOK(file, w, x),
         UNCHANGED <<file, safe, up, root, size, applied, cursors, packed, use>>
  PROVE  Inv'
<1>1. PICK w : Committed(file, w, packed) /\ ReadersOK(file, w, snaps, cursors)
  BY DEF Inv, Sound
<1>2. snaps = [t \in Snaps |-> snaps[t]] /\ cursors = [c \in Cursors |-> cursors[c]]
  BY DEF Inv, Types
<1>3. snaps' = [t \in Snaps |-> snaps'[t]] /\ \A t \in Snaps : snaps'[t] = IF t = s THEN x ELSE snaps[t]
  BY <1>2
<1>4. cursors' = [c \in Cursors |-> cursors'[c]]
  BY <1>2
<1>5. ASSUME NEW t \in Snaps, snaps'[t] # None PROVE SnapOK(file, w, snaps'[t])
  <2>1. CASE t = s
    BY <2>1, <1>1, <1>3, <1>5
  <2>2. CASE t # s
    BY <2>2, <1>1, <1>3, <1>5 DEF ReadersOK
  <2> QED
    BY <2>1, <2>2
<1>6. ReadersOK(file, w, snaps', cursors')
  BY <1>1, <1>5 DEF ReadersOK
<1> QED
  BY <1>1, <1>3, <1>4, <1>6, ReadersChange

LEMMA CursorKeeps ==
  ASSUME Inv, NEW c \in Cursors, NEW x, cursors' = [cursors EXCEPT ![c] = x],
         x # None => CursorOK(file, x),
         UNCHANGED <<file, safe, up, root, size, applied, snaps, packed, use>>
  PROVE  Inv'
<1>1. PICK w : Committed(file, w, packed) /\ ReadersOK(file, w, snaps, cursors)
  BY DEF Inv, Sound
<1>2. snaps = [t \in Snaps |-> snaps[t]] /\ cursors = [d \in Cursors |-> cursors[d]]
  BY DEF Inv, Types
<1>3. cursors' = [d \in Cursors |-> cursors'[d]] /\ \A d \in Cursors : cursors'[d] = IF d = c THEN x ELSE cursors[d]
  BY <1>2
<1>4. snaps' = [t \in Snaps |-> snaps'[t]]
  BY <1>2
<1>5. ASSUME NEW d \in Cursors, cursors'[d] # None PROVE CursorOK(file, cursors'[d])
  <2>1. CASE d = c
    BY <2>1, <1>3, <1>5
  <2>2. CASE d # c
    BY <2>2, <1>1, <1>3, <1>5 DEF ReadersOK
  <2> QED
    BY <2>1, <2>2
<1>6. ReadersOK(file, w, snaps', cursors')
  BY <1>1, <1>5 DEF ReadersOK
<1> QED
  BY <1>1, <1>3, <1>4, <1>6, ReadersChange

LEMMA TakeSnapshotKeeps ==
  ASSUME Inv, NEW s \in Snaps, NEW n \in Boundaries, TakeSnapshot(s, n), UNCHANGED use
  PROVE  Inv'
<1>1. PICK x : x = [root |-> file[n].root, size |-> file[n].size]
  OBVIOUS
<1>2. snaps' = [snaps EXCEPT ![s] = x] /\ UNCHANGED <<file, safe, up, root, size, applied, cursors, packed, use>>
  BY <1>1 DEF TakeSnapshot
<1>3. ASSUME NEW w, Committed(file, w, packed) PROVE SnapOK(file, w, x)
  <2>1. MetaOK(file, w, n)
    BY <1>3, BoundariesAre DEF Committed
  <2> QED
    BY <2>1, <1>1 DEF MetaOK, SnapOK
<1> QED
  BY <1>2, <1>3, SnapshotKeeps

LEMMA FreeSnapshotKeeps ==
  ASSUME Inv, NEW s \in Snaps, FreeSnapshot(s), UNCHANGED use
  PROVE  Inv'
<1>1. snaps' = [snaps EXCEPT ![s] = None] /\ UNCHANGED <<file, safe, up, root, size, applied, cursors, packed, use>>
  BY DEF FreeSnapshot
<1> QED
  BY <1>1, SnapshotKeeps

LEMMA RootsAre ==
  ASSUME Inv, up, NEW w, Committed(file, w, packed), ReadersOK(file, w, snaps, cursors), NEW r \in Roots
  PROVE  r \in Nodes(file)
<1>1. root \in Nodes(file)
  BY OpenIs DEF OpenFile
<1>2. \A s \in Snaps : snaps[s] # None => snaps[s].root \in Nodes(file)
  BY DEF ReadersOK, SnapOK
<1> QED
  BY <1>1, <1>2 DEF Roots

LEMMA OpenCursorKeeps ==
  ASSUME Inv, NEW c \in Cursors, NEW r \in Roots, NEW min \in use.keys, NEW max \in use.keys,
         OpenCursor(c, r, min, max), UNCHANGED use
  PROVE  Inv'
<1>1. PICK w : Committed(file, w, packed) /\ ReadersOK(file, w, snaps, cursors)
  BY DEF Inv, Sound
<1>2. PICK d : d = CursorDescend(file, r, min)
  OBVIOUS
<1>3. PICK x : x = CursorRecord(d.leaf, LowerBound(d.leaf.keys, min), d.ahead, min, max, None)
  OBVIOUS
<1>4. up /\ cursors' = [cursors EXCEPT ![c] = x] /\ UNCHANGED <<file, safe, up, root, size, applied, snaps, packed, use>>
  BY <1>2, <1>3 DEF OpenCursor, CursorRecord
<1>5. use \in Uses
  BY DEF Inv, Types
<1>6. min \in Nat
  BY <1>5, UsesAssumption, MapAssumption
<1>7. r \in Nodes(file) /\ TreesOK(file, w, packed)
  BY <1>1, <1>4, RootsAre DEF Committed
<1>8. Descent(file, CursorDescend(file, r, min))
  BY <1>6, <1>7, DescentIs
<1>9. CursorOK(file, x)
  BY <1>2, <1>3, <1>8 DEF Descent, CursorOK
<1> QED
  BY <1>4, <1>9, CursorKeeps

LEMMA CursorNextKeeps ==
  ASSUME Inv, NEW c \in Cursors, CursorNext(c), UNCHANGED use
  PROVE  Inv'
<1>1. PICK w : Committed(file, w, packed) /\ ReadersOK(file, w, snaps, cursors)
  BY DEF Inv, Sound
<1>2. PICK cur : cur = cursors[c]
  OBVIOUS
<1>3. PICK x : x = Advanced(cur)
  OBVIOUS
<1>4. cursors = [d \in Cursors |-> cursors[d]]
  BY DEF Inv, Types
<1>5. cur # None /\ cursors' = [cursors EXCEPT ![c] = x] /\ UNCHANGED <<file, safe, up, root, size, applied, snaps, packed, use>>
  BY <1>2, <1>3, <1>4 DEF CursorNext
<1>6. CursorOK(file, cur) /\ TreesOK(file, w, packed)
  BY <1>1, <1>2, <1>5 DEF ReadersOK, Committed
<1>7. CursorOK(file, Advanced(cur))
  BY <1>6, AdvancedOK
<1> QED
  BY <1>3, <1>5, <1>7, CursorKeeps

LEMMA CloseCursorKeeps ==
  ASSUME Inv, NEW c \in Cursors, CloseCursor(c), UNCHANGED use
  PROVE  Inv'
<1>1. cursors' = [cursors EXCEPT ![c] = None] /\ UNCHANGED <<file, safe, up, root, size, applied, snaps, packed, use>>
  BY DEF CloseCursor
<1> QED
  BY <1>1, CursorKeeps

\* Every step keeps the invariant.
LEMMA StepKeeps == Inv /\ [Next]_vars => Inv'
<1> SUFFICES ASSUME Inv, [Next]_vars PROVE Inv'
  OBVIOUS
<1>1. CASE UNCHANGED vars
  <2>1. PICK w : Committed(file, w, packed) /\ ReadersOK(file, w, snaps, cursors)
    BY DEF Inv, Sound
  <2>2. UNCHANGED <<file, safe, up, root, size, applied, snaps, cursors, packed, use>>
    BY <1>1 DEF vars
  <2>3. snaps = [s \in Snaps |-> snaps[s]] /\ cursors = [c \in Cursors |-> cursors[c]]
    BY DEF Inv, Types
  <2>4. /\ ReadersOK(file, w, snaps', cursors')
        /\ snaps' = [s \in Snaps |-> snaps'[s]] /\ cursors' = [c \in Cursors |-> cursors'[c]]
    BY <2>1, <2>2, <2>3
  <2> QED
    BY <2>1, <2>2, <2>4, ReadersChange
<1>2. CASE Next
  <2> USE <1>2 DEF Next
  <2>0. UNCHANGED use
    OBVIOUS
  <2>1. CASE Create
    BY <2>0, <2>1, CreateKeeps
  <2>2. CASE Open
    BY <2>0, <2>2, OpenKeeps
  <2>3. CASE Sync
    BY <2>0, <2>3, SyncKeeps
  <2>4. CASE Reset
    BY <2>0, <2>4, ResetKeeps
  <2>5. CASE Compact
    BY <2>0, <2>5, CompactKeeps
  <2>6. CASE Crash
    BY <2>0, <2>6, CrashKeeps
  <2>7. CASE Forget
    BY <2>0, <2>7, ForgetKeeps
  <2>8. ASSUME NEW k \in use.keys, Delete(k) PROVE Inv'
    BY <2>0, <2>8, DeleteKeeps
  <2>9. ASSUME NEW k \in use.keys, NEW v \in use.values, Add(k, v) PROVE Inv'
    BY <2>0, <2>9, AddKeeps
  <2>10. ASSUME NEW i \in 1..use.applied, SetAppliedIndex(i) PROVE Inv'
    BY <2>0, <2>10, SetAppliedIndexKeeps
  <2>11. ASSUME NEW n \in Boundaries, Rewind(n) PROVE Inv'
    BY <2>0, <2>11, RewindKeeps
  <2>12. ASSUME NEW n \in Boundaries, NEW s \in Snaps, TakeSnapshot(s, n) PROVE Inv'
    BY <2>0, <2>12, TakeSnapshotKeeps
  <2>13. ASSUME NEW s \in Snaps, FreeSnapshot(s) PROVE Inv'
    BY <2>0, <2>13, FreeSnapshotKeeps
  <2>14. ASSUME NEW c \in Cursors, CursorNext(c) PROVE Inv'
    BY <2>0, <2>14, CursorNextKeeps
  <2>15. ASSUME NEW c \in Cursors, CloseCursor(c) PROVE Inv'
    BY <2>0, <2>15, CloseCursorKeeps
  <2>16. ASSUME NEW c \in Cursors, NEW r \in Roots, NEW min \in use.keys, NEW max \in use.keys,
                OpenCursor(c, r, min, max)
         PROVE  Inv'
    BY <2>0, <2>16, OpenCursorKeeps
  <2> QED
    BY <2>1, <2>2, <2>3, <2>4, <2>5, <2>6, <2>7, <2>8, <2>9, <2>10, <2>11, <2>12, <2>13, <2>14, <2>15, <2>16
<1> QED
  BY <1>1, <1>2

-----------------------------------------------------------------------------
(* The theorems.                                                           *)

\* Inv holds in every state: every node of the file fits its children.
THEOREM Invariant == Spec => []Inv
<1>1. Init => Inv
  BY InitInv
<1>2. Inv /\ [Next]_vars => Inv'
  BY StepKeeps
<1> QED
  BY <1>1, <1>2, PTL DEF Spec

LEMMA InvType == Inv => TypeOK
<1> SUFFICES ASSUME Inv PROVE TypeOK
  OBVIOUS
<1>1. PICK w : Committed(file, w, packed) /\ ReadersOK(file, w, snaps, cursors)
  BY DEF Inv, Sound
<1>2. file \in Seq(Records)
  BY <1>1 DEF Committed, TreesOK
<1>3. \A i \in DOMAIN file : file[i].kind \in {"leaf", "node", "value", "meta"}
  <2> SUFFICES ASSUME NEW i \in DOMAIN file PROVE file[i].kind \in {"leaf", "node", "value", "meta"}
    OBVIOUS
  <2>1. file[i] \in Records
    BY <1>2
  <2> QED
    BY <2>1 DEF Records, LeafRecords, NodeRecords, ValueRecords, MetaRecords
<1>4. \A p \in Nodes(file) : IsNode(file, p)
  BY DEF Nodes, IsNode
<1>5. safe \in Nat /\ applied \in 0..MaxApplied
  BY DEF Inv, Types
<1>6. file # <<>> => file[Len(file)].kind = "meta"
  BY DEF Inv, Handle, Metas
<1>7. ASSUME up PROVE IsNode(file, root) /\ root = file[Len(file)].root /\ size = file[Len(file)].size
  <2>1. root \in Nodes(file)
    BY <1>1, <1>7, OpenIs DEF OpenFile
  <2> QED
    BY <2>1, <1>4, <1>7 DEF Inv, Handle
<1>8. \A s \in Snaps : snaps[s] # None => IsNode(file, snaps[s].root)
  BY <1>1, <1>4 DEF ReadersOK, SnapOK
<1>9. ASSUME NEW c \in Cursors, cursors[c] # None, NEW i \in DOMAIN cursors[c].ahead
      PROVE  IsNode(file, cursors[c].ahead[i])
  <2>1. CursorOK(file, cursors[c])
    BY <1>1, <1>9 DEF ReadersOK
  <2>2. cursors[c].ahead \in Seq(Nodes(file))
    BY <2>1, CursorFields
  <2>3. cursors[c].ahead[i] \in Nodes(file)
    BY <2>2, <1>9
  <2> QED
    BY <2>3, <1>4
<1> QED
  BY <1>3, <1>5, <1>6, <1>7, <1>8, <1>9 DEF TypeOK

\* An open handle stands on the root of the last commit of its file, and snapshots and
\* cursors on nodes that are in the file.
THEOREM TypeCorrect == Spec => []TypeOK
<1>1. Inv => TypeOK
  BY InvType
<1> QED
  BY <1>1, Invariant, PTL

LEMMA InvAscends == Inv => AppliedAscends
<1> SUFFICES ASSUME Inv PROVE AppliedAscends
  OBVIOUS
<1>1. PICK w : Committed(file, w, packed)
  BY DEF Inv, Sound
<1>2. Boundaries = Metas(file)
  BY BoundariesAre
<1>3. \A m, n \in Metas(file) : m <= n => file[m].applied <= file[n].applied
  BY <1>1 DEF Committed
<1>4. up => \A n \in Metas(file) : file[n].applied <= applied
  BY <1>1, OpenIs DEF OpenFile
<1> QED
  BY <1>2, <1>3, <1>4 DEF AppliedAscends

\* Applied indices ascend along the commits of a file and up to the handle, whatever is
\* staged, rewound, reset, compacted or lost in a crash.
THEOREM IndexNeverFallsBack == Spec => []AppliedAscends
<1>1. Inv => AppliedAscends
  BY InvAscends
<1> QED
  BY <1>1, Invariant, PTL

LEMMA InvShape == Inv => InShape
<1> SUFFICES ASSUME Inv PROVE InShape
  OBVIOUS
<1>1. PICK w : Committed(file, w, packed) /\ ReadersOK(file, w, snaps, cursors)
  BY DEF Inv, Sound
<1>2. TreesOK(file, w, packed)
  BY <1>1 DEF Committed
<1>3. ASSUME NEW p \in Nodes(file), NEW s, s = Cardinality(w[p].e) PROVE VerifyNode(file, p, s, MaxKey + 1)
  BY <1>2, <1>3, TreesVerify
<1>4. ASSUME up PROVE VerifyNode(file, root, size, MaxKey + 1) /\ root \in Nodes(file)
  BY <1>1, <1>3, <1>4, OpenIs DEF OpenFile
<1>5. ASSUME NEW n \in Boundaries PROVE VerifyNode(file, file[n].root, file[n].size, MaxKey + 1)
  <2>1. MetaOK(file, w, n)
    BY <1>1, BoundariesAre DEF Committed
  <2> QED
    BY <2>1, <1>3 DEF MetaOK
<1>6. ASSUME NEW s \in Snaps, snaps[s] # None PROVE VerifyNode(file, snaps[s].root, snaps[s].size, MaxKey + 1)
  <2>1. SnapOK(file, w, snaps[s])
    BY <1>1, <1>6 DEF ReadersOK
  <2> QED
    BY <2>1, <1>3 DEF SnapOK
<1>7. VersionsVerify
  BY <1>4, <1>5, <1>6 DEF VersionsVerify
<1>8. ASSUME up, ~packed PROVE ChildrenFilled(file, root)
  <2>1. packed = FALSE
    BY <1>8 DEF Inv, Types
  <2> QED
    BY <2>1, <1>2, <1>4, <1>8, FilledTree
<1>9. Filled
  BY <1>8 DEF Filled
<1> QED
  BY <1>7, <1>9 DEF InShape

\* Whatever is added and deleted, the live tree, every version in the file and every
\* snapshot pass the checks of bpt_verify, and no node but a root is left sparse in a
\* file that was not bulk loaded.
THEOREM ShapeKept == Spec => []InShape
<1>1. Inv => InShape
  BY InvShape
<1> QED
  BY <1>1, Invariant, PTL

LEMMA InvReads == Inv => ReadsAgree
<1> SUFFICES ASSUME Inv, up PROVE ReadsAgree
  BY DEF ReadsAgree
<1>1. PICK w : Committed(file, w, packed)
  BY DEF Inv, Sound
<1>2. TreesOK(file, w, packed) /\ root \in Nodes(file)
  BY <1>1, OpenIs DEF Committed, OpenFile
<1>3. use \in Uses
  BY DEF Inv, Types
<1>4. \A k \in use.keys : k \in Keys /\ k \in Nat
  BY <1>3, UsesAssumption, MapAssumption DEF Keys
<1>5. PICK all : all = Entries(file, root)
  OBVIOUS
<1>6. Lists(all, w[root].e)
  BY <1>2, <1>5, EntriesList
<1>7. ToSet(all) = w[root].e
  <2>1. {all[i] : i \in 1..Len(all)} = w[root].e /\ all \in Seq(Entry)
    BY <1>6 DEF Lists
  <2>2. ToSet(all) = {all[i] : i \in 1..Len(all)}
    BY <2>1 DEF ToSet
  <2> QED
    BY <2>1, <2>2
<1>8. ASSUME NEW k \in use.keys
      PROVE  Search(file, root, k) = {e[2] : e \in {d \in ToSet(all) : d[1] = k}}
  <2>1. Search(file, root, k) = Found(w[root].e, k)
    BY <1>2, <1>4, <1>8, SearchFinds
  <2> QED
    BY <2>1, <1>7 DEF Found
<1>9. ASSUME NEW min \in use.keys, NEW max \in use.keys, min <= max
      PROVE  Collect(file, root, min, max) = Within(all, min, max)
  <2>1. min \in Nat /\ max \in Nat
    BY <1>4, <1>9
  <2>2. Collect(file, root, min, max) = Within(Entries(file, root), min, max)
    BY <2>1, <1>2, <1>9, CollectIsWithin
  <2> QED
    BY <2>2, <1>5
<1> QED
  BY <1>5, <1>8, <1>9 DEF ReadsAgree

\* In every tree that operations can make, search by key and scan by range follow the
\* separators to all that a walk over the leaves finds, and to nothing else.
THEOREM ReadsRight == Spec => []ReadsAgree
<1>1. Inv => ReadsAgree
  BY InvReads
<1> QED
  BY <1>1, Invariant, PTL

=============================================================================
