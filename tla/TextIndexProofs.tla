----------------------------- MODULE TextIndexProofs -----------------------------
(***************************************************************************)
(* TLAPS proofs about TextIndex: what a sequence of writes makes of the map  *)
(* of a tree, that every step keeps the invariant of TextIndexInv, and the   *)
(* safety properties of the index that follow from it.                       *)
(***************************************************************************)
EXTENDS TextIndexInv, NatLemmas, FiniteSetTheorems

----
(* The writes of one tree, one after the other.                            *)

LEMMA MapsAre ==
  ASSUME NEW K, NEW V, NEW m
  PROVE  m \in MapsOf(K, V) <=>
           IsFcn(m) /\ DOMAIN m \subseteq K /\ \A k \in DOMAIN m : m[k] \in V
<1>1. ASSUME m \in MapsOf(K, V)
      PROVE  IsFcn(m) /\ DOMAIN m \subseteq K /\ \A k \in DOMAIN m : m[k] \in V
  <2>1. PICK S \in SUBSET K : m \in [S -> V]  BY <1>1 DEF MapsOf
  <2> QED  BY <2>1 DEF IsFcn
<1>2. ASSUME IsFcn(m), DOMAIN m \subseteq K, \A k \in DOMAIN m : m[k] \in V
      PROVE  m \in MapsOf(K, V)
  <2>1. m \in [DOMAIN m -> V]  BY <1>2 DEF IsFcn
  <2> QED  BY <2>1, <1>2 DEF MapsOf
<1> QED  BY <1>1, <1>2

LEMMA WithIs ==
  ASSUME NEW m, NEW k, NEW v
  PROVE  /\ IsFcn(With(m, k, v)) /\ DOMAIN With(m, k, v) = DOMAIN m \cup {k}
         /\ With(m, k, v)[k] = v
         /\ \A j \in DOMAIN m : j # k => With(m, k, v)[j] = m[j]  BY DEF With, IsFcn

LEMMA WithoutIs ==
  ASSUME NEW m, NEW k
  PROVE  /\ IsFcn(Without(m, k)) /\ DOMAIN Without(m, k) = DOMAIN m \ {k}
         /\ \A j \in DOMAIN m : j # k => Without(m, k)[j] = m[j]
         /\ IsFcn(m) /\ k \notin DOMAIN m => Without(m, k) = m
<1>1. Without(m, k) = [j \in DOMAIN m \ {k} |-> m[j]]  BY DEF Without, Restrict
<1>2. ASSUME IsFcn(m), k \notin DOMAIN m PROVE Without(m, k) = m
  <2>1. DOMAIN m \ {k} = DOMAIN m  BY <1>2
  <2> QED  BY <1>1, <2>1, <1>2 DEF IsFcn
<1> QED  BY <1>1, <1>2 DEF IsFcn

\* Two maps with the same keys and values.
LEMMA SameMap ==
  ASSUME NEW f, NEW g, IsFcn(f), IsFcn(g), DOMAIN f = DOMAIN g, \A x \in DOMAIN f : f[x] = g[x]
  PROVE  f = g  BY DEF IsFcn

LEMMA AfterPut ==
  ASSUME NEW m, NEW tr, NEW k, NEW v
  PROVE  After(m, Put(tr, k, v)) = With(m, k, v)
<1>1. Put(tr, k, v).kind = "put" /\ Put(tr, k, v).key = k /\ Put(tr, k, v).val = v  BY DEF Put
<1> QED  BY <1>1 DEF After

LEMMA AfterDel ==
  ASSUME NEW m, NEW tr, NEW k
  PROVE  After(m, Del(tr, k)) = Without(m, k)
<1>1. Del(tr, k).kind = "del" /\ Del(tr, k).key = k  BY DEF Del
<1> QED  BY <1>1 DEF After

LEMMA AfterReset ==
  ASSUME NEW m, NEW tr
  PROVE  After(m, Reset(tr)) = <<>>
<1>1. Reset(tr).kind = "reset"  BY DEF Reset
<1> QED  BY <1>1 DEF After

LEMMA AfterStays ==
  ASSUME NEW K, NEW V, NEW m \in MapsOf(K, V), NEW w \in WritesOf(K, V)
  PROVE  After(m, w) \in MapsOf(K, V)
<1>0. DOMAIN m \subseteq K /\ \A k \in DOMAIN m : m[k] \in V  BY MapsAre
<1>1. CASE w \in {Put("index", k, v) : k \in K, v \in V}
  <2>1. PICK k \in K, v \in V : w = Put("index", k, v)  BY <1>1
  <2>2. After(m, w) = With(m, k, v)  BY <2>1, AfterPut
  <2>3. IsFcn(With(m, k, v)) /\ DOMAIN With(m, k, v) = DOMAIN m \cup {k}  BY WithIs
  <2>4. ASSUME NEW j \in DOMAIN With(m, k, v) PROVE With(m, k, v)[j] \in V
    <3>0. With(m, k, v)[k] = v /\ \A i \in DOMAIN m : i # k => With(m, k, v)[i] = m[i]  BY DEF With
    <3>1. CASE j = k  BY <3>0, <3>1
    <3>2. CASE j # k
      <4>1. j \in DOMAIN m  BY <3>2, <2>3
      <4> QED  BY <4>1, <3>0, <3>2, <1>0
    <3> QED  BY <3>1, <3>2
  <2> QED  BY <2>2, <2>3, <2>4, <1>0, MapsAre
<1>2. CASE w \in {Del("index", k) : k \in K}
  <2>1. PICK k \in K : w = Del("index", k)  BY <1>2
  <2>2. After(m, w) = Without(m, k)  BY <2>1, AfterDel
  <2>3. IsFcn(Without(m, k)) /\ DOMAIN Without(m, k) = DOMAIN m \ {k}  BY WithoutIs
  <2>4. ASSUME NEW j \in DOMAIN Without(m, k) PROVE Without(m, k)[j] \in V
    BY <2>3, <1>0, WithoutIs, ZenonT(40)
  <2> QED  BY <2>2, <2>3, <2>4, <1>0, MapsAre
<1> QED  BY <1>1, <1>2 DEF WritesOf

LEMMA AfterAllRuns ==
  ASSUME NEW K, NEW V, NEW m \in MapsOf(K, V), NEW ws \in Seq(WritesOf(K, V))
  PROVE  \E v \in [0..Len(ws) -> MapsOf(K, V)] : Runs(v, m, ws) /\ AfterAll(m, ws) = v[Len(ws)]
<1> DEFINE n == Len(ws)
           X == MapsOf(K, V)
           step == [x \in (1..n) \X X |-> After(x[2], ws[x[1]])]
           Is(u) == u = [i \in 0..n |-> IF i = 0 THEN m ELSE After(u[i - 1], ws[i])]
           v == CHOOSE u : Is(u)
<1>1. n \in Nat /\ \A i \in 1..n : ws[i] \in WritesOf(K, V)  OBVIOUS
<1>2. ASSUME NEW i \in 1..n, NEW x \in X PROVE After(x, ws[i]) \in X
  <2>1. ws[i] \in WritesOf(K, V)  BY <1>1
  <2> QED  BY <2>1, AfterStays
<1>3. AfterAll(m, ws) = v[n]  BY DEF AfterAll
<1>4. m \in X  OBVIOUS
<1> HIDE DEF X
<1>5. /\ step \in [(1..n) \X X -> X]
      /\ \A i \in 1..n, x \in X : step[<<i, x>>] = After(x, ws[i])  BY <1>2
<1> HIDE DEF step, n
<1>6. PICK u \in [0..n -> X] : Recurses(u, m, n, step)  BY <1>1, <1>4, <1>5, Recursion
<1>7. ASSUME NEW i \in 0..n
      PROVE  u[i] = IF i = 0 THEN m ELSE After(u[i - 1], ws[i])
  <2>1. CASE i = 0  BY <2>1, <1>6 DEF Recurses
  <2>2. CASE i # 0
    <3>1. i \in 1..n /\ i - 1 \in 0..n  BY <2>2, <1>1
    <3>2. u[i - 1] \in X  BY <3>1, <1>6
    <3>3. u[i] = step[<<i, u[i - 1]>>]  BY <2>2, <1>6 DEF Recurses
    <3> QED  BY <3>1, <3>2, <3>3, <2>2, <1>5
  <2> QED  BY <2>1, <2>2
<1>8. u = [i \in 0..n |-> u[i]]  BY <1>6 DEF Recurses
<1>9. Is(u)  BY <1>7, <1>8
<1>10. Is(v)
  <2> HIDE DEF Is
  <2> QED  BY <1>9, Zenon
<1> HIDE DEF v
<1>11. /\ DOMAIN v = 0..n
       /\ \A i \in 0..n : v[i] = IF i = 0 THEN m ELSE After(v[i - 1], ws[i])  BY <1>10
<1>12. v = [i \in 0..n |-> v[i]]
  <2>1. v = [i \in 0..n |-> IF i = 0 THEN m ELSE After(v[i - 1], ws[i])]  BY <1>10 DEF Is
  <2> QED  BY <2>1, <1>11
<1> HIDE DEF Is
<1>13. v[0] = m /\ \A i \in 1..n : v[i] = After(v[i - 1], ws[i])  BY <1>1, <1>11
<1> DEFINE S == {i \in 0..n : v[i] \in X}
<1>14. 0 \in S  BY <1>1, <1>4, <1>13
<1>15. ASSUME NEW i \in 0..n, i < n, i \in S PROVE i + 1 \in S
  <2>1. i + 1 \in 1..n /\ i + 1 \in 0..n /\ (i + 1) - 1 = i  BY <1>15, <1>1
  <2>2. v[i + 1] = After(v[i], ws[i + 1])  BY <2>1, <1>13
  <2>3. v[i] \in X  BY <1>15
  <2> QED  BY <2>1, <2>2, <2>3, <1>2
<1>16. \A i \in 0..n : i \in S
  <2> HIDE DEF S
  <2> QED  BY <1>1, <1>14, <1>15, UpTo
<1>17. v \in [0..n -> X]  BY <1>12, <1>16
<1>18. Runs(v, m, ws)  BY <1>13 DEF Runs, n
<1> QED  BY <1>3, <1>17, <1>18 DEF n, X

LEMMA AfterAllStays ==
  ASSUME NEW K, NEW V, NEW m \in MapsOf(K, V), NEW ws \in Seq(WritesOf(K, V))
  PROVE  AfterAll(m, ws) \in MapsOf(K, V)
<1>1. PICK v \in [0..Len(ws) -> MapsOf(K, V)] : Runs(v, m, ws) /\ AfterAll(m, ws) = v[Len(ws)]
  BY AfterAllRuns
<1>2. Len(ws) \in 0..Len(ws)  OBVIOUS
<1> QED  BY <1>1, <1>2

LEMMA AfterNone ==
  ASSUME NEW K, NEW V, NEW m \in MapsOf(K, V)
  PROVE  AfterAll(m, <<>>) = m
<1> DEFINE ws == <<>>
<1>1. ws \in Seq(WritesOf(K, V))  OBVIOUS
<1>3. Len(ws) = 0  OBVIOUS
<1> HIDE DEF ws
<1>2. PICK v \in [0..Len(ws) -> MapsOf(K, V)] : Runs(v, m, ws) /\ AfterAll(m, ws) = v[Len(ws)]
  BY <1>1, AfterAllRuns
<1> QED  BY <1>2, <1>3 DEF Runs, ws

\* Two runs that start from one map and meet the same writes.
LEMMA RunsAgree ==
  ASSUME NEW n \in Nat, NEW u, NEW v, u[0] = v[0],
         \A i \in 1..n : \E w : u[i] = After(u[i - 1], w) /\ v[i] = After(v[i - 1], w)
  PROVE  u[n] = v[n]
<1> DEFINE S == {i \in 0..n : u[i] = v[i]}
<1>1. 0 \in S  OBVIOUS
<1>2. ASSUME NEW i \in 0..n, i < n, i \in S PROVE i + 1 \in S
  <2>1. i + 1 \in 1..n /\ i + 1 \in 0..n /\ (i + 1) - 1 = i  BY <1>2
  <2>2. u[i] = v[i]  BY <1>2
  <2>3. PICK w : u[i + 1] = After(u[(i + 1) - 1], w) /\ v[i + 1] = After(v[(i + 1) - 1], w)  BY <2>1
  <2> QED  BY <2>1, <2>2, <2>3
<1> HIDE DEF S
<1>3. \A i \in 0..n : i \in S  BY <1>1, <1>2, UpTo
<1> QED  BY <1>3 DEF S

LEMMA AfterBoth ==
  ASSUME NEW K, NEW V, NEW m \in MapsOf(K, V),
         NEW ws \in Seq(WritesOf(K, V)), NEW vs \in Seq(WritesOf(K, V))
  PROVE  AfterAll(m, ws \o vs) = AfterAll(AfterAll(m, ws), vs)
<1> DEFINE W == WritesOf(K, V)
           X == MapsOf(K, V)
           a == Len(ws)
           b == Len(vs)
           all == ws \o vs
<1>1. /\ all \in Seq(W) /\ Len(all) = a + b /\ a \in Nat /\ b \in Nat
      /\ \A i \in 1..a : all[i] = ws[i]
      /\ \A i \in 1..b : all[a + i] = vs[i]  OBVIOUS
<1>2. PICK u \in [0..(a + b) -> X] : Runs(u, m, all) /\ AfterAll(m, all) = u[a + b]
  BY <1>1, AfterAllRuns, SMTT(40)
<1>3. PICK v \in [0..a -> X] : Runs(v, m, ws) /\ AfterAll(m, ws) = v[a]  BY AfterAllRuns
<1>4. AfterAll(m, ws) \in X  BY AfterAllStays
<1>5. PICK w \in [0..b -> X] :
        Runs(w, AfterAll(m, ws), vs) /\ AfterAll(AfterAll(m, ws), vs) = w[b]  BY <1>4, AfterAllRuns
<1> HIDE DEF all, X, W, a, b
<1>6. u[a] = v[a]
  <2>1. u[0] = v[0]  BY <1>2, <1>3 DEF Runs
  <2>2. ASSUME NEW i \in 1..a
        PROVE  \E x : u[i] = After(u[i - 1], x) /\ v[i] = After(v[i - 1], x)
    <3>1. i \in 1..Len(all)  BY <1>1
    <3> QED  BY <3>1, <1>1, <1>2, <1>3 DEF Runs, a
  <2>3. \A i \in 1..a : \E x : u[i] = After(u[i - 1], x) /\ v[i] = After(v[i - 1], x)  BY <2>2
  <2>4. a \in Nat  BY <1>1
  <2> QED  BY <2>1, <2>3, <2>4, RunsAgree, Zenon
<1> DEFINE t == [i \in 0..b |-> u[a + i]]
<1>7. t[b] = w[b]
  <2>1. t[0] = w[0]  BY <1>1, <1>3, <1>5, <1>6 DEF Runs
  <2>2. ASSUME NEW i \in 1..b
        PROVE  \E x : t[i] = After(t[i - 1], x) /\ w[i] = After(w[i - 1], x)
    <3>1. a + i \in 1..Len(all) /\ a + i - 1 = a + (i - 1) /\ i \in 0..b /\ i - 1 \in 0..b  BY <1>1
    <3> DEFINE k == a + i
    <3>4. \A j \in 1..Len(all) : u[j] = After(u[j - 1], all[j])  BY <1>2 DEF Runs
    <3>5. k \in 1..Len(all)  BY <3>1
    <3>6. u[k] = After(u[k - 1], all[k])
      <4> HIDE DEF k
      <4> QED  BY <3>4, <3>5
    <3>2. t[i] = u[k] /\ t[i - 1] = u[k - 1] /\ all[k] = vs[i]  BY <3>1, <1>1
    <3> HIDE DEF k, t
    <3>3. w[i] = After(w[i - 1], vs[i])  BY <1>5 DEF Runs, b
    <3> QED  BY <3>2, <3>3, <3>6
  <2> HIDE DEF t
  <2>3. \A i \in 1..b : \E x : t[i] = After(t[i - 1], x) /\ w[i] = After(w[i - 1], x)  BY <2>2
  <2>4. b \in Nat  BY <1>1
  <2> QED  BY <2>1, <2>3, <2>4, RunsAgree, Zenon
<1>8. t[b] = u[a + b]  BY <1>1
<1> QED  BY <1>2, <1>5, <1>7, <1>8 DEF all

LEMMA AfterOne ==
  ASSUME NEW K, NEW V, NEW m \in MapsOf(K, V), NEW w \in WritesOf(K, V)
  PROVE  AfterAll(m, <<w>>) = After(m, w)
<1> DEFINE ws == <<w>>
<1>1. ws \in Seq(WritesOf(K, V)) /\ Len(ws) = 1 /\ ws[1] = w  OBVIOUS
<1> HIDE DEF ws
<1>2. PICK v \in [0..Len(ws) -> MapsOf(K, V)] : Runs(v, m, ws) /\ AfterAll(m, ws) = v[Len(ws)]
  BY <1>1, AfterAllRuns
<1>3. v[1] = After(v[1 - 1], w) /\ v[0] = m  BY <1>1, <1>2 DEF Runs
<1>4. 1 - 1 = 0  OBVIOUS
<1> QED  BY <1>1, <1>2, <1>3, <1>4 DEF ws

\* The first write, and then the others.
LEMMA AfterHead ==
  ASSUME NEW K, NEW V, NEW m \in MapsOf(K, V), NEW ws \in Seq(WritesOf(K, V)), ws # <<>>
  PROVE  AfterAll(m, ws) = AfterAll(After(m, Head(ws)), Tail(ws))
<1> DEFINE h == <<Head(ws)>>
           t == Tail(ws)
<1>1. /\ Head(ws) \in WritesOf(K, V) /\ t \in Seq(WritesOf(K, V))
      /\ h \in Seq(WritesOf(K, V)) /\ ws = h \o t  OBVIOUS
<1>2. AfterAll(m, h) = After(m, Head(ws))  BY <1>1, AfterOne
<1>3. AfterAll(m, h \o t) = AfterAll(AfterAll(m, h), t)
  <2> HIDE DEF h, t
  <2> QED  BY <1>1, AfterBoth
<1> QED  BY <1>1, <1>2, <1>3

----
(* Dicts.                                                                  *)

LEMMA DictSetIs ==
  ASSUME NEW b \in Dict, NEW d \in Docs, NEW v \in Nat \ {0}
  PROVE  /\ DictSet(b, d, v) \in Dict /\ Len(DictSet(b, d, v)) \in Nat \ {0}
         /\ Len(DictSet(b, d, v)) = IF d \in DictDocs(b) THEN Len(b) ELSE Len(b) + 1
         /\ d \in DictDocs(b) =>
              DictSet(b, d, v) = [i \in DOMAIN b |-> IF b[i][1] = d THEN <<d, v>> ELSE b[i]]
         /\ d \notin DictDocs(b) => DictSet(b, d, v) = Append(b, <<d, v>>)
<1> DEFINE P == Docs \X (Nat \ {0})
           c == [i \in DOMAIN b |-> IF b[i][1] = d THEN <<d, v>> ELSE b[i]]
<1>1. b \in Seq(P) /\ <<d, v>> \in P  BY DEF Dict
<1>2. Len(b) \in Nat /\ DOMAIN b = 1..Len(b) /\ \A i \in DOMAIN b : b[i] \in P  BY <1>1
<1>3. CASE d \in DictDocs(b)
  <2>1. DictSet(b, d, v) = c  BY <1>3 DEF DictSet
  <2>2. PICK i \in DOMAIN b : b[i][1] = d  BY <1>3 DEF DictDocs
  <2>3. \A k \in 1..Len(b) : (IF b[k][1] = d THEN <<d, v>> ELSE b[k]) \in P  BY <1>1, <1>2
  <2>4. c \in Seq(P) /\ Len(c) = Len(b)
    <3> HIDE DEF P
    <3> QED  BY <1>2, <2>3
  <2>5. Len(b) # 0  BY <2>2, <1>2
  <2> HIDE DEF c, P
  <2>6. DictSet(b, d, v) \in Dict /\ Len(DictSet(b, d, v)) = Len(b) /\ Len(b) \in Nat \ {0}
    BY <1>2, <2>1, <2>4, <2>5 DEF Dict, P
  <2> QED  BY <1>3, <2>1, <2>6 DEF c
<1>4. CASE d \notin DictDocs(b)
  <2>1. DictSet(b, d, v) = Append(b, <<d, v>>)  BY <1>4 DEF DictSet
  <2>2. Append(b, <<d, v>>) \in Seq(P) /\ Len(Append(b, <<d, v>>)) = Len(b) + 1
    <3> HIDE DEF P
    <3> QED  BY <1>1
  <2>3. DictSet(b, d, v) \in Dict /\ Len(DictSet(b, d, v)) = Len(b) + 1 /\ Len(b) + 1 \in Nat \ {0}
    <3> HIDE DEF P
    <3> QED  BY <1>2, <2>1, <2>2 DEF Dict, P
  <2> QED  BY <1>4, <2>1, <2>3
<1> QED  BY <1>3, <1>4

LEMMA EntryIs ==
  ASSUME NEW b \in Dict, NEW d, d \in DictDocs(b)
  PROVE  Entry(b, d) \in 1..Len(b) /\ b[Entry(b, d)][1] = d
<1>1. DOMAIN b = 1..Len(b)  BY DEF Dict
<1>2. \E i \in DOMAIN b : b[i][1] = d  BY DEF DictDocs
<1>3. Entry(b, d) \in DOMAIN b /\ b[Entry(b, d)][1] = d  BY <1>2 DEF Entry
<1> QED  BY <1>1, <1>3

LEMMA Joined ==
  ASSUME NEW A, NEW x \in Seq(A), NEW y \in Seq(A)
  PROVE  /\ x \o y \in Seq(A) /\ Len(x \o y) = Len(x) + Len(y)
         /\ \A i \in 1..(Len(x) + Len(y)) : (x \o y)[i] = IF i <= Len(x) THEN x[i] ELSE y[i - Len(x)]  OBVIOUS

\* Closing up a sequence over its e-th element.
LEMMA RemovedIs ==
  ASSUME NEW A, NEW b \in Seq(A), NEW e \in 1..Len(b)
  PROVE  /\ RemoveAt(b, e) \in Seq(A) /\ Len(RemoveAt(b, e)) = Len(b) - 1
         /\ \A i \in 1..(Len(b) - 1) : RemoveAt(b, e)[i] = IF i < e THEN b[i] ELSE b[i + 1]
<1> DEFINE x == SubSeq(b, 1, e - 1)
           y == SubSeq(b, e + 1, Len(b))
<1>1. /\ x \in Seq(A) /\ Len(x) = e - 1 /\ \A i \in 1..(e - 1) : x[i] = b[i]
      /\ y \in Seq(A) /\ Len(y) = Len(b) - e /\ \A i \in 1..(Len(b) - e) : y[i] = b[e + i]  OBVIOUS
<1>2. RemoveAt(b, e) = x \o y  BY DEF RemoveAt
<1>a. x \in Seq(A) /\ y \in Seq(A)  BY <1>1
<1> HIDE DEF x, y
<1>3. /\ x \o y \in Seq(A) /\ Len(x \o y) = Len(x) + Len(y)
      /\ \A i \in 1..(Len(x) + Len(y)) : (x \o y)[i] = IF i <= Len(x) THEN x[i] ELSE y[i - Len(x)]
  BY <1>a, Joined
<1>4. Len(x \o y) = Len(b) - 1  BY <1>1, <1>3
<1>5. ASSUME NEW i \in 1..(Len(b) - 1) PROVE (x \o y)[i] = IF i < e THEN b[i] ELSE b[i + 1]
  <2>1. i \in 1..(Len(x) + Len(y))  BY <1>1
  <2>2. CASE i < e
    <3>1. i <= Len(x) /\ i \in 1..(e - 1)  BY <1>1, <2>2
    <3> QED  BY <2>1, <2>2, <3>1, <1>1, <1>3
  <2>3. CASE ~ (i < e)
    <3>1. ~ (i <= Len(x)) /\ i - Len(x) \in 1..(Len(b) - e) /\ e + (i - Len(x)) = i + 1  BY <1>1, <2>3
    <3>2. (x \o y)[i] = y[i - Len(x)]  BY <2>1, <3>1, <1>3
    <3>3. y[i - Len(x)] = b[e + (i - Len(x))]  BY <3>1, <1>1
    <3> QED  BY <3>1, <3>2, <3>3, <2>3
  <2> QED  BY <2>2, <2>3
<1> QED  BY <1>2, <1>3, <1>4, <1>5

LEMMA DictRemoveTyped ==
  ASSUME NEW b \in Dict, NEW d
  PROVE  DictRemove(b, d) \in Dict
<1>1. CASE d \in DictDocs(b)
  <2>1. Entry(b, d) \in 1..Len(b)  BY <1>1, EntryIs
  <2>2. RemoveAt(b, Entry(b, d)) \in Dict  BY <2>1, RemovedIs DEF Dict
  <2> QED  BY <1>1, <2>2 DEF DictRemove
<1>2. CASE d \notin DictDocs(b)  BY <1>2 DEF DictRemove
<1> QED  BY <1>1, <1>2

----
(* The map of the postings tree keeps its type.                            *)

LEMMA KeysAre ==
  ASSUME NEW t \in Terms, NEW i \in Nat
  PROVE  /\ HeaderKey(t) \in Keys /\ HeaderKey(t)[1] = t /\ HeaderKey(t)[2] = "header" /\ HeaderKey(t)[3] = 0
         /\ BlockKey(t, i) \in Keys /\ BlockKey(t, i)[1] = t /\ BlockKey(t, i)[2] = "block" /\ BlockKey(t, i)[3] = i
         /\ BlobKey(t) \in Keys /\ BlobKey(t)[1] = t /\ BlobKey(t)[2] = "blob" /\ BlobKey(t)[3] = 0
         /\ SumKey \in Keys /\ SumKey[2] = "sum" /\ SumKey[3] = 0
  BY DEF HeaderKey, BlockKey, BlobKey, SumKey, Keys

LEMMA KeyIs ==
  ASSUME NEW k \in Keys
  PROVE  k = <<k[1], k[2], k[3]>> /\ k[3] \in Nat /\ k[2] \in {"header", "block", "blob", "sum"}  BY DEF Keys

LEMMA PutIs ==
  ASSUME NEW k \in Keys, NEW v \in Nat \cup Dict, ValueOK(k, v)
  PROVE  Put("index", k, v) \in PostWrites
<1> DEFINE w == Put("index", k, v)
<1>1. w.kind = "put" /\ w.key = k /\ w.val = v  BY DEF Put
<1>2. IndexWrite(w)  BY <1>1 DEF IndexWrite
<1>3. w \in WritesOf(Keys, Nat \cup Dict)  BY DEF WritesOf
<1> QED  BY <1>2, <1>3 DEF PostWrites

LEMMA DelIs ==
  ASSUME NEW k \in Keys
  PROVE  Del("index", k) \in PostWrites
<1> DEFINE w == Del("index", k)
<1>1. w.kind = "del" /\ w.key = k  BY DEF Del
<1>2. IndexWrite(w)  BY <1>1 DEF IndexWrite
<1>3. w \in WritesOf(Keys, Nat \cup Dict)  BY DEF WritesOf
<1> QED  BY <1>2, <1>3 DEF PostWrites

\* A map that is bounded by a number that need not be one of its keys.
LEMMA BoundedMap ==
  ASSUME NEW m, IsFcn(m), DOMAIN m \subseteq Keys, \A k \in DOMAIN m : ValueOK(k, m[k]),
         NEW n \in Nat, \A k \in DOMAIN m : k[3] <= n
  PROVE  IndexMap(m)
<1> DEFINE S == {0} \cup {k[3] : k \in DOMAIN m}
<1>1. \A k \in DOMAIN m : k[3] \in Nat  BY KeyIs
<1>2. S \in SUBSET (0..n) /\ S # {}  BY <1>1
<1> HIDE DEF S
<1>3. Max(S) \in S /\ \A y \in S : y <= Max(S)  BY <1>2, MaxOfNats
<1>4. \A k \in DOMAIN m : k[3] <= Max(S)  BY <1>3 DEF S
<1> QED  BY <1>3, <1>4 DEF IndexMap, S

LEMMA MapBound ==
  ASSUME NEW m, IndexMap(m)
  PROVE  \E n \in Nat : \A k \in DOMAIN m : k[3] <= n
<1>1. PICK n \in {0} \cup {k[3] : k \in DOMAIN m} : \A k \in DOMAIN m : k[3] <= n  BY DEF IndexMap
<1>2. n \in Nat  BY <1>1, KeyIs DEF IndexMap
<1> QED  BY <1>1, <1>2

LEMMA WithTyped ==
  ASSUME NEW m, IndexMap(m), NEW k \in Keys, NEW v, ValueOK(k, v)
  PROVE  IndexMap(With(m, k, v))
<1> DEFINE f == With(m, k, v)
<1>1. IsFcn(f) /\ DOMAIN f = DOMAIN m \cup {k} /\ f[k] = v /\ \A j \in DOMAIN m : j # k => f[j] = m[j]
  BY DEF With, IsFcn
<1>2. PICK n \in Nat : \A j \in DOMAIN m : j[3] <= n  BY MapBound
<1> DEFINE N == n + k[3]
<1>3. N \in Nat /\ n <= N /\ k[3] <= N /\ k[3] \in Nat  BY KeyIs
<1> HIDE DEF f, N
<1>4. DOMAIN f \subseteq Keys  BY <1>1 DEF IndexMap
<1>5. \A j \in DOMAIN f : ValueOK(j, f[j])  BY <1>1 DEF IndexMap
<1>6. ASSUME NEW j \in DOMAIN f PROVE j[3] <= N
  <2>1. CASE j = k  BY <2>1, <1>3
  <2>2. CASE j # k
    <3>1. j \in DOMAIN m /\ j \in Keys  BY <2>2, <1>1, <1>4
    <3>2. j[3] \in Nat /\ j[3] <= n  BY <3>1, <1>2, KeyIs
    <3> QED  BY <3>2, <1>3
  <2> QED  BY <2>1, <2>2
<1> QED  BY <1>1, <1>3, <1>4, <1>5, <1>6, BoundedMap DEF f

LEMMA WithoutTyped ==
  ASSUME NEW m, IndexMap(m), NEW k
  PROVE  IndexMap(Without(m, k))
<1> DEFINE f == Without(m, k)
<1>1. IsFcn(f) /\ DOMAIN f = DOMAIN m \ {k} /\ \A j \in DOMAIN f : f[j] = m[j]
  <2>1. f = [j \in DOMAIN m \ {k} |-> m[j]]  BY DEF Without, Restrict
  <2> QED  BY <2>1 DEF IsFcn
<1>2. PICK n \in Nat : \A j \in DOMAIN m : j[3] <= n  BY MapBound
<1> HIDE DEF f
<1>3. DOMAIN f \subseteq Keys /\ \A j \in DOMAIN f : ValueOK(j, f[j]) /\ j[3] <= n  BY <1>1, <1>2 DEF IndexMap
<1> QED  BY <1>1, <1>3, BoundedMap DEF f

LEMMA AfterTyped ==
  ASSUME NEW m, IndexMap(m), NEW w, IndexWrite(w)
  PROVE  IndexMap(After(m, w))
<1>1. CASE w.kind = "put" /\ w = Put("index", w.key, w.val) /\ w.key \in Keys /\ ValueOK(w.key, w.val)
  BY <1>1, WithTyped DEF After
<1>2. CASE w.kind = "del" /\ w = Del("index", w.key) /\ w.key \in Keys  BY <1>2, WithoutTyped DEF After
<1> QED  BY <1>1, <1>2 DEF IndexWrite

LEMMA InMaps ==
  ASSUME NEW m, IndexMap(m), NEW ws \in Seq(PostWrites)
  PROVE  m \in MapsOf(Keys, Values(m)) /\ ws \in Seq(WritesOf(Keys, Values(m)))
<1>1. m \in MapsOf(Keys, Values(m))  BY MapsAre DEF IndexMap, Values
<1>2. PostWrites \subseteq WritesOf(Keys, Values(m))  BY DEF PostWrites, WritesOf, Values
<1> HIDE DEF PostWrites
<1>3. ws \in Seq(WritesOf(Keys, Values(m)))
  <2> DEFINE W == WritesOf(Keys, Values(m))
  <2> HIDE DEF W
  <2> QED  BY <1>2 DEF W
<1> QED  BY <1>1, <1>3

LEMMA AfterAllTyped ==
  ASSUME NEW m, IndexMap(m), NEW ws \in Seq(PostWrites)
  PROVE  IndexMap(AfterAll(m, ws))
<1> DEFINE X == MapsOf(Keys, Values(m))
           n == Len(ws)
<1>1. PICK v \in [0..n -> X] : Runs(v, m, ws) /\ AfterAll(m, ws) = v[n]  BY InMaps, AfterAllRuns
<1>2. n \in Nat /\ \A i \in 1..n : ws[i] \in PostWrites  OBVIOUS
<1> HIDE DEF X, n
<1> DEFINE S == {i \in 0..n : IndexMap(v[i])}
<1>3. 0 \in S  BY <1>1, <1>2 DEF Runs
<1>4. ASSUME NEW i \in 0..n, i < n, i \in S PROVE i + 1 \in S
  <2>1. i + 1 \in 1..n /\ i + 1 \in 0..n /\ (i + 1) - 1 = i  BY <1>4, <1>2
  <2>2. v[i + 1] = After(v[(i + 1) - 1], ws[i + 1])  BY <2>1, <1>1 DEF Runs, n
  <2>3. IndexMap(v[i]) /\ IndexWrite(ws[i + 1])  BY <2>1, <1>2, <1>4 DEF PostWrites
  <2>4. IndexMap(After(v[i], ws[i + 1]))  BY <2>3, AfterTyped
  <2> QED  BY <2>1, <2>2, <2>4
<1> HIDE DEF S
<1>5. n \in S
  <2>1. \A i \in 0..n : i \in S  BY <1>2, <1>3, <1>4, UpTo
  <2> QED  BY <2>1, <1>2
<1> QED  BY <1>1, <1>5 DEF S

----
(* The writes of a call.                                                   *)

LEMMA BlocksAre ==
  ASSUME NEW m, IndexMap(m), NEW t \in Terms
  PROVE  /\ BlocksOf(m, t) = {i \in Nat : BlockKey(t, i) \in DOMAIN m}
         /\ \A i \in BlocksOf(m, t) : m[BlockKey(t, i)] \in Dict
         /\ \E n \in Nat : BlocksOf(m, t) \subseteq 0..n
<1>1. ASSUME NEW i \in BlocksOf(m, t) PROVE i \in Nat /\ BlockKey(t, i) \in DOMAIN m
  <2>1. PICK k \in DOMAIN m : k[1] = t /\ k[2] = "block" /\ k[3] = i  BY DEF BlocksOf
  <2>2. k = <<t, "block", i>> /\ i \in Nat  BY <2>1, KeyIs DEF IndexMap
  <2> QED  BY <2>2 DEF BlockKey
<1>2. ASSUME NEW i \in Nat, BlockKey(t, i) \in DOMAIN m PROVE i \in BlocksOf(m, t)
  BY <1>2, KeysAre DEF BlocksOf
<1>3. ASSUME NEW i \in BlocksOf(m, t) PROVE m[BlockKey(t, i)] \in Dict
  <2> DEFINE k == BlockKey(t, i)
  <2>1. k \in DOMAIN m /\ k[2] = "block"  BY <1>1, KeysAre
  <2> HIDE DEF k
  <2>2. ValueOK(k, m[k])  BY <2>1 DEF IndexMap
  <2> QED  BY <2>1, <2>2 DEF ValueOK, k
<1>4. PICK n \in Nat : \A k \in DOMAIN m : k[3] <= n  BY MapBound
<1>5. ASSUME NEW i \in BlocksOf(m, t) PROVE i \in 0..n
  <2>1. BlockKey(t, i) \in DOMAIN m /\ BlockKey(t, i)[3] = i /\ i \in Nat  BY <1>1, KeysAre
  <2> QED  BY <2>1, <1>4
<1> QED  BY <1>1, <1>2, <1>3, <1>5

LEMMA ValueAt ==
  ASSUME NEW m, IndexMap(m), NEW t \in Terms
  PROVE  /\ HeaderKey(t) \in DOMAIN m => m[HeaderKey(t)] \in Nat \ {0}
         /\ BlobKey(t) \in DOMAIN m => m[BlobKey(t)] \in Dict
         /\ At(m, BlobKey(t), <<>>) \in Dict
         /\ \A i \in Nat : At(m, BlockKey(t, i), <<>>) \in Dict
<1>0. <<>> \in Dict  BY DEF Dict
<1>1. HeaderKey(t)[2] = "header" /\ BlobKey(t)[2] = "blob" /\ \A i \in Nat : BlockKey(t, i)[2] = "block"
  BY KeysAre
<1>2. \A k \in DOMAIN m : ValueOK(k, m[k])  BY DEF IndexMap
<1>3. \A k \in DOMAIN m : /\ k[2] = "header" => m[k] \in Nat \ {0}
                          /\ k[2] \in {"block", "blob"} => m[k] \in Dict  BY <1>2 DEF ValueOK
<1> QED  BY <1>0, <1>1, <1>3 DEF At

LEMMA OnePut ==
  ASSUME NEW t \in Terms, NEW i \in Nat, NEW b \in Dict
  PROVE  /\ Put("index", BlockKey(t, i), b) \in PostWrites
         /\ Put("index", BlobKey(t), b) \in PostWrites
         /\ i # 0 => Put("index", HeaderKey(t), i) \in PostWrites
         /\ Del("index", BlockKey(t, i)) \in PostWrites
         /\ Del("index", HeaderKey(t)) \in PostWrites
         /\ Del("index", BlobKey(t)) \in PostWrites
<1>1. ValueOK(BlockKey(t, i), b) /\ ValueOK(BlobKey(t), b) /\ (i # 0 => ValueOK(HeaderKey(t), i))
  BY KeysAre DEF ValueOK
<1>2. BlockKey(t, i) \in Keys /\ BlobKey(t) \in Keys /\ HeaderKey(t) \in Keys  BY KeysAre
<1> QED  BY <1>1, <1>2, PutIs, DelIs

\* n parts of at most s entries hold a dict of l.
LEMMA Parts ==
  ASSUME NEW l \in Nat \ {0}, NEW s \in Nat \ {0}, NEW n, n = (l + s - 1) \div s
  PROVE  n \in Nat \ {0} /\ (n - 1) * s < l /\ l <= n * s  OBVIOUS

LEMMA PartTyped ==
  ASSUME NEW b \in Dict, NEW i \in Nat \ {0}, NEW j \in 0..Len(b)
  PROVE  SubSeq(b, i, j) \in Dict
<1> DEFINE D == Docs \X (Nat \ {0})
<1>1. b \in Seq(D)  BY DEF Dict
<1> HIDE DEF D
<1>2. SubSeq(b, i, j) \in Seq(D)  BY <1>1
<1> QED  BY <1>2 DEF Dict, D

LEMMA UpToIs ==
  ASSUME NEW b \in Dict, NEW i \in Nat \ {0}
  PROVE  /\ UpToBlock(b, i) = IF i * BlockDocs <= Len(b) THEN i * BlockDocs ELSE Len(b)
         /\ UpToBlock(b, i) \in 0..Len(b)
         /\ (i - 1) * BlockDocs + 1 \in Nat \ {0}
<1>1. Len(b) \in Nat /\ BlockDocs \in Nat \ {0}  BY BoundsAssumption DEF Dict
<1>2. i * BlockDocs \in Nat /\ (i - 1) * BlockDocs \in Nat  BY <1>1
<1> DEFINE x == i * BlockDocs
           y == Len(b)
<1>3. {x, y} \in SUBSET Nat /\ {x, y} # {} /\ x \in Nat /\ y \in Nat  BY <1>1, <1>2
<1>4. UpToBlock(b, i) = Min({x, y})  BY DEF UpToBlock
<1>5. (i - 1) * BlockDocs + 1 \in Nat \ {0}  BY <1>2
<1> HIDE DEF x, y
<1>6. Min({x, y}) \in {x, y} /\ \A z \in {x, y} : Min({x, y}) <= z  BY <1>3, MinOfNats
<1>7. Min({x, y}) = (IF x <= y THEN x ELSE y) /\ Min({x, y}) \in 0..y  BY <1>3, <1>6
<1> QED  BY <1>4, <1>5, <1>7 DEF x, y

LEMMA PostAddTyped ==
  ASSUME NEW m, IndexMap(m), NEW t \in Terms, NEW d \in Docs, NEW v \in Nat \ {0}
  PROVE  PostAdd(m, t, d, v) \in Seq(PostWrites)
<1> USE BoundsAssumption
<1>0. <<<<d, v>>>> \in Dict  BY DEF Dict
<1>1. CASE HeaderKey(t) \in DOMAIN m
  <2> DEFINE n == m[HeaderKey(t)]
             blk == At(m, BlockKey(t, n - 1), <<>>)
  <2>1. n \in Nat \ {0} /\ n - 1 \in Nat /\ n + 1 \in Nat \ {0}  BY <1>1, ValueAt
  <2>2. blk \in Dict  BY <2>1, ValueAt
  <2>3. DictSet(blk, d, v) \in Dict  BY <2>2, DictSetIs
  <2>4. PostAdd(m, t, d, v) =
          IF d \notin DictDocs(blk) /\ Len(blk) >= BlockDocs
          THEN <<Put("index", BlockKey(t, n), <<<<d, v>>>>), Put("index", HeaderKey(t), n + 1)>>
          ELSE <<Put("index", BlockKey(t, n - 1), DictSet(blk, d, v))>>  BY <1>1 DEF PostAdd
  <2> DEFINE x == Put("index", BlockKey(t, n), <<<<d, v>>>>)
             y == Put("index", HeaderKey(t), n + 1)
             z == Put("index", BlockKey(t, n - 1), DictSet(blk, d, v))
  <2> HIDE DEF n, blk
  <2>5. x \in PostWrites /\ y \in PostWrites /\ z \in PostWrites  BY <2>1, <2>3, <1>0, OnePut
  <2> HIDE DEF x, y, z, PostWrites
  <2>6. <<x, y>> \in Seq(PostWrites) /\ <<z>> \in Seq(PostWrites)  BY <2>5
  <2> QED  BY <2>4, <2>6 DEF x, y, z
<1>2. CASE HeaderKey(t) \notin DOMAIN m
  <2> DEFINE blk == DictSet(At(m, BlobKey(t), <<>>), d, v)
             n == (Len(blk) + BlockDocs - 1) \div BlockDocs
             part(i) == Put("index", BlockKey(t, i - 1), Block(blk, i))
             parts == [i \in 1..n |-> part(i)]
             head == Put("index", HeaderKey(t), n)
             tail == IF BlobKey(t) \in DOMAIN m THEN <<Del("index", BlobKey(t))>> ELSE <<>>
  <2>1. blk \in Dict /\ Len(blk) \in Nat \ {0}  BY ValueAt, DictSetIs
  <2>2. PostAdd(m, t, d, v) = parts \o <<head>> \o tail  BY <1>2 DEF PostAdd, Block, UpToBlock
  <2> HIDE DEF blk
  <2>3. n \in Nat \ {0}  BY <2>1, Parts
  <2> HIDE DEF n
  <2>4. ASSUME NEW i \in 1..n PROVE part(i) \in PostWrites
    <3>1. Block(blk, i) \in Dict
      <4>0. i \in Nat \ {0}  BY <2>3
      <4>1. UpToBlock(blk, i) \in 0..Len(blk) /\ (i - 1) * BlockDocs + 1 \in Nat \ {0}  BY <2>1, <4>0, UpToIs
      <4> QED  BY <2>1, <4>1, PartTyped DEF Block
    <3>2. i - 1 \in Nat  BY <2>3
    <3> QED  BY <3>1, <3>2, OnePut
  <2>5. head \in PostWrites /\ Del("index", BlobKey(t)) \in PostWrites  BY <2>3, <1>0, OnePut
  <2> HIDE DEF part, head, PostWrites
  <2>6. parts \in Seq(PostWrites) /\ <<head>> \in Seq(PostWrites) /\ tail \in Seq(PostWrites)
    BY <2>3, <2>4, <2>5
  <2> HIDE DEF parts, tail
  <2>7. parts \o <<head>> \o tail \in Seq(PostWrites)  BY <2>6
  <2> QED  BY <2>2, <2>7
<1> QED  BY <1>1, <1>2

LEMMA BoundIs ==
  ASSUME NEW m, IndexMap(m), NEW t \in Terms
  PROVE  BlockBound(m, t) \in Nat /\ \A i \in BlocksOf(m, t) : i < BlockBound(m, t)
<1> DEFINE S == {0} \cup {i + 1 : i \in BlocksOf(m, t)}
<1>1. PICK n \in Nat : BlocksOf(m, t) \subseteq 0..n  BY BlocksAre
<1>2. S \in SUBSET (0..(n + 1)) /\ S # {} /\ n + 1 \in Nat  BY <1>1
<1>3. \A i \in BlocksOf(m, t) : i + 1 \in S /\ i \in Nat  BY <1>1
<1> HIDE DEF S
<1>4. Max(S) \in S /\ \A y \in S : y <= Max(S)  BY <1>2, MaxOfNats
<1>5. Max(S) \in Nat
  <2>1. \A y \in S : y \in Nat  BY <1>2
  <2> QED  BY <1>4, <2>1
<1>6. ASSUME NEW i \in BlocksOf(m, t) PROVE i < Max(S)
  <2>1. i + 1 <= Max(S) /\ i \in Nat  BY <1>3, <1>4
  <2> QED  BY <2>1, <1>5
<1> QED  BY <1>5, <1>6 DEF BlockBound, S

LEMMA RewritesRuns ==
  ASSUME NEW m, IndexMap(m), NEW t \in Terms, NEW d
  PROVE  \E v \in [0..BlockBound(m, t) -> Seq(PostWrites)] :
           /\ v[0] = <<>> /\ Rewrites(m, t, d) = v[BlockBound(m, t)]
           /\ \A i \in 1..BlockBound(m, t) : v[i] = v[i - 1] \o RewriteOf(m, t, d, i - 1)
<1> DEFINE n == BlockBound(m, t)
           X == Seq(PostWrites)
           f(i) == RewriteOf(m, t, d, i)
           step == [x \in (1..n) \X X |-> x[2] \o f(x[1] - 1)]
           Is(u) == u = [i \in 0..n |-> IF i = 0 THEN <<>> ELSE u[i - 1] \o f(i - 1)]
           v == CHOOSE u : Is(u)
<1>1. n \in Nat  BY BoundIs
<1>2. Rewrites(m, t, d) = v[n]  BY DEF Rewrites, RewriteOf, BlockBound
<1>3. ASSUME NEW i \in Nat PROVE f(i) \in X
  <2>1. CASE i \in BlocksOf(m, t) /\ d \in DictDocs(m[BlockKey(t, i)])
    <3> DEFINE w == Put("index", BlockKey(t, i), DictRemove(m[BlockKey(t, i)], d))
    <3>1. m[BlockKey(t, i)] \in Dict  BY <2>1, BlocksAre
    <3>2. DictRemove(m[BlockKey(t, i)], d) \in Dict  BY <3>1, DictRemoveTyped
    <3>3. w \in PostWrites  BY <3>2, OnePut
    <3>4. f(i) = <<w>>  BY <2>1 DEF RewriteOf
    <3> HIDE DEF w, PostWrites
    <3> QED  BY <3>3, <3>4
  <2>2. CASE ~ (i \in BlocksOf(m, t) /\ d \in DictDocs(m[BlockKey(t, i)]))
    <3>1. f(i) = <<>>  BY <2>2 DEF RewriteOf
    <3> HIDE DEF PostWrites
    <3> QED  BY <3>1
  <2> QED  BY <2>1, <2>2
<1> HIDE DEF f, PostWrites
<1>4. ASSUME NEW i \in 1..n, NEW x \in X PROVE x \o f(i - 1) \in X
  <2>1. i - 1 \in Nat  BY <1>1
  <2>2. f(i - 1) \in X  BY <2>1, <1>3
  <2> QED  BY <2>2
<1>5. <<>> \in X  OBVIOUS
<1> HIDE DEF X
<1>6. /\ step \in [(1..n) \X X -> X]
      /\ \A i \in 1..n, x \in X : step[<<i, x>>] = x \o f(i - 1)  BY <1>4
<1> HIDE DEF step, n
<1>7. PICK u \in [0..n -> X] : Recurses(u, <<>>, n, step)  BY <1>1, <1>5, <1>6, Recursion
<1>8. ASSUME NEW i \in 0..n
      PROVE  u[i] = IF i = 0 THEN <<>> ELSE u[i - 1] \o f(i - 1)
  <2>1. CASE i = 0  BY <2>1, <1>7 DEF Recurses
  <2>2. CASE i # 0
    <3>1. i \in 1..n /\ i - 1 \in 0..n  BY <2>2, <1>1
    <3>2. u[i - 1] \in X  BY <3>1, <1>7
    <3>3. u[i] = step[<<i, u[i - 1]>>]  BY <2>2, <1>7 DEF Recurses
    <3> QED  BY <3>1, <3>2, <3>3, <2>2, <1>6
  <2> QED  BY <2>1, <2>2
<1>9. u = [i \in 0..n |-> u[i]]  BY <1>7 DEF Recurses
<1>10. Is(u)  BY <1>8, <1>9
<1>11. Is(v)
  <2> HIDE DEF Is
  <2> QED  BY <1>10, Zenon
<1> HIDE DEF v
<1>12. /\ v = [i \in 0..n |-> v[i]]
       /\ \A i \in 0..n : v[i] = IF i = 0 THEN <<>> ELSE v[i - 1] \o f(i - 1)  BY <1>11
<1> HIDE DEF Is
<1>a. v[0] = <<>>
  <2>1. 0 \in 0..n  BY <1>1
  <2> QED  BY <2>1, <1>12
<1>b. ASSUME NEW i \in 1..n PROVE v[i] = v[i - 1] \o f(i - 1)
  <2>1. i \in 0..n /\ i # 0  BY <1>1
  <2> QED  BY <2>1, <1>12
<1>13. v[0] = <<>> /\ \A i \in 1..n : v[i] = v[i - 1] \o f(i - 1)  BY <1>a, <1>b
<1> DEFINE S == {i \in 0..n : v[i] \in X}
<1>14. 0 \in S  BY <1>1, <1>5, <1>13
<1>15. ASSUME NEW i \in 0..n, i < n, i \in S PROVE i + 1 \in S
  <2>1. i + 1 \in 1..n /\ i + 1 \in 0..n /\ (i + 1) - 1 = i  BY <1>15, <1>1
  <2>2. v[i + 1] = v[i] \o f(i) /\ v[i] \in X  BY <2>1, <1>13, <1>15
  <2>3. v[i] \o f(i) \in X
    <3>1. \A j \in 1..n, x \in X : x \o f(j - 1) \in X  BY <1>4
    <3> QED  BY <3>1, <2>1, <2>2
  <2> QED  BY <2>1, <2>2, <2>3
<1> HIDE DEF S
<1>16. \A i \in 0..n : i \in S  BY <1>1, <1>14, <1>15, UpTo
<1>17. v \in [0..n -> X]  BY <1>12, <1>16 DEF S
<1> QED  BY <1>2, <1>13, <1>17 DEF n, X, f

LEMMA RewritesTyped ==
  ASSUME NEW m, IndexMap(m), NEW t \in Terms, NEW d
  PROVE  Rewrites(m, t, d) \in Seq(PostWrites)
<1>1. PICK v \in [0..BlockBound(m, t) -> Seq(PostWrites)] : Rewrites(m, t, d) = v[BlockBound(m, t)]
  BY RewritesRuns
<1>2. BlockBound(m, t) \in 0..BlockBound(m, t)  BY BoundIs
<1> QED  BY <1>1, <1>2

LEMMA DropChainTyped ==
  ASSUME NEW t \in Terms, NEW n \in Nat
  PROVE  DropChain(t, n) \in Seq(PostWrites)
<1> DEFINE f == [i \in 1..n |-> Del("index", BlockKey(t, i - 1))]
           h == Del("index", HeaderKey(t))
<1>1. ASSUME NEW i \in 1..n PROVE Del("index", BlockKey(t, i - 1)) \in PostWrites
  <2>1. i - 1 \in Nat /\ BlockKey(t, i - 1) \in Keys  BY KeysAre
  <2> QED  BY <2>1, DelIs
<1>2. h \in PostWrites  BY KeysAre, DelIs
<1> HIDE DEF PostWrites, h
<1>3. f \in Seq(PostWrites) /\ <<h>> \in Seq(PostWrites)  BY <1>1, <1>2
<1> HIDE DEF f
<1>4. f \o <<h>> \in Seq(PostWrites)  BY <1>3
<1> QED  BY <1>4 DEF DropChain, f, h

LEMMA PostRemoveIs ==
  ASSUME NEW m, NEW t, NEW d
  PROVE  /\ HeaderKey(t) \in DOMAIN m =>
              PostRemove(m, t, d) =
                Rewrites(m, t, d) \o (IF Empties(m, t, d) THEN DropChain(t, m[HeaderKey(t)]) ELSE <<>>)
         /\ HeaderKey(t) \notin DOMAIN m /\ BlobKey(t) \notin DOMAIN m =>
              PostRemove(m, t, d) = <<>>
         /\ HeaderKey(t) \notin DOMAIN m /\ BlobKey(t) \in DOMAIN m =>
              PostRemove(m, t, d) =
                IF DictRemove(m[BlobKey(t)], d) = <<>> THEN <<Del("index", BlobKey(t))>>
                ELSE <<Put("index", BlobKey(t), DictRemove(m[BlobKey(t)], d))>>
  BY DEF PostRemove, Empties, DropChain

LEMMA PostRemoveTyped ==
  ASSUME NEW m, IndexMap(m), NEW t \in Terms, NEW d
  PROVE  PostRemove(m, t, d) \in Seq(PostWrites)
<1>1. CASE HeaderKey(t) \in DOMAIN m
  <2> DEFINE x == Rewrites(m, t, d)
             y == IF Empties(m, t, d) THEN DropChain(t, m[HeaderKey(t)]) ELSE <<>>
  <2>1. x \in Seq(PostWrites)  BY RewritesTyped
  <2>2. DropChain(t, m[HeaderKey(t)]) \in Seq(PostWrites)  BY <1>1, ValueAt, DropChainTyped
  <2>3. y \in Seq(PostWrites)
    <3> HIDE DEF PostWrites
    <3> QED  BY <2>2
  <2>4. PostRemove(m, t, d) = x \o y  BY <1>1, PostRemoveIs
  <2> HIDE DEF x, y, PostWrites
  <2> QED  BY <2>1, <2>3, <2>4
<1>2. CASE HeaderKey(t) \notin DOMAIN m /\ BlobKey(t) \notin DOMAIN m
  <2>1. PostRemove(m, t, d) = <<>>  BY <1>2, PostRemoveIs
  <2> HIDE DEF PostWrites
  <2> QED  BY <2>1
<1>3. CASE HeaderKey(t) \notin DOMAIN m /\ BlobKey(t) \in DOMAIN m
  <2> DEFINE x == Del("index", BlobKey(t))
             y == Put("index", BlobKey(t), DictRemove(m[BlobKey(t)], d))
  <2>1. DictRemove(m[BlobKey(t)], d) \in Dict  BY <1>3, ValueAt, DictRemoveTyped
  <2>2. x \in PostWrites /\ y \in PostWrites  BY <2>1, OnePut
  <2>3. PostRemove(m, t, d) = <<x>> \/ PostRemove(m, t, d) = <<y>>  BY <1>3, PostRemoveIs
  <2> HIDE DEF x, y, PostWrites
  <2>4. <<x>> \in Seq(PostWrites) /\ <<y>> \in Seq(PostWrites)  BY <2>2
  <2> QED  BY <2>3, <2>4
<1> QED  BY <1>1, <1>2, <1>3

\* A finite set in some order.
LEMMA InOrderIs ==
  ASSUME NEW S, IsFiniteSet(S)
  PROVE  /\ InOrder(S) \in Seq(S) /\ Len(InOrder(S)) = Cardinality(S)
         /\ \A x \in S : \E i \in 1..Len(InOrder(S)) : InOrder(S)[i] = x
         /\ \A i, j \in 1..Len(InOrder(S)) : InOrder(S)[i] = InOrder(S)[j] => i = j
<1> DEFINE n == Cardinality(S)
           f == InOrder(S)
<1>1. n \in Nat /\ ExistsBijection(1..n, S)  BY FS_CardinalityType
<1>2. PICK g \in Bijection(1..n, S) : TRUE  BY <1>1 DEF ExistsBijection
<1>3. g \in [1..n -> S] /\ IsInjective(g)  BY <1>2 DEF Bijection, Injection
<1>4. f \in [1..n -> S] /\ IsInjective(f)  BY <1>3 DEF InOrder, SetToSeq
<1>5. f \in Injection(1..n, S) /\ Cardinality(1..n) = n  BY <1>1, <1>4, FS_Interval DEF Injection
<1> HIDE DEF f, n
<1>6. f \in Surjection(1..n, S)  BY <1>5, FS_Injection DEF n
<1>7. \A x \in S : \E i \in 1..n : f[i] = x  BY <1>6 DEF Surjection
<1>8. f \in Seq(S) /\ Len(f) = n  BY <1>1, <1>4
<1>9. \A i, j \in 1..n : f[i] = f[j] => i = j  BY <1>4 DEF IsInjective
<1> QED  BY <1>7, <1>8, <1>9 DEF f, n

LEMMA DropsRuns ==
  ASSUME NEW m, IndexMap(m), NEW d, NEW S \in SUBSET Terms, IsFiniteSet(S)
  PROVE  \E v \in [0..Len(InOrder(S)) -> Seq(PostWrites)] :
           v[0] = <<>> /\ Drops(m, d, S) = v[Len(InOrder(S))] /\ DropsUp(v, m, d, S)
<1> DEFINE ts == InOrder(S)
           n == Len(ts)
           X == Seq(PostWrites)
           f(x, i) == PostRemove(AfterAll(m, x), ts[i], d)
           step == [x \in (1..n) \X X |-> x[2] \o f(x[2], x[1])]
           Is(u) == u = [i \in 0..n |-> IF i = 0 THEN <<>> ELSE u[i - 1] \o f(u[i - 1], i)]
           v == CHOOSE u : Is(u)
<1>1. n \in Nat /\ \A i \in 1..n : ts[i] \in Terms  BY InOrderIs
<1>2. Drops(m, d, S) = v[n]  BY DEF Drops
<1> HIDE DEF ts, n
<1>3. ASSUME NEW i \in 1..n, NEW x \in X PROVE f(x, i) \in X
  <2>1. IndexMap(AfterAll(m, x)) /\ ts[i] \in Terms  BY <1>1, AfterAllTyped
  <2> QED  BY <2>1, PostRemoveTyped
<1> HIDE DEF f, PostWrites
<1>4. ASSUME NEW i \in 1..n, NEW x \in X PROVE x \o f(x, i) \in X
  <2>1. f(x, i) \in X  BY <1>3
  <2> QED  BY <2>1
<1>5. <<>> \in X  OBVIOUS
<1> HIDE DEF X
<1>6. /\ step \in [(1..n) \X X -> X]
      /\ \A i \in 1..n, x \in X : step[<<i, x>>] = x \o f(x, i)  BY <1>4
<1> HIDE DEF step
<1>7. PICK u \in [0..n -> X] : Recurses(u, <<>>, n, step)  BY <1>1, <1>5, <1>6, Recursion
<1>8. ASSUME NEW i \in 0..n
      PROVE  u[i] = IF i = 0 THEN <<>> ELSE u[i - 1] \o f(u[i - 1], i)
  <2>1. CASE i = 0  BY <2>1, <1>7 DEF Recurses
  <2>2. CASE i # 0
    <3>1. i \in 1..n /\ i - 1 \in 0..n  BY <2>2, <1>1
    <3>2. u[i - 1] \in X  BY <3>1, <1>7
    <3>3. u[i] = step[<<i, u[i - 1]>>]  BY <2>2, <1>7 DEF Recurses
    <3> QED  BY <3>1, <3>2, <3>3, <2>2, <1>6
  <2> QED  BY <2>1, <2>2
<1>9. u = [i \in 0..n |-> u[i]]  BY <1>7 DEF Recurses
<1>10. Is(u)  BY <1>8, <1>9
<1>11. Is(v)
  <2> HIDE DEF Is
  <2> QED  BY <1>10, Zenon
<1> HIDE DEF v
<1>12. /\ v = [i \in 0..n |-> v[i]]
       /\ \A i \in 0..n : v[i] = IF i = 0 THEN <<>> ELSE v[i - 1] \o f(v[i - 1], i)  BY <1>11
<1> HIDE DEF Is
<1>a. v[0] = <<>>
  <2>1. 0 \in 0..n  BY <1>1
  <2> QED  BY <2>1, <1>12
<1>b. ASSUME NEW i \in 1..n PROVE v[i] = v[i - 1] \o f(v[i - 1], i)
  <2>1. i \in 0..n /\ i # 0  BY <1>1
  <2> QED  BY <2>1, <1>12
<1> DEFINE Y == {i \in 0..n : v[i] \in X}
<1>14. 0 \in Y  BY <1>1, <1>5, <1>a
<1>15. ASSUME NEW i \in 0..n, i < n, i \in Y PROVE i + 1 \in Y
  <2>1. i + 1 \in 1..n /\ i + 1 \in 0..n /\ (i + 1) - 1 = i  BY <1>15, <1>1
  <2>2. v[i + 1] = v[i] \o f(v[i], i + 1) /\ v[i] \in X  BY <2>1, <1>b, <1>15
  <2>3. v[i] \o f(v[i], i + 1) \in X
    <3>1. \A j \in 1..n, x \in X : x \o f(x, j) \in X  BY <1>4
    <3> QED  BY <3>1, <2>1, <2>2
  <2> QED  BY <2>1, <2>2, <2>3
<1> HIDE DEF Y
<1>16. \A i \in 0..n : i \in Y  BY <1>1, <1>14, <1>15, UpTo
<1>17. v \in [0..n -> X]  BY <1>12, <1>16 DEF Y
<1>18. \A i \in 1..n : v[i] = v[i - 1] \o f(v[i - 1], i)  BY <1>b
<1> QED  BY <1>2, <1>a, <1>17, <1>18 DEF DropsUp, n, ts, X, f

LEMMA PostsRuns ==
  ASSUME NEW m, IndexMap(m), NEW d \in Docs, NEW x, IsText(x), NEW before \in Seq(PostWrites)
  PROVE  \E v \in [0..Len(InOrder(DOMAIN x)) -> Seq(PostWrites)] :
           /\ v[0] = before /\ Posts(m, d, x, before) = v[Len(InOrder(DOMAIN x))]
           /\ AddsUp(v, m, d, x)
<1> DEFINE ts == InOrder(DOMAIN x)
           n == Len(ts)
           X == Seq(PostWrites)
           f(y, i) == PostAdd(AfterAll(m, y), ts[i], d, x[ts[i]])
           step == [y \in (1..n) \X X |-> y[2] \o f(y[2], y[1])]
           Is(u) == u = [i \in 0..n |-> IF i = 0 THEN before ELSE u[i - 1] \o f(u[i - 1], i)]
           v == CHOOSE u : Is(u)
<1>1. n \in Nat /\ \A i \in 1..n : ts[i] \in Terms /\ x[ts[i]] \in Nat \ {0}  BY InOrderIs DEF IsText
<1>2. Posts(m, d, x, before) = v[n]  BY DEF Posts
<1> HIDE DEF ts, n
<1>3. ASSUME NEW i \in 1..n, NEW y \in X PROVE f(y, i) \in X
  <2>1. IndexMap(AfterAll(m, y)) /\ ts[i] \in Terms /\ x[ts[i]] \in Nat \ {0}  BY <1>1, AfterAllTyped
  <2> QED  BY <2>1, PostAddTyped
<1> HIDE DEF f, PostWrites
<1>4. ASSUME NEW i \in 1..n, NEW y \in X PROVE y \o f(y, i) \in X
  <2>1. f(y, i) \in X  BY <1>3
  <2> QED  BY <2>1
<1>5. before \in X  OBVIOUS
<1> HIDE DEF X
<1>6. /\ step \in [(1..n) \X X -> X]
      /\ \A i \in 1..n, y \in X : step[<<i, y>>] = y \o f(y, i)  BY <1>4
<1> HIDE DEF step
<1>7. PICK u \in [0..n -> X] : Recurses(u, before, n, step)  BY <1>1, <1>5, <1>6, Recursion
<1>8. ASSUME NEW i \in 0..n
      PROVE  u[i] = IF i = 0 THEN before ELSE u[i - 1] \o f(u[i - 1], i)
  <2>1. CASE i = 0  BY <2>1, <1>7 DEF Recurses
  <2>2. CASE i # 0
    <3>1. i \in 1..n /\ i - 1 \in 0..n  BY <2>2, <1>1
    <3>2. u[i - 1] \in X  BY <3>1, <1>7
    <3>3. u[i] = step[<<i, u[i - 1]>>]  BY <2>2, <1>7 DEF Recurses
    <3> QED  BY <3>1, <3>2, <3>3, <2>2, <1>6
  <2> QED  BY <2>1, <2>2
<1>9. u = [i \in 0..n |-> u[i]]  BY <1>7 DEF Recurses
<1>10. Is(u)  BY <1>8, <1>9
<1>11. Is(v)
  <2> HIDE DEF Is
  <2> QED  BY <1>10, Zenon
<1> HIDE DEF v
<1>12. /\ v = [i \in 0..n |-> v[i]]
       /\ \A i \in 0..n : v[i] = IF i = 0 THEN before ELSE v[i - 1] \o f(v[i - 1], i)  BY <1>11
<1> HIDE DEF Is
<1>a. v[0] = before
  <2>1. 0 \in 0..n  BY <1>1
  <2> QED  BY <2>1, <1>12
<1>b. ASSUME NEW i \in 1..n PROVE v[i] = v[i - 1] \o f(v[i - 1], i)
  <2>1. i \in 0..n /\ i # 0  BY <1>1
  <2> QED  BY <2>1, <1>12
<1> DEFINE Y == {i \in 0..n : v[i] \in X}
<1>14. 0 \in Y  BY <1>1, <1>5, <1>a
<1>15. ASSUME NEW i \in 0..n, i < n, i \in Y PROVE i + 1 \in Y
  <2>1. i + 1 \in 1..n /\ i + 1 \in 0..n /\ (i + 1) - 1 = i  BY <1>15, <1>1
  <2>2. v[i + 1] = v[i] \o f(v[i], i + 1) /\ v[i] \in X  BY <2>1, <1>b, <1>15
  <2>3. v[i] \o f(v[i], i + 1) \in X
    <3>1. \A j \in 1..n, y \in X : y \o f(y, j) \in X  BY <1>4
    <3> QED  BY <3>1, <2>1, <2>2
  <2> QED  BY <2>1, <2>2, <2>3
<1> HIDE DEF Y
<1>16. \A i \in 0..n : i \in Y  BY <1>1, <1>14, <1>15, UpTo
<1>17. v \in [0..n -> X]  BY <1>12, <1>16 DEF Y
<1>18. \A i \in 1..n : v[i] = v[i - 1] \o f(v[i - 1], i)  BY <1>b
<1>19. AddsUp(v, m, d, x)  BY <1>18 DEF AddsUp, n, ts, f
<1> QED  BY <1>2, <1>a, <1>17, <1>19 DEF n, ts, X

LEMMA DropsTyped ==
  ASSUME NEW m, IndexMap(m), NEW d, NEW S \in SUBSET Terms, IsFiniteSet(S)
  PROVE  Drops(m, d, S) \in Seq(PostWrites)
<1> DEFINE n == Len(InOrder(S))
<1>1. PICK v \in [0..n -> Seq(PostWrites)] : Drops(m, d, S) = v[n]  BY DropsRuns
<1>2. n \in 0..n  BY InOrderIs
<1> QED  BY <1>1, <1>2

LEMMA PostsTyped ==
  ASSUME NEW m, IndexMap(m), NEW d \in Docs, NEW x, IsText(x), NEW before \in Seq(PostWrites)
  PROVE  Posts(m, d, x, before) \in Seq(PostWrites)
<1> DEFINE n == Len(InOrder(DOMAIN x))
<1>1. PICK v \in [0..n -> Seq(PostWrites)] : Posts(m, d, x, before) = v[n]  BY PostsRuns
<1>2. n \in 0..n  BY InOrderIs DEF IsText
<1> QED  BY <1>1, <1>2

----
(* Sums.                                                                   *)

LEMMA SumWithout ==
  ASSUME NEW f, Countable(f), NEW k \in DOMAIN f
  PROVE  Countable(Without(f, k)) /\ SumFunction(f) = f[k] + SumFunction(Without(f, k))
<1> DEFINE g == Without(f, k)
           S == DOMAIN f
           R == DOMAIN g
<1>1. R = S \ {k} /\ \A x \in R : g[x] = f[x]  BY DEF Without, Restrict
<1>2. IsFiniteSet(S) /\ \A x \in S : f[x] \in Int  BY DEF Countable
<1>3. IsFiniteSet(R) /\ \A x \in R : g[x] \in Int  BY <1>1, <1>2, FS_RemoveElement
<1>4. Countable(g)  BY <1>3 DEF Countable
<1> HIDE DEF g
<1>5. PICK it : SubsetSums(it, f, S) /\ SumFunction(f) = it[S]  BY SumIs
<1>6. PICK jt : SubsetSums(jt, g, R) /\ SumFunction(g) = jt[R]  BY <1>4, SumIs
<1>7. k \in S /\ R \subseteq S  BY <1>1
<1> HIDE DEF S, R
<1>8. it[S] = f[k] + it[S \ {k}]
  <2>1. \A T \in SUBSET S : \A y \in T : it[T] = f[y] + it[T \ {y}]
    <3>1. AnyFirst(it, f, S)  BY <1>2, <1>5, SumsAny
    <3> QED  BY <3>1 DEF AnyFirst
  <2>2. S \in SUBSET S  OBVIOUS
  <2> QED  BY <2>1, <2>2, <1>7
<1>9. it[R] = jt[R]  BY <1>1, <1>2, <1>3, <1>5, <1>6, <1>7, SumsAgree
<1> QED  BY <1>1, <1>4, <1>5, <1>6, <1>8, <1>9 DEF g

LEMMA SumWith ==
  ASSUME NEW f, Countable(f), NEW k, NEW v \in Int
  PROVE  /\ Countable(With(f, k, v)) /\ Countable(Without(f, k))
         /\ SumFunction(With(f, k, v)) = v + SumFunction(Without(f, k))
<1> DEFINE g == With(f, k, v)
<1>1. DOMAIN g = DOMAIN f \cup {k} /\ g[k] = v /\ \A j \in DOMAIN f : j # k => g[j] = f[j]  BY DEF With
<1>2. Without(f, k) = Without(g, k)
  <2>1. /\ IsFcn(Without(f, k)) /\ DOMAIN Without(f, k) = DOMAIN f \ {k}
        /\ \A j \in DOMAIN f : j # k => Without(f, k)[j] = f[j]  BY WithoutIs
  <2> HIDE DEF g
  <2>2. /\ IsFcn(Without(g, k)) /\ DOMAIN Without(g, k) = DOMAIN g \ {k}
        /\ \A j \in DOMAIN g : j # k => Without(g, k)[j] = g[j]  BY WithoutIs
  <2> DEFINE a == Without(f, k)
             b == Without(g, k)
  <2>3. /\ IsFcn(a) /\ DOMAIN a = DOMAIN f \ {k} /\ \A j \in DOMAIN f : j # k => a[j] = f[j]
        /\ IsFcn(b) /\ DOMAIN b = DOMAIN g \ {k} /\ \A j \in DOMAIN g : j # k => b[j] = g[j]  BY <2>1, <2>2
  <2> HIDE DEF a, b
  <2>4. DOMAIN a = DOMAIN b /\ \A x \in DOMAIN a : a[x] = b[x]  BY <1>1, <2>3
  <2>5. a = b  BY <2>3, <2>4, SameMap
  <2> QED  BY <2>5 DEF a, b
<1>3. Countable(g)  BY <1>1, FS_AddElement DEF Countable
<1> HIDE DEF g
<1>4. Countable(Without(g, k)) /\ SumFunction(g) = v + SumFunction(Without(g, k))  BY <1>1, <1>3, SumWithout
<1> QED  BY <1>2, <1>3, <1>4 DEF g

----
(* What the dicts of a term say.                                           *)

LEMMA DictIs ==
  ASSUME NEW b \in Dict
  PROVE  /\ Len(b) \in Nat /\ DOMAIN b = 1..Len(b) /\ IsFcn(b)
         /\ \A x \in 1..Len(b) : b[x] = <<b[x][1], b[x][2]>> /\ b[x][1] \in Docs /\ b[x][2] \in Nat \ {0}
         /\ \A d : d \in DictDocs(b) <=> \E x \in 1..Len(b) : b[x][1] = d
         /\ b = <<>> <=> Len(b) = 0
<1> DEFINE P == Docs \X (Nat \ {0})
<1>1. b \in Seq(P)  BY DEF Dict
<1>2. \A p \in P : p = <<p[1], p[2]>> /\ p[1] \in Docs /\ p[2] \in Nat \ {0}  OBVIOUS
<1> HIDE DEF P
<1>3. Len(b) \in Nat /\ DOMAIN b = 1..Len(b) /\ (\A x \in 1..Len(b) : b[x] \in P) /\ (b = <<>> <=> Len(b) = 0)
  BY <1>1
<1>4. IsFcn(b)
  <2>1. b \in [1..Len(b) -> P]  BY <1>1
  <2> QED  BY <2>1, <1>3 DEF IsFcn
<1> QED  BY <1>2, <1>3, <1>4 DEF DictDocs

LEMMA HasIs ==
  ASSUME NEW b \in Dict
  PROVE  \A d : /\ d \in DictDocs(b) <=> \E v : Has(b, d, v)
                /\ \A v : Has(b, d, v) => d \in DictDocs(b)
                /\ d \in DictDocs(b) => Has(b, d, b[Entry(b, d)][2])
                /\ Single(b) => \A v, w : Has(b, d, v) /\ Has(b, d, w) => v = w
<1>1. /\ Len(b) \in Nat /\ DOMAIN b = 1..Len(b)
      /\ \A x \in 1..Len(b) : b[x] = <<b[x][1], b[x][2]>>
      /\ \A d : d \in DictDocs(b) <=> \E x \in 1..Len(b) : b[x][1] = d  BY DictIs
<1> SUFFICES ASSUME NEW d
             PROVE  /\ d \in DictDocs(b) <=> \E v : Has(b, d, v)
                    /\ \A v : Has(b, d, v) => d \in DictDocs(b)
                    /\ d \in DictDocs(b) => Has(b, d, b[Entry(b, d)][2])
                    /\ Single(b) => \A v, w : Has(b, d, v) /\ Has(b, d, w) => v = w  OBVIOUS
<1>2. ASSUME NEW v, Has(b, d, v) PROVE d \in DictDocs(b)
  <2>1. PICK x \in DOMAIN b : b[x] = <<d, v>>  BY <1>2 DEF Has
  <2>2. b[x][1] = d  BY <2>1
  <2> QED  BY <2>2, <1>1
<1>3. ASSUME d \in DictDocs(b) PROVE Has(b, d, b[Entry(b, d)][2])
  <2> DEFINE e == Entry(b, d)
  <2>1. e \in 1..Len(b) /\ b[e][1] = d  BY <1>3, EntryIs
  <2> HIDE DEF e
  <2>2. b[e] = <<d, b[e][2]>>  BY <2>1, <1>1
  <2>3. Has(b, d, b[e][2])  BY <2>1, <2>2, <1>1 DEF Has
  <2> QED  BY <2>3 DEF e
<1>4. ASSUME Single(b), NEW v, NEW w, Has(b, d, v), Has(b, d, w) PROVE v = w
  <2>1. PICK x \in DOMAIN b : b[x] = <<d, v>>  BY <1>4 DEF Has
  <2>2. PICK y \in DOMAIN b : b[y] = <<d, w>>  BY <1>4 DEF Has
  <2>3. x = y  BY <1>4, <2>1, <2>2 DEF Single
  <2> QED  BY <2>1, <2>2, <2>3
<1> QED  BY <1>2, <1>3, <1>4

LEMMA DictSetHas ==
  ASSUME NEW b \in Dict, Single(b), NEW d \in Docs, NEW v \in Nat \ {0}
  PROVE  /\ DictSet(b, d, v) \in Dict /\ Single(DictSet(b, d, v))
         /\ DictDocs(DictSet(b, d, v)) = DictDocs(b) \cup {d}
         /\ Has(DictSet(b, d, v), d, v)
         /\ \A e, w : e # d => (Has(DictSet(b, d, v), e, w) <=> Has(b, e, w))
<1> DEFINE c == DictSet(b, d, v)
<1>0. /\ Len(b) \in Nat /\ DOMAIN b = 1..Len(b)
      /\ \A x \in 1..Len(b) : b[x] = <<b[x][1], b[x][2]>>
      /\ \A e : e \in DictDocs(b) <=> \E x \in 1..Len(b) : b[x][1] = e  BY DictIs
<1>1. c \in Dict  BY DictSetIs
<1>2. /\ DOMAIN c = 1..Len(c) /\ \A e : e \in DictDocs(c) <=> \E x \in 1..Len(c) : c[x][1] = e
  BY <1>1, DictIs
<1> SUFFICES Single(c) /\ DictDocs(c) = DictDocs(b) \cup {d} /\ Has(c, d, v)
             /\ \A e, w : e # d => (Has(c, e, w) <=> Has(b, e, w))  BY <1>1
<1>3. CASE d \in DictDocs(b)
  <2>1. c = [i \in DOMAIN b |-> IF b[i][1] = d THEN <<d, v>> ELSE b[i]]  BY <1>3, DictSetIs
  <2>2. DOMAIN c = DOMAIN b /\ \A i \in DOMAIN b : c[i] = IF b[i][1] = d THEN <<d, v>> ELSE b[i]  BY <2>1
  <2> HIDE DEF c
  <2>3. \A i \in DOMAIN b : c[i][1] = b[i][1]  BY <2>2
  <2>4. Single(c)  BY <2>2, <2>3 DEF Single
  <2>5. DictDocs(c) = DictDocs(b)  BY <2>2, <2>3 DEF DictDocs
  <2>6. Has(c, d, v)  BY <1>3, <1>0, <2>2 DEF Has
  <2>7. ASSUME NEW e, NEW w, e # d PROVE Has(c, e, w) <=> Has(b, e, w)
    <3>1. \A i \in DOMAIN b : c[i] = <<e, w>> <=> b[i] = <<e, w>>  BY <2>2, <2>7
    <3> QED  BY <3>1, <2>2 DEF Has
  <2>8. DictDocs(c) = DictDocs(b) \cup {d}  BY <2>5, <1>3
  <2> QED  BY <2>4, <2>6, <2>7, <2>8
<1>4. CASE d \notin DictDocs(b)
  <2> DEFINE n == Len(b)
             p == <<d, v>>
  <2>1. c = Append(b, p)  BY <1>4, DictSetIs
  <2>2. Len(c) = n + 1 /\ c[n + 1] = p /\ (\A i \in 1..n : c[i] = b[i]) /\ n \in Nat  BY <2>1, <1>0 DEF Dict
  <2>3. p[1] = d  OBVIOUS
  <2> HIDE DEF c, n
  <2>4. /\ DOMAIN c = 1..(n + 1) /\ DOMAIN b = 1..n /\ n + 1 \in 1..(n + 1)
        /\ \A i \in 1..(n + 1) : i = n + 1 \/ i \in 1..n  BY <2>2, <1>0, <1>2 DEF n
  <2>5. \A i \in 1..n : b[i][1] # d  BY <1>0, <1>4 DEF n
  <2>6. Single(c)
    <3> SUFFICES ASSUME NEW x \in 1..(n + 1), NEW y \in 1..(n + 1), c[x][1] = c[y][1]
                 PROVE  x = y  BY <2>4 DEF Single
    <3>1. CASE x \in 1..n /\ y \in 1..n  BY <3>1, <2>2, <2>4 DEF Single
    <3>2. CASE x = n + 1 /\ y \in 1..n  BY <3>2, <2>2, <2>3, <2>5
    <3>3. CASE x \in 1..n /\ y = n + 1  BY <3>3, <2>2, <2>3, <2>5
    <3> QED  BY <3>1, <3>2, <3>3, <2>4
  <2>7. Has(c, d, v)  BY <2>2, <2>4 DEF Has
  <2>8. ASSUME NEW e, NEW w, e # d PROVE Has(c, e, w) <=> Has(b, e, w)
    <3> DEFINE q == <<e, w>>
    <3>1. p # q  BY <2>8
    <3>2. (Has(c, e, w) <=> \E x \in 1..(n + 1) : c[x] = q) /\ (Has(b, e, w) <=> \E x \in 1..n : b[x] = q)
      BY <2>4 DEF Has
    <3> HIDE DEF p, q
    <3>3. ASSUME NEW x \in 1..(n + 1), c[x] = q PROVE \E y \in 1..n : b[y] = q  BY <3>1, <3>3, <2>2, <2>4
    <3>4. ASSUME NEW x \in 1..n, b[x] = q PROVE \E y \in 1..(n + 1) : c[y] = q
      <4>1. x \in 1..(n + 1)  BY <2>2
      <4> QED  BY <3>4, <4>1, <2>2
    <3> QED  BY <3>2, <3>3, <3>4
  <2>9. DictDocs(c) = DictDocs(b) \cup {d}
    <3> HIDE DEF p
    <3>1. \A e : e \in DictDocs(c) <=> \E x \in 1..(n + 1) : c[x][1] = e  BY <2>4 DEF DictDocs
    <3>2. \A e : e \in DictDocs(b) <=> \E x \in 1..n : b[x][1] = e  BY <2>4 DEF DictDocs
    <3>3. ASSUME NEW e PROVE e \in DictDocs(c) <=> e \in DictDocs(b) \cup {d}  BY <3>1, <3>2, <2>2, <2>3, <2>4
    <3> QED  BY <3>3
  <2> QED  BY <2>6, <2>7, <2>8, <2>9
<1> QED  BY <1>3, <1>4

LEMMA DictRemoveHas ==
  ASSUME NEW b \in Dict, Single(b), NEW d
  PROVE  /\ DictRemove(b, d) \in Dict /\ Single(DictRemove(b, d))
         /\ DictDocs(DictRemove(b, d)) = DictDocs(b) \ {d}
         /\ \A e, w : e # d => (Has(DictRemove(b, d), e, w) <=> Has(b, e, w))
         /\ d \notin DictDocs(b) => DictRemove(b, d) = b
<1> DEFINE c == DictRemove(b, d)
<1>1. c \in Dict  BY DictRemoveTyped
<1>2. CASE d \notin DictDocs(b)
  <2>1. c = b  BY <1>2 DEF DictRemove
  <2> QED  BY <1>1, <1>2, <2>1
<1>3. CASE d \in DictDocs(b)
  <2> DEFINE k == Entry(b, d)
             n == Len(b)
  <2>1. k \in 1..n /\ b[k][1] = d  BY <1>3, EntryIs
  <2>2. n \in Nat /\ DOMAIN b = 1..n  BY DictIs
  <2>3. c = RemoveAt(b, k)  BY <1>3 DEF DictRemove
  <2>4. Len(c) = n - 1 /\ \A i \in 1..(n - 1) : c[i] = IF i < k THEN b[i] ELSE b[i + 1]
    <3>1. b \in Seq(Docs \X (Nat \ {0}))  BY DEF Dict
    <3> HIDE DEF k
    <3> QED  BY <2>1, <2>3, <3>1, RemovedIs
  <2>5. DOMAIN c = 1..Len(c)  BY <1>1, DictIs
  <2> HIDE DEF c, k, n
  <2>6. DOMAIN c = 1..(n - 1)  BY <2>4, <2>5
  <2> DEFINE at(i) == IF i < k THEN i ELSE i + 1
  <2>7. ASSUME NEW i \in 1..(n - 1) PROVE at(i) \in 1..n /\ at(i) # k /\ c[i] = b[at(i)]
    <3>1. at(i) \in 1..n /\ at(i) # k  BY <2>1, <2>2
    <3>2. c[i] = b[at(i)]  BY <2>4
    <3> QED  BY <3>1, <3>2
  <2>8. ASSUME NEW x \in 1..n, x # k PROVE \E i \in 1..(n - 1) : at(i) = x
    <3>1. CASE x < k
      <4>1. x \in 1..(n - 1) /\ at(x) = x  BY <2>1, <2>2, <3>1
      <4> QED  BY <4>1
    <3>2. CASE x > k
      <4>1. x - 1 \in 1..(n - 1) /\ at(x - 1) = x  BY <2>1, <2>2, <3>2
      <4> QED  BY <4>1
    <3> QED  BY <3>1, <3>2, <2>8, <2>1, <2>2
  <2>9. \A i, j \in 1..(n - 1) : at(i) = at(j) => i = j  BY <2>1, <2>2
  <2> HIDE DEF at
  <2>10. \A x \in 1..n : b[x][1] = d => x = k  BY <2>1, <2>2 DEF Single
  <2>11. Single(c)
    <3> SUFFICES ASSUME NEW i \in 1..(n - 1), NEW j \in 1..(n - 1), c[i][1] = c[j][1]
                 PROVE  i = j  BY <2>6 DEF Single
    <3>1. at(i) \in DOMAIN b /\ at(j) \in DOMAIN b /\ b[at(i)][1] = b[at(j)][1]  BY <2>2, <2>7
    <3>2. at(i) = at(j)  BY <3>1 DEF Single
    <3> QED  BY <3>2, <2>9
  <2>12. ASSUME NEW e, NEW w, e # d PROVE Has(c, e, w) <=> Has(b, e, w)
    <3> DEFINE q == <<e, w>>
    <3>1. q[1] = e  OBVIOUS
    <3>2. (Has(c, e, w) <=> \E i \in 1..(n - 1) : c[i] = q) /\ (Has(b, e, w) <=> \E x \in 1..n : b[x] = q)
      BY <2>2, <2>6 DEF Has
    <3> HIDE DEF q
    <3>3. ASSUME NEW i \in 1..(n - 1), c[i] = q PROVE \E x \in 1..n : b[x] = q  BY <3>3, <2>7
    <3>4. ASSUME NEW x \in 1..n, b[x] = q PROVE \E i \in 1..(n - 1) : c[i] = q
      <4>1. x # k  BY <3>1, <3>4, <2>1, <2>12
      <4>2. PICK i \in 1..(n - 1) : at(i) = x  BY <4>1, <2>8
      <4> QED  BY <4>2, <3>4, <2>7
    <3> QED  BY <3>2, <3>3, <3>4
  <2>13. DictDocs(c) = DictDocs(b) \ {d}
    <3>1. \A e : e \in DictDocs(c) <=> \E i \in 1..(n - 1) : c[i][1] = e  BY <2>6 DEF DictDocs
    <3>2. \A e : e \in DictDocs(b) <=> \E x \in 1..n : b[x][1] = e  BY <2>2 DEF DictDocs
    <3>3. ASSUME NEW e, e \in DictDocs(c) PROVE e \in DictDocs(b) \ {d}
      <4>1. PICK i \in 1..(n - 1) : c[i][1] = e  BY <3>1, <3>3
      <4>2. at(i) \in 1..n /\ at(i) # k /\ b[at(i)][1] = e  BY <4>1, <2>7
      <4>3. e # d  BY <4>2, <2>10
      <4> QED  BY <4>2, <4>3, <3>2
    <3>4. ASSUME NEW e, e \in DictDocs(b), e # d PROVE e \in DictDocs(c)
      <4>1. PICK x \in 1..n : b[x][1] = e  BY <3>2, <3>4
      <4>2. x # k  BY <4>1, <3>4, <2>1
      <4>3. PICK i \in 1..(n - 1) : at(i) = x  BY <4>2, <2>8
      <4>4. c[i][1] = e  BY <4>1, <4>3, <2>7
      <4> QED  BY <4>4, <3>1
    <3> QED  BY <3>3, <3>4
  <2> QED  BY <1>1, <1>3, <2>11, <2>12, <2>13 DEF c
<1> QED  BY <1>2, <1>3

----
(* What a chain of dicts says.                                             *)

LEMMA LoadIs ==
  ASSUME NEW m, NEW t
  PROVE  LoadPostings(m, t) = Loaded(Dicts(m, t))  BY DEF LoadPostings, Loaded, Holding

LEMMA LoadedIs ==
  ASSUME NEW c, ChainOK(c)
  PROVE  /\ IsFcn(Loaded(c)) /\ \A d : d \in DOMAIN Loaded(c) <=> Names(c, d)
         /\ \A d \in DOMAIN Loaded(c) : Says(c, d, Loaded(c)[d])
         /\ \A d, v : Says(c, d, v) => d \in DOMAIN Loaded(c) /\ Loaded(c)[d] = v
<1> DEFINE f == Loaded(c)
           last(d) == Max(Holding(c, d))
<1>1. /\ IsFcn(f) /\ \A d : d \in DOMAIN f <=> Names(c, d)
      /\ \A d \in DOMAIN f : f[d] = c[last(d)][Entry(c[last(d)], d)][2]  BY DEF Loaded, IsFcn, Names
<1>2. PICK n \in Nat : DOMAIN c \subseteq 0..n  BY DEF ChainOK
<1>3. ASSUME NEW d, Names(c, d)
      PROVE  last(d) \in Holding(c, d) /\ \A i \in Holding(c, d) : i <= last(d)
  <2>1. Holding(c, d) \in SUBSET (0..n) /\ Holding(c, d) # {}  BY <1>2, <1>3 DEF Holding, Names
  <2> QED  BY <2>1, MaxOfNats
<1> HIDE DEF f, last
<1>4. ASSUME NEW d \in DOMAIN f PROVE Says(c, d, f[d])
  <2> DEFINE i == last(d)
  <2>1. i \in DOMAIN c /\ d \in DictDocs(c[i]) /\ \A j \in Holding(c, d) : j <= i  BY <1>1, <1>3 DEF Holding
  <2>2. f[d] = c[i][Entry(c[i], d)][2]  BY <1>1
  <2> HIDE DEF i
  <2>3. c[i] \in Dict /\ i \in Nat  BY <2>1 DEF ChainOK
  <2>4. Has(c[i], d, f[d])  BY <2>1, <2>2, <2>3, HasIs
  <2>5. ASSUME NEW j \in DOMAIN c, j > i PROVE d \notin DictDocs(c[j])
    <3>1. j \in Nat  BY DEF ChainOK
    <3>2. ~ (j <= i)  BY <3>1, <2>3, <2>5
    <3> QED  BY <3>2, <2>1 DEF Holding
  <2> QED  BY <2>1, <2>4, <2>5 DEF Says
<1>5. ASSUME NEW d, NEW v, Says(c, d, v) PROVE d \in DOMAIN f /\ f[d] = v
  <2>1. PICK i \in DOMAIN c : Has(c[i], d, v) /\ \A j \in DOMAIN c : j > i => d \notin DictDocs(c[j])
    BY <1>5 DEF Says
  <2>2. c[i] \in Dict /\ Single(c[i]) /\ i \in Nat  BY DEF ChainOK
  <2>3. d \in DictDocs(c[i])  BY <2>1, <2>2, HasIs
  <2>4. d \in DOMAIN f  BY <1>1, <2>3 DEF Names
  <2>5. PICK k \in DOMAIN c : Has(c[k], d, f[d]) /\ \A j \in DOMAIN c : j > k => d \notin DictDocs(c[j])
    BY <2>4, <1>4 DEF Says
  <2>6. c[k] \in Dict /\ k \in Nat  BY DEF ChainOK
  <2>7. d \in DictDocs(c[k])  BY <2>5, <2>6, HasIs
  <2>8. i = k
    <3>1. ~ (k > i) /\ ~ (i > k)  BY <2>1, <2>3, <2>5, <2>7
    <3> QED  BY <3>1, <2>2, <2>6
  <2>9. Has(c[i], d, f[d])  BY <2>5, <2>8
  <2>10. f[d] = v  BY <2>1, <2>2, <2>9, HasIs
  <2> QED  BY <2>4, <2>10
<1> QED  BY <1>1, <1>4, <1>5 DEF f

LEMMA LoadedAs ==
  ASSUME NEW c, ChainOK(c), NEW f, IsFcn(f), \A d : Names(c, d) => d \in DOMAIN f,
         \A d \in DOMAIN f : Says(c, d, f[d])
  PROVE  Loaded(c) = f
<1> DEFINE g == Loaded(c)
<1>1. IsFcn(g) /\ (\A d : d \in DOMAIN g <=> Names(c, d)) /\ \A d, v : Says(c, d, v) => d \in DOMAIN g /\ g[d] = v
  BY LoadedIs
<1> HIDE DEF g
<1>2. \A d \in DOMAIN f : d \in DOMAIN g /\ g[d] = f[d]  BY <1>1
<1>3. DOMAIN f = DOMAIN g  BY <1>1, <1>2
<1>4. g = f  BY <1>1, <1>2, <1>3, SameMap
<1> QED  BY <1>4 DEF g

LEMMA LaterSays ==
  ASSUME NEW b, NEW c, NEW k, NEW d, NEW v, Later(b, c, k, d, v)
  PROVE  ChainOK(b) /\ Loaded(b) = With(Loaded(c), d, v)
<1> USE DEF Later
<1> DEFINE f == Loaded(c)
           g == With(f, d, v)
<1>0. \A i \in 0..k : i \in Nat /\ (i = k \/ i \in 0..(k - 1)) /\ ~ (i > k)  OBVIOUS
<1>1. ChainOK(b)
  <2>1. ASSUME NEW i \in 0..k PROVE i \in Nat /\ b[i] \in Dict /\ Single(b[i])
    <3>1. CASE i = k  BY <3>1
    <3>2. CASE i \in 0..(k - 1)
      <4>1. i \in DOMAIN c /\ b[i] = c[i]  BY <3>2
      <4> QED  BY <4>1 DEF ChainOK
    <3> QED  BY <1>0, <3>1, <3>2
  <2> QED  BY <2>1 DEF ChainOK
<1>2. /\ IsFcn(f) /\ (\A e : e \in DOMAIN f <=> Names(c, e)) /\ \A e \in DOMAIN f : Says(c, e, f[e])
  BY LoadedIs
<1> HIDE DEF f
<1>3. IsFcn(g) /\ DOMAIN g = DOMAIN f \cup {d} /\ g[d] = v /\ \A e \in DOMAIN f : e # d => g[e] = f[e]
  BY DEF With, IsFcn
<1> HIDE DEF g
<1>a. \A i \in DOMAIN c : c[i] \in Dict  BY DEF ChainOK
<1>4. ASSUME NEW e, Names(b, e) PROVE e \in DOMAIN g
  <2>1. PICK i \in 0..k : e \in DictDocs(b[i])  BY <1>4 DEF Names
  <2>2. CASE e = d  BY <2>2, <1>3
  <2>3. CASE e # d
    <3>1. CASE i = k
      <4>1. PICK w : Has(b[k], e, w)  BY <2>1, <3>1, HasIs
      <4>2. k \in DOMAIN c /\ Has(c[k], e, w)  BY <4>1, <2>3 DEF OthersSame
      <4>3. e \in DictDocs(c[k])  BY <4>2, <1>a, HasIs
      <4> QED  BY <4>2, <4>3, <1>2, <1>3 DEF Names
    <3>2. CASE i \in 0..(k - 1)
      <4>1. i \in DOMAIN c /\ e \in DictDocs(c[i])  BY <2>1, <3>2
      <4> QED  BY <4>1, <1>2, <1>3 DEF Names
    <3> QED  BY <1>0, <3>1, <3>2
  <2> QED  BY <2>2, <2>3
<1>5. ASSUME NEW e \in DOMAIN g PROVE Says(b, e, g[e])
  <2>1. CASE e = d
    <3>1. k \in 0..k /\ \A j \in 0..k : ~ (j > k)  BY <1>0
    <3> QED  BY <2>1, <3>1, <1>3 DEF Says
  <2>2. CASE e # d
    <3>1. e \in DOMAIN f /\ g[e] = f[e]  BY <2>2, <1>3
    <3>2. PICK i \in DOMAIN c : Has(c[i], e, f[e]) /\ \A j \in DOMAIN c : j > i => e \notin DictDocs(c[j])
      BY <3>1, <1>2 DEF Says
    <3>3. i \in 0..k  BY <1>0
    <3>4. Has(b[i], e, f[e])
      <4>1. CASE i = k  BY <4>1, <3>2, <2>2 DEF OthersSame
      <4>2. CASE i \in 0..(k - 1)  BY <4>2, <3>2
      <4> QED  BY <4>1, <4>2, <3>3, <1>0
    <3>5. ASSUME NEW j \in 0..k, j > i, e \in DictDocs(b[j]) PROVE FALSE
      <4>1. CASE j = k
        <5>1. PICK w : Has(b[k], e, w)  BY <4>1, <3>5, HasIs
        <5>2. k \in DOMAIN c /\ Has(c[k], e, w)  BY <5>1, <2>2 DEF OthersSame
        <5>3. e \in DictDocs(c[k])  BY <5>2, <1>a, HasIs
        <5> QED  BY <5>2, <5>3, <3>2, <3>5, <4>1
      <4>2. CASE j \in 0..(k - 1)  BY <4>2, <3>2, <3>5
      <4> QED  BY <4>1, <4>2, <1>0
    <3> QED  BY <3>1, <3>3, <3>4, <3>5 DEF Says
  <2> QED  BY <2>1, <2>2
<1>6. Loaded(b) = g  BY <1>1, <1>3, <1>4, <1>5, LoadedAs
<1> QED  BY <1>1, <1>6 DEF g, f

\* No dict keeps an entry of the document.
LEMMA DroppedSays ==
  ASSUME NEW c, ChainOK(c), NEW d, NEW b, DOMAIN b = DOMAIN c,
         \A i \in DOMAIN c : b[i] = DictRemove(c[i], d)
  PROVE  ChainOK(b) /\ Loaded(b) = Without(Loaded(c), d)
<1> DEFINE f == Loaded(c)
           g == Without(f, d)
<1>1. ASSUME NEW i \in DOMAIN c
      PROVE  /\ i \in Nat /\ b[i] \in Dict /\ Single(b[i]) /\ DictDocs(b[i]) = DictDocs(c[i]) \ {d}
             /\ \A e, w : e # d => (Has(b[i], e, w) <=> Has(c[i], e, w))
  <2>1. i \in Nat /\ c[i] \in Dict /\ Single(c[i])  BY DEF ChainOK
  <2> QED  BY <2>1, DictRemoveHas
<1>2. ChainOK(b)  BY <1>1 DEF ChainOK
<1>3. /\ IsFcn(f) /\ (\A e : e \in DOMAIN f <=> Names(c, e)) /\ \A e \in DOMAIN f : Says(c, e, f[e])
  BY LoadedIs
<1> HIDE DEF f
<1>4. IsFcn(g) /\ DOMAIN g = DOMAIN f \ {d} /\ \A e \in DOMAIN f : e # d => g[e] = f[e]  BY WithoutIs
<1> HIDE DEF g
<1>5. ASSUME NEW e, Names(b, e) PROVE e \in DOMAIN g  BY <1>1, <1>3, <1>4, <1>5 DEF Names
<1>6. ASSUME NEW e \in DOMAIN g PROVE Says(b, e, g[e])
  <2>1. e # d /\ e \in DOMAIN f /\ g[e] = f[e]  BY <1>4
  <2>2. PICK i \in DOMAIN c : Has(c[i], e, f[e]) /\ \A j \in DOMAIN c : j > i => e \notin DictDocs(c[j])
    BY <2>1, <1>3 DEF Says
  <2>3. Has(b[i], e, f[e])  BY <2>1, <2>2, <1>1
  <2>4. \A j \in DOMAIN b : j > i => e \notin DictDocs(b[j])  BY <2>2, <1>1
  <2> QED  BY <2>1, <2>3, <2>4 DEF Says
<1>7. Loaded(b) = g  BY <1>2, <1>4, <1>5, <1>6, LoadedAs
<1> QED  BY <1>2, <1>7 DEF g, f

LEMMA NothingSaid ==
  ASSUME NEW c, \E n \in Nat : DOMAIN c \subseteq 0..n, \A i \in DOMAIN c : c[i] = <<>>
  PROVE  ChainOK(c) /\ Loaded(c) = <<>>
<1>1. <<>> \in Dict /\ Single(<<>>) /\ DictDocs(<<>>) = {}  BY DEF Dict, Single, DictDocs
<1>2. ChainOK(c)  BY <1>1 DEF ChainOK
<1>3. \A d : ~ Names(c, d)  BY <1>1 DEF Names
<1>4. IsFcn(<<>>) /\ DOMAIN <<>> = {}  BY DEF IsFcn
<1> DEFINE f == <<>>
<1>5. IsFcn(f) /\ (\A d : Names(c, d) => d \in DOMAIN f) /\ \A d \in DOMAIN f : Says(c, d, f[d])
  BY <1>3, <1>4
<1> HIDE DEF f
<1>6. Loaded(c) = f  BY <1>2, <1>5, LoadedAs
<1> QED  BY <1>2, <1>6 DEF f

----
(* A dict cut into blocks.                                                 *)

\* The block of an entry, of which it is the only one.
LEMMA BlockIs ==
  ASSUME NEW b \in Dict, NEW i \in Nat \ {0}, (i - 1) * BlockDocs < Len(b)
  PROVE  /\ Block(b, i) \in Dict
         /\ \A x \in DOMAIN Block(b, i) :
              /\ (i - 1) * BlockDocs + x \in 1..Len(b) /\ x \in Nat \ {0} /\ x <= BlockDocs
              /\ Block(b, i)[x] = b[(i - 1) * BlockDocs + x]
         /\ \A y \in 1..Len(b) : (i - 1) * BlockDocs < y /\ y <= i * BlockDocs =>
              \E x \in DOMAIN Block(b, i) : Block(b, i)[x] = b[y]
<1> DEFINE lo == (i - 1) * BlockDocs
           hi == i * BlockDocs
           up == UpToBlock(b, i)
           n == Len(b)
           D == Docs \X (Nat \ {0})
<1>0. n \in Nat /\ BlockDocs \in Nat \ {0} /\ b \in Seq(D)  BY DictIs, BoundsAssumption DEF Dict
<1>1. up = (IF hi <= n THEN hi ELSE n) /\ up \in 0..n /\ lo + 1 \in Nat \ {0}  BY UpToIs
<1>2. lo \in Nat /\ hi = lo + BlockDocs /\ lo < n  BY <1>0
<1>3. Block(b, i) = SubSeq(b, lo + 1, up)  BY DEF Block
<1> HIDE DEF D
<1>4. \A p, q \in 0..n : p < q => /\ SubSeq(b, p + 1, q) \in Seq(D) /\ Len(SubSeq(b, p + 1, q)) = q - p
                                  /\ \A x \in 1..(q - p) : SubSeq(b, p + 1, q)[x] = b[p + x]  BY <1>0
<1> HIDE DEF lo, hi, up, n
<1>5. lo \in 0..n /\ up \in 0..n /\ lo < up  BY <1>0, <1>1, <1>2
<1> DEFINE c == Block(b, i)
<1>6. c \in Seq(D) /\ Len(c) = up - lo /\ \A x \in 1..(up - lo) : c[x] = b[lo + x]  BY <1>3, <1>4, <1>5
<1> HIDE DEF c
<1>7. DOMAIN c = 1..(up - lo)  BY <1>6
<1>8. c \in Dict  BY <1>6 DEF Dict, D
<1>9. ASSUME NEW x \in DOMAIN c
      PROVE  lo + x \in 1..n /\ x \in Nat \ {0} /\ x <= BlockDocs /\ c[x] = b[lo + x]
  <2>1. x \in 1..(up - lo)  BY <1>7
  <2>2. lo + x \in 1..n /\ x \in Nat \ {0} /\ x <= BlockDocs  BY <2>1, <1>0, <1>1, <1>2, <1>5
  <2> QED  BY <2>1, <2>2, <1>6
<1>10. ASSUME NEW y \in 1..n, lo < y, y <= hi
       PROVE  \E x \in DOMAIN c : c[x] = b[y]
  <2>1. y - lo \in 1..(up - lo) /\ lo + (y - lo) = y  BY <1>10, <1>0, <1>1, <1>2, <1>5
  <2> QED  BY <2>1, <1>6, <1>7
<1> QED  BY <1>8, <1>9, <1>10 DEF c, lo, hi, n

\* A chain of blocks says what the dict says that was cut into them.
LEMMA CutSays ==
  ASSUME NEW b \in Dict, Single(b), b # <<>>, NEW n, n = (Len(b) + BlockDocs - 1) \div BlockDocs,
         NEW c, DOMAIN c = 0..(n - 1), \A i \in 0..(n - 1) : c[i] = Block(b, i + 1),
         NEW a, DOMAIN a = {0}, a[0] = b
  PROVE  n \in Nat \ {0} /\ ChainOK(c) /\ Loaded(c) = Loaded(a)
<1> DEFINE l == Len(b)
           s == BlockDocs
<1>0. l \in Nat \ {0} /\ s \in Nat \ {0} /\ DOMAIN b = 1..l  BY DictIs, BoundsAssumption
<1>1. n \in Nat \ {0} /\ (n - 1) * s < l /\ l <= n * s  BY <1>0, Parts
<1>2. ASSUME NEW i \in 0..(n - 1)
      PROVE  /\ i \in Nat /\ i + 1 \in Nat \ {0} /\ (i + 1) - 1 = i /\ i * s \in Nat
             /\ (i + 1) * s = i * s + s
             /\ c[i] \in Dict
             /\ \A x \in DOMAIN c[i] : i * s + x \in 1..l /\ x \in Nat \ {0} /\ x <= s /\ c[i][x] = b[i * s + x]
             /\ \A y \in 1..l : i * s < y /\ y <= (i + 1) * s => \E x \in DOMAIN c[i] : c[i][x] = b[y]
  <2>1. i \in Nat /\ i + 1 \in Nat \ {0} /\ (i + 1) - 1 = i /\ i <= n - 1  BY <1>1
  <2>2. i * s \in Nat /\ (i + 1) * s = i * s + s /\ (n - 1) * s \in Int  BY <2>1, <1>0, <1>1
  <2>3. i * s <= (n - 1) * s
    <3> DEFINE k == n - 1
    <3>1. i \in Int /\ k \in Int /\ i <= k /\ s \in Nat \ {0}  BY <2>1, <1>0, <1>1
    <3> HIDE DEF k, s
    <3>2. i * s <= k * s  BY <3>1, LessTimes
    <3> QED  BY <3>2 DEF k
  <2>4. i * s < l
    <3> DEFINE x == i * s
               y == (n - 1) * s
    <3>1. x \in Int /\ y \in Int /\ l \in Int /\ x <= y /\ y < l  BY <2>2, <2>3, <1>0, <1>1
    <3> HIDE DEF x, y, l
    <3>2. x < l  BY <3>1
    <3> QED  BY <3>2 DEF x
  <2>5. ((i + 1) - 1) * s < l /\ ((i + 1) - 1) * s = i * s  BY <2>1, <2>4
  <2>6. c[i] = Block(b, i + 1)  OBVIOUS
  <2> HIDE DEF l, s
  <2>7. /\ Block(b, i + 1) \in Dict
        /\ \A x \in DOMAIN Block(b, i + 1) :
              /\ i * s + x \in 1..l /\ x \in Nat \ {0} /\ x <= s
              /\ Block(b, i + 1)[x] = b[i * s + x]
        /\ \A y \in 1..l : i * s < y /\ y <= (i + 1) * s =>
              \E x \in DOMAIN Block(b, i + 1) : Block(b, i + 1)[x] = b[y]
    <3> DEFINE j == i + 1
    <3>1. j \in Nat \ {0} /\ (j - 1) * s < l /\ (j - 1) * s = i * s  BY <2>1, <2>5
    <3> HIDE DEF j
    <3>2. /\ Block(b, j) \in Dict
          /\ \A x \in DOMAIN Block(b, j) :
                /\ (j - 1) * s + x \in 1..l /\ x \in Nat \ {0} /\ x <= s
                /\ Block(b, j)[x] = b[(j - 1) * s + x]
          /\ \A y \in 1..l : (j - 1) * s < y /\ y <= j * s =>
                \E x \in DOMAIN Block(b, j) : Block(b, j)[x] = b[y]  BY <3>1, BlockIs DEF l, s
    <3>3. /\ Block(b, j) \in Dict
          /\ \A x \in DOMAIN Block(b, j) :
                /\ i * s + x \in 1..l /\ x \in Nat \ {0} /\ x <= s
                /\ Block(b, j)[x] = b[i * s + x]
          /\ \A y \in 1..l : i * s < y /\ y <= j * s =>
                \E x \in DOMAIN Block(b, j) : Block(b, j)[x] = b[y]  BY <3>1, <3>2, ZenonT(40)
    <3> QED  BY <3>3 DEF j
  <2> QED  BY <2>1, <2>2, <2>6, <2>7
<1> HIDE DEF l, s
<1>3. ASSUME NEW y \in 1..l
      PROVE  \E i \in 0..(n - 1) : i * s < y /\ y <= (i + 1) * s /\ \E x \in DOMAIN c[i] : c[i][x] = b[y]
  <2> DEFINE i == (y - 1) \div s
             j == i + 1
  <2>1. j \in Nat \ {0} /\ (j - 1) * s < y /\ y <= j * s
    <3>1. y \in Nat \ {0} /\ s \in Nat \ {0}  BY <1>0
    <3>2. j = ((y - 1) \div s) + 1  OBVIOUS
    <3> HIDE DEF j
    <3> QED  BY <3>1, <3>2, InPart
  <2>2. i \in Nat /\ j - 1 = i  BY <1>0
  <2> HIDE DEF i
  <2>3. i * s < y /\ y <= (i + 1) * s  BY <2>1, <2>2
  <2>4. i * s < n * s
    <3> DEFINE p == i * s
               q == n * s
    <3>1. p \in Int /\ q \in Int /\ p < y /\ y <= l /\ l <= q /\ y \in Int /\ l \in Int
      BY <2>2, <2>3, <1>0, <1>1
    <3> HIDE DEF p, q
    <3>2. p < q  BY <3>1
    <3> QED  BY <3>2 DEF p, q
  <2>5. i < n
    <3>1. i \in Int /\ n \in Int /\ s \in Nat \ {0}  BY <2>2, <1>0, <1>1
    <3>2. i * s < n * s => i < n  BY <3>1, LessTimes
    <3> QED  BY <3>2, <2>4
  <2>6. i \in 0..(n - 1)  BY <2>2, <2>5, <1>1
  <2> QED  BY <2>3, <2>6, <1>2
<1>4. \A x, y \in 1..l : b[x][1] = b[y][1] => x = y  BY <1>0 DEF Single
<1>5. ASSUME NEW i \in 0..(n - 1) PROVE Single(c[i])
  <2> SUFFICES ASSUME NEW x \in DOMAIN c[i], NEW y \in DOMAIN c[i], c[i][x][1] = c[i][y][1]
               PROVE  x = y  BY DEF Single
  <2> DEFINE k == i * s
  <2>1. k \in Nat /\ k + x \in 1..l /\ k + y \in 1..l /\ x \in Nat /\ y \in Nat  BY <1>2
  <2>2. c[i][x] = b[k + x] /\ c[i][y] = b[k + y]  BY <1>2
  <2> HIDE DEF k
  <2>3. k + x = k + y  BY <2>1, <2>2, <1>4
  <2> QED  BY <2>1, <2>3
<1>6. ChainOK(c)
  <2>1. n - 1 \in Nat  BY <1>1
  <2>2. \E k \in Nat : DOMAIN c \subseteq 0..k  BY <2>1
  <2> QED  BY <2>2, <1>2, <1>5 DEF ChainOK
<1>7. ASSUME NEW i \in 0..(n - 1), NEW d, d \in DictDocs(c[i])
      PROVE  \E y \in 1..l : b[y][1] = d /\ i * s < y /\ y <= (i + 1) * s
  <2>1. c[i] \in Dict  BY <1>2
  <2>2. PICK x \in DOMAIN c[i] : c[i][x][1] = d  BY <1>7 DEF DictDocs
  <2> DEFINE k == i * s
             y == k + x
  <2>3. y \in 1..l /\ x \in Nat \ {0} /\ x <= s /\ c[i][x] = b[y] /\ k \in Nat  BY <1>2
  <2>4. (i + 1) * s = k + s  BY <1>2
  <2> HIDE DEF k
  <2>5. k < y /\ y <= k + s  BY <2>3, <1>0
  <2> QED  BY <2>2, <2>3, <2>4, <2>5 DEF k
<1>8. ASSUME NEW i \in 0..(n - 1), NEW j \in 0..(n - 1), NEW y \in 1..l,
             i * s < y, y <= (i + 1) * s, j * s < y, y <= (j + 1) * s
      PROVE  i = j
  <2> DEFINE u == i + 1
             v == j + 1
  <2>1. u \in Nat \ {0} /\ v \in Nat \ {0} /\ u - 1 = i /\ v - 1 = j /\ y \in Nat  BY <1>2, <1>0
  <2>2. (u - 1) * s < y /\ y <= u * s /\ (v - 1) * s < y /\ y <= v * s  BY <2>1, <1>8
  <2> HIDE DEF u, v
  <2>3. u = v  BY <2>1, <2>2, <1>0, OnePart
  <2> QED  BY <2>1, <2>3
<1> DEFINE f == Loaded(a)
<1>9. ChainOK(a)
  <2>1. 0 \in Nat /\ DOMAIN a \subseteq 0..0  OBVIOUS
  <2> QED  BY <2>1 DEF ChainOK
<1>10. /\ IsFcn(f) /\ (\A d : d \in DOMAIN f <=> Names(a, d)) /\ \A d \in DOMAIN f : Says(a, d, f[d])
  BY <1>9, LoadedIs
<1> HIDE DEF f
<1>11. ASSUME NEW d, Names(c, d) PROVE d \in DOMAIN f
  <2>1. PICK i \in 0..(n - 1) : d \in DictDocs(c[i])  BY <1>11 DEF Names
  <2>2. PICK y \in 1..l : b[y][1] = d  BY <2>1, <1>7
  <2>3. d \in DictDocs(b)  BY <2>2, <1>0 DEF DictDocs
  <2>4. Names(a, d)  BY <2>3 DEF Names
  <2> QED  BY <2>4, <1>10
<1>12. ASSUME NEW d \in DOMAIN f PROVE Says(c, d, f[d])
  <2>1. Says(a, d, f[d])  BY <1>10
  <2>2. Has(b, d, f[d])  BY <2>1 DEF Says
  <2>3. PICK y \in 1..l : b[y] = <<d, f[d]>>  BY <2>2, <1>0 DEF Has
  <2>4. PICK i \in 0..(n - 1) : i * s < y /\ y <= (i + 1) * s /\ \E x \in DOMAIN c[i] : c[i][x] = b[y]
    BY <1>3
  <2>5. Has(c[i], d, f[d])  BY <2>3, <2>4 DEF Has
  <2>6. ASSUME NEW j \in 0..(n - 1), j > i, d \in DictDocs(c[j]) PROVE FALSE
    <3>1. PICK z \in 1..l : b[z][1] = d /\ j * s < z /\ z <= (j + 1) * s  BY <2>6, <1>7
    <3>2. b[y][1] = d  BY <2>3
    <3>3. z = y  BY <3>1, <3>2, <1>4
    <3>4. i = j  BY <3>1, <3>3, <2>4, <1>8
    <3> QED  BY <3>4, <2>6, <1>2
  <2> QED  BY <2>5, <2>6 DEF Says
<1>13. Loaded(c) = f  BY <1>6, <1>10, <1>11, <1>12, LoadedAs
<1> QED  BY <1>1, <1>6, <1>13 DEF f

----
(* What writes make of a map, key by key.                                  *)

LEMMA PostWriteIs ==
  ASSUME NEW w \in PostWrites
  PROVE  /\ w.key \in Keys
         /\ \/ w.kind = "put" /\ w = Put("index", w.key, w.val)
            \/ w.kind = "del" /\ w = Del("index", w.key)  BY DEF PostWrites, IndexWrite

LEMMA AfterWrite ==
  ASSUME NEW m, NEW w \in PostWrites
  PROVE  Written(After(m, w), w) /\ \A k : k # w.key => SameAt(After(m, w), m, k)
<1> DEFINE f == After(m, w)
           x == w.key
           y == w.val
<1>1. CASE w.kind = "put"
  <2>1. f = With(m, x, y)  BY <1>1 DEF After
  <2> HIDE DEF x, y, f
  <2>2. DOMAIN f = DOMAIN m \cup {x} /\ f[x] = y /\ \A j \in DOMAIN m : j # x => f[j] = m[j]  BY <2>1 DEF With
  <2>3. \A k : k # x => SameAt(f, m, k)  BY <2>2 DEF SameAt
  <2>4. Written(f, w)  BY <1>1, <2>2 DEF Written, x, y
  <2> QED  BY <2>3, <2>4 DEF f, x
<1>2. CASE w.kind = "del"
  <2>1. f = Without(m, x)  BY <1>2 DEF After
  <2> HIDE DEF x, y, f
  <2>2. DOMAIN f = DOMAIN m \ {x} /\ \A j \in DOMAIN m : j # x => f[j] = m[j]  BY <2>1 DEF Without, Restrict
  <2>3. \A k : k # x => SameAt(f, m, k)  BY <2>2 DEF SameAt
  <2>4. Written(f, w)  BY <1>2, <2>2 DEF Written, x, y
  <2> QED  BY <2>3, <2>4 DEF f, x
<1> QED  BY <1>1, <1>2, PostWriteIs

LEMMA AfterDistinct ==
  ASSUME NEW m, IndexMap(m), NEW ws \in Seq(PostWrites), Distinct(ws)
  PROVE  /\ \A i \in 1..Len(ws) : Written(AfterAll(m, ws), ws[i])
         /\ \A k : (\A i \in 1..Len(ws) : ws[i].key # k) => SameAt(AfterAll(m, ws), m, k)
<1> DEFINE n == Len(ws)
           X == MapsOf(Keys, Values(m))
<1>1. PICK v \in [0..n -> X] : Runs(v, m, ws) /\ AfterAll(m, ws) = v[n]  BY InMaps, AfterAllRuns
<1>2. n \in Nat /\ \A i \in 1..n : ws[i] \in PostWrites  OBVIOUS
<1>3. v[0] = m /\ \A i \in 1..n : v[i] = After(v[i - 1], ws[i])  BY <1>1 DEF Runs
<1>d. \A i, j \in 1..n : ws[i].key = ws[j].key => i = j  BY DEF Distinct
<1> HIDE DEF n, X
<1> DEFINE A(i) == /\ \A j \in 1..i : Written(v[i], ws[j])
                   /\ \A k : (\A j \in 1..i : ws[j].key # k) => SameAt(v[i], m, k)
           S == {i \in 0..n : A(i)}
<1>4. 0 \in S  BY <1>2, <1>3 DEF SameAt
<1>5. ASSUME NEW i \in 0..n, i < n, i \in S PROVE i + 1 \in S
  <2> DEFINE h == i + 1
             w == ws[h]
             f == v[h]
             g == v[i]
  <2>1. h \in 1..n /\ h - 1 = i /\ h \in 0..n /\ \A j \in 1..h : j = h \/ (j \in 1..i /\ j # h)  BY <1>2, <1>5
  <2>a. h \in 1..h /\ \A j \in 1..i : j \in 1..n /\ j \in 1..h  BY <1>2
  <2>2. f = After(g, w) /\ w \in PostWrites  BY <1>2, <1>3, <2>1
  <2>3. Written(f, w) /\ \A k : k # w.key => SameAt(f, g, k)  BY <2>2, AfterWrite
  <2>4. A(i)  BY <1>5
  <2> HIDE DEF f, g, h
  <2>5. ASSUME NEW j \in 1..h PROVE Written(f, ws[j])
    <3>1. CASE j = h  BY <3>1, <2>3
    <3>2. CASE j # h
      <4>1. j \in 1..i /\ j \in 1..n  BY <2>1, <2>a, <3>2
      <4>2. Written(g, ws[j])  BY <4>1, <2>4 DEF g
      <4>3. ws[j].key # w.key  BY <4>1, <2>1, <3>2, <1>d
      <4>4. SameAt(f, g, ws[j].key)  BY <4>3, <2>3
      <4> DEFINE u == ws[j]
      <4>5. Written(g, u) /\ SameAt(f, g, u.key)  BY <4>2, <4>4
      <4> HIDE DEF u
      <4>6. Written(f, u)  BY <4>5 DEF Written, SameAt
      <4> QED  BY <4>6 DEF u
    <3> QED  BY <3>1, <3>2
  <2>6. ASSUME NEW k, \A j \in 1..h : ws[j].key # k PROVE SameAt(f, m, k)
    <3>1. k # w.key /\ \A j \in 1..i : ws[j].key # k  BY <2>6, <2>a
    <3>2. SameAt(f, g, k) /\ SameAt(g, m, k)  BY <3>1, <2>3, <2>4 DEF g
    <3> QED  BY <3>2 DEF SameAt
  <2>7. A(h)  BY <2>5, <2>6 DEF f
  <2> HIDE DEF A
  <2>8. h \in S  BY <2>1, <2>7
  <2> QED  BY <2>8 DEF h
<1> HIDE DEF S
<1>6. n \in S
  <2>1. \A i \in 0..n : i \in S  BY <1>2, <1>4, <1>5, UpTo
  <2> QED  BY <2>1, <1>2
<1> QED  BY <1>1, <1>6 DEF S, n

----
(* The postings of a term in a map.                                        *)

LEMMA ChainedIs ==
  ASSUME NEW m, IndexMap(m), NEW t \in Terms, NEW n \in Nat \ {0}, Chained(m, t, n)
  PROVE  /\ BlocksOf(m, t) = 0..(n - 1)
         /\ Dicts(m, t) = Chain(m, t, n)
<1>1. BlocksOf(m, t) = {i \in Nat : BlockKey(t, i) \in DOMAIN m}  BY BlocksAre
<1>2. BlocksOf(m, t) = 0..(n - 1)  BY <1>1 DEF Chained
<1>3. 0 \in 0..(n - 1)  OBVIOUS
<1> QED  BY <1>2, <1>3, Zenon DEF Dicts, Chained, Chain

LEMMA UnchainedIs ==
  ASSUME NEW m, IndexMap(m), NEW t \in Terms, Unchained(m, t)
  PROVE  BlocksOf(m, t) = {} /\ Dicts(m, t) = [i \in {0} |-> At(m, BlobKey(t), <<>>)]
<1>1. BlocksOf(m, t) = {i \in Nat : BlockKey(t, i) \in DOMAIN m}  BY BlocksAre
<1>2. BlocksOf(m, t) = {}  BY <1>1 DEF Unchained
<1> QED  BY <1>2 DEF Dicts, Unchained

LEMMA LaidIs ==
  ASSUME NEW m, IndexMap(m), NEW t \in Terms
  PROVE  LaidOut(m, t) <=>
           /\ (\E n \in Nat \ {0} : Chained(m, t, n)) \/ Unchained(m, t)
           /\ ChainOK(Dicts(m, t)) /\ Filled(m, t)
<1> DEFINE c == Dicts(m, t)
           Tidy == \A i \in DOMAIN c : Single(c[i])
           Shape == (\E n \in Nat \ {0} : Chained(m, t, n)) \/ Unchained(m, t)
<1>1. LaidOut(m, t) <=>
        /\ HeaderKey(t) \in DOMAIN m => BlobKey(t) \notin DOMAIN m /\ BlocksOf(m, t) = 0..(m[HeaderKey(t)] - 1)
        /\ HeaderKey(t) \notin DOMAIN m => BlocksOf(m, t) = {}
        /\ Tidy /\ Filled(m, t)  BY DEF LaidOut, Single, Filled
<1>2. BlocksOf(m, t) = {i \in Nat : BlockKey(t, i) \in DOMAIN m}  BY BlocksAre
<1>3. HeaderKey(t) \in DOMAIN m => m[HeaderKey(t)] \in Nat \ {0}  BY ValueAt
<1>4. ASSUME LaidOut(m, t) PROVE Shape /\ ChainOK(c)
  <2>1. CASE HeaderKey(t) \in DOMAIN m
    <3> DEFINE n == m[HeaderKey(t)]
    <3>1. n \in Nat \ {0} /\ BlocksOf(m, t) = 0..(n - 1) /\ BlobKey(t) \notin DOMAIN m
      BY <1>1, <1>3, <1>4, <2>1
    <3> HIDE DEF n
    <3>2. \A i \in Nat : BlockKey(t, i) \in DOMAIN m <=> i < n  BY <3>1, <1>2
    <3>3. Chained(m, t, n)  BY <2>1, <3>1, <3>2 DEF Chained, n
    <3>4. c = [i \in 0..(n - 1) |-> m[BlockKey(t, i)]]  BY <3>1, <3>3, ChainedIs DEF Chain
    <3>5. \A i \in 0..(n - 1) : c[i] \in Dict /\ i \in Nat  BY <3>1, <3>4, BlocksAre
    <3>6. DOMAIN c = 0..(n - 1) /\ n - 1 \in Nat  BY <3>1, <3>4
    <3>7. Tidy  BY <1>1, <1>4
    <3> HIDE DEF c
    <3>8. ChainOK(c)  BY <3>5, <3>6, <3>7 DEF ChainOK
    <3> QED  BY <3>1, <3>3, <3>8
  <2>2. CASE HeaderKey(t) \notin DOMAIN m
    <3>1. Unchained(m, t)
      <4>1. BlocksOf(m, t) = {}  BY <1>1, <1>4, <2>2
      <4> QED  BY <4>1, <1>2, <2>2 DEF Unchained
    <3>2. c = [i \in {0} |-> At(m, BlobKey(t), <<>>)]  BY <3>1, UnchainedIs
    <3>3. At(m, BlobKey(t), <<>>) \in Dict  BY ValueAt
    <3>4. Tidy  BY <1>1, <1>4
    <3>5. DOMAIN c = {0} /\ c[0] \in Dict /\ 0 \in Nat /\ {0} \subseteq 0..0  BY <3>2, <3>3
    <3> HIDE DEF c
    <3>6. ChainOK(c)  BY <3>4, <3>5 DEF ChainOK
    <3> QED  BY <3>1, <3>6
  <2> QED  BY <2>1, <2>2
<1>5. ASSUME Shape, ChainOK(c), Filled(m, t) PROVE LaidOut(m, t)
  <2>1. Tidy  BY <1>5 DEF ChainOK
  <2>2. CASE Unchained(m, t)  BY <1>1, <1>5, <2>1, <2>2, UnchainedIs DEF Unchained
  <2>3. ASSUME NEW n \in Nat \ {0}, Chained(m, t, n) PROVE LaidOut(m, t)
    <3>1. BlocksOf(m, t) = 0..(n - 1)  BY <2>3, ChainedIs
    <3> QED  BY <1>1, <1>5, <2>1, <2>3, <3>1, Zenon DEF Chained
  <2> QED  BY <1>5, <2>2, <2>3
<1> QED  BY <1>1, <1>4, <1>5

LEMMA SameTermIs ==
  ASSUME NEW f, NEW m, IndexMap(f), IndexMap(m), NEW t \in Terms, SameTerm(f, m, t)
  PROVE  LoadPostings(f, t) = LoadPostings(m, t) /\ (LaidOut(m, t) => LaidOut(f, t))
<1>1. BlocksOf(f, t) = BlocksOf(m, t)
  <2>1. /\ BlocksOf(f, t) = {i \in Nat : BlockKey(t, i) \in DOMAIN f}
        /\ BlocksOf(m, t) = {i \in Nat : BlockKey(t, i) \in DOMAIN m}  BY BlocksAre
  <2> QED  BY <2>1 DEF SameTerm, SameAt
<1>2. \A i \in BlocksOf(m, t) : f[BlockKey(t, i)] = m[BlockKey(t, i)]
  <2>1. BlocksOf(m, t) = {i \in Nat : BlockKey(t, i) \in DOMAIN m}  BY BlocksAre
  <2> QED  BY <2>1 DEF SameTerm, SameAt
<1>3. /\ HeaderKey(t) \in DOMAIN f <=> HeaderKey(t) \in DOMAIN m
      /\ BlobKey(t) \in DOMAIN f <=> BlobKey(t) \in DOMAIN m
      /\ HeaderKey(t) \in DOMAIN m => f[HeaderKey(t)] = m[HeaderKey(t)]
      /\ At(f, BlobKey(t), <<>>) = At(m, BlobKey(t), <<>>)  BY DEF SameTerm, SameAt, At
<1>4. Dicts(f, t) = Dicts(m, t)
  <2>1. CASE HeaderKey(t) \in DOMAIN m /\ BlocksOf(m, t) # {}
    <3>1. /\ Dicts(f, t) = [i \in BlocksOf(m, t) |-> f[BlockKey(t, i)]]
          /\ Dicts(m, t) = [i \in BlocksOf(m, t) |-> m[BlockKey(t, i)]]  BY <2>1, <1>1, <1>3 DEF Dicts
    <3> QED  BY <3>1, <1>2
  <2>2. CASE ~ (HeaderKey(t) \in DOMAIN m /\ BlocksOf(m, t) # {})
    <3>1. /\ Dicts(f, t) = [i \in {0} |-> At(f, BlobKey(t), <<>>)]
          /\ Dicts(m, t) = [i \in {0} |-> At(m, BlobKey(t), <<>>)]  BY <2>2, <1>1, <1>3 DEF Dicts
    <3> QED  BY <3>1, <1>3
  <2> QED  BY <2>1, <2>2
<1>5. LoadPostings(f, t) = LoadPostings(m, t)  BY <1>4, LoadIs
<1> QED  BY <1>1, <1>3, <1>4, <1>5, Zenon DEF LaidOut

----
(* A document is posted under a term.                                      *)

LEMMA KeysDiffer ==
  ASSUME NEW t \in Terms
  PROVE  /\ HeaderKey(t) # BlobKey(t)
         /\ \A i \in Nat : BlockKey(t, i) # HeaderKey(t) /\ BlockKey(t, i) # BlobKey(t)
         /\ \A i, j \in Nat : BlockKey(t, i) = BlockKey(t, j) => i = j
<1>1. HeaderKey(t) # BlobKey(t)
  <2>1. HeaderKey(t)[2] = "header" /\ BlobKey(t)[2] = "blob"  BY KeysAre
  <2> QED  BY <2>1
<1>2. ASSUME NEW i \in Nat PROVE BlockKey(t, i) # HeaderKey(t) /\ BlockKey(t, i) # BlobKey(t)
  <2>1. HeaderKey(t)[2] = "header" /\ BlobKey(t)[2] = "blob" /\ BlockKey(t, i)[2] = "block"  BY KeysAre
  <2> QED  BY <2>1
<1>3. ASSUME NEW i \in Nat, NEW j \in Nat, BlockKey(t, i) = BlockKey(t, j) PROVE i = j
  <2>1. BlockKey(t, i)[3] = i /\ BlockKey(t, j)[3] = j  BY KeysAre
  <2> QED  BY <2>1, <1>3
<1> QED  BY <1>1, <1>2, <1>3

\* One dict with one entry.
LEMMA OneEntry ==
  ASSUME NEW d \in Docs, NEW v \in Nat \ {0}
  PROVE  LET b == <<<<d, v>>>> IN b \in Dict /\ Single(b) /\ \A e, w : Has(b, e, w) <=> e = d /\ w = v
<1> DEFINE b == <<<<d, v>>>>
<1>1. b \in Dict  BY DEF Dict
<1>2. DOMAIN b = {1} /\ b[1] = <<d, v>>  OBVIOUS
<1> HIDE DEF b
<1>3. Single(b) /\ \A e, w : Has(b, e, w) <=> e = d /\ w = v  BY <1>2 DEF Single, Has
<1> QED  BY <1>1, <1>3 DEF b

LEMMA DomainWith ==
  ASSUME NEW f, NEW d, NEW v
  PROVE  DOMAIN With(f, d, v) # {}  BY DEF With

LEMMA AddBlock ==
  ASSUME NEW m, IndexMap(m), NEW t \in Terms, LaidOut(m, t), NEW d \in Docs, NEW v \in Nat \ {0},
         NEW n \in Nat \ {0}, Chained(m, t, n), NEW f,
         f = AfterAll(m, <<Put("index", BlockKey(t, n), <<<<d, v>>>>), Put("index", HeaderKey(t), n + 1)>>)
  PROVE  Changed(f, m, t, With(LoadPostings(m, t), d, v))
<1> DEFINE x == BlockKey(t, n)
           h == HeaderKey(t)
           b == <<<<d, v>>>>
           p == Put("index", x, b)
           q == Put("index", h, n + 1)
           ws == <<p, q>>
<1>1. b \in Dict /\ Single(b) /\ \A e, w : Has(b, e, w) <=> e = d /\ w = v  BY OneEntry
<1> HIDE DEF b
<1>2. p \in PostWrites /\ q \in PostWrites
  <2>1. n + 1 \in Nat /\ n + 1 # 0  OBVIOUS
  <2> QED  BY <1>1, <2>1, OnePut
<1>3. /\ p.kind = "put" /\ p.key = x /\ p.val = b
      /\ q.kind = "put" /\ q.key = h /\ q.val = n + 1  BY DEF Put
<1>4. x # h /\ x # BlobKey(t) /\ h # BlobKey(t) /\ \A i \in 0..(n - 1) : BlockKey(t, i) # x /\ BlockKey(t, i) # h
  <2>1. \A i \in 0..(n - 1) : i \in Nat /\ i # n  OBVIOUS
  <2> QED  BY <2>1, KeysDiffer
<1>5. x[1] = t /\ h[1] = t  BY KeysAre
<1> HIDE DEF p, q, x, h
<1>6. ws \in Seq(PostWrites) /\ Len(ws) = 2 /\ ws[1] = p /\ ws[2] = q  BY <1>2
<1>7. Distinct(ws)  BY <1>3, <1>4, <1>6 DEF Distinct
<1>8. f = AfterAll(m, ws)  BY DEF b, p, q, x, h
<1> HIDE DEF ws
<1>9. \A i \in 1..2 : Written(f, ws[i])  BY <1>6, <1>7, <1>8, AfterDistinct
<1>10. \A k : (\A i \in 1..Len(ws) : ws[i].key # k) => SameAt(f, m, k)  BY <1>6, <1>7, <1>8, AfterDistinct
<1>11. \A k : k # x /\ k # h => SameAt(f, m, k)
  <2>1. \A k, i : k # x /\ k # h /\ i \in 1..Len(ws) => ws[i].key # k  BY <1>3, <1>6
  <2> QED  BY <1>10, <2>1
<1>12. x \in DOMAIN f /\ f[x] = b /\ h \in DOMAIN f /\ f[h] = n + 1  BY <1>3, <1>6, <1>9 DEF Written
<1>13. IndexMap(f)  BY <1>6, <1>8, AfterAllTyped
<1>14. Chained(f, t, n + 1)
  <2>1. BlobKey(t) \notin DOMAIN f  BY <1>4, <1>11 DEF SameAt, Chained
  <2>2. ASSUME NEW i \in Nat PROVE BlockKey(t, i) \in DOMAIN f <=> i < n + 1
    <3>1. CASE i = n  BY <3>1, <1>12 DEF x
    <3>2. CASE i # n
      <4>1. BlockKey(t, i) # x /\ BlockKey(t, i) # h  BY <3>2, KeysDiffer DEF x, h
      <4>2. BlockKey(t, i) \in DOMAIN f <=> i < n  BY <4>1, <1>11 DEF SameAt, Chained
      <4> QED  BY <3>2, <4>2
    <3> QED  BY <3>1, <3>2
  <2> QED  BY <1>12, <2>1, <2>2 DEF Chained, h
<1> DEFINE c == Dicts(m, t)
           e == Dicts(f, t)
<1>15. c = [i \in 0..(n - 1) |-> m[BlockKey(t, i)]] /\ ChainOK(c)  BY ChainedIs, LaidIs DEF Chain
<1>16. e = [i \in 0..n |-> f[BlockKey(t, i)]]
  <2>1. n + 1 \in Nat \ {0} /\ (n + 1) - 1 = n  OBVIOUS
  <2> QED
    <3> DEFINE l == n + 1
    <3> HIDE DEF l
    <3>1. Chained(f, t, l) /\ l \in Nat \ {0} /\ l - 1 = n  BY <1>14, <2>1 DEF l
    <3>2. e = Chain(f, t, l)  BY <1>13, <3>1, ChainedIs
    <3> QED  BY <3>1, <3>2 DEF Chain
<1>17. DOMAIN c = 0..(n - 1) /\ DOMAIN e = 0..n /\ e[n] = b /\ n \in 0..n  BY <1>12, <1>15, <1>16 DEF x
<1>18. \A i \in 0..(n - 1) : e[i] = c[i]
  <2> SUFFICES ASSUME NEW i \in 0..(n - 1) PROVE e[i] = c[i]  OBVIOUS
  <2> DEFINE y == BlockKey(t, i)
  <2>1. e[i] = f[y] /\ c[i] = m[y] /\ y \in DOMAIN m
    <3>1. i \in Nat /\ i < n /\ i \in 0..n  OBVIOUS
    <3>2. y \in DOMAIN m  BY <3>1 DEF Chained
    <3> QED  BY <3>1, <3>2, <1>15, <1>16
  <2>2. SameAt(f, m, y)  BY <1>4, <1>11
  <2> HIDE DEF y, c, e
  <2> QED  BY <2>1, <2>2 DEF SameAt
<1> HIDE DEF c, e
<1>19. OthersSame(e, c, n, d)
  <2>1. n \notin DOMAIN c  BY <1>17
  <2> QED  BY <2>1, <1>1, <1>17 DEF OthersSame
<1>20. ChainOK(e) /\ Loaded(e) = With(Loaded(c), d, v)
  <2>1. e[n] \in Dict /\ Single(e[n]) /\ Has(e[n], d, v)  BY <1>1, <1>17
  <2>2. DOMAIN c \in {0..n, 0..(n - 1)} /\ n \in Nat  BY <1>17
  <2>3. ChainOK(c) /\ DOMAIN e = 0..n  BY <1>15, <1>17
  <2>4. Later(e, c, n, d, v)  BY <2>1, <2>2, <2>3, <1>18, <1>19 DEF Later
  <2> QED  BY <2>4, LaterSays
<1>21. LoadPostings(f, t) = With(LoadPostings(m, t), d, v)  BY <1>20, LoadIs DEF c, e
<1>22. LaidOut(f, t)
  <2>1. Filled(f, t)  BY <1>12, <1>21, DomainWith DEF Filled, h
  <2>2. n + 1 \in Nat \ {0}  OBVIOUS
  <2> QED  BY <1>13, <1>14, <1>20, <2>1, <2>2, LaidIs DEF e
<1>23. \A k : k[1] # t => SameAt(f, m, k)  BY <1>5, <1>11
<1> QED  BY <1>13, <1>21, <1>22, <1>23 DEF Changed

LEMMA AfterPost ==
  ASSUME NEW m, IndexMap(m), NEW w \in PostWrites
  PROVE  AfterAll(m, <<w>>) = After(m, w)
<1> DEFINE W == WritesOf(Keys, Values(m))
           ws == <<w>>
<1>1. ws \in Seq(PostWrites) /\ Len(ws) = 1 /\ ws[1] = w  OBVIOUS
<1> HIDE DEF ws
<1>2. m \in MapsOf(Keys, Values(m)) /\ ws \in Seq(W)  BY <1>1, InMaps
<1>3. w \in W
  <2> HIDE DEF W
  <2>1. \A i \in 1..Len(ws) : ws[i] \in W  BY <1>2
  <2> QED  BY <2>1, <1>1
<1>4. AfterAll(m, <<w>>) = After(m, w)  BY <1>2, <1>3, AfterOne
<1> QED  BY <1>4

LEMMA SetInBlock ==
  ASSUME NEW m, IndexMap(m), NEW t \in Terms, LaidOut(m, t), NEW d \in Docs, NEW v \in Nat \ {0},
         NEW n \in Nat \ {0}, Chained(m, t, n), NEW k, k = n - 1, NEW f,
         f = AfterAll(m, <<Put("index", BlockKey(t, k), DictSet(m[BlockKey(t, k)], d, v))>>)
  PROVE  Changed(f, m, t, With(LoadPostings(m, t), d, v))
<1> DEFINE x == BlockKey(t, k)
           b == DictSet(m[x], d, v)
           p == Put("index", x, b)
           c == Dicts(m, t)
           e == Dicts(f, t)
<1>0. k \in Nat /\ k < n /\ n = k + 1  OBVIOUS
<1>1. c = [i \in 0..k |-> m[BlockKey(t, i)]] /\ ChainOK(c)  BY ChainedIs, LaidIs DEF Chain
<1>2. DOMAIN c = 0..k /\ k \in 0..k /\ c[k] = m[x]  BY <1>0, <1>1
<1> HIDE DEF c
<1>3. m[x] \in Dict /\ Single(m[x])  BY <1>1, <1>2 DEF ChainOK
<1>4. /\ b \in Dict /\ Single(b) /\ Has(b, d, v)
      /\ \A i, w : i # d => (Has(b, i, w) <=> Has(m[x], i, w))  BY <1>3, DictSetHas
<1> HIDE DEF b
<1>5. p \in PostWrites  BY <1>0, <1>4, OnePut
<1>6. f = After(m, p)
  <2>1. f = AfterAll(m, <<p>>)  BY DEF b
  <2> HIDE DEF p
  <2> QED  BY <2>1, <1>5, AfterPost
<1>7. p.kind = "put" /\ p.key = x /\ p.val = b  BY DEF Put
<1>8. x[1] = t  BY <1>0, KeysAre
<1> HIDE DEF p
<1>9. Written(f, p) /\ \A y : y # x => SameAt(f, m, y)  BY <1>5, <1>6, <1>7, AfterWrite
<1>10. x \in DOMAIN f /\ f[x] = b  BY <1>7, <1>9 DEF Written
<1>11. IndexMap(f)  BY <1>5, <1>6, AfterTyped DEF PostWrites
<1>12. Chained(f, t, n)
  <2>1. HeaderKey(t) # x /\ BlobKey(t) # x  BY <1>0, KeysDiffer
  <2>2. SameAt(f, m, HeaderKey(t)) /\ SameAt(f, m, BlobKey(t))  BY <1>9, <2>1
  <2>3. ASSUME NEW i \in Nat PROVE BlockKey(t, i) \in DOMAIN f <=> i < n
    <3>1. CASE i = k  BY <3>1, <1>0, <1>10
    <3>2. CASE i # k
      <4>1. BlockKey(t, i) # x  BY <3>2, <1>0, KeysDiffer
      <4> QED  BY <4>1, <1>9 DEF SameAt, Chained
    <3> QED  BY <3>1, <3>2
  <2> QED  BY <2>2, <2>3 DEF Chained, SameAt
<1>13. e = [i \in 0..k |-> f[BlockKey(t, i)]]  BY <1>11, <1>12, ChainedIs DEF Chain
<1>14. DOMAIN e = 0..k /\ e[k] = b  BY <1>2, <1>10, <1>13
<1>15. \A i \in 0..(k - 1) : e[i] = c[i]
  <2> SUFFICES ASSUME NEW i \in 0..(k - 1) PROVE e[i] = c[i]  OBVIOUS
  <2> DEFINE y == BlockKey(t, i)
  <2>1. i \in Nat /\ i < n /\ i \in 0..k /\ i # k  BY <1>0
  <2>2. y \in DOMAIN m /\ y # x  BY <2>1, <1>0, KeysDiffer DEF Chained
  <2>3. e[i] = f[y] /\ c[i] = m[y]  BY <2>1, <1>1, <1>13
  <2>4. SameAt(f, m, y)  BY <2>2, <1>9
  <2> HIDE DEF y, e
  <2> QED  BY <2>2, <2>3, <2>4 DEF SameAt
<1> HIDE DEF e, x
<1>16. OthersSame(e, c, k, d)  BY <1>2, <1>4, <1>14 DEF OthersSame
<1>17. Later(e, c, k, d, v)  BY <1>0, <1>1, <1>2, <1>4, <1>14, <1>15, <1>16 DEF Later
<1>18. ChainOK(e) /\ Loaded(e) = With(Loaded(c), d, v)  BY <1>17, LaterSays
<1>19. LoadPostings(f, t) = With(LoadPostings(m, t), d, v)  BY <1>18, LoadIs DEF c, e
<1>20. LaidOut(f, t)
  <2>1. Filled(f, t)  BY <1>12, <1>19, DomainWith DEF Filled, Chained
  <2> QED  BY <1>11, <1>12, <1>18, <2>1, LaidIs DEF e
<1>21. \A y : y[1] # t => SameAt(f, m, y)  BY <1>8, <1>9
<1> QED  BY <1>11, <1>19, <1>20, <1>21 DEF Changed

LEMMA JoinedAt ==
  ASSUME NEW A, NEW x \in Seq(A), NEW y \in Seq(A)
  PROVE  x \o y \in Seq(A) /\ JoinOf(x \o y, x, y, Len(x), Len(y))  BY DEF JoinOf

LEMMA CutWrites ==
  ASSUME NEW m, NEW t \in Terms, NEW blk \in Dict, NEW n \in Nat \ {0},
         \A i \in 1..n : Block(blk, i) \in Dict,
         NEW ws, ws = Parted(t, blk, n) \o <<Put("index", HeaderKey(t), n)>> \o NoBlob(m, t)
  PROVE  CutPlan(ws, m, t, blk, n)
<1> DEFINE p == Parted(t, blk, n)
           h == Put("index", HeaderKey(t), n)
           x == Del("index", BlobKey(t))
           q == NoBlob(m, t)
           part(j) == Put("index", BlockKey(t, j - 1), Block(blk, j))
           B == BlobKey(t) \in DOMAIN m
<1>1. \A j \in 1..n : part(j) \in PostWrites
  <2> SUFFICES ASSUME NEW j \in 1..n PROVE part(j) \in PostWrites  OBVIOUS
  <2>1. j - 1 \in Nat  OBVIOUS
  <2> QED  BY <2>1, OnePut
<1>2. h \in PostWrites /\ x \in PostWrites
  <2>1. <<>> \in Dict  BY DEF Dict
  <2> QED  BY <2>1, OnePut
<1>3. p = [j \in 1..n |-> part(j)]  BY DEF Parted
<1>4. q = IF B THEN <<x>> ELSE <<>>  BY DEF NoBlob
<1>5. /\ \A j \in 1..n : part(j).key = BlockKey(t, j - 1)
      /\ h.key = HeaderKey(t) /\ x.key = BlobKey(t)  BY DEF Put, Del
<1> HIDE DEF p, h, x, q, part, B
<1>6. p \in Seq(PostWrites) /\ Len(p) = n /\ \A j \in 1..n : p[j] = part(j)  BY <1>1, <1>3
<1>7. DEFINE y == p \o <<h>>
<1>8. y \in Seq(PostWrites) /\ Len(y) = n + 1 /\ (\A j \in 1..n : y[j] = part(j)) /\ y[n + 1] = h
  <2>1. <<h>> \in Seq(PostWrites) /\ Len(<<h>>) = 1 /\ <<h>>[1] = h  BY <1>2
  <2> DEFINE z == <<h>>
  <2>2. z \in Seq(PostWrites) /\ Len(z) = 1 /\ z[1] = h  BY <2>1
  <2> HIDE DEF z
  <2>a. p \o z \in Seq(PostWrites) /\ JoinOf(p \o z, p, z, Len(p), Len(z))  BY <2>2, <1>6, JoinedAt
  <2>b. JoinOf(p \o z, p, z, n, 1)  BY <2>2, <2>a, <1>6, Zenon
  <2>3. /\ p \o z \in Seq(PostWrites) /\ Len(p \o z) = n + 1
        /\ \A i \in 1..n : (p \o z)[i] = p[i]
        /\ \A i \in 1..1 : (p \o z)[n + i] = z[i]  BY <2>a, <2>b DEF JoinOf
  <2>5. (p \o z)[n + 1] = h /\ \A j \in 1..n : (p \o z)[j] = part(j)  BY <2>2, <2>3, <1>6
  <2> QED  BY <2>3, <2>5 DEF z
<1>9. ws = y \o q  BY DEF p, h, q
<1> HIDE DEF y
<1>10. /\ ws \in Seq(PostWrites) /\ Len(ws) = IF B THEN n + 2 ELSE n + 1
       /\ (\A j \in 1..n : ws[j] = part(j)) /\ ws[n + 1] = h /\ (B => ws[n + 2] = x)
  <2>1. CASE B
    <3>1. q \in Seq(PostWrites) /\ Len(q) = 1 /\ q[1] = x  BY <1>2, <1>4, <2>1
    <3> DEFINE k == n + 1
    <3>2. k = Len(y) /\ 1 = Len(q) /\ k \in Nat /\ k + 1 = n + 2 /\ k \in 1..k /\ \A j \in 1..n : j \in 1..k
      BY <3>1, <1>8
    <3>3. y[k] = h /\ k = n + 1  BY <1>8
    <3> HIDE DEF k
    <3>a. y \o q \in Seq(PostWrites) /\ JoinOf(y \o q, y, q, Len(y), Len(q))  BY <3>1, <1>8, JoinedAt
    <3>b. ws \in Seq(PostWrites) /\ JoinOf(ws, y, q, k, 1)  BY <3>2, <3>a, <1>9, Zenon
    <3>4. /\ Len(ws) = k + 1 /\ ws \in Seq(PostWrites)
          /\ \A i \in 1..k : ws[i] = y[i]
          /\ \A i \in 1..1 : ws[k + i] = q[i]  BY <3>b DEF JoinOf
    <3>5. ws[k + 1] = x /\ ws[k] = h  BY <3>1, <3>2, <3>3, <3>4, SMTT(40)
    <3>6. \A j \in 1..n : ws[j] = part(j)  BY <3>2, <3>4, <1>8
    <3>7. Len(ws) = n + 2 /\ ws \in Seq(PostWrites) /\ ws[n + 2] = x /\ ws[n + 1] = h
      BY <3>2, <3>3, <3>4, <3>5
    <3> QED  BY <3>6, <3>7, <2>1
  <2>2. CASE ~B
    <3>1. ws = y  BY <1>4, <1>8, <1>9, <2>2
    <3> QED  BY <3>1, <1>8, <2>2
  <2> QED  BY <2>1, <2>2
<1>11. Distinct(ws)
  <2> DEFINE key(j) == IF j <= n THEN BlockKey(t, j - 1) ELSE IF j = n + 1 THEN HeaderKey(t) ELSE BlobKey(t)
  <2>1. \A j \in 1..Len(ws) : j \in 1..n \/ j = n + 1 \/ (B /\ j = n + 2)  BY <1>10
  <2>2. /\ \A j \in 1..n : j <= n
        /\ ~ (n + 1 <= n) /\ ~ (n + 2 <= n) /\ n + 1 # n + 2  OBVIOUS
  <2>3. \A j \in 1..Len(ws) : ws[j].key = key(j)  BY <2>1, <2>2, <1>5, <1>10
  <2>4. \A j \in 1..n : j - 1 \in Nat  OBVIOUS
  <2>5. \A i, j \in 1..n : BlockKey(t, i - 1) = BlockKey(t, j - 1) => i = j
    <3> SUFFICES ASSUME NEW i \in 1..n, NEW j \in 1..n, BlockKey(t, i - 1) = BlockKey(t, j - 1) PROVE i = j
      OBVIOUS
    <3>1. i - 1 \in Nat /\ j - 1 \in Nat  OBVIOUS
    <3>2. i - 1 = j - 1  BY <3>1, KeysDiffer
    <3> QED  BY <3>2
  <2>6. \A j \in 1..n : BlockKey(t, j - 1) # HeaderKey(t) /\ BlockKey(t, j - 1) # BlobKey(t)
    BY <2>4, KeysDiffer
  <2>7. HeaderKey(t) # BlobKey(t)  BY KeysDiffer
  <2>8. /\ \A j \in 1..n : key(j) = BlockKey(t, j - 1)
        /\ key(n + 1) = HeaderKey(t) /\ key(n + 2) = BlobKey(t)  BY <2>2
  <2> HIDE DEF key
  <2>9. ASSUME NEW i \in 1..Len(ws), NEW j \in 1..Len(ws), key(i) = key(j) PROVE i = j
    <3>1. CASE i \in 1..n /\ j \in 1..n  BY <2>5, <2>8, <2>9, <3>1
    <3>2. CASE i \in 1..n /\ j \notin 1..n  BY <2>1, <2>6, <2>8, <2>9, <3>2
    <3>3. CASE i \notin 1..n /\ j \in 1..n  BY <2>1, <2>6, <2>8, <2>9, <3>3
    <3>4. CASE i \notin 1..n /\ j \notin 1..n  BY <2>1, <2>7, <2>8, <2>9, <3>4
    <3> QED  BY <3>1, <3>2, <3>3, <3>4
  <2> QED  BY <2>3, <2>9, SMTT(40) DEF Distinct
<1> QED  BY <1>10, <1>11 DEF CutPlan, part, h, x, B

LEMMA WrittenIs ==
  ASSUME NEW f, NEW k, NEW v
  PROVE  /\ Written(f, Put("index", k, v)) => k \in DOMAIN f /\ f[k] = v
         /\ Written(f, Del("index", k)) => k \notin DOMAIN f
         /\ Put("index", k, v).key = k /\ Del("index", k).key = k  BY DEF Written, Put, Del

LEMMA CutIsDone ==
  ASSUME NEW m, IndexMap(m), NEW t \in Terms, NEW blk \in Dict, NEW n \in Nat \ {0},
         \A i \in 1..n : Block(blk, i) \in Dict,
         NEW f, f = AfterAll(m, Parted(t, blk, n) \o <<Put("index", HeaderKey(t), n)>> \o NoBlob(m, t))
  PROVE  IndexMap(f) /\ CutDone(f, m, t, blk, n)
<1> DEFINE ws == Parted(t, blk, n) \o <<Put("index", HeaderKey(t), n)>> \o NoBlob(m, t)
           B == BlobKey(t) \in DOMAIN m
           l == Len(ws)
<1>1. f = AfterAll(m, ws)  OBVIOUS
<1>0. CutPlan(ws, m, t, blk, n)
  <2>1. ws = Parted(t, blk, n) \o <<Put("index", HeaderKey(t), n)>> \o NoBlob(m, t)  OBVIOUS
  <2> HIDE DEF ws
  <2> QED  BY <2>1, CutWrites
<1>2. /\ ws \in Seq(PostWrites) /\ Distinct(ws)
      /\ Len(ws) = IF B THEN n + 2 ELSE n + 1
      /\ \A j \in 1..n : ws[j] = Put("index", BlockKey(t, j - 1), Block(blk, j))
      /\ ws[n + 1] = Put("index", HeaderKey(t), n)
      /\ B => ws[n + 2] = Del("index", BlobKey(t))  BY <1>0 DEF CutPlan
<1> HIDE DEF ws, B
<1>3. IndexMap(f)  BY <1>1, <1>2, AfterAllTyped
<1>4. (\A i \in 1..l : Written(f, ws[i])) /\ \A k : (\A i \in 1..l : ws[i].key # k) => SameAt(f, m, k)
  BY <1>1, <1>2, AfterDistinct
<1>5. /\ (\A j \in 1..n : j \in 1..l) /\ n + 1 \in 1..l /\ (B => n + 2 \in 1..l)
      /\ \A j \in 1..l : j \in 1..n \/ j = n + 1 \/ (B /\ j = n + 2)  BY <1>2
<1>6. ASSUME NEW j \in 1..n
      PROVE  BlockKey(t, j - 1) \in DOMAIN f /\ f[BlockKey(t, j - 1)] = Block(blk, j)
  <2>1. Written(f, Put("index", BlockKey(t, j - 1), Block(blk, j)))
    <3>1. ws[j] = Put("index", BlockKey(t, j - 1), Block(blk, j))  BY <1>2
    <3>2. Written(f, ws[j])  BY <1>4, <1>5
    <3> QED  BY <3>1, <3>2
  <2> QED  BY <2>1, WrittenIs
<1>7. HeaderKey(t) \in DOMAIN f /\ f[HeaderKey(t)] = n
  <2>1. Written(f, Put("index", HeaderKey(t), n))  BY <1>2, <1>4, <1>5
  <2> QED  BY <2>1, WrittenIs
<1>8. ASSUME NEW k, NEW j \in 1..l, ws[j].key = k
      PROVE  \/ j \in 1..n /\ k = BlockKey(t, j - 1)
             \/ j = n + 1 /\ k = HeaderKey(t)
             \/ B /\ k = BlobKey(t)
  <2>1. CASE j \in 1..n
    <3>1. ws[j].key = BlockKey(t, j - 1)
      <4>1. ws[j] = Put("index", BlockKey(t, j - 1), Block(blk, j))  BY <1>2, <2>1
      <4> DEFINE x == BlockKey(t, j - 1)
                 y == Block(blk, j)
      <4> HIDE DEF x, y
      <4>2. Put("index", x, y).key = x  BY WrittenIs
      <4> QED  BY <4>1, <4>2 DEF x, y
    <3> QED  BY <2>1, <3>1, <1>8
  <2>2. CASE j = n + 1
    <3>1. ws[j].key = HeaderKey(t)  BY <1>2, <2>2 DEF Put
    <3> QED  BY <2>2, <3>1, <1>8
  <2>3. CASE B /\ j = n + 2
    <3>1. ws[j].key = BlobKey(t)  BY <1>2, <2>3 DEF Del
    <3> QED  BY <2>3, <3>1, <1>8
  <2> QED  BY <1>5, <2>1, <2>2, <2>3
<1>9. BlobKey(t) \notin DOMAIN f
  <2>1. CASE B
    <3>1. Written(f, Del("index", BlobKey(t)))  BY <2>1, <1>2, <1>4, <1>5
    <3> QED  BY <3>1, WrittenIs
  <2>2. CASE ~B
    <3>1. \A j \in 1..n : BlockKey(t, j - 1) # BlobKey(t)
      <4>1. \A j \in 1..n : j - 1 \in Nat  OBVIOUS
      <4> QED  BY <4>1, KeysDiffer
    <3>2. \A j \in 1..l : ws[j].key # BlobKey(t)  BY <2>2, <3>1, <1>8, KeysDiffer
    <3>3. SameAt(f, m, BlobKey(t))  BY <3>2, <1>4
    <3> QED  BY <2>2, <3>3 DEF SameAt, B
  <2> QED  BY <2>1, <2>2
<1>10. ASSUME NEW k, k # HeaderKey(t), k # BlobKey(t), \A i \in 0..(n - 1) : k # BlockKey(t, i)
       PROVE  SameAt(f, m, k)
  <2>1. \A j \in 1..n : j - 1 \in 0..(n - 1)  OBVIOUS
  <2>2. \A j \in 1..l : ws[j].key # k  BY <2>1, <1>8, <1>10
  <2> QED  BY <2>2, <1>4
<1> QED  BY <1>3, <1>6, <1>7, <1>9, <1>10 DEF CutDone

LEMMA CutBlob ==
  ASSUME NEW m, IndexMap(m), NEW t \in Terms, LaidOut(m, t), NEW d \in Docs, NEW v \in Nat \ {0},
         Unchained(m, t), NEW blk, blk = DictSet(At(m, BlobKey(t), <<>>), d, v),
         NEW n, n = (Len(blk) + BlockDocs - 1) \div BlockDocs, NEW f,
         f = AfterAll(m, Parted(t, blk, n) \o <<Put("index", HeaderKey(t), n)>> \o NoBlob(m, t))
  PROVE  Changed(f, m, t, With(LoadPostings(m, t), d, v))
<1> DEFINE b == At(m, BlobKey(t), <<>>)
           c == Dicts(m, t)
           e == Dicts(f, t)
           a == [i \in {0} |-> blk]
<1>1. c = [i \in {0} |-> b] /\ ChainOK(c)  BY UnchainedIs, LaidIs
<1> HIDE DEF b
<1>2. DOMAIN c = {0} /\ c[0] = b  BY <1>1
<1>3. b \in Dict /\ Single(b) /\ blk = DictSet(b, d, v)  BY <1>1, <1>2 DEF ChainOK, b
<1>4. /\ blk \in Dict /\ Single(blk) /\ Has(blk, d, v)
      /\ \A i, w : i # d => (Has(blk, i, w) <=> Has(b, i, w))  BY <1>3, DictSetHas
<1>5. Len(blk) \in Nat \ {0} /\ blk # <<>>
  <2>1. Len(blk) \in Nat \ {0}  BY <1>3, DictSetIs
  <2> QED  BY <2>1, <1>4, DictIs
<1>6. n \in Nat \ {0} /\ (n - 1) * BlockDocs < Len(blk)  BY <1>5, Parts, BoundsAssumption
<1>7. \A i \in 1..n : Block(blk, i) \in Dict
  <2> SUFFICES ASSUME NEW i \in 1..n PROVE Block(blk, i) \in Dict  OBVIOUS
  <2>0. i \in Nat \ {0}  OBVIOUS
  <2>1. UpToBlock(blk, i) \in 0..Len(blk) /\ (i - 1) * BlockDocs + 1 \in Nat \ {0}  BY <1>4, <2>0, UpToIs
  <2> QED  BY <1>4, <2>1, PartTyped DEF Block
<1> HIDE DEF c
<1>8. Loaded(a) = With(Loaded(c), d, v)
  <2>1. DOMAIN a = 0..0 /\ a[0] = blk /\ DOMAIN c = 0..0  BY <1>2
  <2> HIDE DEF a
  <2>2. OthersSame(a, c, 0, d)  BY <1>2, <1>4, <2>1 DEF OthersSame
  <2>3. \A i \in 0..(0 - 1) : a[i] = c[i]  OBVIOUS
  <2>4. Later(a, c, 0, d, v)  BY <1>1, <1>4, <2>1, <2>2, <2>3 DEF Later
  <2> QED  BY <2>4, LaterSays
<1>9. IndexMap(f) /\ CutDone(f, m, t, blk, n)  BY <1>4, <1>6, <1>7, CutIsDone
<1>10. Chained(f, t, n)
  <2>1. ASSUME NEW i \in Nat PROVE BlockKey(t, i) \in DOMAIN f <=> i < n
    <3>1. CASE i < n
      <4>1. i + 1 \in 1..n /\ (i + 1) - 1 = i  BY <3>1, <1>6
      <4> QED  BY <3>1, <4>1, <1>9 DEF CutDone
    <3>2. CASE ~ (i < n)
      <4>1. \A j \in 0..(n - 1) : i # j /\ j \in Nat  BY <3>2, <1>6
      <4>2. /\ BlockKey(t, i) # HeaderKey(t) /\ BlockKey(t, i) # BlobKey(t)
            /\ \A j \in 0..(n - 1) : BlockKey(t, i) # BlockKey(t, j)  BY <4>1, KeysDiffer
      <4>3. SameAt(f, m, BlockKey(t, i))  BY <4>2, <1>9 DEF CutDone
      <4> QED  BY <3>2, <4>3 DEF SameAt, Unchained
    <3> QED  BY <3>1, <3>2
  <2> QED  BY <2>1, <1>9 DEF Chained, CutDone
<1>11. e = Chain(f, t, n)  BY <1>6, <1>9, <1>10, ChainedIs
<1>12. DOMAIN e = 0..(n - 1) /\ \A i \in 0..(n - 1) : e[i] = Block(blk, i + 1)
  <2>1. ASSUME NEW i \in 0..(n - 1) PROVE f[BlockKey(t, i)] = Block(blk, i + 1)
    <3>1. i + 1 \in 1..n /\ (i + 1) - 1 = i  BY <1>6
    <3> QED  BY <3>1, <1>9 DEF CutDone
  <2> QED  BY <2>1, <1>11 DEF Chain
<1>13. ChainOK(e) /\ Loaded(e) = Loaded(a)
  <2>1. DOMAIN a = {0} /\ a[0] = blk  OBVIOUS
  <2> HIDE DEF a, e
  <2> QED  BY <2>1, <1>4, <1>5, <1>12, CutSays
<1>14. LoadPostings(f, t) = With(LoadPostings(m, t), d, v)  BY <1>8, <1>13, LoadIs DEF c, e
<1>15. LaidOut(f, t)
  <2>1. Filled(f, t)  BY <1>10, <1>14, DomainWith DEF Filled, Chained
  <2> QED  BY <1>6, <1>9, <1>10, <1>13, <2>1, LaidIs
<1>16. ASSUME NEW k, k[1] # t PROVE SameAt(f, m, k)
  <2>1. k # HeaderKey(t) /\ k # BlobKey(t)
    <3>1. HeaderKey(t)[1] = t /\ BlobKey(t)[1] = t  BY KeysAre
    <3> QED  BY <3>1, <1>16
  <2>2. \A i \in 0..(n - 1) : k # BlockKey(t, i)
    <3>1. \A i \in 0..(n - 1) : i \in Nat  BY <1>6
    <3>2. \A i \in 0..(n - 1) : BlockKey(t, i)[1] = t  BY <3>1, KeysAre
    <3> QED  BY <3>2, <1>16
  <2> QED  BY <2>1, <2>2, <1>9 DEF CutDone
<1> QED  BY <1>9, <1>14, <1>15, <1>16 DEF Changed

\* An entry for the document is added to the term's postings or replaces the one they have.
LEMMA PostAddSays ==
  ASSUME NEW m, IndexMap(m), NEW t \in Terms, LaidOut(m, t), NEW d \in Docs, NEW v \in Nat \ {0}
  PROVE  Changed(AfterAll(m, PostAdd(m, t, d, v)), m, t, With(LoadPostings(m, t), d, v))
<1> DEFINE f == AfterAll(m, PostAdd(m, t, d, v))
<1>1. CASE HeaderKey(t) \in DOMAIN m
  <2> DEFINE n == m[HeaderKey(t)]
             k == n - 1
             blk == At(m, BlockKey(t, k), <<>>)
             b == m[BlockKey(t, k)]
  <2>1. n \in Nat \ {0} /\ Chained(m, t, n)
    <3>1. PICK l \in Nat \ {0} : Chained(m, t, l)  BY <1>1, LaidIs DEF Unchained
    <3> QED  BY <3>1 DEF Chained
  <2>2. PostAdd(m, t, d, v) =
          IF d \notin DictDocs(blk) /\ Len(blk) >= BlockDocs
          THEN <<Put("index", BlockKey(t, n), <<<<d, v>>>>), Put("index", HeaderKey(t), n + 1)>>
          ELSE <<Put("index", BlockKey(t, k), DictSet(blk, d, v))>>  BY <1>1 DEF PostAdd
  <2> HIDE DEF n
  <2>3. blk = b
    <3>1. k \in Nat /\ k < n  BY <2>1
    <3>2. BlockKey(t, k) \in DOMAIN m  BY <2>1, <3>1 DEF Chained
    <3> QED  BY <3>2 DEF At
  <2> HIDE DEF blk
  <2>4. CASE d \notin DictDocs(blk) /\ Len(blk) >= BlockDocs
    <3>1. f = AfterAll(m, <<Put("index", BlockKey(t, n), <<<<d, v>>>>), Put("index", HeaderKey(t), n + 1)>>)
      BY <2>2, <2>4
    <3> HIDE DEF f
    <3>2. Changed(f, m, t, With(LoadPostings(m, t), d, v))  BY <2>1, <3>1, AddBlock
    <3> QED  BY <3>2 DEF f
  <2>5. CASE ~ (d \notin DictDocs(blk) /\ Len(blk) >= BlockDocs)
    <3>1. f = AfterAll(m, <<Put("index", BlockKey(t, k), DictSet(m[BlockKey(t, k)], d, v))>>)
      BY <2>2, <2>3, <2>5
    <3>0. k = n - 1  OBVIOUS
    <3> HIDE DEF f, k
    <3>2. Changed(f, m, t, With(LoadPostings(m, t), d, v))  BY <2>1, <3>0, <3>1, SetInBlock
    <3> QED  BY <3>2 DEF f
  <2> QED  BY <2>4, <2>5
<1>2. CASE HeaderKey(t) \notin DOMAIN m
  <2> DEFINE blk == DictSet(At(m, BlobKey(t), <<>>), d, v)
             n == (Len(blk) + BlockDocs - 1) \div BlockDocs
  <2>1. Unchained(m, t)  BY <1>2, LaidIs DEF Chained
  <2>2. PostAdd(m, t, d, v) = Parted(t, blk, n) \o <<Put("index", HeaderKey(t), n)>> \o NoBlob(m, t)
    BY <1>2 DEF PostAdd, Parted, NoBlob, Block, UpToBlock
  <2>3. f = AfterAll(m, Parted(t, blk, n) \o <<Put("index", HeaderKey(t), n)>> \o NoBlob(m, t))  BY <2>2
  <2>4. blk = DictSet(At(m, BlobKey(t), <<>>), d, v) /\ n = (Len(blk) + BlockDocs - 1) \div BlockDocs  OBVIOUS
  <2> HIDE DEF f, blk, n
  <2>5. Changed(f, m, t, With(LoadPostings(m, t), d, v))  BY <2>1, <2>3, <2>4, CutBlob
  <2> QED  BY <2>5 DEF f
<1> QED  BY <1>1, <1>2

----
(* A document is taken out of a term.                                      *)

LEMMA RewriteOne ==
  ASSUME NEW m, IndexMap(m), NEW t \in Terms, NEW d, NEW g, IndexMap(g), NEW n \in Nat,
         RewrittenTo(g, m, t, d, n), NEW f, f = AfterAll(g, RewriteOf(m, t, d, n))
  PROVE  RewrittenTo(f, m, t, d, n + 1)
<1> DEFINE x == BlockKey(t, n)
           b == DictRemove(m[x], d)
<1>0. BlocksOf(m, t) = {i \in Nat : BlockKey(t, i) \in DOMAIN m}  BY BlocksAre
<1>1. \A i \in Nat : (i < n + 1 <=> i < n \/ i = n) /\ (i # n => BlockKey(t, i) # x)  BY KeysDiffer
<1>2. CASE n \in BlocksOf(m, t) /\ d \in DictDocs(m[x])
  <2> DEFINE w == Put("index", x, b)
  <2>1. RewriteOf(m, t, d, n) = <<w>>  BY <1>2 DEF RewriteOf
  <2>2. m[x] \in Dict /\ x \in DOMAIN m  BY <1>0, <1>2, BlocksAre
  <2>3. b \in Dict  BY <2>2, DictRemoveTyped
  <2> HIDE DEF b
  <2>4. w \in PostWrites  BY <2>3, OnePut
  <2>5. f = After(g, w)
    <3>1. f = AfterAll(g, <<w>>)  BY <2>1
    <3> HIDE DEF w
    <3> QED  BY <2>4, <3>1, AfterPost
  <2>6. w.key = x  BY DEF Put
  <2> HIDE DEF w
  <2>7. Written(f, w) /\ \A k : k # x => SameAt(f, g, k)  BY <2>4, <2>5, <2>6, AfterWrite
  <2>8. x \in DOMAIN f /\ f[x] = b  BY <2>7, WrittenIs DEF w
  <2>9. ASSUME NEW i \in Nat
        PROVE  /\ BlockKey(t, i) \in DOMAIN f <=> BlockKey(t, i) \in DOMAIN m
               /\ BlockKey(t, i) \in DOMAIN m =>
                    f[BlockKey(t, i)] = IF i < n + 1 THEN DictRemove(m[BlockKey(t, i)], d) ELSE m[BlockKey(t, i)]
    <3>1. CASE i = n  BY <3>1, <2>2, <2>8 DEF b
    <3>2. CASE i # n
      <4>1. SameAt(f, g, BlockKey(t, i)) /\ (i < n + 1 <=> i < n)  BY <3>2, <2>7, <1>1
      <4> QED  BY <4>1 DEF SameAt, RewrittenTo
    <3> QED  BY <3>1, <3>2
  <2>10. ASSUME NEW k, \A i \in Nat : k # BlockKey(t, i) PROVE SameAt(f, m, k)
    <3>1. SameAt(f, g, k) /\ SameAt(g, m, k)  BY <2>7, <2>10 DEF RewrittenTo
    <3> QED  BY <3>1 DEF SameAt
  <2> QED  BY <2>9, <2>10 DEF RewrittenTo
<1>3. CASE ~ (n \in BlocksOf(m, t) /\ d \in DictDocs(m[x]))
  <2>1. RewriteOf(m, t, d, n) = <<>>  BY <1>3 DEF RewriteOf
  <2>2. f = g
    <3>1. <<>> \in Seq(PostWrites)  OBVIOUS
    <3>2. g \in MapsOf(Keys, Values(g))  BY <3>1, InMaps
    <3> QED  BY <2>1, <3>2, AfterNone
  <2>3. x \in DOMAIN m => b = m[x]
    <3>1. x \in DOMAIN m => d \notin DictDocs(m[x])  BY <1>0, <1>3
    <3> QED  BY <3>1 DEF DictRemove
  <2>4. ASSUME NEW i \in Nat, BlockKey(t, i) \in DOMAIN m
        PROVE  f[BlockKey(t, i)] = IF i < n + 1 THEN DictRemove(m[BlockKey(t, i)], d) ELSE m[BlockKey(t, i)]
    <3>1. CASE i = n  BY <3>1, <2>2, <2>3, <2>4 DEF RewrittenTo
    <3>2. CASE i # n  BY <3>2, <2>2, <2>4, <1>1 DEF RewrittenTo
    <3> QED  BY <3>1, <3>2
  <2> QED  BY <2>2, <2>4 DEF RewrittenTo
<1> QED  BY <1>2, <1>3

LEMMA AfterMore ==
  ASSUME NEW m, IndexMap(m), NEW ws \in Seq(PostWrites), NEW vs \in Seq(PostWrites)
  PROVE  AfterAll(m, ws \o vs) = AfterAll(AfterAll(m, ws), vs)
<1>1. m \in MapsOf(Keys, Values(m)) /\ ws \in Seq(WritesOf(Keys, Values(m))) /\ vs \in Seq(WritesOf(Keys, Values(m)))
  BY InMaps
<1> QED  BY <1>1, AfterBoth

LEMMA AfterNothing ==
  ASSUME NEW m, IndexMap(m)
  PROVE  AfterAll(m, <<>>) = m
<1>1. <<>> \in Seq(PostWrites)  OBVIOUS
<1>2. m \in MapsOf(Keys, Values(m))  BY <1>1, InMaps
<1> QED  BY <1>2, AfterNone

LEMMA RewriteOfTyped ==
  ASSUME NEW m, IndexMap(m), NEW t \in Terms, NEW d, NEW i \in Nat
  PROVE  RewriteOf(m, t, d, i) \in Seq(PostWrites)
<1> DEFINE w == Put("index", BlockKey(t, i), DictRemove(m[BlockKey(t, i)], d))
<1>1. CASE i \in BlocksOf(m, t)
  <2>1. m[BlockKey(t, i)] \in Dict  BY <1>1, BlocksAre
  <2>2. DictRemove(m[BlockKey(t, i)], d) \in Dict  BY <2>1, DictRemoveTyped
  <2>3. w \in PostWrites  BY <2>2, OnePut
  <2>4. RewriteOf(m, t, d, i) = <<w>> \/ RewriteOf(m, t, d, i) = <<>>  BY DEF RewriteOf
  <2> HIDE DEF w
  <2>5. <<w>> \in Seq(PostWrites) /\ <<>> \in Seq(PostWrites)  BY <2>3
  <2> QED  BY <2>4, <2>5, Zenon
<1>2. CASE i \notin BlocksOf(m, t)  BY <1>2 DEF RewriteOf
<1> QED  BY <1>1, <1>2

LEMMA RewritesAfter ==
  ASSUME NEW m, IndexMap(m), NEW t \in Terms, NEW d, NEW f, f = AfterAll(m, Rewrites(m, t, d))
  PROVE  IndexMap(f) /\ Rewritten(f, m, t, d)
<1> DEFINE n == BlockBound(m, t)
<1>1. n \in Nat /\ \A i \in BlocksOf(m, t) : i < n  BY BoundIs
<1>2. PICK v \in [0..n -> Seq(PostWrites)] :
         /\ v[0] = <<>> /\ Rewrites(m, t, d) = v[n]
         /\ \A i \in 1..n : v[i] = v[i - 1] \o RewriteOf(m, t, d, i - 1)  BY RewritesRuns
<1> HIDE DEF n
<1> DEFINE g(i) == AfterAll(m, v[i])
           S == {i \in 0..n : RewrittenTo(g(i), m, t, d, i)}
<1>3. \A i \in 0..n : IndexMap(g(i))  BY <1>2, AfterAllTyped
<1>4. 0 \in S
  <2>1. g(0) = m  BY <1>2, AfterNothing
  <2>2. RewrittenTo(m, m, t, d, 0)  BY DEF RewrittenTo, SameAt
  <2>3. 0 \in 0..n  BY <1>1
  <2> QED  BY <2>1, <2>2, <2>3, Zenon
<1>5. ASSUME NEW i \in 0..n, i < n, i \in S PROVE i + 1 \in S
  <2> DEFINE h == i + 1
  <2>1. h \in 1..n /\ h \in 0..n /\ h - 1 = i /\ i \in Nat  BY <1>1, <1>5
  <2>2. v[h] = v[i] \o RewriteOf(m, t, d, i)  BY <1>2, <2>1
  <2>3. RewriteOf(m, t, d, i) \in Seq(PostWrites) /\ v[i] \in Seq(PostWrites)  BY <1>2, <2>1, RewriteOfTyped
  <2>4. g(h) = AfterAll(g(i), RewriteOf(m, t, d, i))  BY <2>2, <2>3, AfterMore
  <2>5. RewrittenTo(g(i), m, t, d, i) /\ IndexMap(g(i))  BY <1>3, <1>5
  <2> HIDE DEF g
  <2>6. RewrittenTo(g(h), m, t, d, i + 1)  BY <2>1, <2>4, <2>5, RewriteOne
  <2> QED  BY <2>1, <2>6
<1> HIDE DEF S
<1>6. n \in S
  <2>1. \A i \in 0..n : i \in S  BY <1>1, <1>4, <1>5, UpTo
  <2> QED  BY <2>1, <1>1
<1>7. RewrittenTo(f, m, t, d, n) /\ IndexMap(f)
  <2>1. f = g(n) /\ n \in 0..n  BY <1>1, <1>2
  <2>2. RewrittenTo(g(n), m, t, d, n) /\ IndexMap(g(n))  BY <1>3, <1>6, <2>1 DEF S
  <2> QED  BY <2>1, <2>2, Zenon
<1>8. \A i \in Nat : BlockKey(t, i) \in DOMAIN m => i < n
  <2>1. BlocksOf(m, t) = {i \in Nat : BlockKey(t, i) \in DOMAIN m}  BY BlocksAre
  <2> QED  BY <1>1, <2>1
<1> QED  BY <1>7, <1>8 DEF RewrittenTo, Rewritten

LEMMA DropChainDone ==
  ASSUME NEW m, IndexMap(m), NEW t \in Terms, NEW n \in Nat, NEW f, f = AfterAll(m, DropChain(t, n))
  PROVE  /\ IndexMap(f) /\ HeaderKey(t) \notin DOMAIN f
         /\ \A i \in 0..(n - 1) : BlockKey(t, i) \notin DOMAIN f
         /\ \A k : k # HeaderKey(t) /\ (\A i \in 0..(n - 1) : k # BlockKey(t, i)) => SameAt(f, m, k)
<1> DEFINE ws == DropChain(t, n)
           del(j) == Del("index", BlockKey(t, j - 1))
           p == [j \in 1..n |-> del(j)]
           h == Del("index", HeaderKey(t))
           z == <<h>>
<1>1. ws \in Seq(PostWrites) /\ f = AfterAll(m, ws)  BY DropChainTyped
<1>2. ws = p \o z  BY DEF DropChain
<1> HIDE DEF ws
<1>3. \A j \in 1..n : del(j) \in PostWrites
  <2> SUFFICES ASSUME NEW j \in 1..n PROVE del(j) \in PostWrites  OBVIOUS
  <2>1. j - 1 \in Nat /\ <<>> \in Dict  BY DEF Dict
  <2> QED  BY <2>1, OnePut
<1>4. h \in PostWrites
  <2>1. <<>> \in Dict  BY DEF Dict
  <2> QED  BY <2>1, OnePut
<1>5. h.key = HeaderKey(t) /\ \A j \in 1..n : del(j).key = BlockKey(t, j - 1)  BY DEF Del
<1> HIDE DEF h, del
<1>6. p \in Seq(PostWrites) /\ Len(p) = n /\ \A j \in 1..n : p[j] = del(j)  BY <1>3
<1>7. z \in Seq(PostWrites) /\ Len(z) = 1 /\ z[1] = h  BY <1>4
<1> HIDE DEF p, z
<1>8. JoinOf(ws, p, z, n, 1)
  <2>1. JoinOf(p \o z, p, z, Len(p), Len(z))  BY <1>6, <1>7, JoinedAt
  <2> QED  BY <2>1, <1>2, <1>6, <1>7, Zenon
<1>9. Len(ws) = n + 1 /\ ws[n + 1] = h /\ \A j \in 1..n : ws[j] = del(j)  BY <1>6, <1>7, <1>8 DEF JoinOf
<1>10. \A i \in 0..(n - 1) : i + 1 \in 1..n /\ (i + 1) - 1 = i /\ i \in Nat  OBVIOUS
<1>11. \A j \in 1..(n + 1) : (j \in 1..n /\ j - 1 \in Nat) \/ j = n + 1  OBVIOUS
<1>12. Distinct(ws)
  <2>1. ASSUME NEW i \in 1..n, NEW j \in 1..n, ws[i].key = ws[j].key PROVE i = j
    <3>1. BlockKey(t, i - 1) = BlockKey(t, j - 1)  BY <2>1, <1>5, <1>9
    <3>2. i - 1 \in Nat /\ j - 1 \in Nat  OBVIOUS
    <3>3. i - 1 = j - 1  BY <3>1, <3>2, KeysDiffer
    <3> QED  BY <3>3
  <2>2. \A i \in 1..n : ws[i].key # ws[n + 1].key
    <3> SUFFICES ASSUME NEW i \in 1..n PROVE ws[i].key # ws[n + 1].key  OBVIOUS
    <3>1. ws[i].key = BlockKey(t, i - 1) /\ ws[n + 1].key = HeaderKey(t)  BY <1>5, <1>9
    <3>2. i - 1 \in Nat  OBVIOUS
    <3> QED  BY <3>1, <3>2, KeysDiffer
  <2> QED  BY <2>1, <2>2, <1>9, <1>11 DEF Distinct
<1>13. IndexMap(f)  BY <1>1, AfterAllTyped
<1>14. /\ \A i \in 1..(n + 1) : Written(f, ws[i])
       /\ \A k : (\A i \in 1..(n + 1) : ws[i].key # k) => SameAt(f, m, k)  BY <1>1, <1>9, <1>12, AfterDistinct
<1>15. HeaderKey(t) \notin DOMAIN f
  <2>1. n + 1 \in 1..(n + 1)  OBVIOUS
  <2>2. Written(f, h)  BY <2>1, <1>9, <1>14
  <2> QED  BY <2>2, WrittenIs DEF h
<1>16. ASSUME NEW i \in 0..(n - 1) PROVE BlockKey(t, i) \notin DOMAIN f
  <2> DEFINE j == i + 1
  <2>1. j \in 1..n /\ j - 1 = i /\ j \in 1..(n + 1)  OBVIOUS
  <2> HIDE DEF j
  <2>2. Written(f, del(j))  BY <2>1, <1>9, <1>14
  <2>3. Written(f, Del("index", BlockKey(t, i)))  BY <2>1, <2>2 DEF del
  <2> QED  BY <2>3, WrittenIs
<1>17. ASSUME NEW k, k # HeaderKey(t), \A i \in 0..(n - 1) : k # BlockKey(t, i) PROVE SameAt(f, m, k)
  <2>1. \A j \in 1..n : j - 1 \in 0..(n - 1)  OBVIOUS
  <2>2. \A j \in 1..(n + 1) : ws[j].key # k  BY <2>1, <1>5, <1>9, <1>11, <1>17
  <2> QED  BY <2>2, <1>14
<1> QED  BY <1>13, <1>15, <1>16, <1>17

LEMMA NoPostings ==
  ASSUME NEW f, IndexMap(f), NEW t \in Terms, Unchained(f, t), BlobKey(t) \notin DOMAIN f
  PROVE  LaidOut(f, t) /\ LoadPostings(f, t) = <<>>
<1> DEFINE c == Dicts(f, t)
<1>1. c = [i \in {0} |-> <<>>]  BY UnchainedIs DEF At
<1>2. DOMAIN c \subseteq 0..0 /\ 0 \in Nat /\ \A i \in DOMAIN c : c[i] = <<>>  BY <1>1
<1> HIDE DEF c
<1>3. ChainOK(c) /\ Loaded(c) = <<>>  BY <1>2, NothingSaid
<1>4. LoadPostings(f, t) = <<>>  BY <1>3, LoadIs DEF c
<1>5. Filled(f, t)  BY <1>4 DEF Filled, Unchained
<1> QED  BY <1>3, <1>4, <1>5, LaidIs DEF c

LEMMA SomePostings ==
  ASSUME NEW c, ChainOK(c), NEW i \in DOMAIN c, c[i] # <<>>
  PROVE  DOMAIN Loaded(c) # {}
<1>1. c[i] \in Dict  BY DEF ChainOK
<1>2. 1 \in 1..Len(c[i])  BY <1>1, DictIs
<1>3. c[i][1][1] \in DictDocs(c[i])  BY <1>1, <1>2, DictIs
<1>4. Names(c, c[i][1][1])  BY <1>3 DEF Names
<1> QED  BY <1>4, LoadedIs

LEMMA ChainRewritten ==
  ASSUME NEW m, IndexMap(m), NEW t \in Terms, LaidOut(m, t), NEW d, NEW n \in Nat \ {0}, Chained(m, t, n),
         NEW g, IndexMap(g), Rewritten(g, m, t, d)
  PROVE  /\ Chained(g, t, n) /\ ChainOK(Dicts(g, t)) /\ LoadPostings(g, t) = Without(LoadPostings(m, t), d)
         /\ DOMAIN Dicts(g, t) = 0..(n - 1)
         /\ \A i \in 0..(n - 1) : Dicts(g, t)[i] = DictRemove(m[BlockKey(t, i)], d)
<1> DEFINE c == Dicts(m, t)
           e == Dicts(g, t)
<1>1. c = Chain(m, t, n) /\ ChainOK(c)  BY ChainedIs, LaidIs
<1>2. Chained(g, t, n)
  <2>1. \A i \in Nat : BlockKey(t, i) # HeaderKey(t) /\ BlockKey(t, i) # BlobKey(t)  BY KeysDiffer
  <2>2. SameAt(g, m, HeaderKey(t)) /\ SameAt(g, m, BlobKey(t))  BY <2>1 DEF Rewritten
  <2> QED  BY <2>2 DEF Chained, SameAt, Rewritten
<1>3. e = Chain(g, t, n)  BY <1>2, ChainedIs
<1>4. \A i \in 0..(n - 1) : g[BlockKey(t, i)] = DictRemove(m[BlockKey(t, i)], d)
  <2>1. \A i \in 0..(n - 1) : i \in Nat /\ i < n  OBVIOUS
  <2> QED  BY <2>1 DEF Rewritten, Chained
<1>5. /\ DOMAIN c = 0..(n - 1) /\ DOMAIN e = 0..(n - 1)
      /\ \A i \in 0..(n - 1) : c[i] = m[BlockKey(t, i)] /\ e[i] = DictRemove(m[BlockKey(t, i)], d)
  BY <1>1, <1>3, <1>4 DEF Chain
<1> HIDE DEF c, e
<1>6. DOMAIN e = DOMAIN c /\ \A i \in DOMAIN c : e[i] = DictRemove(c[i], d)  BY <1>5
<1>7. ChainOK(e) /\ Loaded(e) = Without(Loaded(c), d)  BY <1>1, <1>6, DroppedSays
<1>8. LoadPostings(g, t) = Without(LoadPostings(m, t), d)  BY <1>7, LoadIs DEF c, e
<1> QED  BY <1>2, <1>5, <1>7, <1>8 DEF e

LEMMA RemoveFromChain ==
  ASSUME NEW m, IndexMap(m), NEW t \in Terms, LaidOut(m, t), NEW d, NEW n \in Nat \ {0}, Chained(m, t, n),
         NEW f, f = AfterAll(m, Rewrites(m, t, d) \o (IF Empties(m, t, d) THEN DropChain(t, n) ELSE <<>>))
  PROVE  Changed(f, m, t, Without(LoadPostings(m, t), d))
<1> DEFINE g == AfterAll(m, Rewrites(m, t, d))
           e == Dicts(g, t)
           p == Without(LoadPostings(m, t), d)
<1>1. IndexMap(g) /\ Rewritten(g, m, t, d)  BY RewritesAfter
<1>2. Rewrites(m, t, d) \in Seq(PostWrites)  BY RewritesTyped
<1> HIDE DEF g
<1>3. /\ Chained(g, t, n) /\ ChainOK(e) /\ LoadPostings(g, t) = p
      /\ DOMAIN e = 0..(n - 1) /\ \A i \in 0..(n - 1) : e[i] = DictRemove(m[BlockKey(t, i)], d)
  BY <1>1, ChainRewritten
<1>4. Loaded(e) = p  BY <1>3, LoadIs
<1> HIDE DEF e, p
<1>5. BlocksOf(m, t) = 0..(n - 1)  BY ChainedIs
<1>6. ASSUME NEW k, k[1] # t PROVE SameAt(g, m, k)
  <2>1. \A i \in Nat : BlockKey(t, i)[1] = t  BY KeysAre
  <2> QED  BY <2>1, <1>1, <1>6 DEF Rewritten
<1>7. CASE ~ Empties(m, t, d)
  <2>1. f = g
    <3>1. f = AfterAll(m, Rewrites(m, t, d) \o <<>>)  BY <1>7
    <3>2. Rewrites(m, t, d) \o <<>> = Rewrites(m, t, d)  BY <1>2
    <3> QED  BY <3>1, <3>2 DEF g
  <2>2. PICK i \in 0..(n - 1) : DictRemove(m[BlockKey(t, i)], d) # <<>>  BY <1>5, <1>7 DEF Empties
  <2>3. i \in DOMAIN e /\ e[i] # <<>>  BY <2>2, <1>3
  <2>4. DOMAIN p # {}  BY <2>3, <1>3, <1>4, SomePostings
  <2>5. Filled(g, t)  BY <2>4, <1>3 DEF Filled, Chained
  <2>6. LaidOut(g, t)  BY <2>5, <1>1, <1>3, LaidIs DEF e
  <2> QED  BY <2>1, <2>6, <1>1, <1>3, <1>6 DEF Changed, p
<1>8. CASE Empties(m, t, d)
  <2>1. f = AfterAll(g, DropChain(t, n))
    <3>1. f = AfterAll(m, Rewrites(m, t, d) \o DropChain(t, n))  BY <1>8
    <3>2. DropChain(t, n) \in Seq(PostWrites)  BY DropChainTyped
    <3> QED  BY <3>1, <3>2, <1>2, AfterMore DEF g
  <2>2. /\ IndexMap(f) /\ HeaderKey(t) \notin DOMAIN f
        /\ \A i \in 0..(n - 1) : BlockKey(t, i) \notin DOMAIN f
        /\ \A k : k # HeaderKey(t) /\ (\A i \in 0..(n - 1) : k # BlockKey(t, i)) => SameAt(f, g, k)
    BY <2>1, <1>1, DropChainDone
  <2>3. p = <<>>
    <3>1. \A i \in 0..(n - 1) : e[i] = <<>>  BY <1>3, <1>5, <1>8 DEF Empties
    <3>2. n - 1 \in Nat /\ DOMAIN e \subseteq 0..(n - 1)  BY <1>3
    <3> QED  BY <3>1, <3>2, <1>3, <1>4, NothingSaid
  <2>4. BlobKey(t) \notin DOMAIN f
    <3>1. \A i \in 0..(n - 1) : i \in Nat  OBVIOUS
    <3>2. BlobKey(t) # HeaderKey(t) /\ \A i \in 0..(n - 1) : BlobKey(t) # BlockKey(t, i)  BY <3>1, KeysDiffer
    <3>3. SameAt(f, g, BlobKey(t))  BY <2>2, <3>2
    <3> QED  BY <3>3, <1>3 DEF SameAt, Chained
  <2>5. Unchained(f, t)
    <3>1. ASSUME NEW i \in Nat, ~ (i < n) PROVE BlockKey(t, i) \notin DOMAIN f
      <4>1. \A j \in 0..(n - 1) : j \in Nat /\ i # j  BY <3>1
      <4>2. BlockKey(t, i) # HeaderKey(t) /\ \A j \in 0..(n - 1) : BlockKey(t, i) # BlockKey(t, j)
        BY <4>1, KeysDiffer
      <4>3. SameAt(f, g, BlockKey(t, i))  BY <2>2, <4>2
      <4> QED  BY <4>3, <3>1, <1>3 DEF SameAt, Chained
    <3>2. \A i \in Nat : i < n => i \in 0..(n - 1)  OBVIOUS
    <3> QED  BY <2>2, <3>1, <3>2 DEF Unchained
  <2>6. LaidOut(f, t) /\ LoadPostings(f, t) = <<>>  BY <2>2, <2>4, <2>5, NoPostings
  <2>7. ASSUME NEW k, k[1] # t PROVE SameAt(f, m, k)
    <3>1. HeaderKey(t)[1] = t  BY KeysAre
    <3>2. \A i \in 0..(n - 1) : BlockKey(t, i)[1] = t
      <4>1. \A i \in 0..(n - 1) : i \in Nat  OBVIOUS
      <4> QED  BY <4>1, KeysAre
    <3>3. SameAt(f, g, k) /\ SameAt(g, m, k)  BY <2>2, <2>7, <3>1, <3>2, <1>6
    <3> QED  BY <3>3 DEF SameAt
  <2> QED  BY <2>2, <2>3, <2>6, <2>7 DEF Changed, p
<1> QED  BY <1>7, <1>8

LEMMA RemoveFromBlob ==
  ASSUME NEW m, IndexMap(m), NEW t \in Terms, LaidOut(m, t), NEW d,
         Unchained(m, t), BlobKey(t) \in DOMAIN m,
         NEW b, b = DictRemove(m[BlobKey(t)], d), NEW f,
         f = AfterAll(m, IF b = <<>> THEN <<Del("index", BlobKey(t))>> ELSE <<Put("index", BlobKey(t), b)>>)
  PROVE  Changed(f, m, t, Without(LoadPostings(m, t), d))
<1> DEFINE x == BlobKey(t)
           c == Dicts(m, t)
           a == [i \in {0} |-> b]
           p == Without(LoadPostings(m, t), d)
<1>1. c = [i \in {0} |-> m[x]] /\ ChainOK(c)  BY UnchainedIs, LaidIs DEF At
<1>2. b \in Dict
  <2>1. m[x] \in Dict  BY ValueAt
  <2> QED  BY <2>1, DictRemoveTyped
<1> HIDE DEF c
<1>3. ChainOK(a) /\ Loaded(a) = p
  <2>1. DOMAIN a = DOMAIN c /\ \A i \in DOMAIN c : a[i] = DictRemove(c[i], d)  BY <1>1
  <2> HIDE DEF a
  <2>2. ChainOK(a) /\ Loaded(a) = Without(Loaded(c), d)  BY <2>1, <1>1, DroppedSays
  <2> QED  BY <2>2, LoadIs DEF c
<1>4. x[1] = t /\ x # HeaderKey(t) /\ \A i \in Nat : BlockKey(t, i) # x  BY KeysAre, KeysDiffer
<1>5. CASE b = <<>>
  <2> DEFINE w == Del("index", x)
  <2>1. w \in PostWrites /\ w.key = x  BY <1>2, OnePut DEF Del
  <2>2. f = AfterAll(m, <<w>>)  BY <1>5
  <2> HIDE DEF w
  <2>3. f = After(m, w)  BY <2>1, <2>2, AfterPost
  <2>4. IndexMap(f)  BY <2>1, <2>3, AfterTyped DEF PostWrites
  <2>5. Written(f, w) /\ \A k : k # x => SameAt(f, m, k)  BY <2>1, <2>3, AfterWrite
  <2>6. x \notin DOMAIN f  BY <2>5, WrittenIs DEF w
  <2>7. Unchained(f, t)  BY <2>5, <1>4 DEF Unchained, SameAt
  <2>8. LaidOut(f, t) /\ LoadPostings(f, t) = <<>>  BY <2>4, <2>6, <2>7, NoPostings
  <2>9. p = <<>>
    <3>1. DOMAIN a \subseteq 0..0 /\ 0 \in Nat /\ \A i \in DOMAIN a : a[i] = <<>>  BY <1>5
    <3> HIDE DEF a
    <3> QED  BY <3>1, <1>3, NothingSaid
  <2> QED  BY <2>4, <2>5, <2>8, <2>9, <1>4 DEF Changed
<1>6. CASE b # <<>>
  <2> DEFINE w == Put("index", x, b)
  <2>1. w \in PostWrites /\ w.key = x  BY <1>2, OnePut DEF Put
  <2>2. f = AfterAll(m, <<w>>)  BY <1>6
  <2> HIDE DEF w
  <2>3. f = After(m, w)  BY <2>1, <2>2, AfterPost
  <2>4. IndexMap(f)  BY <2>1, <2>3, AfterTyped DEF PostWrites
  <2>5. Written(f, w) /\ \A k : k # x => SameAt(f, m, k)  BY <2>1, <2>3, AfterWrite
  <2>6. x \in DOMAIN f /\ f[x] = b  BY <2>5, WrittenIs DEF w
  <2>7. Unchained(f, t)  BY <2>5, <1>4 DEF Unchained, SameAt
  <2>8. Dicts(f, t) = a  BY <2>4, <2>6, <2>7, UnchainedIs DEF At
  <2>9. LoadPostings(f, t) = p  BY <2>8, <1>3, LoadIs
  <2>10. Filled(f, t)
    <3>1. 0 \in DOMAIN a /\ a[0] # <<>>  BY <1>6
    <3> HIDE DEF a
    <3>2. DOMAIN p # {}  BY <3>1, <1>3, SomePostings
    <3> QED  BY <3>2, <2>6, <2>9 DEF Filled
  <2>11. LaidOut(f, t)  BY <2>4, <2>7, <2>8, <2>10, <1>3, LaidIs
  <2> QED  BY <2>4, <2>5, <2>9, <2>11, <1>4 DEF Changed
<1> QED  BY <1>5, <1>6

LEMMA NoKeys == IsFcn(<<>>) /\ DOMAIN <<>> = {}  BY DEF IsFcn

\* The document's entries are taken out of the term's postings.
LEMMA PostRemoveSays ==
  ASSUME NEW m, IndexMap(m), NEW t \in Terms, LaidOut(m, t), NEW d
  PROVE  Changed(AfterAll(m, PostRemove(m, t, d)), m, t, Without(LoadPostings(m, t), d))
<1> DEFINE f == AfterAll(m, PostRemove(m, t, d))
<1>1. CASE HeaderKey(t) \in DOMAIN m
  <2>1. PICK n \in Nat \ {0} : Chained(m, t, n)  BY <1>1, LaidIs DEF Unchained
  <2>2. m[HeaderKey(t)] = n  BY <2>1 DEF Chained
  <2>3. f = AfterAll(m, Rewrites(m, t, d) \o (IF Empties(m, t, d) THEN DropChain(t, n) ELSE <<>>))
    BY <1>1, <2>2, PostRemoveIs
  <2> HIDE DEF f
  <2>4. Changed(f, m, t, Without(LoadPostings(m, t), d))  BY <2>1, <2>3, RemoveFromChain
  <2> QED  BY <2>4 DEF f
<1>2. CASE HeaderKey(t) \notin DOMAIN m
  <2>1. Unchained(m, t)  BY <1>2, LaidIs DEF Chained
  <2>2. CASE BlobKey(t) \in DOMAIN m
    <3> DEFINE b == DictRemove(m[BlobKey(t)], d)
    <3>1. f = AfterAll(m, IF b = <<>> THEN <<Del("index", BlobKey(t))>> ELSE <<Put("index", BlobKey(t), b)>>)
      BY <1>2, <2>2, PostRemoveIs
    <3>2. b = DictRemove(m[BlobKey(t)], d)  OBVIOUS
    <3> HIDE DEF f, b
    <3>3. Changed(f, m, t, Without(LoadPostings(m, t), d))  BY <2>1, <2>2, <3>1, <3>2, RemoveFromBlob
    <3> QED  BY <3>3 DEF f
  <2>3. CASE BlobKey(t) \notin DOMAIN m
    <3>1. f = m  BY <1>2, <2>3, PostRemoveIs, AfterNothing
    <3>2. LoadPostings(m, t) = <<>>  BY <2>1, <2>3, NoPostings
    <3>3. Without(<<>>, d) = <<>>  BY WithoutIs, NoKeys
    <3>4. \A k : SameAt(m, m, k)  BY DEF SameAt
    <3>5. Changed(m, m, t, Without(LoadPostings(m, t), d))  BY <3>2, <3>3, <3>4 DEF Changed
    <3> QED  BY <3>1, <3>5, Zenon
  <2> QED  BY <2>2, <2>3
<1> QED  BY <1>1, <1>2

----
(* A document's terms one after the other.                                 *)

LEMMA OneTerm ==
  ASSUME NEW m, TidyMap(m), NEW t \in Terms, NEW f, NEW g, Changed(f, m, t, g)
  PROVE  /\ TidyMap(f) /\ LoadPostings(f, t) = g
         /\ \A u \in Terms : u # t => LoadPostings(f, u) = LoadPostings(m, u)
<1>1. IndexMap(f) /\ LaidOut(f, t) /\ LoadPostings(f, t) = g /\ \A k : k[1] # t => SameAt(f, m, k)
  BY DEF Changed
<1>2. IndexMap(m) /\ HeadsOK(m) /\ \A u \in Terms : LaidOut(m, u)  BY DEF TidyMap
<1>3. ASSUME NEW u \in Terms, u # t PROVE LaidOut(f, u) /\ LoadPostings(f, u) = LoadPostings(m, u)
  <2>1. SameTerm(f, m, u)
    <3>1. HeaderKey(u)[1] = u /\ BlobKey(u)[1] = u /\ \A i \in Nat : BlockKey(u, i)[1] = u  BY KeysAre
    <3> QED  BY <3>1, <1>1, <1>3 DEF SameTerm
  <2> QED  BY <2>1, <1>1, <1>2, SameTermIs
<1>4. HeadsOK(f)
  <2> SUFFICES ASSUME NEW k \in DOMAIN f, k[2] \in {"header", "blob"}, k[1] # t PROVE k[1] \in Terms
    BY DEF HeadsOK
  <2>1. k \in DOMAIN m  BY <1>1 DEF SameAt
  <2> QED  BY <2>1, <1>2 DEF HeadsOK
<1>5. \A u \in Terms : LaidOut(f, u)  BY <1>1, <1>3
<1> QED  BY <1>1, <1>3, <1>4, <1>5 DEF TidyMap

LEMMA DropsSay ==
  ASSUME NEW m, TidyMap(m), NEW d, NEW S \in SUBSET Terms, IsFiniteSet(S),
         NEW f, f = AfterAll(m, Drops(m, d, S))
  PROVE  TidyMap(f) /\ Dropped(f, m, d, S)
<1> DEFINE ts == InOrder(S)
           n == Len(ts)
           Done(i) == {ts[j] : j \in 1..i}
<1>0. IndexMap(m)  BY DEF TidyMap
<1>1. /\ n \in Nat /\ (\A i \in 1..n : ts[i] \in S) /\ (\A t \in S : \E i \in 1..n : ts[i] = t)
      /\ \A i, j \in 1..n : ts[i] = ts[j] => i = j  BY InOrderIs
<1>2. PICK v \in [0..n -> Seq(PostWrites)] :
         v[0] = <<>> /\ Drops(m, d, S) = v[n] /\ DropsUp(v, m, d, S)  BY <1>0, DropsRuns
<1>3. \A i \in 1..n : v[i] = v[i - 1] \o PostRemove(AfterAll(m, v[i - 1]), ts[i], d)  BY <1>2 DEF DropsUp
<1> HIDE DEF n, ts
<1> DEFINE g(i) == AfterAll(m, v[i])
           A == {i \in 0..n : TidyMap(g(i)) /\ Dropped(g(i), m, d, Done(i))}
<1>4. 0 \in A
  <2>1. g(0) = m  BY <1>0, <1>2, AfterNothing
  <2>2. Done(0) = {}  OBVIOUS
  <2>3. Dropped(m, m, d, {})  BY DEF Dropped
  <2>4. 0 \in 0..n  BY <1>1
  <2> QED  BY <2>1, <2>2, <2>3, <2>4, Zenon
<1>5. ASSUME NEW i \in 0..n, i < n, i \in A PROVE i + 1 \in A
  <2> DEFINE h == i + 1
             t == ts[h]
  <2>1. h \in 1..n /\ h \in 0..n /\ h - 1 = i /\ h \notin 1..i /\ 1..h = (1..i) \cup {h} /\ 1..i \subseteq 1..n
    BY <1>1, <1>5
  <2>2. TidyMap(g(i)) /\ Dropped(g(i), m, d, Done(i))  BY <1>5
  <2>3. t \in Terms /\ t \notin Done(i) /\ Done(h) = Done(i) \cup {t}
    <3>1. t \notin Done(i)
      <4>1. ASSUME NEW j \in 1..i, ts[j] = ts[h] PROVE FALSE
        <5>1. j \in 1..n /\ j # h  BY <2>1
        <5> QED  BY <5>1, <4>1, <1>1, <2>1
      <4> QED  BY <4>1
    <3>2. Done(h) = Done(i) \cup {t}  BY <2>1
    <3> QED  BY <3>1, <3>2, <1>1, <2>1
  <2>4. v[h] = v[i] \o PostRemove(g(i), t, d) /\ v[i] \in Seq(PostWrites)  BY <1>2, <1>3, <2>1
  <2>5. IndexMap(g(i)) /\ LaidOut(g(i), t)  BY <2>2, <2>3 DEF TidyMap
  <2>6. PostRemove(g(i), t, d) \in Seq(PostWrites)  BY <2>3, <2>5, PostRemoveTyped
  <2>7. g(h) = AfterAll(g(i), PostRemove(g(i), t, d))  BY <1>0, <2>4, <2>6, AfterMore
  <2> HIDE DEF h, t, g, Done
  <2>8. Changed(g(h), g(i), t, Without(LoadPostings(g(i), t), d))  BY <2>3, <2>5, <2>7, PostRemoveSays
  <2>9. /\ TidyMap(g(h)) /\ LoadPostings(g(h), t) = Without(LoadPostings(g(i), t), d)
        /\ \A u \in Terms : u # t => LoadPostings(g(h), u) = LoadPostings(g(i), u)
    BY <2>2, <2>3, <2>8, OneTerm
  <2>10. Dropped(g(h), m, d, Done(h))
    <3> SUFFICES ASSUME NEW u \in Terms
                 PROVE  LoadPostings(g(h), u) =
                          IF u \in Done(h) THEN Without(LoadPostings(m, u), d) ELSE LoadPostings(m, u)
      BY DEF Dropped
    <3>1. LoadPostings(g(i), u) =
            IF u \in Done(i) THEN Without(LoadPostings(m, u), d) ELSE LoadPostings(m, u)  BY <2>2 DEF Dropped
    <3>2. CASE u = t  BY <3>1, <3>2, <2>3, <2>9
    <3>3. CASE u # t  BY <3>1, <3>3, <2>3, <2>9
    <3> QED  BY <3>2, <3>3
  <2>11. h \in A  BY <2>1, <2>9, <2>10
  <2> QED  BY <2>11 DEF h
<1> HIDE DEF A
<1>6. n \in A
  <2>1. \A i \in 0..n : i \in A  BY <1>1, <1>4, <1>5, UpTo
  <2> QED  BY <2>1, <1>1
<1>7. Done(n) = S
  <2>1. Done(n) \subseteq S  BY <1>1
  <2>2. S \subseteq Done(n)  BY <1>1
  <2> QED  BY <2>1, <2>2
<1>8. TidyMap(g(n)) /\ Dropped(g(n), m, d, S)  BY <1>6, <1>7 DEF A
<1> QED  BY <1>2, <1>8

LEMMA PostsSay ==
  ASSUME NEW m, IndexMap(m), NEW d \in Docs, NEW x, IsText(x), NEW before \in Seq(PostWrites),
         NEW b, b = AfterAll(m, before), TidyMap(b),
         NEW f, f = AfterAll(m, Posts(m, d, x, before))
  PROVE  TidyMap(f) /\ Posted(f, b, d, x, DOMAIN x)
<1> DEFINE S == DOMAIN x
           ts == InOrder(S)
           n == Len(ts)
           Done(i) == {ts[j] : j \in 1..i}
<1>0. S \in SUBSET Terms /\ IsFiniteSet(S) /\ \A t \in S : x[t] \in Nat \ {0}  BY DEF IsText
<1>1. /\ n \in Nat /\ (\A i \in 1..n : ts[i] \in S) /\ (\A t \in S : \E i \in 1..n : ts[i] = t)
      /\ \A i, j \in 1..n : ts[i] = ts[j] => i = j  BY <1>0, InOrderIs
<1>2. PICK v \in [0..n -> Seq(PostWrites)] :
         v[0] = before /\ Posts(m, d, x, before) = v[n] /\ AddsUp(v, m, d, x)  BY PostsRuns
<1>3. \A i \in 1..n : v[i] = v[i - 1] \o PostAdd(AfterAll(m, v[i - 1]), ts[i], d, x[ts[i]])
  BY <1>2 DEF AddsUp
<1> HIDE DEF n, ts, S
<1> DEFINE g(i) == AfterAll(m, v[i])
           A == {i \in 0..n : TidyMap(g(i)) /\ Posted(g(i), b, d, x, Done(i))}
<1>4. 0 \in A
  <2>1. g(0) = b  BY <1>2
  <2>2. Done(0) = {}  OBVIOUS
  <2>3. Posted(b, b, d, x, {})  BY DEF Posted
  <2>4. 0 \in 0..n  BY <1>1
  <2> QED  BY <2>1, <2>2, <2>3, <2>4, Zenon
<1>5. ASSUME NEW i \in 0..n, i < n, i \in A PROVE i + 1 \in A
  <2> DEFINE h == i + 1
             t == ts[h]
             y == x[t]
  <2>1. h \in 1..n /\ h \in 0..n /\ h - 1 = i /\ h \notin 1..i /\ 1..h = (1..i) \cup {h} /\ 1..i \subseteq 1..n
    BY <1>1, <1>5, SMTT(40)
  <2>2. TidyMap(g(i)) /\ Posted(g(i), b, d, x, Done(i))  BY <1>5
  <2>3. t \in Terms /\ y \in Nat \ {0} /\ t \notin Done(i) /\ Done(h) = Done(i) \cup {t}
    <3>1. t \notin Done(i)
      <4>1. ASSUME NEW j \in 1..i, ts[j] = ts[h] PROVE FALSE
        <5>1. j \in 1..n /\ j # h  BY <2>1
        <5> QED  BY <5>1, <4>1, <1>1, <2>1
      <4> QED  BY <4>1
    <3>2. Done(h) = Done(i) \cup {t}  BY <2>1
    <3>3. t \in S  BY <1>1, <2>1
    <3> QED  BY <3>1, <3>2, <3>3, <1>0
  <2>4. v[h] = v[i] \o PostAdd(g(i), t, d, y) /\ v[i] \in Seq(PostWrites)  BY <1>2, <1>3, <2>1
  <2>5. IndexMap(g(i)) /\ LaidOut(g(i), t)  BY <2>2, <2>3 DEF TidyMap
  <2> HIDE DEF y
  <2>6. PostAdd(g(i), t, d, y) \in Seq(PostWrites)  BY <2>3, <2>5, PostAddTyped
  <2>7. g(h) = AfterAll(g(i), PostAdd(g(i), t, d, y))  BY <2>4, <2>6, AfterMore
  <2> HIDE DEF h, t, g, Done
  <2>8. Changed(g(h), g(i), t, With(LoadPostings(g(i), t), d, y))  BY <2>3, <2>5, <2>7, PostAddSays
  <2>9. /\ TidyMap(g(h)) /\ LoadPostings(g(h), t) = With(LoadPostings(g(i), t), d, y)
        /\ \A u \in Terms : u # t => LoadPostings(g(h), u) = LoadPostings(g(i), u)
    BY <2>2, <2>3, <2>8, OneTerm
  <2>10. Posted(g(h), b, d, x, Done(h))
    <3> SUFFICES ASSUME NEW u \in Terms
                 PROVE  LoadPostings(g(h), u) =
                          IF u \in Done(h) THEN With(LoadPostings(b, u), d, x[u]) ELSE LoadPostings(b, u)
      BY DEF Posted
    <3>1. LoadPostings(g(i), u) =
            IF u \in Done(i) THEN With(LoadPostings(b, u), d, x[u]) ELSE LoadPostings(b, u)
      BY <2>2 DEF Posted
    <3>2. CASE u = t
      <4>1. y = x[u]  BY <3>2 DEF y
      <4> QED  BY <4>1, <3>1, <3>2, <2>3, <2>9
    <3>3. CASE u # t  BY <3>1, <3>3, <2>3, <2>9
    <3> QED  BY <3>2, <3>3
  <2>11. h \in A  BY <2>1, <2>9, <2>10
  <2> QED  BY <2>11 DEF h
<1> HIDE DEF A
<1>6. n \in A
  <2>1. \A i \in 0..n : i \in A  BY <1>1, <1>4, <1>5, UpTo
  <2> QED  BY <2>1, <1>1
<1>7. Done(n) = S
  <2>1. Done(n) \subseteq S  BY <1>1
  <2>2. S \subseteq Done(n)  BY <1>1
  <2> QED  BY <2>1, <2>2
<1>8. TidyMap(g(n)) /\ Posted(g(n), b, d, x, S)  BY <1>6, <1>7 DEF A
<1> QED  BY <1>2, <1>8 DEF S

----
(* The documents after a prefix of a log.                                  *)

LEMMA ContentsIs ==
  ASSUME NEW a
  PROVE  Contents(a) = DocsAfter(base, log, a)  BY DEF Contents, DocsAfter

LEMMA OperationIs ==
  ASSUME NEW o \in Operations
  PROVE  \/ o.op = "add" /\ o = AddOp(o.doc, o.text) /\ o.doc \in Docs /\ o.text \in Texts
         \/ o.op = "remove" /\ o = RemoveOp(o.doc) /\ o.doc \in Docs
         \/ o.op = "clear" /\ o = ClearOp
<1>1. CASE o \in {AddOp(d, x) : d \in Docs, x \in Texts}
  <2>1. PICK d \in Docs, x \in Texts : o = AddOp(d, x)  BY <1>1
  <2>2. o.op = "add" /\ o.doc = d /\ o.text = x  BY <2>1 DEF AddOp
  <2> QED  BY <2>1, <2>2
<1>2. CASE o \in {RemoveOp(d) : d \in Docs}
  <2>1. PICK d \in Docs : o = RemoveOp(d)  BY <1>2
  <2>2. o.op = "remove" /\ o.doc = d  BY <2>1 DEF RemoveOp
  <2> QED  BY <2>1, <2>2
<1>3. CASE o = ClearOp  BY <1>3 DEF ClearOp
<1> QED  BY <1>1, <1>2, <1>3 DEF Operations

LEMMA MapsOfDocs ==
  ASSUME NEW m
  PROVE  m \in DocMaps <=> IsFcn(m) /\ DOMAIN m \in DocSets
                           /\ \A d \in DOMAIN m : m[d] \in Texts \cup Range(Legacy)
<1>1. ASSUME m \in DocMaps
      PROVE  IsFcn(m) /\ DOMAIN m \in DocSets /\ \A d \in DOMAIN m : m[d] \in Texts \cup Range(Legacy)
  <2>1. PICK S \in DocSets : m \in [S -> Texts \cup Range(Legacy)]  BY <1>1 DEF DocMaps
  <2> QED  BY <2>1 DEF IsFcn
<1>2. ASSUME IsFcn(m), DOMAIN m \in DocSets, \A d \in DOMAIN m : m[d] \in Texts \cup Range(Legacy)
      PROVE  m \in DocMaps
  <2>1. m \in [DOMAIN m -> Texts \cup Range(Legacy)]  BY <1>2 DEF IsFcn
  <2> QED  BY <2>1, <1>2 DEF DocMaps
<1> QED  BY <1>1, <1>2

LEMMA SomeDocs ==
  ASSUME NEW S \in DocSets, NEW d
  PROVE  /\ {} \in DocSets /\ S \ {d} \in DocSets
         /\ d \in Docs => S \cup {d} \in DocSets  BY FS_EmptySet, FS_AddElement, FS_RemoveElement DEF DocSets

LEMMA EffectTyped ==
  ASSUME NEW docs \in DocMaps, NEW o \in Operations
  PROVE  Effect(docs, o) \in DocMaps
<1>0. IsFcn(docs) /\ DOMAIN docs \in DocSets /\ \A d \in DOMAIN docs : docs[d] \in Texts \cup Range(Legacy)
  BY MapsOfDocs
<1>1. CASE o.op = "add"
  <2>1. Effect(docs, o) = With(docs, o.doc, o.text) /\ o.doc \in Docs /\ o.text \in Texts
    BY <1>1, OperationIs DEF Effect
  <2> DEFINE f == With(docs, o.doc, o.text)
  <2>2. /\ IsFcn(f) /\ DOMAIN f = DOMAIN docs \cup {o.doc}
        /\ \A d \in DOMAIN f : f[d] = IF d = o.doc THEN o.text ELSE docs[d]  BY DEF With, IsFcn
  <2>3. DOMAIN f \in DocSets  BY <2>1, <2>2, <1>0, SomeDocs, ZenonT(40)
  <2>4. \A d \in DOMAIN f : f[d] \in Texts \cup Range(Legacy)  BY <2>1, <2>2, <1>0
  <2> HIDE DEF f
  <2> QED  BY <2>1, <2>2, <2>3, <2>4, MapsOfDocs DEF f
<1>2. CASE o.op = "remove"
  <2>1. Effect(docs, o) = Without(docs, o.doc)  BY <1>2 DEF Effect
  <2> DEFINE f == Without(docs, o.doc)
  <2>2. IsFcn(f) /\ DOMAIN f = DOMAIN docs \ {o.doc} /\ \A d \in DOMAIN f : f[d] = docs[d]
    BY DEF Without, Restrict, IsFcn
  <2>3. DOMAIN f \in DocSets  BY <2>2, <1>0, SomeDocs
  <2> HIDE DEF f
  <2>4. \A d \in DOMAIN f : f[d] \in Texts \cup Range(Legacy)  BY <2>2, <1>0
  <2> QED  BY <2>1, <2>2, <2>3, <2>4, MapsOfDocs DEF f
<1>3. CASE o.op = "clear"
  <2>1. Effect(docs, o) = <<>>  BY <1>3 DEF Effect
  <2> DEFINE f == <<>>
  <2>2. IsFcn(f) /\ DOMAIN f = {} /\ {} \in DocSets  BY <1>0, NoKeys, SomeDocs
  <2> HIDE DEF f
  <2>3. f \in DocMaps  BY <2>2, MapsOfDocs
  <2> QED  BY <2>1, <2>3 DEF f
<1> QED  BY <1>1, <1>2, <1>3, OperationIs

LEMMA BaseTyped == <<>> \in DocMaps /\ Legacy \in DocMaps
<1>1. {} \in DocSets  BY FS_EmptySet DEF DocSets
<1>2. <<>> \in DocMaps
  <2> DEFINE f == <<>>
  <2>1. IsFcn(f) /\ DOMAIN f = {}  BY NoKeys
  <2> HIDE DEF f
  <2>2. f \in DocMaps  BY <1>1, <2>1, MapsOfDocs
  <2> QED  BY <2>2 DEF f
<1>3. IsFcn(Legacy) /\ DOMAIN Legacy \in DocSets  BY TextsAssumption DEF IsFcn, DocSets
<1>4. \A d \in DOMAIN Legacy : Legacy[d] \in Texts \cup Range(Legacy)  BY DEF Range
<1> QED  BY <1>2, <1>3, <1>4, MapsOfDocs

LEMMA DocsRun ==
  ASSUME NEW b \in DocMaps, NEW l \in Seq(Operations), NEW a \in 0..Len(l)
  PROVE  \E v \in [0..a -> DocMaps] :
           /\ v[0] = b /\ DocsAfter(b, l, a) = v[a]
           /\ \A i \in 1..a : v[i] = Effect(v[i - 1], l[i])
<1> DEFINE X == DocMaps
           f(x, i) == Effect(x, l[i])
           step == [x \in (1..a) \X X |-> f(x[2], x[1])]
           Is(u) == u = [i \in 0..a |-> IF i = 0 THEN b ELSE f(u[i - 1], i)]
           v == CHOOSE u : Is(u)
<1>1. a \in Nat /\ \A i \in 1..a : l[i] \in Operations  OBVIOUS
<1>2. DocsAfter(b, l, a) = v[a]  BY DEF DocsAfter, Effect
<1>4. ASSUME NEW i \in 1..a, NEW x \in X PROVE f(x, i) \in X  BY <1>1, EffectTyped
<1> HIDE DEF f
<1>5. b \in X  OBVIOUS
<1> HIDE DEF X
<1>6. /\ step \in [(1..a) \X X -> X]
      /\ \A i \in 1..a, x \in X : step[<<i, x>>] = f(x, i)  BY <1>4
<1> HIDE DEF step
<1>7. PICK u \in [0..a -> X] : Recurses(u, b, a, step)  BY <1>1, <1>5, <1>6, Recursion
<1>8. ASSUME NEW i \in 0..a
      PROVE  u[i] = IF i = 0 THEN b ELSE f(u[i - 1], i)
  <2>1. CASE i = 0  BY <2>1, <1>7 DEF Recurses
  <2>2. CASE i # 0
    <3>1. i \in 1..a /\ i - 1 \in 0..a  BY <2>2, <1>1
    <3>2. u[i - 1] \in X  BY <3>1, <1>7
    <3>3. u[i] = step[<<i, u[i - 1]>>]  BY <2>2, <1>7 DEF Recurses
    <3> QED  BY <3>1, <3>2, <3>3, <2>2, <1>6
  <2> QED  BY <2>1, <2>2
<1>9. u = [i \in 0..a |-> u[i]]  BY <1>7 DEF Recurses
<1>10. Is(u)  BY <1>8, <1>9
<1>11. Is(v)
  <2> HIDE DEF Is
  <2> QED  BY <1>10, Zenon
<1> HIDE DEF v
<1>12. /\ v = [i \in 0..a |-> v[i]]
       /\ \A i \in 0..a : v[i] = IF i = 0 THEN b ELSE f(v[i - 1], i)  BY <1>11
<1> HIDE DEF Is
<1>a. v[0] = b
  <2>1. 0 \in 0..a  BY <1>1
  <2> QED  BY <2>1, <1>12
<1>b. ASSUME NEW i \in 1..a PROVE v[i] = f(v[i - 1], i)
  <2>1. i \in 0..a /\ i # 0  BY <1>1
  <2> QED  BY <2>1, <1>12
<1> DEFINE Y == {i \in 0..a : v[i] \in X}
<1>14. 0 \in Y  BY <1>1, <1>5, <1>a
<1>15. ASSUME NEW i \in 0..a, i < a, i \in Y PROVE i + 1 \in Y
  <2>1. i + 1 \in 1..a /\ i + 1 \in 0..a /\ (i + 1) - 1 = i  BY <1>15, <1>1
  <2>2. v[i + 1] = f(v[i], i + 1) /\ v[i] \in X  BY <2>1, <1>b, <1>15
  <2>3. f(v[i], i + 1) \in X  BY <1>4, <2>1, <2>2
  <2> QED  BY <2>1, <2>2, <2>3
<1> HIDE DEF Y
<1>16. \A i \in 0..a : i \in Y  BY <1>1, <1>14, <1>15, UpTo
<1>17. v \in [0..a -> X]  BY <1>12, <1>16 DEF Y
<1>18. \A i \in 1..a : v[i] = f(v[i - 1], i)  BY <1>b
<1> QED  BY <1>2, <1>a, <1>17, <1>18 DEF X, f

\* Documents after the same operations are the same.
LEMMA DocsAgree ==
  ASSUME NEW b \in DocMaps, NEW l \in Seq(Operations), NEW k \in Seq(Operations),
         NEW a \in Nat, a <= Len(l), a <= Len(k), \A i \in 1..a : l[i] = k[i]
  PROVE  DocsAfter(b, l, a) = DocsAfter(b, k, a)
<1>1. a \in 0..Len(l) /\ a \in 0..Len(k)  OBVIOUS
<1>2. PICK u \in [0..a -> DocMaps] : /\ u[0] = b /\ DocsAfter(b, l, a) = u[a]
                                     /\ \A i \in 1..a : u[i] = Effect(u[i - 1], l[i])  BY <1>1, DocsRun
<1>3. PICK v \in [0..a -> DocMaps] : /\ v[0] = b /\ DocsAfter(b, k, a) = v[a]
                                     /\ \A i \in 1..a : v[i] = Effect(v[i - 1], k[i])  BY <1>1, DocsRun
<1> DEFINE S == {i \in 0..a : u[i] = v[i]}
<1>4. 0 \in S  BY <1>2, <1>3
<1>5. ASSUME NEW i \in 0..a, i < a, i \in S PROVE i + 1 \in S
  <2>1. i + 1 \in 1..a /\ i + 1 \in 0..a /\ (i + 1) - 1 = i  BY <1>5
  <2>2. u[i] = v[i] /\ l[i + 1] = k[i + 1]  BY <1>5, <2>1
  <2> QED  BY <2>1, <2>2, <1>2, <1>3
<1> HIDE DEF S
<1>6. \A i \in 0..a : i \in S  BY <1>4, <1>5, UpTo
<1>7. a \in S  BY <1>6
<1> QED  BY <1>2, <1>3, <1>7 DEF S

LEMMA DocsStep ==
  ASSUME NEW b \in DocMaps, NEW l \in Seq(Operations)
  PROVE  /\ DocsAfter(b, l, 0) = b
         /\ \A a \in 0..Len(l) : DocsAfter(b, l, a) \in DocMaps
         /\ \A a \in 1..Len(l) : DocsAfter(b, l, a) = Effect(DocsAfter(b, l, a - 1), l[a])
<1>1. ASSUME NEW a \in 0..Len(l) PROVE DocsAfter(b, l, a) \in DocMaps
  <2>1. PICK v \in [0..a -> DocMaps] : DocsAfter(b, l, a) = v[a]  BY DocsRun
  <2> QED  BY <2>1
<1>2. DocsAfter(b, l, 0) = b
  <2>1. 0 \in 0..Len(l)  OBVIOUS
  <2>2. PICK v \in [0..0 -> DocMaps] : v[0] = b /\ DocsAfter(b, l, 0) = v[0]  BY <2>1, DocsRun
  <2> QED  BY <2>2
<1>3. ASSUME NEW a \in 1..Len(l) PROVE DocsAfter(b, l, a) = Effect(DocsAfter(b, l, a - 1), l[a])
  <2> DEFINE c == a - 1
  <2>1. a \in 0..Len(l) /\ c \in 0..Len(l) /\ c \in Nat /\ a \in 1..a /\ c \in 0..a  OBVIOUS
  <2>2. PICK v \in [0..a -> DocMaps] : /\ v[0] = b /\ DocsAfter(b, l, a) = v[a]
                                       /\ \A i \in 1..a : v[i] = Effect(v[i - 1], l[i])
    BY <2>1, DocsRun, SMTT(40)
  <2>3. PICK u \in [0..c -> DocMaps] : /\ u[0] = b /\ DocsAfter(b, l, c) = u[c]
                                       /\ \A i \in 1..c : u[i] = Effect(u[i - 1], l[i])
    <3> HIDE DEF c
    <3> QED  BY <2>1, DocsRun, ZenonT(40)
  <2> DEFINE S == {i \in 0..c : u[i] = v[i]}
  <2>4. 0 \in S  BY <2>1, <2>2, <2>3
  <2>5. ASSUME NEW i \in 0..c, i < c, i \in S PROVE i + 1 \in S
    <3>1. i + 1 \in 1..c /\ i + 1 \in 1..a /\ i + 1 \in 0..c /\ (i + 1) - 1 = i  BY <2>5
    <3>2. u[i] = v[i]  BY <2>5
    <3> QED  BY <3>1, <3>2, <2>2, <2>3
  <2> HIDE DEF S
  <2>6. c \in S
    <3> HIDE DEF c
    <3>1. \A i \in 0..c : i \in S  BY <2>1, <2>4, <2>5, UpTo
    <3> QED  BY <3>1, <2>1
  <2>7. v[a] = Effect(v[a - 1], l[a])  BY <2>1, <2>2
  <2> QED  BY <2>2, <2>3, <2>6, <2>7 DEF S
<1> QED  BY <1>1, <1>2, <1>3

----
(* The writes of a call.                                                   *)

LEMMA SeqIs ==
  ASSUME NEW A, NEW s \in Seq(A)
  PROVE  IsSeq(s)
<1>1. s \in Seq({s[i] : i \in DOMAIN s})  OBVIOUS
<1> QED  BY <1>1 DEF IsSeq, ToSet

LEMMA FourMore ==
  ASSUME NEW A, NEW p \in Seq(A), NEW a, NEW b, NEW c, NEW e, NEW ws, ws = p \o <<a, b, c, e>>
  PROVE  EndsIn(ws, p, a, b, c, e)
<1> DEFINE B == A \cup {a, b, c, e}
           q == <<a, b, c, e>>
<1>1. p \in Seq(B) /\ q \in Seq(B) /\ Len(q) = 4 /\ q[1] = a /\ q[2] = b /\ q[3] = c /\ q[4] = e  OBVIOUS
<1>2. ws = p \o q  OBVIOUS
<1> HIDE DEF B, q
<1>3. /\ ws \in Seq(B) /\ Len(ws) = Len(p) + Len(q)
      /\ \A i \in 1..(Len(p) + Len(q)) : ws[i] = IF i <= Len(p) THEN p[i] ELSE q[i - Len(p)]
  BY <1>1, <1>2, Joined
<1>4. Len(p) \in Nat  OBVIOUS
<1> DEFINE l == Len(p)
<1>5. Len(ws) = l + 4 /\ l \in Nat  BY <1>1, <1>3, <1>4
<1>6. \A i \in 1..(l + 4) : ws[i] = IF i <= l THEN p[i] ELSE q[i - l]  BY <1>1, <1>3
<1> HIDE DEF l
<1>7. \A i \in 1..l : ws[i] = p[i]  BY <1>5, <1>6
<1>8. ws[l + 1] = q[1] /\ ws[l + 2] = q[2] /\ ws[l + 3] = q[3] /\ ws[l + 4] = q[4]
  <2>1. /\ (l + 1) - l = 1 /\ (l + 2) - l = 2 /\ (l + 3) - l = 3 /\ (l + 4) - l = 4
        /\ ~ (l + 1 <= l) /\ ~ (l + 2 <= l) /\ ~ (l + 3 <= l) /\ ~ (l + 4 <= l)
        /\ l + 1 \in 1..(l + 4) /\ l + 2 \in 1..(l + 4) /\ l + 3 \in 1..(l + 4) /\ l + 4 \in 1..(l + 4)
    BY <1>5
  <2> QED  BY <2>1, <1>6
<1>9. SubSeq(ws, 1, l) = p
  <2>1. SubSeq(ws, 1, l) = [i \in 1..l |-> ws[i]]  BY <1>3, <1>5
  <2>2. p = [i \in 1..l |-> p[i]]  BY DEF l
  <2> QED  BY <2>1, <2>2, <1>7
<1>10. Len(ws) - 4 = l /\ Len(ws) - 3 = l + 1 /\ Len(ws) - 2 = l + 2 /\ Len(ws) - 1 = l + 3  BY <1>5
<1>11. IsSeq(ws)  BY <1>3, SeqIs
<1>12. /\ SubSeq(ws, 1, Len(ws) - 4) = p
       /\ ws[Len(ws) - 3] = a /\ ws[Len(ws) - 2] = b /\ ws[Len(ws) - 1] = c /\ ws[Len(ws)] = e
  BY <1>1, <1>5, <1>8, <1>9, <1>10
<1> QED  BY <1>5, <1>7, <1>11, <1>12 DEF l, EndsIn

LEMMA UpdatingIs ==
  ASSUME NEW o \in Operations, o.op # "clear", NEW ps \in Seq(PostWrites), NEW v, NEW ws,
         ws = ps \o <<TermsWrite(o), LengthsWrite(o), Put("index", SumKey, v), Record>>
  PROVE  Planned(ws, o, ps, v)
<1>1. /\ IsSeq(ws) /\ Len(ws) = Len(ps) + 4 /\ Len(ps) \in Nat
      /\ SubSeq(ws, 1, Len(ws) - 4) = ps
      /\ \A i \in 1..Len(ps) : ws[i] = ps[i]
      /\ ws[Len(ws) - 3] = TermsWrite(o) /\ ws[Len(ws) - 2] = LengthsWrite(o)
      /\ ws[Len(ws) - 1] = Put("index", SumKey, v) /\ ws[Len(ws)] = Record
  <2> DEFINE x == TermsWrite(o)
             y == LengthsWrite(o)
             z == Put("index", SumKey, v)
             r == Record
  <2>1. ws = ps \o <<x, y, z, r>>  OBVIOUS
  <2> HIDE DEF PostWrites, x, y, z, r
  <2>2. EndsIn(ws, ps, x, y, z, r)  BY <2>1, FourMore
  <2> QED  BY <2>2 DEF EndsIn, x, y, z, r
<1>2. ws[Len(ws) - 1].val = v  BY <1>1 DEF Put
<1>3. \A i \in 1..(Len(ws) - 4) : IndexWrite(ws[i])
  <2>1. Len(ws) - 4 = Len(ps) /\ \A i \in 1..Len(ps) : ps[i] \in PostWrites  BY <1>1
  <2> QED  BY <2>1, <1>1 DEF PostWrites
<1>4. Updating(ws, o)  BY <1>1, <1>2, <1>3 DEF Updating
<1>5. ws # <<>> /\ Len(ws) > 3  BY <1>1
<1> QED  BY <1>1, <1>2, <1>4, <1>5 DEF Planned

LEMMA TextIs ==
  ASSUME NEW terms \in DocMaps, NEW d
  PROVE  IsText(At(terms, d, <<>>)) /\ (d \in DOMAIN terms => IsText(terms[d]))
<1>1. d \in DOMAIN terms => IsText(terms[d])  BY MapsOfDocs, TextsAssumption
<1>2. IsText(<<>>)
  <2> DEFINE f == <<>>
  <2>1. DOMAIN f = {} /\ f = [t \in DOMAIN f |-> f[t]]  OBVIOUS
  <2> HIDE DEF f
  <2>2. IsText(f)  BY <2>1, FS_EmptySet DEF IsText
  <2> QED  BY <2>2 DEF f
<1> QED  BY <1>1, <1>2 DEF At

LEMMA AddIs ==
  ASSUME NEW m, IndexMap(m), NEW terms \in DocMaps, NEW lens, NEW o \in Operations, o.op = "add"
  PROVE  /\ AddPosts(m, terms, o) \in Seq(PostWrites)
         /\ AddWrites(m, terms, lens, o.doc, o.text) =
              AddPosts(m, terms, o)
                \o <<TermsWrite(o), LengthsWrite(o),
                     Put("index", SumKey, NewSum(m, terms, lens, o)), Record>>
<1> DEFINE old == At(terms, o.doc, <<>>)
           gone == DOMAIN old \ DOMAIN o.text
<1>1. o.doc \in Docs /\ IsText(o.text) /\ IsText(old)  BY OperationIs, TextsAssumption, TextIs
<1>2. gone \in SUBSET Terms /\ IsFiniteSet(gone)  BY <1>1, FS_Subset DEF IsText
<1> HIDE DEF gone
<1>3. Drops(m, o.doc, gone) \in Seq(PostWrites)  BY <1>2, DropsTyped
<1>4. Posts(m, o.doc, o.text, Drops(m, o.doc, gone)) \in Seq(PostWrites)  BY <1>1, <1>3, PostsTyped
<1>5. AddWrites(m, terms, lens, o.doc, o.text) =
        AddPosts(m, terms, o)
          \o <<Put("terms", o.doc, o.text), Put("lengths", o.doc, Length(o.text)),
               Put("index", SumKey, NewSum(m, terms, lens, o)), Record>>  BY DEF AddWrites, AddPosts, NewSum
<1>6. TermsWrite(o) = Put("terms", o.doc, o.text) /\ LengthsWrite(o) = Put("lengths", o.doc, Length(o.text))
  BY DEF TermsWrite, LengthsWrite
<1> QED  BY <1>4, <1>5, <1>6 DEF AddPosts, gone

LEMMA RemoveIs ==
  ASSUME NEW m, IndexMap(m), NEW terms \in DocMaps, NEW lens, NEW o \in Operations, o.op = "remove",
         o.doc \in DOMAIN terms
  PROVE  /\ RemovePosts(m, terms, o) \in Seq(PostWrites)
         /\ RemoveWrites(m, terms, lens, o.doc) =
              RemovePosts(m, terms, o)
                \o <<TermsWrite(o), LengthsWrite(o),
                     Put("index", SumKey, NewSum(m, terms, lens, o)), Record>>
<1> DEFINE gone == DOMAIN terms[o.doc]
<1>1. IsText(terms[o.doc])  BY TextIs
<1>2. gone \in SUBSET Terms /\ IsFiniteSet(gone)  BY <1>1 DEF IsText
<1> HIDE DEF gone
<1>3. Drops(m, o.doc, gone) \in Seq(PostWrites)  BY <1>2, DropsTyped
<1>5. RemoveWrites(m, terms, lens, o.doc) =
        RemovePosts(m, terms, o)
          \o <<Del("terms", o.doc), Del("lengths", o.doc),
               Put("index", SumKey, NewSum(m, terms, lens, o)), Record>>
  BY DEF RemoveWrites, RemovePosts, NewSum
<1>6. TermsWrite(o) = Del("terms", o.doc) /\ LengthsWrite(o) = Del("lengths", o.doc)
  BY DEF TermsWrite, LengthsWrite
<1> QED  BY <1>3, <1>5, <1>6 DEF RemovePosts, gone

\* What a call may have to write.
LEMMA WritesAre ==
  ASSUME NEW o \in Operations, IndexMap(Map("index")), Map("terms") \in DocMaps
  PROVE  \/ Writes(o) = <<>> /\ o.op = "remove" /\ o.doc \notin DOMAIN Map("terms")
         \/ /\ o.op = "add"
            /\ Planned(Writes(o), o, AddPosts(Map("index"), Map("terms"), o),
                       NewSum(Map("index"), Map("terms"), Map("lengths"), o))
         \/ /\ o.op = "remove" /\ o.doc \in DOMAIN Map("terms")
            /\ Planned(Writes(o), o, RemovePosts(Map("index"), Map("terms"), o),
                       NewSum(Map("index"), Map("terms"), Map("lengths"), o))
         \/ o.op = "clear" /\ Writes(o) = ClearWrites
<1> DEFINE m == Map("index")
           terms == Map("terms")
           lens == Map("lengths")
           sum == NewSum(m, terms, lens, o)
<1> HIDE DEF m, terms, lens, sum
<1>0. IndexMap(m) /\ terms \in DocMaps  BY DEF m, terms
<1>1. CASE o.op = "add"
  <2> DEFINE ps == AddPosts(m, terms, o)
             ws == Writes(o)
  <2>1. ws = AddWrites(m, terms, lens, o.doc, o.text)  BY <1>1 DEF Writes, m, terms, lens
  <2>2. /\ ps \in Seq(PostWrites)
        /\ ws = ps \o <<TermsWrite(o), LengthsWrite(o), Put("index", SumKey, sum), Record>>
    BY <2>1, <1>0, <1>1, AddIs DEF sum
  <2> HIDE DEF ps, ws
  <2>3. Planned(ws, o, ps, sum)  BY <2>2, <1>1, UpdatingIs
  <2> QED  BY <2>3, <1>1 DEF ps, ws, m, terms, lens, sum
<1>2. CASE o.op = "remove" /\ o.doc \in DOMAIN terms
  <2> DEFINE ps == RemovePosts(m, terms, o)
             ws == Writes(o)
  <2>1. ws = RemoveWrites(m, terms, lens, o.doc)  BY <1>2 DEF Writes, m, terms, lens
  <2>2. /\ ps \in Seq(PostWrites)
        /\ ws = ps \o <<TermsWrite(o), LengthsWrite(o), Put("index", SumKey, sum), Record>>
    BY <2>1, <1>0, <1>2, RemoveIs DEF sum
  <2> HIDE DEF ps, ws
  <2>3. Planned(ws, o, ps, sum)  BY <2>2, <1>2, UpdatingIs
  <2> QED  BY <2>3, <1>2 DEF ps, ws, m, terms, lens, sum
<1>3. CASE o.op = "remove" /\ o.doc \notin DOMAIN terms
  <2>1. Writes(o) = RemoveWrites(m, terms, lens, o.doc)  BY <1>3 DEF Writes, m, terms, lens
  <2>2. Writes(o) = <<>>  BY <2>1, <1>3 DEF RemoveWrites
  <2> QED  BY <2>2, <1>3 DEF terms
<1>4. CASE o.op = "clear"  BY <1>4 DEF Writes
<1> QED  BY <1>1, <1>2, <1>3, <1>4, OperationIs

----
(* What the documents make of the postings.                                *)

LEMMA HavingIs ==
  ASSUME NEW docs, NEW t
  PROVE  /\ IsFcn(Having(docs, t))
         /\ \A d : d \in DOMAIN Having(docs, t) <=> d \in DOMAIN docs /\ t \in DOMAIN docs[d]
         /\ \A d \in DOMAIN Having(docs, t) : Having(docs, t)[d] = docs[d][t]  BY DEF Having, IsFcn

LEMMA PostingsAre ==
  ASSUME NEW m, IndexMap(m), NEW docs
  PROVE  PostingsOK(m, docs) <=> TidyMap(m) /\ \A t \in Terms : LoadPostings(m, t) = Having(docs, t)
<1>1. PostingsOK(m, docs) <=>
        HeadsOK(m) /\ \A t \in Terms : LaidOut(m, t) /\ LoadPostings(m, t) = Having(docs, t)
  BY DEF PostingsOK, HeadsOK, Having
<1> QED  BY <1>1 DEF TidyMap

LEMMA HavingWith ==
  ASSUME NEW docs, NEW d, NEW x, NEW t
  PROVE  /\ t \in DOMAIN x => Having(With(docs, d, x), t) = With(Having(docs, t), d, x[t])
         /\ t \notin DOMAIN x => Having(With(docs, d, x), t) = Without(Having(docs, t), d)
         /\ Having(Without(docs, d), t) = Without(Having(docs, t), d)
         /\ ~ (d \in DOMAIN docs /\ t \in DOMAIN docs[d]) => Without(Having(docs, t), d) = Having(docs, t)
<1> DEFINE h == Having(docs, t)
           a == With(docs, d, x)
           b == Without(docs, d)
           f == Having(a, t)
           g == Having(b, t)
           p == With(h, d, x[t])
           q == Without(h, d)
<1>1. /\ IsFcn(h) /\ (\A e : e \in DOMAIN h <=> e \in DOMAIN docs /\ t \in DOMAIN docs[e])
      /\ \A e \in DOMAIN h : h[e] = docs[e][t]  BY HavingIs
<1>2. /\ IsFcn(f) /\ (\A e : e \in DOMAIN f <=> e \in DOMAIN a /\ t \in DOMAIN a[e])
      /\ \A e \in DOMAIN f : f[e] = a[e][t]  BY HavingIs
<1>3. /\ IsFcn(g) /\ (\A e : e \in DOMAIN g <=> e \in DOMAIN b /\ t \in DOMAIN b[e])
      /\ \A e \in DOMAIN g : g[e] = b[e][t]  BY HavingIs
<1>4. DOMAIN a = DOMAIN docs \cup {d} /\ a[d] = x /\ \A e \in DOMAIN docs : e # d => a[e] = docs[e]
  BY DEF With
<1>5. DOMAIN b = DOMAIN docs \ {d} /\ \A e \in DOMAIN docs : e # d => b[e] = docs[e]  BY DEF Without, Restrict
<1> HIDE DEF h, a, b, f, g
<1>6. IsFcn(p) /\ DOMAIN p = DOMAIN h \cup {d} /\ p[d] = x[t] /\ \A e \in DOMAIN h : e # d => p[e] = h[e]
  BY DEF With, IsFcn
<1>7. /\ IsFcn(q) /\ DOMAIN q = DOMAIN h \ {d} /\ (\A e \in DOMAIN h : e # d => q[e] = h[e])
      /\ d \notin DOMAIN h => q = h  BY <1>1, WithoutIs
<1> HIDE DEF p, q
<1>8. ASSUME t \in DOMAIN x PROVE f = p
  <2>1. \A e : e \in DOMAIN f <=> e \in DOMAIN p  BY <1>1, <1>2, <1>4, <1>6, <1>8
  <2>2. \A e \in DOMAIN f : f[e] = p[e]  BY <1>1, <1>2, <1>4, <1>6, <1>8
  <2> QED  BY <2>1, <2>2, <1>2, <1>6, SameMap
<1>9. ASSUME t \notin DOMAIN x PROVE f = q
  <2>1. \A e : e \in DOMAIN f <=> e \in DOMAIN q  BY <1>1, <1>2, <1>4, <1>7, <1>9
  <2>2. \A e \in DOMAIN f : f[e] = q[e]  BY <1>1, <1>2, <1>4, <1>7, <1>9
  <2> QED  BY <2>1, <2>2, <1>2, <1>7, SameMap
<1>10. g = q
  <2>1. \A e : e \in DOMAIN g <=> e \in DOMAIN q  BY <1>1, <1>3, <1>5, <1>7
  <2>2. \A e \in DOMAIN g : g[e] = q[e]  BY <1>1, <1>3, <1>5, <1>7
  <2> QED  BY <2>1, <2>2, <1>3, <1>7, SameMap
<1> QED  BY <1>1, <1>7, <1>8, <1>9, <1>10 DEF h, a, b, f, g, p, q

LEMMA LensOf ==
  ASSUME NEW docs
  PROVE  /\ IsFcn(LengthsOf(docs)) /\ DOMAIN LengthsOf(docs) = DOMAIN docs
         /\ \A d \in DOMAIN docs : LengthsOf(docs)[d] = Length(docs[d])  BY DEF LengthsOf, IsFcn

LEMMA NewLensIs ==
  ASSUME NEW docs, NEW o, o.op \in {"add", "remove"}
  PROVE  NewLens(LengthsOf(docs), o) = LengthsOf(Effect(docs, o))
<1> DEFINE l == LengthsOf(docs)
           d == o.doc
           x == o.text
<1>1. /\ IsFcn(l) /\ DOMAIN l = DOMAIN docs /\ \A e \in DOMAIN docs : l[e] = Length(docs[e])  BY LensOf
<1>2. CASE o.op = "add"
  <2>1. NewLens(l, o) = With(l, d, Length(x)) /\ Effect(docs, o) = With(docs, d, x)
    BY <1>2 DEF NewLens, Effect
  <2> DEFINE f == With(l, d, Length(x))
             g == With(docs, d, x)
             h == LengthsOf(g)
  <2> HIDE DEF l, d, x
  <2>2. IsFcn(f) /\ DOMAIN f = DOMAIN l \cup {d} /\ f[d] = Length(x) /\ \A j \in DOMAIN l : j # d => f[j] = l[j]
    <3> DEFINE v == Length(x)
    <3> HIDE DEF v
    <3>1. /\ IsFcn(With(l, d, v)) /\ DOMAIN With(l, d, v) = DOMAIN l \cup {d}
          /\ With(l, d, v)[d] = v /\ \A j \in DOMAIN l : j # d => With(l, d, v)[j] = l[j]  BY DEF With, IsFcn
    <3> QED  BY <3>1 DEF v
  <2>3. DOMAIN g = DOMAIN docs \cup {d} /\ g[d] = x /\ \A j \in DOMAIN docs : j # d => g[j] = docs[j]
    BY DEF With
  <2>4. IsFcn(h) /\ DOMAIN h = DOMAIN g /\ \A e \in DOMAIN g : h[e] = Length(g[e])
    <3> HIDE DEF g
    <3> QED  BY LensOf
  <2> HIDE DEF f, g, h
  <2>5. \A e \in DOMAIN f : f[e] = h[e]  BY <1>1, <2>2, <2>3, <2>4
  <2>6. DOMAIN f = DOMAIN h  BY <1>1, <2>2, <2>3, <2>4
  <2>7. f = h  BY <2>2, <2>4, <2>5, <2>6, SameMap
  <2> QED  BY <2>1, <2>7 DEF f, g, h, l
<1>3. CASE o.op = "remove"
  <2>1. NewLens(l, o) = Without(l, d) /\ Effect(docs, o) = Without(docs, d)  BY <1>3 DEF NewLens, Effect
  <2> DEFINE f == Without(l, d)
             g == Without(docs, d)
             h == LengthsOf(g)
  <2> HIDE DEF l, d
  <2>2. IsFcn(f) /\ DOMAIN f = DOMAIN l \ {d} /\ \A j \in DOMAIN l : j # d => f[j] = l[j]  BY WithoutIs
  <2>3. DOMAIN g = DOMAIN docs \ {d} /\ \A j \in DOMAIN docs : j # d => g[j] = docs[j]  BY WithoutIs
  <2>4. IsFcn(h) /\ DOMAIN h = DOMAIN g /\ \A e \in DOMAIN g : h[e] = Length(g[e])
    <3> HIDE DEF g
    <3> QED  BY LensOf
  <2> HIDE DEF f, g, h
  <2>5. \A e \in DOMAIN f : f[e] = h[e]  BY <1>1, <2>2, <2>3, <2>4
  <2>6. DOMAIN f = DOMAIN h  BY <1>1, <2>2, <2>3, <2>4
  <2>7. f = h  BY <2>2, <2>4, <2>5, <2>6, SameMap
  <2> QED  BY <2>1, <2>7 DEF f, g, h, l
<1> QED  BY <1>2, <1>3

\* The map an empty index has serves no documents.
LEMMA NothingMapped ==
  ASSUME NEW m, IsFcn(m), DOMAIN m = {}
  PROVE  IndexMap(m) /\ PostingsOK(m, m) /\ SumKey \notin DOMAIN m
<1>1. IndexMap(m)  BY BoundedMap
<1>2. ASSUME NEW t \in Terms PROVE LaidOut(m, t) /\ LoadPostings(m, t) = <<>> /\ Having(m, t) = <<>>
  <2>1. Unchained(m, t) /\ BlobKey(t) \notin DOMAIN m  BY DEF Unchained
  <2>2. LaidOut(m, t) /\ LoadPostings(m, t) = <<>>  BY <1>1, <2>1, NoPostings
  <2> DEFINE h == Having(m, t)
             z == <<>>
  <2>3. IsFcn(h) /\ DOMAIN h = {}  BY HavingIs
  <2>4. IsFcn(z) /\ DOMAIN z = {}  BY NoKeys
  <2> HIDE DEF h, z
  <2>5. h = z  BY <2>3, <2>4, SameMap
  <2> QED  BY <2>2, <2>5 DEF h, z
<1>3. TidyMap(m)  BY <1>1, <1>2 DEF TidyMap, HeadsOK
<1>4. \A t \in Terms : LoadPostings(m, t) = Having(m, t)  BY <1>2
<1> QED  BY <1>1, <1>3, <1>4, PostingsAre

LEMMA NothingServes == Serves(<<>>, <<>>)
<1> DEFINE z == <<>>
<1>1. IsFcn(z) /\ DOMAIN z = {}  BY NoKeys
<1> HIDE DEF z
<1>2. Serves(z, z)  BY <1>1, NothingMapped DEF Serves, SumOK
<1> QED  BY <1>2 DEF z

LEMMA BlobIs ==
  ASSUME NEW docs \in DocMaps, NEW t \in Terms
  PROVE  /\ BlobOf(docs, t) \in Dict /\ Single(BlobOf(docs, t))
         /\ \A d, v : Has(BlobOf(docs, t), d, v) <=> d \in DOMAIN Having(docs, t) /\ v = Having(docs, t)[d]
<1> DEFINE S == {d \in DOMAIN docs : t \in DOMAIN docs[d]}
           ds == InOrder(S)
           n == Len(ds)
           p(d) == <<d, docs[d][t]>>
           b == [i \in 1..n |-> p(ds[i])]
           P == Docs \X (Nat \ {0})
<1>1. IsFiniteSet(S) /\ S \subseteq Docs  BY MapsOfDocs, FS_Subset DEF DocSets
<1>2. \A d \in S : p(d) \in P
  <2> SUFFICES ASSUME NEW d \in S PROVE docs[d][t] \in Nat \ {0}  BY <1>1
  <2>1. IsText(docs[d])  BY TextIs
  <2> QED  BY <2>1 DEF IsText
<1>3. DOMAIN Having(docs, t) = S /\ \A d \in S : Having(docs, t)[d] = docs[d][t]  BY DEF Having
<1>4. /\ ds \in Seq(S) /\ n \in Nat /\ (\A i \in 1..n : ds[i] \in S)
      /\ \A x \in S : \E i \in 1..n : ds[i] = x
      /\ \A i, j \in 1..n : ds[i] = ds[j] => i = j
  <2> HIDE DEF S
  <2>1. /\ ds \in Seq(S)
        /\ \A x \in S : \E i \in 1..n : ds[i] = x
        /\ \A i, j \in 1..n : ds[i] = ds[j] => i = j  BY <1>1, InOrderIs
  <2> HIDE DEF ds
  <2> QED  BY <2>1
<1>5. DOMAIN ds = 1..n  BY <1>4
<1>6. BlobOf(docs, t) = b  BY <1>5 DEF BlobOf, InOrder
<1>7. \A d : p(d)[1] = d  OBVIOUS
<1>8. \A d, w : p(d) = <<d, w>> <=> w = docs[d][t]  OBVIOUS
<1> HIDE DEF S, ds, n, P
<1>9. b \in Dict
  <2>1. \A i \in 1..n : p(ds[i]) \in P  BY <1>2, <1>4
  <2> HIDE DEF p
  <2>2. b \in [1..n -> P]  BY <2>1
  <2>3. b \in Seq(P)  BY <2>2, <1>4
  <2> QED  BY <2>3 DEF Dict, P
<1>10. DOMAIN b = 1..n /\ \A i \in 1..n : b[i] = p(ds[i])  OBVIOUS
<1> HIDE DEF b
<1>11. Single(b)
  <2> SUFFICES ASSUME NEW x \in 1..n, NEW y \in 1..n, b[x][1] = b[y][1] PROVE x = y  BY <1>10 DEF Single
  <2>1. ds[x] = ds[y]  BY <1>7, <1>10
  <2> QED  BY <2>1, <1>4
<1>12. ASSUME NEW d, NEW v PROVE Has(b, d, v) <=> d \in S /\ v = docs[d][t]
  <2>1. Has(b, d, v) <=> \E i \in 1..n : p(ds[i]) = <<d, v>>  BY <1>10 DEF Has
  <2>2. ASSUME NEW i \in 1..n, p(ds[i]) = <<d, v>> PROVE d \in S /\ v = docs[d][t]
    <3>1. ds[i] = d  BY <2>2
    <3> QED  BY <3>1, <2>2, <1>4, <1>8
  <2>3. ASSUME d \in S, v = docs[d][t] PROVE \E i \in 1..n : p(ds[i]) = <<d, v>>  BY <2>3, <1>4
  <2> QED  BY <2>1, <2>2, <2>3
<1> QED  BY <1>3, <1>6, <1>9, <1>11, <1>12

\* The files of an older index serve their documents.
LEMMA OlderServes ==
  ASSUME NEW docs \in DocMaps
  PROVE  IndexMap(LegacyMap(docs)) /\ Serves(LegacyMap(docs), docs)
<1> DEFINE m == LegacyMap(docs)
           used == {t \in Terms : \E d \in DOMAIN docs : t \in DOMAIN docs[d]}
<1>1. IsFcn(m) /\ DOMAIN m = {BlobKey(t) : t \in used} /\ \A k \in DOMAIN m : m[k] = BlobOf(docs, k[1])
  BY DEF LegacyMap, IsFcn, BlobOf
<1>2. \A t \in used : BlobKey(t) \in Keys /\ BlobKey(t)[1] = t /\ BlobKey(t)[2] = "blob" /\ BlobKey(t)[3] = 0
  BY KeysAre
<1>3. \A k \in DOMAIN m : k \in Keys /\ k[1] \in used /\ k[2] = "blob" /\ k[3] = 0  BY <1>1, <1>2
<1>4. \A t \in Terms : t \in used <=> DOMAIN Having(docs, t) # {}  BY DEF Having
<1>5. \A t \in Terms : t \notin used => BlobKey(t) \notin DOMAIN m
  <2>1. \A t \in Terms : BlobKey(t)[1] = t  BY KeysAre
  <2> QED  BY <2>1, <1>3
<1> HIDE DEF m
<1>6. \A t \in used : t \in Terms /\ BlobKey(t) \in DOMAIN m /\ m[BlobKey(t)] = BlobOf(docs, t)  BY <1>1, <1>2
<1> HIDE DEF used
<1>7. \A k \in DOMAIN m : ValueOK(k, m[k])  BY <1>1, <1>3, <1>6, BlobIs DEF ValueOK
<1>8. IndexMap(m)
  <2>1. \A k \in DOMAIN m : k[3] <= 0  BY <1>3
  <2> QED  BY <2>1, <1>1, <1>3, <1>7, BoundedMap
<1>9. ASSUME NEW t \in Terms PROVE LaidOut(m, t) /\ LoadPostings(m, t) = Having(docs, t)
  <2>1. Unchained(m, t)
    <3>1. HeaderKey(t)[2] = "header" /\ \A i \in Nat : BlockKey(t, i)[2] = "block"  BY KeysAre
    <3> QED  BY <3>1, <1>3 DEF Unchained
  <2>2. CASE t \notin used
    <3> DEFINE h == Having(docs, t)
               z == <<>>
    <3>1. LaidOut(m, t) /\ LoadPostings(m, t) = <<>>  BY <1>5, <1>8, <2>1, <2>2, NoPostings
    <3>2. IsFcn(h) /\ DOMAIN h = {}  BY <1>4, <2>2, HavingIs
    <3>3. IsFcn(z) /\ DOMAIN z = {}  BY NoKeys
    <3> HIDE DEF h, z
    <3>4. h = z  BY <3>2, <3>3, SameMap
    <3> QED  BY <3>1, <3>4 DEF h, z
  <2>3. CASE t \in used
    <3> DEFINE c == Dicts(m, t)
               b == BlobOf(docs, t)
               h == Having(docs, t)
    <3>1. c = [i \in {0} |-> b]  BY <1>6, <1>8, <2>1, <2>3, UnchainedIs DEF At
    <3>2. b \in Dict /\ Single(b) /\ \A d, v : Has(b, d, v) <=> d \in DOMAIN h /\ v = h[d]  BY BlobIs
    <3>3. IsFcn(h)  BY HavingIs
    <3>4. LoadPostings(m, t) = Loaded(c)  BY LoadIs
    <3>5. DOMAIN h # {}  BY <1>4, <2>3
    <3>6. DOMAIN c = {0} /\ c[0] = b  BY <3>1
    <3> HIDE DEF b, h, c
    <3>7. ChainOK(c)
      <4>1. DOMAIN c \subseteq 0..0  BY <3>6
      <4>2. 0 \in Nat  OBVIOUS
      <4> QED  BY <4>1, <4>2, <3>2, <3>6 DEF ChainOK
    <3>8. \A d : Names(c, d) => d \in DOMAIN h
      <4>1. \A d : d \in DictDocs(b) <=> \E v : Has(b, d, v)  BY <3>2, HasIs
      <4> QED  BY <4>1, <3>2, <3>6 DEF Names
    <3>9. \A d \in DOMAIN h : Says(c, d, h[d])
      <4>1. \A d \in DOMAIN h : Has(c[0], d, h[d])  BY <3>2, <3>6
      <4>2. \A j \in DOMAIN c : ~ (j > 0)  BY <3>6
      <4> QED  BY <4>1, <4>2, <3>6 DEF Says
    <3>10. Loaded(c) = h  BY <3>3, <3>7, <3>8, <3>9, LoadedAs
    <3>11. Filled(m, t)  BY <3>4, <3>5, <3>10, <1>6, <2>3 DEF Filled
    <3>12. LaidOut(m, t)  BY <3>7, <3>11, <2>1, <1>8, LaidIs DEF c
    <3> QED  BY <3>4, <3>10, <3>12 DEF h
  <2> QED  BY <2>2, <2>3
<1>10. TidyMap(m)  BY <1>3, <1>8, <1>9 DEF TidyMap, HeadsOK, used
<1>11. PostingsOK(m, docs)  BY <1>8, <1>9, <1>10, PostingsAre
<1>12. SumKey \notin DOMAIN m
  <2>1. SumKey[2] = "sum"  BY DEF SumKey
  <2> QED  BY <2>1, <1>3
<1>13. Serves(m, docs)  BY <1>11, <1>12 DEF Serves, SumOK
<1> QED  BY <1>8, <1>13 DEF m

LEMMA LegacyServes ==
  ASSUME NEW b \in {<<>>, Legacy}
  PROVE  IndexMap(LegacyMap(b)) /\ Serves(LegacyMap(b), b)
<1>1. b \in DocMaps  BY BaseTyped
<1> QED  BY <1>1, OlderServes

\* The sum is stored.
LEMMA SumServes ==
  ASSUME NEW m, IndexMap(m), NEW docs, PostingsOK(m, docs), NEW v, v = SumFunction(LengthsOf(docs))
  PROVE  Serves(With(m, SumKey, v), docs)
<1> DEFINE f == With(m, SumKey, v)
<1>0. SumKey \in Keys /\ SumKey[2] = "sum"  BY DEF SumKey, Keys
<1>1. IndexMap(f)  BY <1>0, WithTyped DEF ValueOK
<1>2. DOMAIN f = DOMAIN m \cup {SumKey} /\ f[SumKey] = v /\ \A k \in DOMAIN m : k # SumKey => f[k] = m[k]
  BY DEF With
<1> HIDE DEF f
<1>3. \A k : k # SumKey => SameAt(f, m, k)  BY <1>2 DEF SameAt
<1>4. TidyMap(m) /\ \A t \in Terms : LoadPostings(m, t) = Having(docs, t)  BY PostingsAre
<1>5. ASSUME NEW t \in Terms PROVE LaidOut(f, t) /\ LoadPostings(f, t) = LoadPostings(m, t)
  <2>1. SumKey # HeaderKey(t) /\ SumKey # BlobKey(t) /\ \A i \in Nat : SumKey # BlockKey(t, i)
    <3>1. HeaderKey(t)[2] = "header" /\ BlobKey(t)[2] = "blob" /\ \A i \in Nat : BlockKey(t, i)[2] = "block"
      BY KeysAre
    <3> QED  BY <3>1, <1>0
  <2>2. SameTerm(f, m, t)  BY <2>1, <1>3 DEF SameTerm
  <2> QED  BY <2>2, <1>1, <1>4, SameTermIs DEF TidyMap
<1>6. HeadsOK(f)  BY <1>0, <1>2, <1>4 DEF TidyMap, HeadsOK
<1>7. PostingsOK(f, docs)  BY <1>1, <1>4, <1>5, <1>6, PostingsAre DEF TidyMap
<1>8. SumOK(f, docs)  BY <1>2 DEF SumOK
<1> QED  BY <1>7, <1>8 DEF Serves, f

\* The number of words of every document is known.
LEMMA Lengthy ==
  ASSUME NEW docs \in DocMaps
  PROVE  /\ Countable(LengthsOf(docs))
         /\ \A d : Length(At(docs, d, <<>>)) \in Int /\ (d \notin DOMAIN docs => Length(At(docs, d, <<>>)) = 0)
         /\ \A d \in DOMAIN docs : Length(docs[d]) \in Int
<1>1. ASSUME NEW x, IsText(x) PROVE Countable(x)  BY <1>1 DEF IsText, Countable
<1>2. ASSUME NEW d PROVE Length(At(docs, d, <<>>)) \in Int /\ (d \notin DOMAIN docs => Length(At(docs, d, <<>>)) = 0)
  <2> DEFINE x == At(docs, d, <<>>)
  <2>1. Countable(x) /\ (d \notin DOMAIN docs => DOMAIN x = {})  BY <1>1, TextIs, NoKeys DEF At
  <2> HIDE DEF x
  <2>2. SumFunction(x) \in Int /\ (DOMAIN x = {} => SumFunction(x) = 0)  BY <2>1, SumTyped
  <2> QED  BY <2>1, <2>2 DEF Length, x
<1>3. ASSUME NEW d \in DOMAIN docs PROVE Length(docs[d]) \in Int
  <2>1. Countable(docs[d])  BY <1>1, TextIs
  <2> QED  BY <2>1, SumTyped DEF Length
<1>4. Countable(LengthsOf(docs))  BY <1>3, LensOf, MapsOfDocs DEF Countable, DocSets
<1> QED  BY <1>2, <1>3, <1>4

\* The stored sum, or the one that is counted, is that of the lengths an operation leaves.
LEMMA SumMoves ==
  ASSUME NEW m, NEW docs \in DocMaps, SumOK(m, docs), NEW o \in Operations, o.op \in {"add", "remove"},
         o.op = "remove" => o.doc \in DOMAIN docs
  PROVE  NewSum(m, docs, LengthsOf(docs), o) = SumFunction(LengthsOf(Effect(docs, o)))
<1> DEFINE l == LengthsOf(docs)
           d == o.doc
           old == Length(At(docs, d, <<>>))
           rest == SumFunction(Without(l, d))
           after == LengthsOf(Effect(docs, o))
<1>1. Countable(l) /\ IsFcn(l) /\ DOMAIN l = DOMAIN docs /\ \A e \in DOMAIN docs : l[e] = Length(docs[e])
  BY Lengthy, LensOf
<1>2. old \in Int /\ (d \notin DOMAIN docs => old = 0)  BY Lengthy
<1>3. d \in DOMAIN docs => old = l[d]  BY <1>1 DEF At
<1>4. SumKey \in DOMAIN m => m[SumKey] = SumFunction(l)  BY DEF SumOK
<1>5. NewLens(l, o) = after  BY NewLensIs
<1>6. Countable(Without(l, d)) /\ rest \in Int
  <2>1. CASE d \in DOMAIN l  BY <1>1, <2>1, SumWithout, SumTyped
  <2>2. CASE d \notin DOMAIN l  BY <1>1, <2>2, WithoutIs, SumTyped
  <2> QED  BY <2>1, <2>2
<1>7. SumFunction(l) = old + rest /\ SumFunction(l) \in Int
  <2>0. SumFunction(l) \in Int  BY <1>1, SumTyped
  <2>1. CASE d \in DOMAIN l
    <3> HIDE DEF l, d
    <3>1. SumFunction(l) = l[d] + rest  BY <1>1, <2>1, SumWithout
    <3> QED  BY <3>1, <2>0, <2>1, <1>1, <1>3
  <2>2. CASE d \notin DOMAIN l
    <3>1. Without(l, d) = l  BY <1>1, <2>2, WithoutIs
    <3>2. old = 0  BY <2>2, <1>1, <1>2
    <3> HIDE DEF l, d, old
    <3> QED  BY <3>1, <3>2, <2>0
  <2> QED  BY <2>1, <2>2
<1>8. CASE o.op = "add"
  <2> DEFINE x == Length(o.text)
  <2>1. x \in Int
    <3>1. IsText(o.text)  BY <1>8, OperationIs, TextsAssumption
    <3>2. Countable(o.text)  BY <3>1 DEF IsText, Countable
    <3> QED  BY <3>2, SumTyped DEF Length
  <2>2. after = With(l, d, x)  BY <1>5, <1>8 DEF NewLens
  <2>3. NewSum(m, docs, l, o) =
          IF SumKey \in DOMAIN m THEN m[SumKey] + (x - old) ELSE SumFunction(With(l, d, x))
    BY <1>8 DEF NewSum, CorpusLength
  <2> HIDE DEF l, d, old, x, after
  <2>4. SumFunction(With(l, d, x)) = x + rest  BY <1>1, <2>1, SumWith
  <2> HIDE DEF rest
  <2>5. CASE SumKey \in DOMAIN m
    <3>1. NewSum(m, docs, l, o) = SumFunction(l) + (x - old)  BY <2>3, <2>5, <1>4
    <3>2. SumFunction(l) + (x - old) = x + rest  BY <2>1, <1>2, <1>6, <1>7
    <3> QED  BY <3>1, <3>2, <2>2, <2>4 DEF l, after
  <2>6. CASE SumKey \notin DOMAIN m  BY <2>6, <2>2, <2>3 DEF l, after
  <2> QED  BY <2>5, <2>6
<1>9. CASE o.op = "remove"
  <2>0. o.op # "add" /\ d \in DOMAIN docs  BY <1>9
  <2>1. after = Without(l, d)  BY <1>5, <1>9 DEF NewLens
  <2>2. old = Length(docs[d])  BY <2>0 DEF At
  <2>3. NewSum(m, docs, l, o) =
          IF SumKey \in DOMAIN m THEN m[SumKey] + (- old) ELSE SumFunction(Without(l, d))
    BY <2>0, <2>2 DEF NewSum, CorpusLength
  <2> HIDE DEF l, d, old, after
  <2>5. CASE SumKey \in DOMAIN m
    <3>1. NewSum(m, docs, l, o) = SumFunction(l) + (- old)  BY <2>3, <2>5, <1>4
    <3> HIDE DEF rest
    <3>2. SumFunction(l) + (- old) = rest  BY <1>2, <1>6, <1>7
    <3> QED  BY <3>1, <3>2, <2>1 DEF l, after, rest
  <2>6. CASE SumKey \notin DOMAIN m  BY <2>6, <2>1, <2>3 DEF l, after
  <2> QED  BY <2>5, <2>6
<1> QED  BY <1>8, <1>9

\* The postings an operation leaves are those of the documents it leaves.
LEMMA AddServes ==
  ASSUME NEW m, IndexMap(m), NEW docs \in DocMaps, NEW o \in Operations, o.op = "add", Serves(m, docs)
  PROVE  /\ PostingsOK(AfterAll(m, AddPosts(m, docs, o)), Effect(docs, o))
         /\ NewSum(m, docs, LengthsOf(docs), o) = SumFunction(LengthsOf(Effect(docs, o)))
<1> DEFINE d == o.doc
           x == o.text
           old == At(docs, d, <<>>)
           gone == DOMAIN old \ DOMAIN x
           ws == Drops(m, d, gone)
           b == AfterAll(m, ws)
           f == AfterAll(m, AddPosts(m, docs, o))
           new == Effect(docs, o)
<1>1. d \in Docs /\ IsText(x) /\ IsText(old)  BY OperationIs, TextsAssumption, TextIs
<1>2. gone \in SUBSET Terms /\ IsFiniteSet(gone)  BY <1>1, FS_Subset DEF IsText
<1>3. TidyMap(m) /\ (\A t \in Terms : LoadPostings(m, t) = Having(docs, t)) /\ SumOK(m, docs)
  BY PostingsAre DEF Serves
<1>4. new = With(docs, d, x)  BY DEF Effect
<1>5. f = AfterAll(m, Posts(m, d, x, ws))  BY DEF AddPosts
<1>6. \A t : t \in gone <=> (d \in DOMAIN docs /\ t \in DOMAIN docs[d]) /\ t \notin DOMAIN x
  <2>1. d \in DOMAIN docs => old = docs[d]  BY DEF At
  <2>2. d \notin DOMAIN docs => DOMAIN old = {}  BY NoKeys DEF At
  <2> HIDE DEF old
  <2> QED  BY <2>1, <2>2
<1> HIDE DEF gone
<1>7. ws \in Seq(PostWrites)  BY <1>2, DropsTyped
<1> HIDE DEF d, x, old, f, new
<1>8. TidyMap(b) /\ Dropped(b, m, d, gone)  BY <1>2, <1>3, DropsSay
<1> HIDE DEF b
<1>9. TidyMap(f) /\ Posted(f, b, d, x, DOMAIN x)
  <2>1. b = AfterAll(m, ws)  BY DEF b
  <2> HIDE DEF ws
  <2> QED  BY <2>1, <1>1, <1>5, <1>7, <1>8, PostsSay
<1>10. ASSUME NEW t \in Terms PROVE LoadPostings(f, t) = Having(new, t)
  <2> DEFINE h == Having(docs, t)
  <2>1. LoadPostings(m, t) = h  BY <1>3
  <2>2. LoadPostings(b, t) = IF t \in gone THEN Without(LoadPostings(m, t), d) ELSE LoadPostings(m, t)
    BY <1>8 DEF Dropped
  <2>3. LoadPostings(f, t) = IF t \in DOMAIN x THEN With(LoadPostings(b, t), d, x[t]) ELSE LoadPostings(b, t)
    BY <1>9 DEF Posted
  <2>4. /\ t \in DOMAIN x => Having(new, t) = With(h, d, x[t])
        /\ t \notin DOMAIN x => Having(new, t) = Without(h, d)
        /\ ~ (d \in DOMAIN docs /\ t \in DOMAIN docs[d]) => Without(h, d) = h  BY <1>4, HavingWith
  <2> HIDE DEF h
  <2>5. CASE t \in DOMAIN x  BY <2>1, <2>2, <2>3, <2>4, <2>5, <1>6
  <2>6. CASE t \notin DOMAIN x /\ t \in gone  BY <2>1, <2>2, <2>3, <2>4, <2>6
  <2>7. CASE t \notin DOMAIN x /\ t \notin gone  BY <2>1, <2>2, <2>3, <2>4, <2>7, <1>6
  <2> QED  BY <2>5, <2>6, <2>7
<1>11. IndexMap(f)  BY <1>9 DEF TidyMap
<1>12. PostingsOK(f, new)  BY <1>9, <1>10, <1>11, PostingsAre
<1>13. NewSum(m, docs, LengthsOf(docs), o) = SumFunction(LengthsOf(Effect(docs, o)))  BY <1>3, SumMoves
<1> QED  BY <1>12, <1>13 DEF f, new

LEMMA RemoveServes ==
  ASSUME NEW m, IndexMap(m), NEW docs \in DocMaps, NEW o \in Operations, o.op = "remove",
         o.doc \in DOMAIN docs, Serves(m, docs)
  PROVE  /\ PostingsOK(AfterAll(m, RemovePosts(m, docs, o)), Effect(docs, o))
         /\ NewSum(m, docs, LengthsOf(docs), o) = SumFunction(LengthsOf(Effect(docs, o)))
<1> DEFINE d == o.doc
           gone == DOMAIN docs[d]
           f == AfterAll(m, Drops(m, d, gone))
           new == Effect(docs, o)
<1>1. IsText(docs[d])  BY TextIs
<1>2. gone \in SUBSET Terms /\ IsFiniteSet(gone)  BY <1>1 DEF IsText
<1>3. TidyMap(m) /\ (\A t \in Terms : LoadPostings(m, t) = Having(docs, t)) /\ SumOK(m, docs)
  BY PostingsAre DEF Serves
<1>4. new = Without(docs, d)  BY DEF Effect
<1>5. f = AfterAll(m, RemovePosts(m, docs, o))  BY DEF RemovePosts
<1> HIDE DEF new
<1>6. TidyMap(f) /\ Dropped(f, m, d, gone)
  <2> HIDE DEF gone, d
  <2> QED  BY <1>2, <1>3, DropsSay
<1> HIDE DEF f
<1>7. ASSUME NEW t \in Terms PROVE LoadPostings(f, t) = Having(new, t)
  <2> DEFINE h == Having(docs, t)
  <2>1. LoadPostings(m, t) = h  BY <1>3
  <2>2. LoadPostings(f, t) = IF t \in gone THEN Without(LoadPostings(m, t), d) ELSE LoadPostings(m, t)
    BY <1>6 DEF Dropped
  <2>3. /\ Having(new, t) = Without(h, d)
        /\ t \notin gone => Without(h, d) = h  BY <1>4, HavingWith
  <2> HIDE DEF h
  <2> QED  BY <2>1, <2>2, <2>3
<1>8. IndexMap(f)  BY <1>6 DEF TidyMap
<1>9. PostingsOK(f, new)  BY <1>6, <1>7, <1>8, PostingsAre
<1>10. NewSum(m, docs, LengthsOf(docs), o) = SumFunction(LengthsOf(Effect(docs, o)))  BY <1>3, SumMoves
<1> QED  BY <1>5, <1>9, <1>10, Zenon DEF new

----
(* What queries and counts see of a map.                                    *)

\* The key that counts a term.
LEMMA TermKeys ==
  ASSUME NEW m, TidyMap(m), NEW U, U = {t \in Terms : DOMAIN LoadPostings(m, t) # {}}, IsFiniteSet(U)
  PROVE  Cardinality({k \in DOMAIN m : k[2] \in {"header", "blob"}}) = Cardinality(U)
<1> DEFINE K == {k \in DOMAIN m : k[2] \in {"header", "blob"}}
           f == [t \in U |-> IF HeaderKey(t) \in DOMAIN m THEN HeaderKey(t) ELSE BlobKey(t)]
<1>1. IndexMap(m) /\ DOMAIN m \subseteq Keys /\ \A k \in K : k[1] \in Terms  BY DEF TidyMap, HeadsOK, IndexMap
<1>2. ASSUME NEW t \in Terms
      PROVE  /\ HeaderKey(t)[1] = t /\ HeaderKey(t)[2] = "header"
             /\ BlobKey(t)[1] = t /\ BlobKey(t)[2] = "blob"
             /\ HeaderKey(t) \in DOMAIN m \/ BlobKey(t) \in DOMAIN m <=> t \in U
             /\ HeaderKey(t) \in DOMAIN m => BlobKey(t) \notin DOMAIN m
  <2>1. HeaderKey(t)[1] = t /\ HeaderKey(t)[2] = "header" /\ BlobKey(t)[1] = t /\ BlobKey(t)[2] = "blob"
    BY KeysAre
  <2>2. LaidOut(m, t)  BY DEF TidyMap
  <2>3. /\ HeaderKey(t) \in DOMAIN m \/ BlobKey(t) \in DOMAIN m <=> DOMAIN LoadPostings(m, t) # {}
        /\ HeaderKey(t) \in DOMAIN m => BlobKey(t) \notin DOMAIN m  BY <2>2 DEF LaidOut
  <2>4. t \in U <=> DOMAIN LoadPostings(m, t) # {}  OBVIOUS
  <2> QED  BY <2>1, <2>3, <2>4, Zenon
<1>3. ASSUME NEW t \in U PROVE f[t] \in K /\ f[t][1] = t
  <2>1. t \in Terms  OBVIOUS
  <2> QED  BY <2>1, <1>2
<1>4. ASSUME NEW k \in K PROVE \E t \in U : f[t] = k
  <2> DEFINE t == k[1]
  <2>1. t \in Terms /\ k \in Keys  BY <1>1
  <2>2. k = HeaderKey(t) \/ k = BlobKey(t)  BY <2>1 DEF Keys, HeaderKey, BlobKey
  <2>3. t \in U /\ (HeaderKey(t) \in DOMAIN m => BlobKey(t) \notin DOMAIN m)  BY <2>1, <2>2, <1>2
  <2> HIDE DEF t
  <2> QED  BY <2>2, <2>3
<1> HIDE DEF f, K
<1>5. f \in Bijection(U, K)
  <2>1. f \in [U -> K]  BY <1>3 DEF f
  <2>2. IsInjective(f)
    <3>1. \A a, b \in U : f[a] = f[b] => a = b  BY <1>3
    <3>2. DOMAIN f = U  BY DEF f
    <3> QED  BY <3>1, <3>2 DEF IsInjective
  <2> QED  BY <2>1, <2>2, <1>4 DEF Bijection, Injection, Surjection
<1>6. ExistsBijection(U, K)  BY <1>5 DEF ExistsBijection
<1> QED  BY <1>6, FS_Bijection DEF K

\* Finitely many documents have finitely many terms.
LEMMA FewTerms ==
  ASSUME NEW docs \in DocMaps
  PROVE  IsFiniteSet({t \in Terms : DOMAIN Having(docs, t) # {}})
<1> DEFINE D == DOMAIN docs
           f == [d \in D |-> DOMAIN docs[d]]
           R == {DOMAIN docs[d] : d \in D}
<1>1. IsFiniteSet(D) /\ \A d \in D : IsFiniteSet(DOMAIN docs[d])  BY MapsOfDocs, TextIs DEF DocSets, IsText
<1>2. f \in Surjection(D, R)  BY DEF Surjection
<1>3. IsFiniteSet(R)
  <2> HIDE DEF f, R, D
  <2> QED  BY <1>1, <1>2, FS_Surjection
<1>4. IsFiniteSet(UNION R)
  <2>1. \A T \in R : IsFiniteSet(T)  BY <1>1
  <2> HIDE DEF R
  <2> QED  BY <1>3, <2>1, FS_UNION
<1>5. {t \in Terms : DOMAIN Having(docs, t) # {}} \subseteq UNION R  BY DEF Having
<1> QED  BY <1>4, <1>5, FS_Subset

LEMMA Served ==
  ASSUME NEW m, IndexMap(m), NEW docs \in DocMaps, Serves(m, docs)
  PROVE  /\ TidyMap(m) /\ SumOK(m, docs)
         /\ \A t \in Terms : LoadPostings(m, t) = Having(docs, t)  BY PostingsAre DEF Serves

----
(* The records of the journal, of a journal sl and trees vs.               *)

LEMMA SlotDefs ==
  /\ Recorded = RecordsOf(slot) /\ Usable = UsableOf(tree, slot)
  /\ \A s : Satisfied(s) <=> SatisfiedBy(tree, slot[s])
  /\ \A S : Newest(S) = Latest(slot, S)
<1>1. Recorded = RecordsOf(slot)  BY DEF Recorded, RecordsOf
<1>2. \A s : Satisfied(s) <=> SatisfiedBy(tree, slot[s])  BY DEF Satisfied, SatisfiedBy
<1>3. Usable = UsableOf(tree, slot)  BY <1>1, <1>2 DEF Usable, UsableOf
<1>4. \A S : Newest(S) = Latest(slot, S)  BY DEF Newest, Latest
<1> QED  BY <1>1, <1>2, <1>3, <1>4

LEMMA RecordIs ==
  ASSUME NEW sl, SlotsOK(sl), NEW s \in RecordsOf(sl)
  PROVE  /\ s \in Slots /\ RecordOK(s, sl[s]) /\ sl[s].txn \in Nat \ {0}
         /\ sl[s].lens \in [Trees -> Nat \ {0}]
         /\ sl[s].txn % 2 = 1 <=> s = 0
<1>1. s \in Slots /\ RecordOK(s, sl[s])  BY DEF SlotsOK, RecordsOf
<1> QED  BY <1>1 DEF RecordOK

LEMMA BlankIs ==
  ASSUME NEW sl, SlotsOK(sl), NEW s \in Slots
  PROVE  sl[s].txn \in Nat /\ (s \notin RecordsOf(sl) => sl[s] = Blank /\ sl[s].txn = 0)
<1>1. CASE s \in RecordsOf(sl)  BY <1>1, RecordIs
<1>2. CASE s \notin RecordsOf(sl)
  <2>1. sl[s] = Blank  BY <1>2 DEF RecordsOf
  <2>2. Blank.txn = 0  BY DEF Blank
  <2> QED  BY <2>1, <2>2
<1> QED  BY <1>1, <1>2

\* There is a newest of some records, and only one.
LEMMA LatestIs ==
  ASSUME NEW sl, SlotsOK(sl), NEW S \in SUBSET RecordsOf(sl), S # {}
  PROVE  /\ Latest(sl, S) \in S /\ \A r \in S : sl[r].txn <= sl[Latest(sl, S)].txn
         /\ \A r \in S : r # Latest(sl, S) => sl[r].txn < sl[Latest(sl, S)].txn
<1>1. \A s \in S : s \in {0, 1} /\ sl[s].txn \in Nat \ {0} /\ (sl[s].txn % 2 = 1 <=> s = 0)
  BY RecordIs DEF Slots
<1>2. \E s \in S : \A r \in S : sl[r].txn <= sl[s].txn
  <2>1. PICK e \in S : TRUE  OBVIOUS
  <2>2. CASE \A r \in S : sl[r].txn <= sl[e].txn  BY <2>2
  <2>3. CASE ~ \A r \in S : sl[r].txn <= sl[e].txn
    <3>1. PICK r \in S : ~ (sl[r].txn <= sl[e].txn)  BY <2>3
    <3>2. r # e /\ r \in {0, 1} /\ e \in {0, 1} /\ sl[r].txn \in Nat /\ sl[e].txn \in Nat  BY <3>1, <1>1
    <3>3. \A q \in S : q = r \/ q = e  BY <3>2, <1>1
    <3>4. \A q \in S : sl[q].txn <= sl[r].txn  BY <3>1, <3>2, <3>3
    <3> QED  BY <3>4
  <2> QED  BY <2>2, <2>3
<1>3. Latest(sl, S) \in S /\ \A r \in S : sl[r].txn <= sl[Latest(sl, S)].txn  BY <1>2 DEF Latest
<1> DEFINE N == Latest(sl, S)
<1> HIDE DEF N
<1>4. ASSUME NEW r \in S, r # N PROVE sl[r].txn < sl[N].txn
  <2>1. sl[r].txn \in Nat /\ sl[N].txn \in Nat /\ sl[r].txn <= sl[N].txn  BY <1>1, <1>3 DEF N
  <2>2. r \in {0, 1} /\ N \in {0, 1} /\ (sl[r].txn % 2 = 1 <=> r = 0) /\ (sl[N].txn % 2 = 1 <=> N = 0)
    BY <1>1, <1>3 DEF N
  <2>3. sl[r].txn # sl[N].txn  BY <2>2, <1>4
  <2> QED  BY <2>1, <2>3
<1> QED  BY <1>3, <1>4 DEF N

LEMMA LatestOnly ==
  ASSUME NEW sl, SlotsOK(sl), NEW S \in SUBSET RecordsOf(sl), NEW s \in S,
         \A r \in S : sl[r].txn <= sl[s].txn
  PROVE  Latest(sl, S) = s
<1>1. S # {}  OBVIOUS
<1>2. Latest(sl, S) \in S /\ \A r \in S : r # Latest(sl, S) => sl[r].txn < sl[Latest(sl, S)].txn
  BY <1>1, LatestIs
<1>3. sl[s].txn \in Nat /\ sl[Latest(sl, S)].txn \in Nat  BY <1>2, RecordIs
<1> QED  BY <1>2, <1>3

\* The next record goes to the slot the newest one is not in.
LEMMA NextIs ==
  ASSUME SlotsOK(slot)
  PROVE  /\ NewestTxn \in Nat /\ NextSlot \in Slots
         /\ \A s \in Slots : slot[s].txn <= NewestTxn
         /\ \A s \in Recorded : (\A r \in Recorded : slot[r].txn <= slot[s].txn) =>
              s # NextSlot /\ slot[s].txn = NewestTxn
         /\ Recorded # {} => Newest(Recorded) # NextSlot
         /\ Recorded = {} => NewestTxn = 0 /\ NextSlot = 0
         /\ (NewestTxn + 1) % 2 = 1 <=> NextSlot = 0
<1> DEFINE T == {slot[s].txn : s \in Slots}
           n == slot[0].txn + slot[1].txn
<1>1. slot[0].txn \in Nat /\ slot[1].txn \in Nat  BY BlankIs DEF Slots
<1>2. T \in SUBSET (0..n) /\ T # {} /\ n \in Nat  BY <1>1 DEF Slots
<1>a. \A s \in Slots : slot[s].txn \in T  OBVIOUS
<1>b. \A x \in T : \E s \in Slots : x = slot[s].txn  OBVIOUS
<1>c. NewestTxn = Max(T)  BY DEF NewestTxn
<1> HIDE DEF T, n
<1>3. NewestTxn \in T /\ \A y \in T : y <= NewestTxn  BY <1>2, <1>c, MaxOfNats
<1>4. NewestTxn \in Nat /\ \A s \in Slots : slot[s].txn <= NewestTxn
  <2>1. \A x \in T : x \in Nat  BY <1>2
  <2>2. NewestTxn \in Nat  BY <2>1, <1>3
  <2>3. \A s \in Slots : slot[s].txn <= NewestTxn  BY <1>3, <1>a
  <2> QED  BY <2>2, <2>3
<1>5. NextSlot \in Slots /\ ((NewestTxn + 1) % 2 = 1 <=> NextSlot = 0)  BY DEF NextSlot, Slots
<1>6. PICK m \in Slots : NewestTxn = slot[m].txn  BY <1>3, <1>b
<1>7. ASSUME NEW s \in Recorded, \A r \in Recorded : slot[r].txn <= slot[s].txn
      PROVE  s # NextSlot /\ slot[s].txn = NewestTxn
  <2>1. s \in Slots /\ slot[s].txn \in Nat \ {0} /\ (slot[s].txn % 2 = 1 <=> s = 0)  BY RecordIs, SlotDefs
  <2>2. m \in Recorded
    <3>1. CASE m \notin Recorded
      <4>1. slot[m].txn = 0  BY <3>1, SlotDefs, BlankIs
      <4> QED  BY <4>1, <1>4, <1>6, <2>1
    <3> QED  BY <3>1
  <2>3. slot[s].txn = NewestTxn  BY <2>1, <2>2, <1>4, <1>6, <1>7
  <2>4. s # NextSlot  BY <2>1, <2>3, <1>4, <1>5
  <2> QED  BY <2>3, <2>4
<1>8. ASSUME Recorded # {} PROVE Newest(Recorded) # NextSlot
  <2>1. Recorded \in SUBSET RecordsOf(slot) /\ Newest(Recorded) = Latest(slot, Recorded)  BY SlotDefs
  <2>2. /\ Latest(slot, Recorded) \in Recorded
        /\ \A r \in Recorded : slot[r].txn <= slot[Latest(slot, Recorded)].txn  BY <2>1, <1>8, LatestIs
  <2> QED  BY <2>1, <2>2, <1>7
<1>9. ASSUME Recorded = {} PROVE NewestTxn = 0 /\ NextSlot = 0
  <2>1. slot[m].txn = 0  BY <1>9, SlotDefs, BlankIs
  <2>2. (0 + 1) % 2 = 1  OBVIOUS
  <2> QED  BY <2>1, <2>2, <1>5, <1>6
<1> QED  BY <1>4, <1>5, <1>7, <1>8, <1>9

LEMMA RecordWritten ==
  ASSUME SlotsOK(slot), NEW lens \in [Trees -> Nat \ {0}], NEW sl,
         sl = [slot EXCEPT ![NextSlot] = [txn |-> NewestTxn + 1, lens |-> lens]]
  PROVE  RecordAdded(sl, lens)
<1> DEFINE k == NextSlot
           r == [txn |-> NewestTxn + 1, lens |-> lens]
<1>1. k \in Slots /\ NewestTxn \in Nat /\ ((NewestTxn + 1) % 2 = 1 <=> k = 0)  BY NextIs
<1>2. \A s \in Slots : slot[s].txn <= NewestTxn /\ slot[s].txn \in Nat  BY NextIs, BlankIs
<1>3. r.txn = NewestTxn + 1 /\ r.lens = lens /\ r = [txn |-> r.txn, lens |-> r.lens]  OBVIOUS
<1>4. RecordOK(k, r)  BY <1>1, <1>3 DEF RecordOK
<1>5. r # Blank
  <2>1. Blank.txn = 0  BY DEF Blank
  <2>2. r.txn # 0  BY <1>1, <1>3
  <2> QED  BY <2>1, <2>2
<1> HIDE DEF r
<1>6. slot = [s \in Slots |-> slot[s]]  BY DEF SlotsOK
<1> HIDE DEF k
<1>7. sl = [slot EXCEPT ![k] = r]  BY DEF k, r
<1>8. sl = [s \in Slots |-> sl[s]] /\ sl[k] = r /\ \A s \in Slots : s # k => sl[s] = slot[s]
  BY <1>1, <1>6, <1>7
<1>9. SlotsOK(sl)
  <2>1. ASSUME NEW s \in Slots PROVE sl[s] = Blank \/ RecordOK(s, sl[s])
    <3>1. CASE s = k  BY <3>1, <1>4, <1>8
    <3>2. CASE s # k  BY <3>2, <1>8 DEF SlotsOK
    <3> QED  BY <3>1, <3>2
  <2> QED  BY <2>1, <1>8 DEF SlotsOK
<1>10. RecordsOf(sl) = Recorded \cup {k}  BY <1>1, <1>5, <1>8 DEF RecordsOf, Recorded
<1>11. \A s \in RecordsOf(sl) : s # k => sl[s].txn < sl[k].txn
  <2>1. \A s \in RecordsOf(sl) : s \in Slots  BY DEF RecordsOf
  <2> QED  BY <2>1, <1>1, <1>2, <1>3, <1>8
<1> QED  BY <1>1, <1>3, <1>8, <1>9, <1>10, <1>11 DEF k, RecordAdded

\* What is left of the records when the write of one is cut short.
LEMMA RecordsLeft ==
  ASSUME SlotsOK(slot), TornSlot
  PROVE  /\ SlotsOK(slot') /\ RecordsOf(slot') \subseteq Recorded
         /\ \A s \in RecordsOf(slot') : slot'[s] = slot[s]
         /\ Recorded # {} => /\ Newest(Recorded) \in RecordsOf(slot')
                             /\ Latest(slot', RecordsOf(slot')) = Newest(Recorded)
         /\ Recorded = {} => RecordsOf(slot') = {}
         /\ ~Busy => slot' = slot
<1>1. CASE UNCHANGED slot
  <2>1. RecordsOf(slot') = Recorded /\ SlotsOK(slot') /\ Latest(slot', RecordsOf(slot')) = Newest(Recorded)
    BY <1>1, SlotDefs
  <2>2. Recorded # {} => Newest(Recorded) \in Recorded  BY SlotDefs, LatestIs
  <2> QED  BY <1>1, <2>1, <2>2
<1>2. CASE Busy /\ slot' = [slot EXCEPT ![NextSlot] = Blank]
  <2> DEFINE k == NextSlot
             N == Newest(Recorded)
  <2>1. k \in Slots /\ slot = [s \in Slots |-> slot[s]]  BY NextIs DEF SlotsOK
  <2>a. Recorded # {} => N # k  BY NextIs
  <2>b. Recorded # {} => N \in Recorded /\ \A r \in Recorded : slot[r].txn <= slot[N].txn
    BY SlotDefs, LatestIs
  <2> HIDE DEF k, N
  <2>2. slot' = [slot EXCEPT ![k] = Blank]  BY <1>2 DEF k
  <2>3. /\ slot' = [s \in Slots |-> slot'[s]] /\ slot'[k] = Blank
        /\ \A s \in Slots : s # k => slot'[s] = slot[s]  BY <2>1, <2>2
  <2>4. SlotsOK(slot')  BY <2>3 DEF SlotsOK
  <2>5. RecordsOf(slot') = Recorded \ {k} /\ \A s \in RecordsOf(slot') : slot'[s] = slot[s]
    BY <2>3 DEF RecordsOf, Recorded
  <2>6. ASSUME Recorded # {}
        PROVE  N \in RecordsOf(slot') /\ Latest(slot', RecordsOf(slot')) = N
    <3>1. N \in RecordsOf(slot')  BY <2>5, <2>6, <2>a, <2>b
    <3>2. \A r \in RecordsOf(slot') : slot'[r].txn <= slot'[N].txn  BY <2>5, <2>6, <2>b, <3>1
    <3> QED  BY <3>1, <3>2, <2>4, LatestOnly
  <2> QED  BY <1>2, <2>4, <2>5, <2>6 DEF N
<1> QED  BY <1>1, <1>2 DEF TornSlot

----
(* The versions of the trees.                                              *)

LEMMA SeqFacts ==
  ASSUME NEW s, IsSeq(s)
  PROVE  /\ Len(s) \in Nat /\ DOMAIN s = 1..Len(s) /\ (s # <<>> <=> Len(s) > 0)
         /\ s # <<>> => Last(s) = s[Len(s)] /\ Len(s) \in 1..Len(s) /\ Head(s) = s[1]
         /\ IsSeq(Tail(s)) \/ s = <<>>
<1>1. s \in Seq(ToSet(s))  BY DEF IsSeq
<1> DEFINE A == ToSet(s)
<1> HIDE DEF A
<1>2. s \in Seq(A)  BY <1>1 DEF A
<1>3. s = <<>> \/ Tail(s) \in Seq(A)  BY <1>2
<1>4. s = <<>> \/ IsSeq(Tail(s))  BY <1>3, SeqIs
<1> QED  BY <1>2, <1>4 DEF Last

LEMMA Grown ==
  ASSUME NEW s, IsSeq(s), NEW v
  PROVE  GrownBy(Append(s, v), s, v)
<1> DEFINE A == ToSet(s) \cup {v}
           t == Append(s, v)
<1>1. s \in Seq(A) /\ v \in A  BY DEF IsSeq
<1> HIDE DEF A
<1>2. /\ t \in Seq(A) /\ Len(t) = Len(s) + 1 /\ t[Len(s) + 1] = v
      /\ \A i \in 1..Len(s) : t[i] = s[i]  BY <1>1
<1>3. IsSeq(t)  BY <1>2, SeqIs
<1>4. Len(s) \in Nat  BY <1>1
<1> HIDE DEF t
<1>5. t # <<>> /\ Last(t) = v  BY <1>2, <1>4 DEF Last
<1> QED  BY <1>2, <1>3, <1>5 DEF GrownBy, t

LEMMA Cut ==
  ASSUME NEW s, IsSeq(s), NEW n \in 0..Len(s)
  PROVE  CutTo(SubSeq(s, 1, n), s, n)
<1> DEFINE A == ToSet(s)
           t == SubSeq(s, 1, n)
<1>1. s \in Seq(A)  BY DEF IsSeq
<1> HIDE DEF A
<1>2. t \in Seq(A) /\ Len(t) = n /\ \A i \in 1..n : t[i] = s[i]  BY <1>1
<1>3. IsSeq(t)  BY <1>2, SeqIs
<1> HIDE DEF t
<1> QED  BY <1>2, <1>3 DEF CutTo, t

LEMMA ShowsIs ==
  ASSUME NEW a, NEW index, NEW terms, NEW lens
  PROVE  Shows(a, index, terms, lens) <=> ShowsOf(base, log, a, index, terms, lens)
  BY ContentsIs DEF Shows, ShowsOf

LEMMA GoodIs ==
  ASSUME NEW s
  PROVE  /\ Good(s) <=> GoodOf(tree, slot[s], log, base)
         /\ Point(s) = PointOf(tree, slot[s])
<1> DEFINE x == Point(s)
           m1 == tree["index"][slot[s].lens["index"]].map
           m2 == tree["terms"][slot[s].lens["terms"]].map
           m3 == tree["lengths"][slot[s].lens["lengths"]].map
<1>1. Point(s) = PointOf(tree, slot[s])  BY DEF Point, PointOf
<1>2. Satisfied(s) <=> SatisfiedBy(tree, slot[s])  BY SlotDefs
<1>3. Shows(x, m1, m2, m3) <=> ShowsOf(base, log, x, m1, m2, m3)
  <2> HIDE DEF x, m1, m2, m3
  <2> QED  BY ShowsIs
<1>4. MapsGood(tree, slot[s], log, base) <=> Shows(x, m1, m2, m3)  BY <1>1, <1>3 DEF MapsGood
<1>5. Good(s) <=> /\ Satisfied(s) /\ x <= Len(log)
                  /\ \A tr \in Trees : /\ tree[tr][slot[s].lens[tr]].applied = x
                                       /\ \A i \in 1..slot[s].lens[tr] : tree[tr][i].applied <= x
                  /\ Shows(x, m1, m2, m3)  BY DEF Good
<1> QED  BY <1>1, <1>2, <1>4, <1>5 DEF GoodOf, AppliedGood

LEMMA VersionAt ==
  ASSUME NEW vs, TreesOK(vs), NEW tr \in Trees, NEW i \in 1..Len(vs[tr])
  PROVE  VersionOK(tr, vs[tr][i]) /\ vs[tr][i].applied \in Nat /\ MapOK(tr, vs[tr][i].map)
<1>1. IsSeq(vs[tr]) /\ \A j \in DOMAIN vs[tr] : VersionOK(tr, vs[tr][j])  BY DEF TreesOK
<1>2. i \in DOMAIN vs[tr]  BY <1>1, SeqFacts
<1> QED  BY <1>1, <1>2 DEF VersionOK

LEMMA PointIs ==
  ASSUME NEW vs, TreesOK(vs), NEW r, r.lens \in [Trees -> Nat \ {0}], SatisfiedBy(vs, r)
  PROVE  /\ PointOf(vs, r) \in Nat
         /\ \A tr \in Trees : r.lens[tr] \in 1..Len(vs[tr]) /\ Len(vs[tr]) \in Nat \ {0}
<1>1. ASSUME NEW tr \in Trees PROVE r.lens[tr] \in 1..Len(vs[tr]) /\ Len(vs[tr]) \in Nat \ {0}
  <2>1. IsSeq(vs[tr])  BY DEF TreesOK
  <2>2. Len(vs[tr]) \in Nat /\ r.lens[tr] \in Nat \ {0} /\ r.lens[tr] <= Len(vs[tr])
    BY <2>1, SeqFacts DEF SatisfiedBy
  <2> QED  BY <2>2
<1>2. "terms" \in Trees  BY DEF Trees
<1> QED  BY <1>1, <1>2, VersionAt DEF PointOf

LEMMA GoodStays ==
  ASSUME NEW vs, NEW ws, NEW r, r.lens \in [Trees -> Nat \ {0}], Agree(vs, ws, r.lens),
         NEW b \in DocMaps, NEW l \in Seq(Operations), NEW k \in Seq(Operations),
         PointOf(vs, r) \in Nat, PointOf(vs, r) <= Len(k), \A i \in 1..PointOf(vs, r) : k[i] = l[i],
         GoodOf(vs, r, l, b)
  PROVE  GoodOf(ws, r, k, b) /\ PointOf(ws, r) = PointOf(vs, r)
<1> DEFINE p == PointOf(vs, r)
<1>1. \A tr \in Trees : r.lens[tr] \in Nat \ {0} /\ r.lens[tr] \in 1..r.lens[tr]  OBVIOUS
<1>2. \A tr \in Trees : /\ r.lens[tr] <= Len(ws[tr]) /\ ws[tr][r.lens[tr]] = vs[tr][r.lens[tr]]
                        /\ \A i \in 1..r.lens[tr] : ws[tr][i] = vs[tr][i]  BY <1>1 DEF Agree
<1>3. "terms" \in Trees /\ "index" \in Trees /\ "lengths" \in Trees  BY DEF Trees
<1>4. PointOf(ws, r) = p  BY <1>2, <1>3 DEF PointOf
<1>5. DocsAfter(b, k, p) = DocsAfter(b, l, p)
  <2>1. p <= Len(l) /\ p \in Nat /\ p <= Len(k) /\ \A i \in 1..p : k[i] = l[i]  BY DEF GoodOf
  <2> HIDE DEF p
  <2> QED  BY <2>1, DocsAgree
<1> HIDE DEF p
<1>6. MapsGood(ws, r, k, b)
  <2>1. MapsGood(vs, r, l, b)  BY DEF GoodOf
  <2>2. /\ ws["index"][r.lens["index"]] = vs["index"][r.lens["index"]]
        /\ ws["terms"][r.lens["terms"]] = vs["terms"][r.lens["terms"]]
        /\ ws["lengths"][r.lens["lengths"]] = vs["lengths"][r.lens["lengths"]]  BY <1>2, <1>3
  <2> QED  BY <2>1, <2>2, <1>4, <1>5 DEF MapsGood, ShowsOf, p
<1>7. AppliedGood(ws, r)
  <2>1. AppliedGood(vs, r)  BY DEF GoodOf
  <2> QED  BY <2>1, <1>2, <1>4 DEF AppliedGood, p
<1>8. SatisfiedBy(ws, r)  BY <1>2 DEF SatisfiedBy
<1> QED  BY <1>4, <1>6, <1>7, <1>8 DEF GoodOf, p

----
(* The next write of a call.                                               *)

LEMMA TailIs ==
  ASSUME NEW ws, IsSeq(ws), ws # <<>>
  PROVE  TailOf(Tail(ws), ws)
<1> DEFINE A == ToSet(ws)
           t == Tail(ws)
<1>1. ws \in Seq(A)  BY DEF IsSeq
<1> HIDE DEF A
<1>2. t \in Seq(A) /\ Len(t) = Len(ws) - 1 /\ \A i \in 1..(Len(ws) - 1) : t[i] = ws[i + 1]  BY <1>1
<1>3. Len(ws) \in Nat \ {0} /\ Head(ws) = ws[1]  BY <1>1
<1>4. IsSeq(t)  BY <1>2, SeqIs
<1> HIDE DEF t
<1>5. t = <<>> <=> Len(t) = 0  BY <1>4, SeqFacts
<1> QED  BY <1>2, <1>3, <1>4, <1>5 DEF TailOf, t

LEMMA UpdatingStep ==
  ASSUME NEW ws, NEW t, TailOf(t, ws), NEW o, Updating(ws, o)
  PROVE  /\ Len(ws) = 1 => Head(ws) = Record
         /\ Len(ws) = 2 => Head(ws) = Put("index", SumKey, ws[Len(ws) - 1].val)
         /\ Len(ws) = 3 => Head(ws) = LengthsWrite(o)
         /\ Len(ws) = 4 => Head(ws) = TermsWrite(o)
         /\ Len(ws) > 4 => IndexWrite(Head(ws))
         /\ Len(ws) > 1 => Updating(t, o)
         /\ Len(ws) > 2 => t[Len(t) - 1].val = ws[Len(ws) - 1].val
<1> DEFINE n == Len(ws)
<1>1. /\ n \in Nat \ {0} /\ Len(t) = n - 1 /\ Head(ws) = ws[1]
      /\ \A i \in 1..(n - 1) : t[i] = ws[i + 1]  BY DEF TailOf
<1>2. /\ ws[n] = Record
      /\ n > 1 => ws[n - 1] = Put("index", SumKey, ws[n - 1].val)
      /\ n > 2 => ws[n - 2] = LengthsWrite(o)
      /\ n > 3 => ws[n - 3] = TermsWrite(o)
      /\ \A i \in 1..(n - 4) : IndexWrite(ws[i])  BY DEF Updating
<1> HIDE DEF n
<1>3. n = 1 => Head(ws) = Record  BY <1>1, <1>2
<1>4. n = 2 => Head(ws) = Put("index", SumKey, ws[n - 1].val)  BY <1>1, <1>2
<1>5. n = 3 => Head(ws) = LengthsWrite(o)  BY <1>1, <1>2
<1>6. n = 4 => Head(ws) = TermsWrite(o)  BY <1>1, <1>2
<1>7. n > 4 => IndexWrite(Head(ws))  BY <1>1, <1>2
<1>8. ASSUME n > 1 PROVE Updating(t, o)
  <2> DEFINE k == n - 1
  <2>1. k \in Nat \ {0} /\ Len(t) = k /\ n = k + 1  BY <1>1, <1>8
  <2>2. \A i \in 1..k : t[i] = ws[i + 1]  BY <1>1
  <2> HIDE DEF k
  <2>3. t[k] = Record  BY <1>2, <2>1, <2>2
  <2>4. k > 1 => t[k - 1] = ws[n - 1]
    <3>1. k > 1 => k - 1 \in 1..k /\ (k - 1) + 1 = n - 1  BY <2>1
    <3> QED  BY <3>1, <2>2
  <2>5. k > 2 => t[k - 2] = ws[n - 2]
    <3>1. k > 2 => k - 2 \in 1..k /\ (k - 2) + 1 = n - 2  BY <2>1
    <3> QED  BY <3>1, <2>2
  <2>6. k > 3 => t[k - 3] = ws[n - 3]
    <3>1. k > 3 => k - 3 \in 1..k /\ (k - 3) + 1 = n - 3  BY <2>1
    <3> QED  BY <3>1, <2>2
  <2>7. ASSUME NEW i \in 1..(k - 4) PROVE IndexWrite(t[i])
    <3>1. i \in 1..k /\ i + 1 \in 1..(n - 4)  BY <2>1
    <3> QED  BY <3>1, <2>2, <1>2
  <2>8. /\ k > 1 => t[k - 1] = Put("index", SumKey, t[k - 1].val)
        /\ k > 2 => t[k - 2] = LengthsWrite(o)
        /\ k > 3 => t[k - 3] = TermsWrite(o)  BY <2>1, <2>4, <2>5, <2>6, <1>2
  <2> QED  BY <2>1, <2>3, <2>7, <2>8 DEF Updating
<1>9. ASSUME n > 2 PROVE t[Len(t) - 1].val = ws[n - 1].val
  <2>1. Len(t) - 1 = n - 2 /\ n - 2 \in 1..(n - 1) /\ (n - 2) + 1 = n - 1  BY <1>1, <1>9
  <2> QED  BY <2>1, <1>1
<1> QED  BY <1>3, <1>4, <1>5, <1>6, <1>7, <1>8, <1>9 DEF n

\* The postings that are left to write.
LEMMA PostsStep ==
  ASSUME NEW ws, IsSeq(ws), ws # <<>>
  PROVE  /\ Len(ws) > 4 => /\ SubSeq(ws, 1, Len(ws) - 4) # <<>>
                           /\ Head(SubSeq(ws, 1, Len(ws) - 4)) = Head(ws)
                           /\ Tail(SubSeq(ws, 1, Len(ws) - 4)) = SubSeq(Tail(ws), 1, Len(Tail(ws)) - 4)
         /\ Len(ws) <= 4 => SubSeq(ws, 1, Len(ws) - 4) = <<>>
<1> DEFINE A == ToSet(ws)
           n == Len(ws)
           p == SubSeq(ws, 1, n - 4)
           t == Tail(ws)
           q == SubSeq(t, 1, Len(t) - 4)
<1>1. ws \in Seq(A)  BY DEF IsSeq
<1> HIDE DEF A
<1>2. n \in Nat \ {0} /\ t \in Seq(A) /\ Len(t) = n - 1 /\ \A i \in 1..(n - 1) : t[i] = ws[i + 1]  BY <1>1
<1>3. ASSUME n > 4 PROVE p # <<>> /\ Head(p) = Head(ws) /\ Tail(p) = q
  <2>1. p \in Seq(A) /\ Len(p) = n - 4 /\ \A i \in 1..(n - 4) : p[i] = ws[i]  BY <1>1, <1>2, <1>3
  <2>2. q \in Seq(A) /\ Len(q) = n - 5 /\ \A i \in 1..(n - 5) : q[i] = t[i]
    <3> HIDE DEF t
    <3> QED  BY <1>2, <1>3
  <2> HIDE DEF p, q, t, n
  <2>3. p # <<>> /\ Head(p) = p[1] /\ Head(ws) = ws[1]  BY <2>1, <1>1, <1>2, <1>3 DEF n
  <2>4. Tail(p) \in Seq(A) /\ Len(Tail(p)) = n - 5 /\ \A i \in 1..(n - 5) : Tail(p)[i] = p[i + 1]
    BY <2>1, <1>2, <1>3
  <2> DEFINE u == Tail(p)
  <2> HIDE DEF u
  <2>5. ASSUME NEW i \in 1..(n - 5) PROVE u[i] = q[i]
    <3>1. i + 1 \in 1..(n - 4) /\ i \in 1..(n - 1)  BY <1>2
    <3> QED  BY <3>1, <1>2, <2>1, <2>2, <2>4 DEF u
  <2>6. u = q
    <3>1. u \in Seq(A) /\ Len(u) = n - 5  BY <2>4 DEF u
    <3> QED  BY <3>1, <2>2, <2>5
  <2>7. 1 \in 1..(n - 4)  BY <1>2, <1>3
  <2> QED  BY <2>1, <2>3, <2>6, <2>7 DEF u
<1>4. n <= 4 => p = <<>>  BY <1>1, <1>2
<1> QED  BY <1>3, <1>4

LEMMA ClearingStep ==
  ASSUME NEW ws, NEW t, TailOf(t, ws), Clearing(ws)
  PROVE  /\ Len(ws) \in 1..5
         /\ Len(ws) = 5 => Head(ws) = Truncate
         /\ Len(ws) = 4 => Head(ws) = Reset("index")
         /\ Len(ws) = 3 => Head(ws) = Reset("terms")
         /\ Len(ws) = 2 => Head(ws) = Reset("lengths")
         /\ Len(ws) = 1 => Head(ws) = Record
         /\ Len(ws) > 1 => Clearing(t)
<1> DEFINE n == Len(ws)
           c == ClearWrites
<1>1. /\ n \in Nat \ {0} /\ Len(t) = n - 1 /\ Head(ws) = ws[1]
      /\ \A i \in 1..(n - 1) : t[i] = ws[i + 1]  BY DEF TailOf
<1>2. n \in 1..5 /\ \A i \in 1..n : ws[i] = c[5 - n + i]  BY DEF Clearing
<1>3. /\ c[1] = Truncate /\ c[2] = Reset("index") /\ c[3] = Reset("terms")
      /\ c[4] = Reset("lengths") /\ c[5] = Record  BY DEF ClearWrites
<1> HIDE DEF n, c
<1>4. Head(ws) = c[6 - n]
  <2>1. 1 \in 1..n /\ 5 - n + 1 = 6 - n  BY <1>2
  <2> QED  BY <2>1, <1>1, <1>2
<1>5. /\ n = 5 => Head(ws) = Truncate
      /\ n = 4 => Head(ws) = Reset("index")
      /\ n = 3 => Head(ws) = Reset("terms")
      /\ n = 2 => Head(ws) = Reset("lengths")
      /\ n = 1 => Head(ws) = Record  BY <1>3, <1>4
<1>6. ASSUME n > 1 PROVE Clearing(t)
  <2>1. Len(t) \in 1..5  BY <1>1, <1>2, <1>6
  <2>2. ASSUME NEW i \in 1..Len(t) PROVE t[i] = c[5 - Len(t) + i]
    <3>1. i \in 1..(n - 1) /\ i + 1 \in 1..n /\ 5 - n + (i + 1) = 5 - Len(t) + i  BY <1>1, <1>2
    <3> QED  BY <3>1, <1>1, <1>2
  <2> QED  BY <2>1, <2>2 DEF Clearing, c
<1> QED  BY <1>2, <1>5, <1>6 DEF n

----
(* What a step does to the trees.                                          *)

LEMMA PutCommits ==
  ASSUME NEW tr, NEW k, NEW v, TreeCommit(Put(tr, k, v))
  PROVE  Adds(tr, Version(With(Map(tr), k, v), staged[tr]))
<1> DEFINE w == Put(tr, k, v)
<1>1. w.kind = "put" /\ w.tree = tr /\ After(Map(tr), w) = With(Map(tr), k, v)  BY AfterPut DEF Put
<1> HIDE DEF w
<1>2. TreeCommit(w)  BY DEF w
<1> QED  BY <1>1, <1>2 DEF TreeCommit, Adds

LEMMA DelCommits ==
  ASSUME NEW tr, NEW k, TreeCommit(Del(tr, k)), IsFcn(Map(tr)), tree = [x \in Trees |-> tree[x]], tr \in Trees
  PROVE  \/ k \in DOMAIN Map(tr) /\ Adds(tr, Version(Without(Map(tr), k), staged[tr]))
         \/ k \notin DOMAIN Map(tr) /\ Stays /\ Without(Map(tr), k) = Map(tr)
<1> DEFINE w == Del(tr, k)
<1>1. w.kind = "del" /\ w.tree = tr /\ w.key = k /\ After(Map(tr), w) = Without(Map(tr), k)
  BY AfterDel DEF Del
<1> HIDE DEF w
<1>2. TreeCommit(w)  BY DEF w
<1>3. CASE k \in DOMAIN Map(tr)  BY <1>1, <1>2, <1>3 DEF TreeCommit, Adds
<1>4. CASE k \notin DOMAIN Map(tr)
  <2>1. tree' = [tree EXCEPT ![tr] = tree[tr]] /\ UNCHANGED <<safe, slot, stale>>
    BY <1>1, <1>2, <1>4 DEF TreeCommit
  <2>2. Stays  BY <2>1 DEF Stays
  <2>3. Without(Map(tr), k) = Map(tr)  BY <1>4, WithoutIs
  <2> QED  BY <2>2, <2>3, <1>4
<1> QED  BY <1>3, <1>4

LEMMA ResetCommits ==
  ASSUME NEW tr, TreeCommit(Reset(tr))
  PROVE  Restarts(tr, Version(<<>>, staged[tr]))
<1> DEFINE w == Reset(tr)
<1>1. w.kind = "reset" /\ w.tree = tr /\ After(Map(tr), w) = <<>>  BY AfterReset DEF Reset
<1> HIDE DEF w
<1>2. TreeCommit(w)  BY DEF w
<1> QED  BY <1>1, <1>2 DEF TreeCommit, Restarts

LEMMA Types ==
  ASSUME TypeInv
  PROVE  /\ TreesOK(tree) /\ SlotsOK(slot) /\ log \in Seq(Operations) /\ base \in DocMaps
         /\ Len(log) \in Nat /\ finished \in Nat /\ finished <= Len(log)
         /\ staged \in [Trees -> Nat] /\ safe \in [Trees -> Nat]
         /\ \A tr \in Trees : IsSeq(tree[tr]) /\ Len(tree[tr]) \in Nat
         /\ IsSeq(todo) /\ Len(todo) \in Nat /\ (Busy => state = "open" /\ Len(todo) > 0)
<1>1. TreesOK(tree) /\ SlotsOK(slot)  BY DEF TypeInv, TreesOK, SlotsOK
<1>2. base \in DocMaps  BY BaseTyped DEF TypeInv
<1>3. log \in Seq(Operations) /\ Len(log) \in Nat /\ finished \in Nat /\ finished <= Len(log)  BY DEF TypeInv
<1>4. \A tr \in Trees : IsSeq(tree[tr]) /\ Len(tree[tr]) \in Nat  BY SeqFacts DEF TypeInv
<1>5. IsSeq(todo) /\ Len(todo) \in Nat /\ (Busy => state = "open" /\ Len(todo) > 0)
  BY SeqFacts DEF TypeInv, Busy
<1>6. staged \in [Trees -> Nat] /\ safe \in [Trees -> Nat]  BY DEF TypeInv
<1> QED  BY <1>1, <1>2, <1>3, <1>4, <1>5, <1>6

LEMMA OpenTypes ==
  ASSUME TypeInv, state = "open"
  PROVE  /\ \A tr \in Trees : /\ tree[tr] # <<>> /\ Len(tree[tr]) \in Nat \ {0}
                              /\ Last(tree[tr]) = tree[tr][Len(tree[tr])]
                              /\ Map(tr) = tree[tr][Len(tree[tr])].map /\ MapOK(tr, Map(tr))
                              /\ Last(tree[tr]).applied \in Nat
         /\ IndexMap(Map("index")) /\ Map("terms") \in DocMaps /\ LengthMap(Map("lengths"))
<1>1. ASSUME NEW tr \in Trees
      PROVE  /\ tree[tr] # <<>> /\ Len(tree[tr]) \in Nat \ {0}
             /\ Last(tree[tr]) = tree[tr][Len(tree[tr])]
             /\ Map(tr) = tree[tr][Len(tree[tr])].map /\ MapOK(tr, Map(tr))
             /\ Last(tree[tr]).applied \in Nat
  <2> DEFINE n == Len(tree[tr])
  <2>1. tree[tr] # <<>> /\ IsSeq(tree[tr]) /\ TreesOK(tree)  BY Types DEF TypeInv
  <2>2. n \in Nat \ {0} /\ n \in 1..n /\ Last(tree[tr]) = tree[tr][n]  BY <2>1, SeqFacts
  <2> HIDE DEF n
  <2>3. MapOK(tr, tree[tr][n].map) /\ tree[tr][n].applied \in Nat  BY <2>1, <2>2, VersionAt DEF n
  <2> QED  BY <2>1, <2>2, <2>3 DEF Map, n
<1>2. "index" \in Trees /\ "terms" \in Trees /\ "lengths" \in Trees  BY DEF Trees
<1>3. IndexMap(Map("index")) /\ Map("terms") \in DocMaps /\ LengthMap(Map("lengths"))  BY <1>1, <1>2 DEF MapOK
<1> QED  BY <1>1, <1>3

LEMMA StepGoesOn ==
  ASSUME TypeInv, CallInv, Step, NEW a, a = staged["index"]
  PROVE  GoesOn(a)
<1>1. /\ Busy /\ todo' = Tail(todo)
      /\ finished' = (IF todo' = <<>> THEN Max({finished, staged["index"]}) ELSE finished)
      /\ exposed' = (IF todo' = <<>> /\ log[staged["index"]].op = "clear" THEN FALSE ELSE exposed)
      /\ UNCHANGED <<staged, state, log, base, lost>>  BY DEF Step
<1>2. /\ state = "open" /\ a \in 1..Len(log) /\ staged = [tr \in Trees |-> a]
      /\ ~Clear(a) => Updating(todo, log[a])
      /\ Clear(a) => Clearing(todo)  BY <1>1, Types DEF CallInv
<1>3. log[a] \in Operations  BY <1>2, Types
<1>4. TailOf(todo', todo)  BY <1>1, Types, TailIs DEF Busy
<1>5. todo' = <<>> <=> Len(todo) = 1  BY <1>4 DEF TailOf
<1>6. ~Clear(a) /\ Len(todo) > 1 => Updating(todo', log[a])  BY <1>2, <1>4, UpdatingStep
<1>7. Clear(a) /\ Len(todo) > 1 => Clearing(todo')  BY <1>2, <1>4, ClearingStep
<1>8. Clear(a) <=> log[a].op = "clear"  BY DEF Clear
<1>9. /\ finished' = (IF Len(todo) = 1 THEN Max({finished, a}) ELSE finished)
      /\ exposed' = (IF Len(todo) = 1 /\ Clear(a) THEN FALSE ELSE exposed)  BY <1>1, <1>5, <1>8
<1> QED  BY <1>1, <1>2, <1>3, <1>4, <1>5, <1>6, <1>7, <1>9 DEF GoesOn

----
(* The next write keeps the types, the call, and what a host relies on.     *)

LEMMA HeadIs ==
  ASSUME TypeInv, CallInv, Step, NEW a, a = staged["index"]
  PROVE  /\ Head(todo).kind \in {"put", "del", "reset"} => TreeCommit(Head(todo))
         /\ Head(todo) = Record => CommitRecord /\ UNCHANGED <<tree, safe>>
         /\ Head(todo) = Truncate =>
              slot' = [s \in Slots |-> Blank] /\ stale' = {} /\ UNCHANGED <<tree, safe>>
<1> DEFINE w == Head(todo)
<1>1. TreeCommit(w) \/ JournalWrite(w)  BY DEF Step
<1>2. w = Record => w.kind = "record"  BY DEF Record
<1>3. w = Truncate => w.kind = "truncate"  BY DEF Truncate
<1> HIDE DEF w
<1>4. w.kind \in {"put", "del", "reset"} => TreeCommit(w)  BY <1>1 DEF JournalWrite
<1>5. w = Record => CommitRecord /\ UNCHANGED <<tree, safe>>  BY <1>1, <1>2 DEF JournalWrite, TreeCommit
<1>6. w = Truncate => slot' = [s \in Slots |-> Blank] /\ stale' = {} /\ UNCHANGED <<tree, safe>>
  BY <1>1, <1>3 DEF JournalWrite, TreeCommit
<1> QED  BY <1>4, <1>5, <1>6 DEF w

LEMMA StepCases ==
  ASSUME TypeInv, CallInv, Step, NEW a, a = staged["index"]
  PROVE  \/ PostStep(a) \/ TermsStep(a) \/ LengthsStep(a) \/ SumStep(a) \/ RecordStep(a)
         \/ TruncateStep(a) \/ ResetStep(a)
<1> DEFINE w == Head(todo)
           o == log[a]
<1>1. GoesOn(a)  BY StepGoesOn
<1>2. /\ Busy /\ state = "open" /\ staged = [tr \in Trees |-> a] /\ o \in Operations
      /\ TailOf(todo', todo) /\ (~Clear(a) => Updating(todo, o)) /\ (Clear(a) => Clearing(todo))
  BY <1>1 DEF GoesOn
<1>3. Len(todo) \in Nat \ {0}  BY <1>2 DEF TailOf
<1>4. "index" \in Trees /\ "terms" \in Trees /\ "lengths" \in Trees  BY DEF Trees
<1>5. staged["index"] = a /\ staged["terms"] = a /\ staged["lengths"] = a  BY <1>2, <1>4
<1>6. /\ IndexMap(Map("index")) /\ Map("terms") \in DocMaps /\ LengthMap(Map("lengths"))
      /\ IsFcn(Map("index")) /\ IsFcn(Map("terms")) /\ IsFcn(Map("lengths"))
      /\ tree = [x \in Trees |-> tree[x]]  BY <1>2, OpenTypes, MapsOfDocs DEF LengthMap, IndexMap, TypeInv
<1>7. /\ w.kind \in {"put", "del", "reset"} => TreeCommit(w)
      /\ w = Record => CommitRecord /\ UNCHANGED <<tree, safe>>
      /\ w = Truncate => slot' = [s \in Slots |-> Blank] /\ stale' = {} /\ UNCHANGED <<tree, safe>>  BY HeadIs
<1>8. ASSUME ~Clear(a)
      PROVE  PostStep(a) \/ TermsStep(a) \/ LengthsStep(a) \/ SumStep(a) \/ RecordStep(a)
  <2>1. /\ Len(todo) = 1 => w = Record
        /\ Len(todo) = 2 => w = Put("index", SumKey, todo[Len(todo) - 1].val)
        /\ Len(todo) = 3 => w = LengthsWrite(o)
        /\ Len(todo) = 4 => w = TermsWrite(o)
        /\ Len(todo) > 4 => IndexWrite(w)  BY <1>2, <1>8, UpdatingStep
  <2> HIDE DEF w, o
  <2>2. CASE Len(todo) = 1  BY <2>1, <2>2, <1>7 DEF RecordStep
  <2>3. CASE Len(todo) = 2
    <3> DEFINE v == todo[Len(todo) - 1].val
    <3>1. w = Put("index", SumKey, v)  BY <2>1, <2>3
    <3> HIDE DEF v
    <3>2. TreeCommit(Put("index", SumKey, v))  BY <3>1, <1>7 DEF Put
    <3>3. Adds("index", Version(With(Map("index"), SumKey, v), a))  BY <3>2, <1>5, PutCommits
    <3> QED  BY <3>3, <2>3, <1>8 DEF SumStep, v
  <2>4. CASE Len(todo) = 3
    <3>1. CASE o.op = "add"
      <4>1. w = Put("lengths", o.doc, Length(o.text)) /\ NewLens(Map("lengths"), o) = With(Map("lengths"), o.doc, Length(o.text))
        BY <2>1, <2>4, <3>1 DEF LengthsWrite, NewLens
      <4>2. TreeCommit(Put("lengths", o.doc, Length(o.text)))  BY <4>1, <1>7 DEF Put
      <4>3. Adds("lengths", Version(With(Map("lengths"), o.doc, Length(o.text)), a))
        BY <4>2, <1>5, PutCommits
      <4> QED  BY <4>1, <4>3, <2>4, <1>8 DEF LengthsStep, o
    <3>2. CASE o.op # "add"
      <4>1. w = Del("lengths", o.doc) /\ NewLens(Map("lengths"), o) = Without(Map("lengths"), o.doc)
        BY <2>1, <2>4, <3>2 DEF LengthsWrite, NewLens
      <4>2. TreeCommit(Del("lengths", o.doc))  BY <4>1, <1>7 DEF Del
      <4>3. \/ o.doc \in DOMAIN Map("lengths") /\ Adds("lengths", Version(Without(Map("lengths"), o.doc), a))
            \/ o.doc \notin DOMAIN Map("lengths") /\ Stays /\ Without(Map("lengths"), o.doc) = Map("lengths")
        BY <4>2, <1>4, <1>5, <1>6, DelCommits
      <4>4. o.op = "remove"  BY <3>2, <1>2, <1>8, OperationIs DEF o, Clear
      <4> QED  BY <4>1, <4>3, <4>4, <2>4, <1>8 DEF LengthsStep, o
    <3> QED  BY <3>1, <3>2
  <2>5. CASE Len(todo) = 4
    <3>1. CASE o.op = "add"
      <4>1. w = Put("terms", o.doc, o.text) /\ Effect(Map("terms"), o) = With(Map("terms"), o.doc, o.text)
        BY <2>1, <2>5, <3>1 DEF TermsWrite, Effect
      <4>2. TreeCommit(Put("terms", o.doc, o.text))  BY <4>1, <1>7 DEF Put
      <4>3. Adds("terms", Version(With(Map("terms"), o.doc, o.text), a))  BY <4>2, <1>5, PutCommits
      <4> QED  BY <4>1, <4>3, <2>5, <1>8 DEF TermsStep, o
    <3>2. CASE o.op # "add"
      <4>0. o.op = "remove"  BY <3>2, <1>2, <1>8, OperationIs DEF o, Clear
      <4>1. w = Del("terms", o.doc) /\ Effect(Map("terms"), o) = Without(Map("terms"), o.doc)
        BY <2>1, <2>5, <3>2, <4>0 DEF TermsWrite, Effect
      <4>2. TreeCommit(Del("terms", o.doc))  BY <4>1, <1>7 DEF Del
      <4>3. \/ o.doc \in DOMAIN Map("terms") /\ Adds("terms", Version(Without(Map("terms"), o.doc), a))
            \/ o.doc \notin DOMAIN Map("terms") /\ Stays /\ Without(Map("terms"), o.doc) = Map("terms")
        BY <4>2, <1>4, <1>5, <1>6, DelCommits
      <4> QED  BY <4>0, <4>1, <4>3, <2>5, <1>8 DEF TermsStep, o
    <3> QED  BY <3>1, <3>2
  <2>6. CASE Len(todo) > 4
    <3>1. IndexWrite(w)  BY <2>1, <2>6
    <3>2. CASE w = Put("index", w.key, w.val)
      <4> DEFINE k == w.key
                 v == w.val
      <4>1. w = Put("index", k, v)  BY <3>2
      <4> HIDE DEF k, v
      <4>2. TreeCommit(Put("index", k, v))  BY <4>1, <1>7 DEF Put
      <4>3. Adds("index", Version(With(Map("index"), k, v), a))  BY <4>2, <1>5, PutCommits
      <4>4. After(Map("index"), w) = With(Map("index"), k, v)  BY <4>1, AfterPut
      <4> QED  BY <4>3, <4>4, <3>1, <2>6, <1>8 DEF PostStep, w
    <3>3. CASE w = Del("index", w.key)
      <4> DEFINE k == w.key
      <4>1. w = Del("index", k)  BY <3>3
      <4> HIDE DEF k
      <4>2. TreeCommit(Del("index", k))  BY <4>1, <1>7 DEF Del
      <4>3. \/ Adds("index", Version(Without(Map("index"), k), a))
            \/ Stays /\ Without(Map("index"), k) = Map("index")  BY <4>2, <1>4, <1>5, <1>6, DelCommits
      <4>4. After(Map("index"), w) = Without(Map("index"), k)  BY <4>1, AfterDel
      <4> QED  BY <4>3, <4>4, <3>1, <2>6, <1>8 DEF PostStep, w
    <3> QED  BY <3>1, <3>2, <3>3 DEF IndexWrite
  <2>7. Len(todo) = 1 \/ Len(todo) = 2 \/ Len(todo) = 3 \/ Len(todo) = 4 \/ Len(todo) > 4
    <3> DEFINE n == Len(todo)
    <3>1. n \in Nat \ {0}  BY <1>3
    <3> HIDE DEF n
    <3>2. n = 1 \/ n = 2 \/ n = 3 \/ n = 4 \/ n > 4  BY <3>1
    <3> QED  BY <3>2 DEF n
  <2> QED  BY <2>2, <2>3, <2>4, <2>5, <2>6, <2>7, Zenon
<1>9. ASSUME Clear(a) PROVE RecordStep(a) \/ TruncateStep(a) \/ ResetStep(a)
  <2>1. /\ Len(todo) \in 1..5
        /\ Len(todo) = 5 => w = Truncate
        /\ Len(todo) = 4 => w = Reset("index")
        /\ Len(todo) = 3 => w = Reset("terms")
        /\ Len(todo) = 2 => w = Reset("lengths")
        /\ Len(todo) = 1 => w = Record  BY <1>2, <1>9, ClearingStep
  <2>2. Len(todo) <= 4 => Recorded = {}  BY <1>2, <1>9 DEF CallInv
  <2> HIDE DEF w, o
  <2>3. ASSUME NEW tr \in Trees, w = Reset(tr) PROVE Restarts(tr, Version(<<>>, a))
    <3>1. TreeCommit(Reset(tr)) /\ staged[tr] = a  BY <2>3, <1>2, <1>7 DEF Reset
    <3> QED  BY <3>1, ResetCommits
  <2>4. CASE Len(todo) = 5  BY <2>1, <2>4, <1>7, <1>9 DEF TruncateStep
  <2>5. CASE Len(todo) = 1  BY <2>1, <2>5, <1>7 DEF RecordStep
  <2>6. CASE Len(todo) = 4  BY <2>1, <2>2, <2>3, <2>6, <1>4, <1>9 DEF ResetStep
  <2>7. CASE Len(todo) = 3  BY <2>1, <2>2, <2>3, <2>7, <1>4, <1>9 DEF ResetStep
  <2>8. CASE Len(todo) = 2  BY <2>1, <2>2, <2>3, <2>8, <1>4, <1>9 DEF ResetStep
  <2>9. Len(todo) = 1 \/ Len(todo) = 2 \/ Len(todo) = 3 \/ Len(todo) = 4 \/ Len(todo) = 5  BY <2>1
  <2> QED  BY <2>4, <2>5, <2>6, <2>7, <2>8, <2>9, Zenon
<1> QED  BY <1>8, <1>9

\* The invariant of types after a step.
LEMMA TypedNext ==
  ASSUME TreesOK(tree'), \A tr \in Trees : state' = "open" => tree'[tr] # <<>>,
         staged' \in [Trees -> Nat], safe' \in [Trees -> Nat],
         \A tr \in Trees : safe'[tr] <= Len(tree'[tr]),
         SlotsOK(slot'), state' \in {"down", "open", "failed", "refused"},
         IsSeq(todo'), todo' # <<>> => state' = "open",
         log' \in Seq(Operations), base' \in {<<>>, Legacy},
         finished' \in 0..Len(log'), stale' \subseteq RecordsOf(slot'),
         lost' \in BOOLEAN, exposed' \in BOOLEAN
  PROVE  TypeInv'
<1>1. Recorded' = RecordsOf(slot')  BY DEF Recorded, RecordsOf
<1>2. /\ tree' = [tr \in Trees |-> tree'[tr]]
      /\ \A tr \in Trees : /\ IsSeq(tree'[tr])
                           /\ \A i \in DOMAIN tree'[tr] : VersionOK(tr, tree'[tr][i])
                           /\ state' = "open" => tree'[tr] # <<>>  BY DEF TreesOK
<1>3. slot' = [s \in Slots |-> slot'[s]] /\ \A s \in Slots : slot'[s] = Blank \/ RecordOK(s, slot'[s])
  BY DEF SlotsOK
<1> QED  BY <1>1, <1>2, <1>3 DEF TypeInv, Busy

LEMMA StaysExtends ==
  ASSUME TypeInv, Stays, NEW a
  PROVE  Extends(a)
<1>1. TreesOK(tree) /\ \A tr \in Trees : Len(tree[tr]) \in Nat  BY Types
<1> QED  BY <1>1 DEF Stays, Extends

LEMMA AddsExtends ==
  ASSUME TypeInv, NEW tr \in Trees, NEW v, VersionOK(tr, v), NEW a, v.applied = a, Adds(tr, v)
  PROVE  /\ Extends(a) /\ GrownBy(tree'[tr], tree[tr], v)
         /\ \A x \in Trees : x # tr => tree'[x] = tree[x]
<1>1. TreesOK(tree) /\ \A x \in Trees : IsSeq(tree[x]) /\ Len(tree[x]) \in Nat  BY Types
<1>2. tree = [x \in Trees |-> tree[x]]  BY <1>1 DEF TreesOK
<1>3. tree' = [tree EXCEPT ![tr] = Append(tree[tr], v)] /\ UNCHANGED <<safe, slot, stale>>  BY DEF Adds
<1>4. /\ tree' = [x \in Trees |-> tree'[x]] /\ tree'[tr] = Append(tree[tr], v)
      /\ \A x \in Trees : x # tr => tree'[x] = tree[x]
  <2> DEFINE q == Append(tree[tr], v)
  <2> HIDE DEF q
  <2>1. tree' = [tree EXCEPT ![tr] = q]  BY <1>3 DEF q
  <2> QED  BY <1>2, <2>1 DEF q
<1>5. GrownBy(tree'[tr], tree[tr], v)  BY <1>1, <1>4, Grown
<1>6. /\ IsSeq(tree'[tr]) /\ Len(tree'[tr]) = Len(tree[tr]) + 1 /\ tree'[tr][Len(tree[tr]) + 1] = v
      /\ \A i \in 1..Len(tree[tr]) : tree'[tr][i] = tree[tr][i]  BY <1>5 DEF GrownBy
<1> DEFINE n == Len(tree[tr])
<1>7. n \in Nat  BY <1>1
<1> HIDE DEF n
<1>8. \A i \in 1..(n + 1) : i \in 1..n \/ i = n + 1  BY <1>7
<1>9. \A i \in DOMAIN tree'[tr] : VersionOK(tr, tree'[tr][i])
  <2>1. DOMAIN tree'[tr] = 1..(n + 1)  BY <1>6, SeqFacts DEF n
  <2>2. ASSUME NEW i \in 1..n PROVE VersionOK(tr, tree'[tr][i])  BY <1>1, <1>6, VersionAt DEF n
  <2> QED  BY <2>1, <2>2, <1>6, <1>8 DEF n
<1>10. TreesOK(tree')
  <2>1. ASSUME NEW x \in Trees
        PROVE  IsSeq(tree'[x]) /\ \A i \in DOMAIN tree'[x] : VersionOK(x, tree'[x][i])
    <3>1. CASE x = tr  BY <3>1, <1>6, <1>9
    <3>2. CASE x # tr  BY <3>2, <1>1, <1>4 DEF TreesOK
    <3> QED  BY <3>1, <3>2
  <2> QED  BY <2>1, <1>4 DEF TreesOK
<1>11. ASSUME NEW x \in Trees
       PROVE  /\ Len(tree'[x]) \in Nat /\ Len(tree[x]) <= Len(tree'[x])
              /\ \A i \in 1..Len(tree[x]) : tree'[x][i] = tree[x][i]
              /\ \A i \in 1..Len(tree'[x]) : i > Len(tree[x]) => tree'[x][i].applied = a
  <2>1. CASE x = tr
    <3>1. Len(tree'[x]) = n + 1 /\ Len(tree[x]) = n /\ n + 1 \in Nat /\ n <= n + 1  BY <2>1, <1>6, <1>7 DEF n
    <3>2. \A i \in 1..(n + 1) : i > n => i = n + 1  BY <1>7
    <3> QED  BY <3>1, <3>2, <2>1, <1>6 DEF n
  <2>2. CASE x # tr
    <3> DEFINE k == Len(tree[x])
    <3>1. tree'[x] = tree[x] /\ k \in Nat  BY <2>2, <1>1, <1>4
    <3> HIDE DEF k
    <3>2. \A i \in 1..k : ~(i > k)  BY <3>1
    <3> QED  BY <3>1, <3>2 DEF k
  <2> QED  BY <2>1, <2>2
<1> QED  BY <1>3, <1>4, <1>5, <1>10, <1>11 DEF Extends

\* The maps after a step that adds a version to a tree.
LEMMA AddsMap ==
  ASSUME TypeInv, NEW tr \in Trees, NEW m, NEW a, VersionOK(tr, Version(m, a)), Adds(tr, Version(m, a))
  PROVE  /\ Map(tr)' = m /\ Last(tree'[tr]).applied = a
         /\ \A x \in Trees : x # tr => Map(x)' = Map(x) /\ tree'[x] = tree[x]
<1> DEFINE v == Version(m, a)
<1>1. v.applied = a /\ v.map = m  BY DEF Version
<1> HIDE DEF v
<1>2. GrownBy(tree'[tr], tree[tr], v) /\ \A x \in Trees : x # tr => tree'[x] = tree[x]
  BY <1>1, AddsExtends DEF v
<1>3. Last(tree'[tr]) = v  BY <1>2 DEF GrownBy
<1> QED  BY <1>1, <1>2, <1>3 DEF Map

LEMMA NewVersion ==
  ASSUME NEW tr, NEW m, MapOK(tr, m), NEW a \in Nat
  PROVE  VersionOK(tr, Version(m, a)) /\ Version(m, a).applied = a /\ Version(m, a).map = m
  BY DEF VersionOK, Version

LEMMA NewLensTyped ==
  ASSUME NEW lens, LengthMap(lens), NEW o \in Operations, o.op # "clear"
  PROVE  LengthMap(NewLens(lens, o))
<1>1. IsFcn(lens) /\ DOMAIN lens \in DocSets  BY DEF LengthMap
<1>2. CASE o.op = "add"
  <2>1. o.doc \in Docs  BY <1>2, OperationIs
  <2>2. NewLens(lens, o) = With(lens, o.doc, Length(o.text))  BY <1>2 DEF NewLens
  <2> DEFINE v == Length(o.text)
  <2> HIDE DEF v
  <2>3. IsFcn(With(lens, o.doc, v)) /\ DOMAIN With(lens, o.doc, v) = DOMAIN lens \cup {o.doc}
    <3> DEFINE d == o.doc
    <3> HIDE DEF d
    <3>1. IsFcn(With(lens, d, v)) /\ DOMAIN With(lens, d, v) = DOMAIN lens \cup {d}  BY WithIs, ZenonT(40)
    <3> QED  BY <3>1 DEF d
  <2>4. DOMAIN lens \cup {o.doc} \in DocSets  BY <1>1, <2>1, SomeDocs
  <2> QED  BY <2>2, <2>3, <2>4 DEF LengthMap, v
<1>3. CASE o.op # "add"
  <2>1. NewLens(lens, o) = Without(lens, o.doc)  BY <1>3 DEF NewLens
  <2>2. IsFcn(Without(lens, o.doc)) /\ DOMAIN Without(lens, o.doc) = DOMAIN lens \ {o.doc}
    BY WithoutIs, ZenonT(40)
  <2>3. DOMAIN lens \ {o.doc} \in DocSets  BY <1>1, SomeDocs
  <2> QED  BY <2>1, <2>2, <2>3 DEF LengthMap
<1> QED  BY <1>2, <1>3

\* The versions a step may add.
LEMMA StepTyped ==
  ASSUME TypeInv, NEW a, GoesOn(a)
  PROVE  /\ PostStep(a) => VersionOK("index", Version(After(Map("index"), Head(todo)), a))
         /\ TermsStep(a) => VersionOK("terms", Version(Effect(Map("terms"), log[a]), a))
         /\ LengthsStep(a) => VersionOK("lengths", Version(NewLens(Map("lengths"), log[a]), a))
         /\ SumStep(a) => VersionOK("index", Version(With(Map("index"), SumKey, todo[Len(todo) - 1].val), a))
<1>1. /\ IndexMap(Map("index")) /\ Map("terms") \in DocMaps /\ LengthMap(Map("lengths"))
      /\ log[a] \in Operations  BY OpenTypes DEF GoesOn
<1>2. a \in Nat  BY Types DEF GoesOn
<1>3. PostStep(a) => MapOK("index", After(Map("index"), Head(todo)))  BY <1>1, AfterTyped DEF PostStep, MapOK
<1>4. TermsStep(a) => MapOK("terms", Effect(Map("terms"), log[a]))  BY <1>1, EffectTyped DEF MapOK
<1>5. LengthsStep(a) => MapOK("lengths", NewLens(Map("lengths"), log[a]))
  BY <1>1, NewLensTyped DEF MapOK, LengthsStep, Clear
<1>6. ASSUME SumStep(a) PROVE MapOK("index", With(Map("index"), SumKey, todo[Len(todo) - 1].val))
  <2> DEFINE v == todo[Len(todo) - 1].val
  <2> HIDE DEF v
  <2>1. SumKey \in Keys /\ SumKey[2] = "sum"  BY DEF SumKey, Keys
  <2>2. ValueOK(SumKey, v)  BY <2>1 DEF ValueOK
  <2> QED  BY <1>1, <2>1, <2>2, WithTyped DEF MapOK, v
<1> QED  BY <1>2, <1>3, <1>4, <1>5, <1>6, NewVersion

LEMMA WritesExtend ==
  ASSUME TypeInv, NEW a, GoesOn(a), WriteStep(a)
  PROVE  Extends(a) /\ ~Clear(a) /\ Len(todo) > 1
<1>1. ASSUME NEW tr \in Trees, NEW m, VersionOK(tr, Version(m, a)), Adds(tr, Version(m, a))
      PROVE  Extends(a)
  <2>1. Version(m, a).applied = a  BY DEF Version
  <2> QED  BY <2>1, <1>1, AddsExtends
<1>2. "index" \in Trees /\ "terms" \in Trees /\ "lengths" \in Trees  BY DEF Trees
<1>3. CASE PostStep(a)  BY <1>1, <1>2, <1>3, StepTyped, StaysExtends DEF PostStep
<1>4. CASE TermsStep(a)  BY <1>1, <1>2, <1>4, StepTyped, StaysExtends DEF TermsStep
<1>5. CASE LengthsStep(a)  BY <1>1, <1>2, <1>5, StepTyped, StaysExtends DEF LengthsStep
<1>6. CASE SumStep(a)  BY <1>1, <1>2, <1>6, StepTyped DEF SumStep
<1>7. ~Clear(a) /\ Len(todo) > 1
  <2>1. Len(todo) \in Nat  BY Types
  <2> QED  BY <2>1, SMTT(40) DEF WriteStep, PostStep, TermsStep, LengthsStep, SumStep
<1> QED  BY <1>3, <1>4, <1>5, <1>6, <1>7 DEF WriteStep

\* A tree starts over.
LEMMA EmptyVersion ==
  ASSUME NEW tr \in Trees, NEW a \in Nat
  PROVE  VersionOK(tr, Version(<<>>, a)) /\ Version(<<>>, a).applied = a /\ Version(<<>>, a).map = <<>>
<1> DEFINE v == Version(<<>>, a)
<1>1. MapOK(tr, <<>>)
  <2>1. <<>> \in DocMaps /\ IsFcn(<<>>) /\ DOMAIN <<>> = {}  BY BaseTyped, NoKeys
  <2>2. LengthMap(<<>>)  BY <2>1, SomeDocs, MapsOfDocs DEF LengthMap
  <2>3. IndexMap(<<>>)
    <3> DEFINE f == <<>>
    <3>1. IsFcn(f) /\ DOMAIN f = {}  BY <2>1
    <3> HIDE DEF f
    <3>2. IndexMap(f)  BY <3>1, BoundedMap
    <3> QED  BY <3>2 DEF f
  <2> DEFINE g == <<>>
  <2>4. g \in DocMaps /\ LengthMap(g) /\ IndexMap(g)  BY <2>1, <2>2, <2>3
  <2> HIDE DEF g
  <2>5. MapOK(tr, g)  BY <2>4 DEF MapOK, Trees
  <2> QED  BY <2>5 DEF g
<1>2. VersionOK(tr, v) /\ v.applied = a /\ v.map = <<>>
  <2> DEFINE g == <<>>
  <2>1. MapOK(tr, g) /\ v = Version(g, a)  BY <1>1
  <2> HIDE DEF g, v
  <2>2. VersionOK(tr, v) /\ v.applied = a /\ v.map = g  BY <2>1, NewVersion
  <2> QED  BY <2>2 DEF g
<1> QED  BY <1>2

LEMMA RestartsTyped ==
  ASSUME TypeInv, NEW tr \in Trees, NEW a \in Nat, Restarts(tr, Version(<<>>, a))
  PROVE  /\ TreesOK(tree') /\ tree'[tr] = <<Version(<<>>, a)>> /\ Len(tree'[tr]) = 1
         /\ \A x \in Trees : x # tr => tree'[x] = tree[x] /\ safe'[x] = safe[x]
         /\ safe' \in [Trees -> Nat] /\ safe'[tr] = 0
         /\ tree'[tr][1].applied = a /\ Last(tree'[tr]).applied = a /\ Map(tr)' = <<>>
<1> DEFINE v == Version(<<>>, a)
<1>2. VersionOK(tr, v) /\ v.applied = a /\ v.map = <<>>  BY EmptyVersion
<1> DEFINE q == <<v>>
<1>3. tree' = [tree EXCEPT ![tr] = q] /\ safe' = [safe EXCEPT ![tr] = 0]  BY DEF Restarts
<1> HIDE DEF v
<1>4. IsSeq(q) /\ Len(q) = 1 /\ q[1] = v /\ DOMAIN q = {1} /\ q # <<>>
  <2>1. q \in Seq({v}) /\ Len(q) = 1 /\ q[1] = v /\ q # <<>>  OBVIOUS
  <2>2. IsSeq(q)  BY <2>1, SeqIs
  <2>3. DOMAIN q = {1}  BY <2>1
  <2> QED  BY <2>1, <2>2, <2>3
<1> HIDE DEF q
<1>5. TreesOK(tree) /\ safe \in [Trees -> Nat]  BY Types
<1>6. /\ tree' = [x \in Trees |-> tree'[x]] /\ tree'[tr] = q /\ \A x \in Trees : x # tr => tree'[x] = tree[x]
  BY <1>3, <1>5 DEF TreesOK
<1>7. /\ safe' \in [Trees -> Nat] /\ safe'[tr] = 0 /\ \A x \in Trees : x # tr => safe'[x] = safe[x]
  BY <1>3, <1>5
<1>8. TreesOK(tree')
  <2>1. ASSUME NEW x \in Trees
        PROVE  IsSeq(tree'[x]) /\ \A i \in DOMAIN tree'[x] : VersionOK(x, tree'[x][i])
    <3>1. CASE x = tr  BY <3>1, <1>2, <1>4, <1>6
    <3>2. CASE x # tr  BY <3>2, <1>5, <1>6 DEF TreesOK
    <3> QED  BY <3>1, <3>2
  <2> QED  BY <2>1, <1>6 DEF TreesOK
<1>9. Last(tree'[tr]) = v  BY <1>4, <1>6, SeqFacts
<1>10. Map(tr)' = <<>> /\ Last(tree'[tr]).applied = a /\ tree'[tr][1].applied = a
  BY <1>2, <1>4, <1>6, <1>9 DEF Map
<1> QED  BY <1>4, <1>6, <1>7, <1>8, <1>10 DEF q, v

LEMMA LongerOf ==
  ASSUME NEW x \in Nat, NEW y \in Nat
  PROVE  Max({x, y}) \in {x, y} /\ x <= Max({x, y}) /\ y <= Max({x, y})
<1>1. {x, y} \in SUBSET (0..(x + y)) /\ {x, y} # {} /\ x + y \in Nat  OBVIOUS
<1> DEFINE S == {x, y}
<1>2. x \in S /\ y \in S  OBVIOUS
<1> HIDE DEF S
<1>3. Max(S) \in S /\ \A z \in S : z <= Max(S)  BY <1>1, MaxOfNats DEF S
<1> QED  BY <1>2, <1>3 DEF S

\* The record a call ends with.
LEMMA NewRecord ==
  ASSUME TypeInv, state = "open", CommitRecord
  PROVE  /\ Lengths \in [Trees -> Nat \ {0}] /\ SlotsOK(slot')
         /\ RecordsOf(slot') = Recorded \cup {NextSlot} /\ NextSlot \in Slots
         /\ slot'[NextSlot].txn = NewestTxn + 1 /\ slot'[NextSlot].lens = Lengths
         /\ \A s \in Slots : s # NextSlot => slot'[s] = slot[s]
         /\ \A s \in RecordsOf(slot') : s # NextSlot => slot'[s].txn < slot'[NextSlot].txn
         /\ Latest(slot', RecordsOf(slot')) = NextSlot
         /\ stale' = stale \ {NextSlot}
<1>1. Lengths \in [Trees -> Nat \ {0}]  BY OpenTypes DEF Lengths
<1> DEFINE lens == Lengths
<1>2. slot' = [slot EXCEPT ![NextSlot] = [txn |-> NewestTxn + 1, lens |-> lens]] /\ stale' = stale \ {NextSlot}
  BY DEF CommitRecord
<1>3. SlotsOK(slot)  BY Types
<1>4. lens \in [Trees -> Nat \ {0}]  BY <1>1
<1> HIDE DEF lens
<1>5. /\ SlotsOK(slot') /\ RecordsOf(slot') = Recorded \cup {NextSlot} /\ NextSlot \in Slots
      /\ slot'[NextSlot].txn = NewestTxn + 1 /\ slot'[NextSlot].lens = lens
      /\ \A s \in Slots : s # NextSlot => slot'[s] = slot[s]
      /\ \A s \in RecordsOf(slot') : s # NextSlot => slot'[s].txn < slot'[NextSlot].txn
  <2>1. slot' = [slot EXCEPT ![NextSlot] = [txn |-> NewestTxn + 1, lens |-> lens]]  BY <1>2
  <2> DEFINE sl == slot'
  <2> HIDE DEF sl
  <2>2. sl = [slot EXCEPT ![NextSlot] = [txn |-> NewestTxn + 1, lens |-> lens]]  BY <2>1 DEF sl
  <2>3. RecordAdded(sl, lens)  BY <2>2, <1>3, <1>4, RecordWritten
  <2> QED  BY <2>3 DEF RecordAdded, sl
<1>6. NewestTxn \in Nat  BY <1>3, NextIs
<1>7. Latest(slot', RecordsOf(slot')) = NextSlot
  <2>1. NextSlot \in RecordsOf(slot')  BY <1>5
  <2>2. \A s \in RecordsOf(slot') : slot'[s].txn <= slot'[NextSlot].txn
    <3>1. ASSUME NEW s \in RecordsOf(slot') PROVE slot'[s].txn <= slot'[NextSlot].txn
      <4>1. slot'[s].txn \in Nat /\ slot'[NextSlot].txn \in Nat  BY <1>5, <2>1, RecordIs
      <4> QED  BY <4>1, <1>5
    <3> QED  BY <3>1
  <2>3. RecordsOf(slot') \in SUBSET RecordsOf(slot')  OBVIOUS
  <2> QED  BY <2>1, <2>2, <2>3, <1>5, LatestOnly
<1> QED  BY <1>1, <1>2, <1>5, <1>7 DEF lens

LEMMA StepsTyped ==
  ASSUME TypeInv, CallInv, Step
  PROVE  TypeInv'
<1> DEFINE a == staged["index"]
<1>1. GoesOn(a)  BY StepGoesOn
<1>2. /\ PostStep(a) \/ TermsStep(a) \/ LengthsStep(a) \/ SumStep(a) \/ RecordStep(a)
         \/ TruncateStep(a) \/ ResetStep(a)  BY StepCases
<1> HIDE DEF a
<1>3. /\ state = "open" /\ a \in 1..Len(log) /\ IsSeq(todo')
      /\ UNCHANGED <<staged, state, log, base, lost>>
      /\ finished' = (IF Len(todo) = 1 THEN Max({finished, a}) ELSE finished)
      /\ exposed' = (IF Len(todo) = 1 /\ Clear(a) THEN FALSE ELSE exposed)  BY <1>1 DEF GoesOn, TailOf
<1>4. /\ TreesOK(tree) /\ SlotsOK(slot) /\ log \in Seq(Operations) /\ base \in {<<>>, Legacy}
      /\ Len(log) \in Nat /\ finished \in Nat /\ finished <= Len(log)
      /\ staged \in [Trees -> Nat] /\ safe \in [Trees -> Nat]
      /\ \A tr \in Trees : safe[tr] <= Len(tree[tr]) /\ tree[tr] # <<>>
      /\ \A tr \in Trees : Len(tree[tr]) \in Nat
      /\ stale \subseteq RecordsOf(slot) /\ lost \in BOOLEAN /\ exposed \in BOOLEAN
  BY <1>3, Types, SlotDefs DEF TypeInv
<1>5. finished' \in 0..Len(log')
  <2>1. finished \in Nat /\ a \in Nat /\ finished <= Len(log) /\ a <= Len(log) /\ Len(log') = Len(log)
    BY <1>3, <1>4
  <2>2. Max({finished, a}) \in {finished, a}  BY <2>1, LongerOf
  <2> QED  BY <2>1, <2>2, <1>3, <1>4
<1>6. exposed' \in BOOLEAN /\ lost' \in BOOLEAN  BY <1>3, <1>4
<1> DEFINE Trees2 == /\ TreesOK(tree') /\ \A tr \in Trees : tree'[tr] # <<>> /\ safe'[tr] <= Len(tree'[tr])
                     /\ safe' \in [Trees -> Nat] /\ SlotsOK(slot') /\ stale' \subseteq RecordsOf(slot')
<1>7. ASSUME WriteStep(a) PROVE Trees2
  <2>1. Extends(a)  BY <1>1, <1>7, WritesExtend
  <2>2. /\ TreesOK(tree') /\ safe' = safe /\ slot' = slot /\ stale' = stale
        /\ \A tr \in Trees : Len(tree'[tr]) \in Nat /\ Len(tree[tr]) <= Len(tree'[tr])  BY <2>1 DEF Extends
  <2>3. ASSUME NEW tr \in Trees PROVE tree'[tr] # <<>> /\ safe'[tr] <= Len(tree'[tr])
    <3>1. IsSeq(tree[tr]) /\ IsSeq(tree'[tr]) /\ tree[tr] # <<>>  BY <1>4, <2>2 DEF TreesOK
    <3>2. Len(tree[tr]) > 0  BY <3>1, SeqFacts
    <3>3. Len(tree'[tr]) > 0  BY <3>2, <2>2, <1>4
    <3>4. tree'[tr] # <<>>  BY <3>1, <3>3, SeqFacts
    <3>5. safe[tr] \in Nat /\ safe[tr] <= Len(tree[tr])  BY <1>4
    <3> QED  BY <3>4, <3>5, <2>2, <1>4
  <2> QED  BY <2>2, <2>3, <1>4
<1>8. ASSUME RecordStep(a) PROVE Trees2
  <2>1. CommitRecord /\ UNCHANGED <<tree, safe>>  BY <1>8 DEF RecordStep
  <2>2. /\ SlotsOK(slot') /\ RecordsOf(slot') = Recorded \cup {NextSlot} /\ stale' = stale \ {NextSlot}
    BY <2>1, <1>3, NewRecord
  <2>3. stale' \subseteq RecordsOf(slot')  BY <2>2, <1>4, SlotDefs
  <2> QED  BY <2>1, <2>2, <2>3, <1>4
<1>9. ASSUME TruncateStep(a) PROVE Trees2
  <2>1. slot' = [s \in Slots |-> Blank] /\ stale' = {} /\ UNCHANGED <<tree, safe>>  BY <1>9 DEF TruncateStep
  <2>2. SlotsOK(slot')  BY <2>1 DEF SlotsOK
  <2> QED  BY <2>1, <2>2, <1>4
<1>10. ASSUME ResetStep(a) PROVE Trees2
  <2>1. PICK tr \in Trees : Restarts(tr, Version(<<>>, a))  BY <1>10 DEF ResetStep, Trees
  <2>2. a \in Nat  BY <1>3
  <2>3. /\ TreesOK(tree') /\ Len(tree'[tr]) = 1 /\ tree'[tr] = <<Version(<<>>, a)>>
        /\ \A x \in Trees : x # tr => tree'[x] = tree[x] /\ safe'[x] = safe[x]
        /\ safe' \in [Trees -> Nat] /\ safe'[tr] = 0  BY <2>1, <2>2, RestartsTyped
  <2>4. UNCHANGED <<slot, stale>>  BY <2>1 DEF Restarts
  <2>5. ASSUME NEW x \in Trees PROVE tree'[x] # <<>> /\ safe'[x] <= Len(tree'[x])
    <3>1. CASE x = tr  BY <3>1, <2>3
    <3>2. CASE x # tr  BY <3>2, <2>3, <1>4
    <3> QED  BY <3>1, <3>2
  <2> QED  BY <2>3, <2>4, <2>5, <1>4
<1>11. Trees2
  <2> HIDE DEF Trees2
  <2> QED  BY <1>2, <1>7, <1>8, <1>9, <1>10 DEF WriteStep
<1>12. todo' # <<>> => state' = "open"  BY <1>3
<1>13. /\ staged' \in [Trees -> Nat] /\ state' \in {"down", "open", "failed", "refused"}
       /\ log' \in Seq(Operations) /\ base' \in {<<>>, Legacy}  BY <1>3, <1>4
<1> QED  BY <1>3, <1>5, <1>6, <1>11, <1>12, <1>13, TypedNext

LEMMA TypesNext ==
  ASSUME TypeInv'
  PROVE  /\ TreesOK(tree') /\ SlotsOK(slot') /\ Recorded' = RecordsOf(slot')
         /\ Usable' = UsableOf(tree', slot')
         /\ \A tr \in Trees : IsSeq(tree'[tr]) /\ Len(tree'[tr]) \in Nat
<1>1. TreesOK(tree') /\ SlotsOK(slot')  BY DEF TypeInv, TreesOK, SlotsOK
<1>2. \A tr \in Trees : IsSeq(tree'[tr]) /\ Len(tree'[tr]) \in Nat  BY <1>1, SeqFacts DEF TreesOK
<1>3. Recorded' = RecordsOf(slot') /\ Usable' = UsableOf(tree', slot')
  BY DEF Recorded, RecordsOf, Usable, UsableOf, Satisfied, SatisfiedBy
<1> QED  BY <1>1, <1>2, <1>3

LEMMA StepIs ==
  ASSUME TypeInv, CallInv, Step
  PROVE  AStep(staged["index"])
<1> DEFINE a == staged["index"]
<1>1. GoesOn(a) /\ TypeInv'  BY StepGoesOn, StepsTyped
<1>2. StepKinds(a)  BY StepCases DEF StepKinds, WriteStep
<1>3. a \in Nat  BY Types DEF Trees
<1> QED  BY <1>1, <1>2, <1>3 DEF AStep

LEMMA StepFacts ==
  ASSUME NEW a, AStep(a)
  PROVE  /\ TypeInv /\ CallInv /\ TypeInv' /\ GoesOn(a) /\ a = staged["index"] /\ a \in Nat
         /\ state = "open" /\ a \in 1..Len(log) /\ Len(todo) \in Nat \ {0} /\ Busy
         /\ staged' = staged /\ staged = [tr \in Trees |-> a] /\ staged' = [tr \in Trees |-> a]
         /\ state' = "open" /\ log' = log /\ base' = base /\ lost' = lost
         /\ (todo' = <<>> <=> Len(todo) = 1) /\ (Busy' <=> Len(todo) > 1)
         /\ Len(todo') = Len(todo) - 1
         /\ (Clear(a))' = Clear(a) /\ staged'["index"] = a
<1>1. TypeInv /\ CallInv /\ TypeInv' /\ GoesOn(a) /\ a = staged["index"] /\ a \in Nat  BY DEF AStep
<1>2. /\ Busy /\ state = "open" /\ a \in 1..Len(log) /\ staged = [tr \in Trees |-> a]
      /\ staged' = staged /\ state' = state /\ log' = log /\ base' = base /\ lost' = lost
      /\ TailOf(todo', todo) /\ (todo' = <<>> <=> Len(todo) = 1)  BY <1>1 DEF GoesOn
<1>3. Len(todo) \in Nat \ {0} /\ Len(todo') = Len(todo) - 1  BY <1>2 DEF TailOf
<1>4. Busy' <=> Len(todo) > 1  BY <1>2, <1>3 DEF Busy
<1>5. (Clear(a))' = Clear(a)  BY <1>2 DEF Clear
<1> QED  BY <1>1, <1>2, <1>3, <1>4, <1>5

LEMMA Kinds ==
  ASSUME NEW a, AStep(a)
  PROVE  /\ StepKinds(a)
         /\ Len(todo) = 1 => RecordStep(a)
         /\ Len(todo) > 1 => WriteStep(a) \/ TruncateStep(a) \/ ResetStep(a)
         /\ Clear(a) => RecordStep(a) \/ TruncateStep(a) \/ ResetStep(a)
         /\ ~Clear(a) => RecordStep(a) \/ WriteStep(a)
         /\ WriteStep(a) => Extends(a) /\ ~Clear(a) /\ Len(todo) > 1 /\ UNCHANGED <<slot, stale>>
         /\ TruncateStep(a) \/ ResetStep(a) =>
              /\ Clear(a) /\ Len(todo) > 1 /\ Recorded' = {} /\ stale' = {}
         /\ RecordStep(a) => Len(todo) = 1 /\ CommitRecord /\ tree' = tree /\ safe' = safe
<1>1. StepKinds(a) /\ GoesOn(a) /\ TypeInv /\ Len(todo) \in Nat \ {0}  BY StepFacts DEF AStep
<1>2. WriteStep(a) => Extends(a) /\ ~Clear(a) /\ Len(todo) > 1  BY <1>1, WritesExtend
<1>3. Extends(a) => UNCHANGED <<slot, stale>>  BY DEF Extends
<1>4. ASSUME TruncateStep(a) PROVE Clear(a) /\ Len(todo) > 1 /\ Recorded' = {} /\ stale' = {}
  BY <1>4 DEF TruncateStep, Recorded
<1>5. ASSUME ResetStep(a) PROVE Clear(a) /\ Len(todo) > 1 /\ Recorded' = {} /\ stale' = {}
  <2>1. Clear(a) /\ Len(todo) > 1 /\ Recorded = {} /\ UNCHANGED <<slot, stale>>
    BY <1>5, SMTT(40) DEF ResetStep, Restarts
  <2>2. stale \subseteq Recorded  BY <1>1 DEF TypeInv
  <2>3. Recorded' = Recorded  BY <2>1 DEF Recorded
  <2> QED  BY <2>1, <2>2, <2>3
<1>6. RecordStep(a) => Len(todo) = 1 /\ CommitRecord /\ tree' = tree /\ safe' = safe  BY DEF RecordStep
<1>7. ~(Len(todo) = 1 /\ Len(todo) > 1)
  <2> DEFINE n == Len(todo)
  <2> HIDE DEF n
  <2>1. ~(n = 1 /\ n > 1)  OBVIOUS
  <2> QED  BY <2>1 DEF n
<1> QED  BY <1>1, <1>2, <1>3, <1>4, <1>5, <1>6, <1>7 DEF StepKinds

LEMMA CallStep ==
  ASSUME NEW a, AStep(a)
  PROVE  CallInv'
<1> SUFFICES ASSUME Busy'
             PROVE  /\ a \in 1..Len(log') /\ staged' = [tr \in Trees |-> a]
                    /\ ~Clear(a) => /\ Updating(todo', log'[a])
                                    /\ Len(todo') <= 1 => Last(tree'["index"]).applied = a
                    /\ Clear(a) => /\ Clearing(todo')
                                   /\ Len(todo') <= 4 => Recorded' = {}
                                   /\ Len(todo') <= 3 => tree'["index"] = <<Version(<<>>, a)>>
                                   /\ Len(todo') <= 2 => tree'["terms"] = <<Version(<<>>, a)>>
                                   /\ Len(todo') <= 1 => tree'["lengths"] = <<Version(<<>>, a)>>
  <2>1. staged'["index"] = a /\ (Clear(a))' = Clear(a)  BY StepFacts
  <2> QED  BY <2>1 DEF CallInv
<1> DEFINE n == Len(todo)
<1>1. /\ n \in Nat \ {0} /\ n > 1 /\ Len(todo') = n - 1 /\ log' = log
      /\ a \in 1..Len(log) /\ staged' = [tr \in Trees |-> a] /\ a \in Nat
      /\ TypeInv /\ CallInv /\ Busy /\ a = staged["index"] /\ GoesOn(a) /\ state = "open"  BY StepFacts
<1>2. /\ ~Clear(a) => Updating(todo', log[a])
      /\ Clear(a) => Clearing(todo')  BY <1>1 DEF GoesOn
<1>3. "index" \in Trees /\ "terms" \in Trees /\ "lengths" \in Trees  BY DEF Trees
<1>4. ASSUME ~Clear(a), Len(todo') <= 1 PROVE Last(tree'["index"]).applied = a
  <2>1. WriteStep(a)  BY <1>1, <1>4, Kinds
  <2>2. SumStep(a)
    <3>1. n = 2  BY <1>1, <1>4
    <3> QED  BY <3>1, <2>1 DEF WriteStep, PostStep, TermsStep, LengthsStep
  <2> DEFINE m == With(Map("index"), SumKey, todo[Len(todo) - 1].val)
  <2>3. VersionOK("index", Version(m, a)) /\ Adds("index", Version(m, a))
    BY <1>1, <2>2, StepTyped DEF SumStep
  <2> HIDE DEF m
  <2> QED  BY <2>3, <1>1, <1>3, AddsMap
<1>5. ASSUME Clear(a)
      PROVE  /\ Recorded' = {}
             /\ n - 1 <= 3 => tree'["index"] = <<Version(<<>>, a)>>
             /\ n - 1 <= 2 => tree'["terms"] = <<Version(<<>>, a)>>
             /\ n - 1 <= 1 => tree'["lengths"] = <<Version(<<>>, a)>>
  <2>1. TruncateStep(a) \/ ResetStep(a)  BY <1>1, <1>5, Kinds
  <2>2. Recorded' = {}  BY <2>1, Kinds
  <2>3. /\ n <= 3 => tree["index"] = <<Version(<<>>, a)>>
        /\ n <= 2 => tree["terms"] = <<Version(<<>>, a)>>
        /\ n <= 1 => tree["lengths"] = <<Version(<<>>, a)>>  BY <1>1, <1>5 DEF CallInv
  <2> DEFINE e == <<Version(<<>>, a)>>
  <2>a. \A tr \in Trees : Restarts(tr, Version(<<>>, a)) =>
          tree'[tr] = e /\ \A x \in Trees : x # tr => tree'[x] = tree[x]  BY <1>1, RestartsTyped
  <2>b. /\ n <= 3 => tree["index"] = e
        /\ n <= 2 => tree["terms"] = e  BY <2>3
  <2> HIDE DEF e
  <2>4. CASE TruncateStep(a)  BY <2>4, <2>2, <1>1 DEF TruncateStep
  <2>5. CASE n = 4 /\ Restarts("index", Version(<<>>, a))
    <3>1. tree'["index"] = e  BY <2>5, <2>a, <1>3
    <3> QED  BY <3>1, <2>2, <2>5 DEF e
  <2>6. CASE n = 3 /\ Restarts("terms", Version(<<>>, a))
    <3>1. tree'["terms"] = e /\ tree'["index"] = tree["index"]  BY <2>6, <2>a, <1>3
    <3> QED  BY <3>1, <2>b, <2>2, <2>6 DEF e
  <2>7. CASE n = 2 /\ Restarts("lengths", Version(<<>>, a))
    <3>1. tree'["lengths"] = e /\ tree'["index"] = tree["index"] /\ tree'["terms"] = tree["terms"]
      BY <2>7, <2>a, <1>3
    <3> QED  BY <3>1, <2>b, <2>2, <2>7 DEF e
  <2> QED  BY <2>1, <2>4, <2>5, <2>6, <2>7 DEF ResetStep
<1> HIDE DEF n
<1> QED  BY <1>1, <1>2, <1>4, <1>5

\* The record that ends a call is the newest one a recovery can go back to.
LEMMA RecordLast ==
  ASSUME NEW a, AStep(a), RecordStep(a)
  PROVE  /\ NextSlot \in Recorded' /\ NextSlot \in Usable' /\ NextSlot \in Slots
         /\ Newest(Recorded)' = NextSlot /\ Newest(Usable)' = NextSlot
         /\ slot'[NextSlot].lens = Lengths /\ Lengths = [tr \in Trees |-> Len(tree[tr])]
         /\ Recorded' = Recorded \cup {NextSlot}
         /\ \A s \in Recorded' : s # NextSlot => s \in Recorded /\ slot'[s] = slot[s]
         /\ \A s \in Recorded' : s # NextSlot => slot'[s].txn < slot'[NextSlot].txn
         /\ stale' = stale \ {NextSlot} /\ tree' = tree /\ safe' = safe
<1>1. CommitRecord /\ tree' = tree /\ safe' = safe /\ TypeInv /\ TypeInv' /\ state = "open"
  BY StepFacts DEF RecordStep
<1>2. Recorded' = RecordsOf(slot') /\ Usable' = UsableOf(tree', slot')
  BY DEF Recorded, RecordsOf, Usable, UsableOf, Satisfied, SatisfiedBy
<1> DEFINE k == NextSlot
           sl == slot'
           lens == Lengths
<1>3. /\ lens \in [Trees -> Nat \ {0}] /\ SlotsOK(sl)
      /\ RecordsOf(sl) = Recorded \cup {k} /\ k \in Slots /\ sl[k].lens = lens
      /\ \A s \in Slots : s # k => sl[s] = slot[s]
      /\ \A s \in RecordsOf(sl) : s # k => sl[s].txn < sl[k].txn
      /\ Latest(sl, RecordsOf(sl)) = k /\ stale' = stale \ {k}  BY <1>1, NewRecord
<1>4. lens = [tr \in Trees |-> Len(tree[tr])]  BY DEF Lengths
<1>5. Newest(Recorded)' = Latest(sl, RecordsOf(sl)) /\ Newest(Usable)' = Latest(sl, Usable')
  BY <1>2 DEF Newest, Latest
<1> HIDE DEF k, sl, lens
<1>6. k \in Usable'
  <2>1. SatisfiedBy(tree', sl[k])
    <3>1. \A tr \in Trees : sl[k].lens[tr] = Len(tree[tr]) /\ Len(tree[tr]) \in Nat
      BY <1>3, <1>4, <1>1, Types
    <3> QED  BY <3>1, <1>1 DEF SatisfiedBy
  <2> QED  BY <2>1, <1>2, <1>3 DEF UsableOf, sl
<1>7. Latest(sl, Usable') = k
  <2>1. Usable' \in SUBSET RecordsOf(sl)  BY <1>2 DEF UsableOf, sl
  <2>2. ASSUME NEW s \in Usable' PROVE sl[s].txn <= sl[k].txn
    <3>1. s \in RecordsOf(sl) /\ k \in RecordsOf(sl)  BY <2>1, <1>3
    <3>2. sl[s].txn \in Nat /\ sl[k].txn \in Nat  BY <3>1, <1>3, RecordIs
    <3> QED  BY <3>1, <3>2, <1>3
  <2> QED  BY <2>1, <2>2, <1>3, <1>6, LatestOnly
<1>8. \A s \in RecordsOf(sl) : s \in Slots  BY DEF RecordsOf
<1>9. /\ k \in Recorded' /\ Recorded' = Recorded \cup {k}
      /\ \A s \in Recorded' : s # k => s \in Recorded /\ sl[s] = slot[s]
      /\ \A s \in Recorded' : s # k => sl[s].txn < sl[k].txn  BY <1>2, <1>3, <1>8 DEF sl
<1>10. Newest(Recorded)' = k /\ Newest(Usable)' = k  BY <1>3, <1>5, <1>7
<1> QED  BY <1>1, <1>3, <1>4, <1>6, <1>9, <1>10 DEF k, sl, lens

\* Nothing that was recorded gets lost by a step.
LEMMA LossStep ==
  ASSUME NEW a, AStep(a), LossInv
  PROVE  LossInv'
<1>1. /\ TypeInv /\ TypeInv' /\ state' = "open" /\ state = "open" /\ lost' = lost /\ StepKinds(a)
  BY StepFacts, Kinds
<1> SUFFICES ASSUME ~lost
             PROVE  /\ stale' = {} /\ \A s \in Recorded' : SatisfiedBy(tree', slot'[s])
                    /\ \A tr \in Trees : tree'[tr] # <<>>
                    /\ \A r, s \in Recorded' : slot'[r].txn < slot'[s].txn =>
                         \A tr \in Trees : slot'[r].lens[tr] <= slot'[s].lens[tr]
  <2>1. \A s : Satisfied(s)' <=> SatisfiedBy(tree', slot'[s])  BY DEF Satisfied, SatisfiedBy
  <2> QED  BY <2>1, <1>1 DEF LossInv
<1>2. /\ stale = {} /\ \A s \in Recorded : SatisfiedBy(tree, slot[s])
      /\ \A r, s \in Recorded : slot[r].txn < slot[s].txn =>
           \A tr \in Trees : slot[r].lens[tr] <= slot[s].lens[tr]  BY SlotDefs DEF LossInv
<1>3. \A tr \in Trees : tree'[tr] # <<>>  BY <1>1 DEF TypeInv
<1>4. \A s \in Recorded : slot[s].lens \in [Trees -> Nat \ {0}] /\ s \in Slots
  BY <1>1, Types, SlotDefs, RecordIs
<1>5. CASE WriteStep(a)
  <2>1. Extends(a) /\ slot' = slot /\ stale' = stale  BY <1>5, Kinds
  <2>2. Recorded' = Recorded  BY <2>1 DEF Recorded
  <2>3. ASSUME NEW s \in Recorded PROVE SatisfiedBy(tree', slot[s])
    <3>1. ASSUME NEW tr \in Trees PROVE slot[s].lens[tr] <= Len(tree'[tr])
      <4>1. Len(tree'[tr]) \in Nat /\ Len(tree[tr]) <= Len(tree'[tr]) /\ Len(tree[tr]) \in Nat
        BY <1>1, <2>1, Types DEF Extends
      <4>2. slot[s].lens[tr] \in Nat /\ slot[s].lens[tr] <= Len(tree[tr])  BY <1>2, <1>4 DEF SatisfiedBy
      <4> QED  BY <4>1, <4>2
    <3> QED  BY <3>1 DEF SatisfiedBy
  <2> QED  BY <2>1, <2>2, <2>3, <1>2, <1>3
<1>6. CASE RecordStep(a)
  <2> DEFINE k == NextSlot
             lens == Lengths
  <2>1. /\ k \in Recorded' /\ slot'[k].lens = lens /\ lens = [tr \in Trees |-> Len(tree[tr])]
        /\ \A s \in Recorded' : s # k => s \in Recorded /\ slot'[s] = slot[s]
        /\ \A s \in Recorded' : s # k => slot'[s].txn < slot'[k].txn
        /\ stale' = stale \ {k} /\ tree' = tree  BY <1>6, RecordLast
  <2>2. \A tr \in Trees : Len(tree[tr]) \in Nat  BY <1>1, Types
  <2>3. ASSUME NEW s \in Recorded' PROVE slot'[s].txn \in Nat
    <3>1. Recorded' = RecordsOf(slot') /\ SlotsOK(slot')  BY <1>1, TypesNext
    <3> QED  BY <3>1, RecordIs
  <2> HIDE DEF k, lens
  <2>4. SatisfiedBy(tree', slot'[k])  BY <2>1, <2>2 DEF SatisfiedBy
  <2>5. \A s \in Recorded' : SatisfiedBy(tree', slot'[s])  BY <2>1, <2>4, <1>2
  <2>6. ASSUME NEW r \in Recorded', NEW s \in Recorded', slot'[r].txn < slot'[s].txn, NEW tr \in Trees
        PROVE  slot'[r].lens[tr] <= slot'[s].lens[tr]
    <3>1. CASE s = k
      <4>1. slot'[s].lens[tr] = Len(tree[tr])  BY <3>1, <2>1
      <4> QED  BY <4>1, <2>1, <2>5 DEF SatisfiedBy
    <3>2. CASE s # k
      <4>1. r # k  BY <3>2, <2>1, <2>3, <2>6
      <4> QED  BY <3>2, <4>1, <2>1, <2>6, <1>2
    <3> QED  BY <3>1, <3>2
  <2> QED  BY <2>1, <2>5, <2>6, <1>2, <1>3
<1>7. CASE TruncateStep(a) \/ ResetStep(a)
  <2>1. Recorded' = {} /\ stale' = {}  BY <1>7, Kinds
  <2> QED  BY <2>1, <1>3
<1> QED  BY <1>1, <1>5, <1>6, <1>7 DEF StepKinds

LEMMA HostStep ==
  ASSUME NEW a, AStep(a), HostInv
  PROVE  HostInv'
<1>1. /\ TypeInv /\ TypeInv' /\ CallInv /\ state' = "open" /\ state = "open" /\ log' = log
      /\ staged' = [tr \in Trees |-> a] /\ a \in 1..Len(log) /\ (Busy' <=> Len(todo) > 1)
      /\ Len(todo) \in Nat \ {0} /\ a \in Nat /\ Busy /\ a = staged["index"]  BY StepFacts
<1>2. \E tr \in Trees : staged'[tr] <= Len(log')
  <2>1. "index" \in Trees  BY DEF Trees
  <2>2. staged'["index"] <= Len(log')  BY <2>1, <1>1
  <2> QED  BY <2>1, <2>2
<1>3. ASSUME ~Busy' PROVE Back("index")'.applied <= Len(log')
  <2>0. RecordStep(a)
    <3>1. Len(todo) = 1
      <4> DEFINE n == Len(todo)
      <4>1. n \in Nat \ {0} /\ ~(n > 1)  BY <1>1, <1>3
      <4> HIDE DEF n
      <4>2. n = 1  BY <4>1
      <4> QED  BY <4>2 DEF n
    <3> QED  BY <3>1, Kinds
  <2> DEFINE k == NextSlot
             lens == Lengths
  <2>1. /\ k \in Recorded' /\ Newest(Usable)' = k /\ slot'[k].lens = lens
        /\ lens = [tr \in Trees |-> Len(tree[tr])] /\ tree' = tree  BY <2>0, RecordLast
  <2> HIDE DEF k, lens
  <2>2. Back("index")' = tree["index"][Len(tree["index"])]
    <3>1. Recorded' # {}  BY <2>1
    <3>2. Back("index")' = tree'["index"][slot'[k].lens["index"]]  BY <2>1, <3>1 DEF Back
    <3> QED  BY <3>2, <2>1 DEF Trees
  <2>3. Last(tree["index"]).applied = a
    <3>1. CASE ~Clear(a)  BY <3>1, <1>1, <2>0 DEF CallInv, RecordStep
    <3>2. CASE Clear(a)
      <4>1. tree["index"] = <<Version(<<>>, a)>>  BY <3>2, <1>1, <2>0 DEF CallInv, RecordStep
      <4> DEFINE v == Version(<<>>, a)
      <4>2. v.applied = a  BY DEF Version
      <4> HIDE DEF v
      <4>3. Last(<<v>>) = v  BY DEF Last
      <4> QED  BY <4>1, <4>2, <4>3 DEF v
    <3> QED  BY <3>1, <3>2
  <2>4. Last(tree["index"]) = tree["index"][Len(tree["index"])]  BY <1>1, OpenTypes DEF Trees
  <2> QED  BY <2>2, <2>3, <2>4, <1>1
<1> QED  BY <1>2, <1>3 DEF HostInv, Trees

----
(* What the records stand for after a step.                                *)

LEMMA GoodAll ==
  \A s : (Good(s) <=> GoodOf(tree, slot[s], log, base)) /\ Point(s) = PointOf(tree, slot[s])  BY GoodIs

LEMMA ShowsAll ==
  \A a, m, terms, lens : Shows(a, m, terms, lens) <=> ShowsOf(base, log, a, m, terms, lens)  BY ShowsIs

LEMMA ContentsAll == \A a : Contents(a) = DocsAfter(base, log, a)  BY ContentsIs

LEMMA RecordsIs ==
  TypeInv => (RecordsInv <=> (~exposed => RecordsFull(IF state = "open" THEN staged["index"] ELSE Len(log), Busy)))
<1> SUFFICES ASSUME TypeInv
             PROVE  RecordsInv <=> (~exposed => RecordsFull(IF state = "open" THEN staged["index"] ELSE Len(log), Busy))
  OBVIOUS
<1>1. \A tr \in Trees : DOMAIN tree[tr] = 1..Len(tree[tr])  BY Types, SeqFacts
<1>2. \A s : Good(s) <=> GoodOf(tree, slot[s], log, base)  BY GoodAll
<1> DEFINE m1 == tree["index"][1].map
           m2 == tree["terms"][1].map
           m3 == tree["lengths"][1].map
<1>3. Shows(0, m1, m2, m3) <=> ShowsOf(base, log, 0, m1, m2, m3)
  <2> HIDE DEF m1, m2, m3
  <2> QED  BY ShowsAll
<1> DEFINE a == IF state = "open" THEN staged["index"] ELSE Len(log)
<1>4. RecordsInv <=> (~exposed =>
        /\ \A tr \in Trees : \A i \in DOMAIN tree[tr] : tree[tr][i].applied <= a
        /\ (stale = {} /\ Recorded # {}) => Good(Newest(Recorded))
        /\ ~Busy /\ Usable # {} => Good(Newest(Usable))
        /\ ~lost => \A s \in Recorded : Good(s)
        /\ ~Busy /\ Recorded = {} =>
             /\ \A tr \in Trees : Len(tree[tr]) = 1 /\ tree[tr][1].applied = 0
             /\ Shows(0, m1, m2, m3))  BY DEF RecordsInv
<1> HIDE DEF a
<1>5. RecordsInv <=> (~exposed => RecordsFull(a, Busy))  BY <1>1, <1>2, <1>3, <1>4 DEF RecordsFull
<1> QED  BY <1>5 DEF a

\* A record that stays, with its versions and the operations before it.
LEMMA GoodKept ==
  ASSUME TypeInv, TypeInv', base' = base, NEW s, s \in Recorded, slot'[s] = slot[s],
         GoodOf(tree, slot[s], log, base), Agree(tree, tree', slot[s].lens),
         PointOf(tree, slot[s]) <= Len(log'),
         \A i \in 1..PointOf(tree, slot[s]) : log'[i] = log[i]
  PROVE  /\ GoodOf(tree', slot'[s], log', base') /\ PointOf(tree', slot'[s]) = PointOf(tree, slot[s])
         /\ PointOf(tree, slot[s]) \in Nat
<1> DEFINE r == slot[s]
<1>1. /\ TreesOK(tree) /\ SlotsOK(slot) /\ log \in Seq(Operations) /\ base \in DocMaps
      /\ s \in RecordsOf(slot)  BY Types, SlotDefs
<1>2. log' \in Seq(Operations)  BY DEF TypeInv
<1>3. r.lens \in [Trees -> Nat \ {0}]  BY <1>1, RecordIs
<1>5. SatisfiedBy(tree, r)  BY DEF GoodOf
<1> HIDE DEF r
<1>6. PointOf(tree, r) \in Nat  BY <1>1, <1>3, <1>5, PointIs
<1> DEFINE vs == tree
           ws == tree'
           k == log'
           l == log
           b == base
<1>8. /\ r.lens \in [Trees -> Nat \ {0}] /\ Agree(vs, ws, r.lens)
      /\ b \in DocMaps /\ l \in Seq(Operations) /\ k \in Seq(Operations)
      /\ PointOf(vs, r) \in Nat /\ PointOf(vs, r) <= Len(k) /\ \A i \in 1..PointOf(vs, r) : k[i] = l[i]
      /\ GoodOf(vs, r, l, b)  BY <1>1, <1>2, <1>3, <1>6 DEF r
<1> HIDE DEF vs, ws, k, l, b
<1>9. GoodOf(ws, r, k, b) /\ PointOf(ws, r) = PointOf(vs, r)  BY <1>8, GoodStays
<1> QED  BY <1>6, <1>9 DEF vs, ws, k, l, b, r

\* A record of the versions the trees end with.
LEMMA GoodNew ==
  ASSUME NEW vs, TreesOK(vs), NEW r, r.lens = [tr \in Trees |-> Len(vs[tr])],
         NEW a \in Nat, NEW l, NEW b, a <= Len(l),
         \A tr \in Trees : vs[tr] # <<>> /\ Last(vs[tr]).applied = a,
         \A tr \in Trees : \A i \in 1..Len(vs[tr]) : vs[tr][i].applied <= a,
         ShowsOf(b, l, a, Last(vs["index"]).map, Last(vs["terms"]).map, Last(vs["lengths"]).map)
  PROVE  GoodOf(vs, r, l, b) /\ PointOf(vs, r) = a
<1>1. \A tr \in Trees : /\ Len(vs[tr]) \in Nat /\ r.lens[tr] = Len(vs[tr])
                        /\ Last(vs[tr]) = vs[tr][r.lens[tr]]  BY SeqFacts DEF TreesOK
<1>2. "index" \in Trees /\ "terms" \in Trees /\ "lengths" \in Trees  BY DEF Trees
<1>3. PointOf(vs, r) = a  BY <1>1, <1>2 DEF PointOf
<1>4. SatisfiedBy(vs, r)  BY <1>1 DEF SatisfiedBy
<1>5. AppliedGood(vs, r)  BY <1>1, <1>3 DEF AppliedGood
<1>6. MapsGood(vs, r, l, b)
  <2>1. /\ Last(vs["index"]) = vs["index"][r.lens["index"]]
        /\ Last(vs["terms"]) = vs["terms"][r.lens["terms"]]
        /\ Last(vs["lengths"]) = vs["lengths"][r.lens["lengths"]]  BY <1>1, <1>2
  <2> QED  BY <2>1, <1>3 DEF MapsGood
<1> QED  BY <1>3, <1>4, <1>5, <1>6 DEF GoodOf

\* What the trees hold when the call is about to end.
LEMMA LastWrite ==
  ASSUME NEW a, AStep(a), RecordStep(a), RecordsInv, ShownInv, exposed => Clear(a)
  PROVE  /\ \A tr \in Trees : tree[tr] # <<>> /\ Last(tree[tr]).applied = a
         /\ \A tr \in Trees : \A i \in 1..Len(tree[tr]) : tree[tr][i].applied <= a
         /\ ShowsOf(base, log, a, Map("index"), Map("terms"), Map("lengths"))
<1>1. /\ TypeInv /\ CallInv /\ Busy /\ a \in 1..Len(log) /\ a = staged["index"] /\ a \in Nat /\ state = "open"
      /\ Len(todo) = 1 /\ log \in Seq(Operations) /\ base \in DocMaps  BY StepFacts, Types DEF RecordStep
<1>2. \A tr \in Trees : tree[tr] # <<>>  BY <1>1 DEF TypeInv
<1>3. ASSUME ~Clear(a)
      PROVE  /\ \A tr \in Trees : Last(tree[tr]).applied = a
             /\ \A tr \in Trees : \A i \in 1..Len(tree[tr]) : tree[tr][i].applied <= a
             /\ ShowsOf(base, log, a, Map("index"), Map("terms"), Map("lengths"))
  <2>1. ~exposed /\ HalfDone(todo, a)  BY <1>1, <1>3 DEF ShownInv
  <2>2. /\ Map("terms") = Contents(a) /\ Last(tree["terms"]).applied = a
        /\ Map("lengths") = LengthsOf(Contents(a)) /\ Last(tree["lengths"]).applied = a
        /\ Serves(Map("index"), Contents(a))  BY <2>1, <1>1 DEF HalfDone
  <2>3. Last(tree["index"]).applied = a  BY <1>1, <1>3 DEF CallInv
  <2>4. \A tr \in Trees : \A i \in DOMAIN tree[tr] : tree[tr][i].applied <= a  BY <2>1, <1>1 DEF RecordsInv
  <2>5. \A tr \in Trees : DOMAIN tree[tr] = 1..Len(tree[tr])  BY <1>1, Types, SeqFacts
  <2>6. ShowsOf(base, log, a, Map("index"), Map("terms"), Map("lengths"))  BY <2>2, ContentsAll DEF ShowsOf
  <2> QED  BY <2>2, <2>3, <2>4, <2>5, <2>6 DEF Trees
<1>4. ASSUME Clear(a)
      PROVE  /\ \A tr \in Trees : Last(tree[tr]).applied = a
             /\ \A tr \in Trees : \A i \in 1..Len(tree[tr]) : tree[tr][i].applied <= a
             /\ ShowsOf(base, log, a, Map("index"), Map("terms"), Map("lengths"))
  <2> DEFINE v == Version(<<>>, a)
             e == <<>>
  <2>1. v.applied = a /\ v.map = e  BY DEF Version
  <2>2. \A tr \in Trees : tree[tr] = <<v>>  BY <1>1, <1>4 DEF CallInv, Trees
  <2>3. DocsAfter(base, log, a) = e
    <3>1. DocsAfter(base, log, a) = Effect(DocsAfter(base, log, a - 1), log[a])  BY <1>1, DocsStep
    <3>2. \A docs : Effect(docs, log[a]) = e  BY <1>4 DEF Effect, Clear
    <3> QED  BY <3>1, <3>2
  <2>4. LengthsOf(e) = e  BY DEF LengthsOf
  <2>5. Serves(e, e)  BY NothingServes
  <2> HIDE DEF v, e
  <2>6. Last(<<v>>) = v /\ Len(<<v>>) = 1 /\ \A i \in 1..1 : <<v>>[i] = v  BY DEF Last
  <2>7. \A tr \in Trees : Last(tree[tr]).applied = a /\ \A i \in 1..Len(tree[tr]) : tree[tr][i].applied <= a
    BY <2>1, <2>2, <2>6, <1>1
  <2>8. Map("index") = e /\ Map("terms") = e /\ Map("lengths") = e  BY <2>1, <2>2, <2>6 DEF Map, Trees
  <2>9. ShowsOf(base, log, a, Map("index"), Map("terms"), Map("lengths"))
    BY <2>3, <2>4, <2>5, <2>8 DEF ShowsOf
  <2> QED  BY <2>7, <2>9
<1> QED  BY <1>2, <1>3, <1>4

LEMMA ExtendsAgrees ==
  ASSUME TypeInv, NEW a, Extends(a), NEW s \in Recorded, Satisfied(s)
  PROVE  Agree(tree, tree', slot[s].lens)
<1>1. slot[s].lens \in [Trees -> Nat \ {0}] /\ SatisfiedBy(tree, slot[s])  BY Types, SlotDefs, RecordIs
<1>2. ASSUME NEW tr \in Trees
      PROVE  slot[s].lens[tr] <= Len(tree'[tr]) /\ \A i \in 1..slot[s].lens[tr] : tree'[tr][i] = tree[tr][i]
  <2> DEFINE n == slot[s].lens[tr]
             k == Len(tree[tr])
             l == Len(tree'[tr])
  <2>1. n \in Nat /\ k \in Nat /\ l \in Nat /\ n <= k /\ k <= l /\ \A i \in 1..k : tree'[tr][i] = tree[tr][i]
    BY <1>1, Types DEF Extends, SatisfiedBy
  <2> HIDE DEF n, k, l
  <2>2. n <= l /\ \A i \in 1..n : i \in 1..k  BY <2>1
  <2> QED  BY <2>1, <2>2 DEF n, l
<1> QED  BY <1>2 DEF Agree

LEMMA SameAgrees ==
  ASSUME TypeInv, tree' = tree, NEW s \in Recorded, Satisfied(s)
  PROVE  Agree(tree, tree', slot[s].lens)
<1>1. SatisfiedBy(tree, slot[s])  BY SlotDefs
<1> QED  BY <1>1 DEF Agree, SatisfiedBy

LEMMA AppliedStep ==
  ASSUME NEW a, AStep(a), RecordsInv, ShownInv, ~exposed'
  PROVE  \A tr \in Trees : \A i \in 1..Len(tree'[tr]) : tree'[tr][i].applied <= a
<1>1. /\ TypeInv /\ a = staged["index"] /\ a \in Nat /\ state = "open" /\ GoesOn(a) /\ StepKinds(a)
      /\ \A tr \in Trees : DOMAIN tree[tr] = 1..Len(tree[tr]) /\ Len(tree[tr]) \in Nat
  BY StepFacts, Types, SeqFacts, Kinds
<1>2. exposed' = IF Len(todo) = 1 /\ Clear(a) THEN FALSE ELSE exposed  BY <1>1 DEF GoesOn
<1>3. ~exposed => \A tr \in Trees : \A i \in 1..Len(tree[tr]) : tree[tr][i].applied <= a
  BY <1>1 DEF RecordsInv
<1>4. CASE RecordStep(a)
  <2>1. exposed => Clear(a)  BY <1>2
  <2>2. \A tr \in Trees : \A i \in 1..Len(tree[tr]) : tree[tr][i].applied <= a  BY <1>4, <2>1, LastWrite
  <2>3. tree' = tree  BY <1>4, Kinds
  <2> QED  BY <2>2, <2>3
<1>5. CASE WriteStep(a)
  <2>1. Extends(a) /\ Len(todo) > 1 /\ ~Clear(a)  BY <1>5, Kinds
  <2>2. ~exposed  BY <2>1, <1>2
  <2>3. ASSUME NEW tr \in Trees, NEW i \in 1..Len(tree'[tr]) PROVE tree'[tr][i].applied <= a
    <3>1. /\ Len(tree[tr]) \in Nat /\ Len(tree'[tr]) \in Nat
          /\ \A j \in 1..Len(tree[tr]) : tree'[tr][j] = tree[tr][j]
          /\ \A j \in 1..Len(tree'[tr]) : j > Len(tree[tr]) => tree'[tr][j].applied = a
      BY <2>1, <1>1 DEF Extends
    <3>2. i \in 1..Len(tree[tr]) \/ i > Len(tree[tr])
      <4> DEFINE n == Len(tree[tr])
                 k == Len(tree'[tr])
      <4>1. n \in Nat /\ k \in Nat /\ i \in 1..k  BY <3>1
      <4> HIDE DEF n, k
      <4>2. i \in 1..n \/ i > n  BY <4>1
      <4> QED  BY <4>2 DEF n
    <3>3. CASE i \in 1..Len(tree[tr])  BY <3>1, <3>3, <2>2, <1>3
    <3>4. CASE i > Len(tree[tr])  BY <3>1, <3>4, <1>1
    <3> QED  BY <3>2, <3>3, <3>4
  <2> QED  BY <2>3
<1>6. CASE TruncateStep(a)
  <2>1. tree' = tree /\ Len(todo) = 5  BY <1>6 DEF TruncateStep
  <2> QED  BY <2>1, <1>2, <1>3
<1>7. CASE ResetStep(a)
  <2>1. PICK tr \in Trees : Restarts(tr, Version(<<>>, a)) /\ Len(todo) \in 2..4  BY <1>7 DEF ResetStep, Trees
  <2>2. /\ tree'[tr][1].applied = a /\ Len(tree'[tr]) = 1 /\ \A x \in Trees : x # tr => tree'[x] = tree[x]
    BY <2>1, <1>1, RestartsTyped
  <2>3. ~exposed  BY <2>1, <1>2
  <2>4. ASSUME NEW x \in Trees, NEW i \in 1..Len(tree'[x]) PROVE tree'[x][i].applied <= a
    <3>1. CASE x = tr
      <4>1. i = 1  BY <3>1, <2>2
      <4> QED  BY <4>1, <3>1, <2>2, <1>1
    <3>2. CASE x # tr  BY <3>2, <2>2, <2>3, <1>3
    <3> QED  BY <3>1, <3>2
  <2> QED  BY <2>4
<1> QED  BY <1>1, <1>4, <1>5, <1>6, <1>7 DEF StepKinds

LEMMA RecordsStep ==
  ASSUME NEW a, AStep(a), LossInv, RecordsInv, ShownInv
  PROVE  RecordsInv'
<1>1. /\ TypeInv /\ TypeInv' /\ CallInv /\ state' = "open" /\ state = "open" /\ lost' = lost
      /\ a = staged["index"] /\ a \in Nat /\ a \in 1..Len(log) /\ GoesOn(a) /\ Busy
      /\ log' = log /\ base' = base /\ staged'["index"] = a /\ (Busy' <=> Len(todo) > 1)
      /\ StepKinds(a)  BY StepFacts, Kinds
<1>2. exposed' = IF Len(todo) = 1 /\ Clear(a) THEN FALSE ELSE exposed  BY <1>1 DEF GoesOn
<1>0. ~exposed => RecordsFull(a, TRUE)
  <2>1. ~exposed => RecordsFull(IF state = "open" THEN staged["index"] ELSE Len(log), Busy)
    BY <1>1, RecordsIs
  <2> QED  BY <2>1, <1>1
<1> SUFFICES ASSUME ~exposed'
             PROVE  /\ (stale' = {} /\ Recorded' # {}) => GoodOf(tree', slot'[Newest(Recorded)'], log', base')
                    /\ ~Busy' /\ Usable' # {} => GoodOf(tree', slot'[Newest(Usable)'], log', base')
                    /\ ~lost => \A s \in Recorded' : GoodOf(tree', slot'[s], log', base')
                    /\ ~Busy' => Recorded' # {}
  <2>1. ~exposed' => \A tr \in Trees : \A i \in 1..Len(tree'[tr]) : tree'[tr][i].applied <= a  BY AppliedStep
  <2>2. (TypeInv => (RecordsInv <=> (~exposed => RecordsFull(IF state = "open" THEN staged["index"] ELSE Len(log), Busy))))'
    BY RecordsIs, PTL
  <2>3. ~exposed' => (/\ \A tr \in Trees : \A i \in 1..Len(tree[tr]) : tree[tr][i].applied <= IF state = "open" THEN staged["index"] ELSE Len(log)
                      /\ (stale = {} /\ Recorded # {}) => GoodOf(tree, slot[Newest(Recorded)], log, base)
                      /\ ~Busy /\ Usable # {} => GoodOf(tree, slot[Newest(Usable)], log, base)
                      /\ ~lost => \A s \in Recorded : GoodOf(tree, slot[s], log, base)
                      /\ ~(~Busy /\ Recorded = {}))'  BY <2>1, <1>1
  <2>4. ~exposed' => RecordsFull(IF state = "open" THEN staged["index"] ELSE Len(log), Busy)'
    BY <2>3 DEF RecordsFull
  <2> QED  BY <2>2, <2>4, <1>1
<1>4. ASSUME NEW s, s \in Recorded, slot'[s] = slot[s], GoodOf(tree, slot[s], log, base), WriteStep(a) \/ RecordStep(a)
      PROVE  GoodOf(tree', slot'[s], log', base')
  <2>1. Satisfied(s) /\ PointOf(tree, slot[s]) <= Len(log)  BY <1>4, SlotDefs DEF GoodOf
  <2>2. Agree(tree, tree', slot[s].lens)
    <3>1. WriteStep(a) => Extends(a)  BY Kinds
    <3>2. RecordStep(a) => tree' = tree  BY Kinds
    <3> QED  BY <3>1, <3>2, <2>1, <1>1, <1>4, ExtendsAgrees, SameAgrees
  <2>3. PointOf(tree, slot[s]) <= Len(log') /\ \A i \in 1..PointOf(tree, slot[s]) : log'[i] = log[i]
    BY <2>1, <1>1
  <2> QED  BY <2>2, <2>3, <1>1, <1>4, GoodKept
<1>5. ASSUME WriteStep(a)
      PROVE  /\ (stale' = {} /\ Recorded' # {}) => GoodOf(tree', slot'[Newest(Recorded)'], log', base')
             /\ Busy' /\ (~lost => \A s \in Recorded' : GoodOf(tree', slot'[s], log', base'))
  <2>1. Extends(a) /\ ~Clear(a) /\ Len(todo) > 1 /\ slot' = slot /\ stale' = stale  BY <1>5, Kinds
  <2>2. ~exposed  BY <2>1, <1>2
  <2>3. Recorded' = Recorded /\ Newest(Recorded)' = Newest(Recorded)  BY <2>1 DEF Recorded, Newest
  <2>4. /\ (stale = {} /\ Recorded # {}) => GoodOf(tree, slot[Newest(Recorded)], log, base)
        /\ ~lost => \A s \in Recorded : GoodOf(tree, slot[s], log, base)  BY <2>2, <1>0 DEF RecordsFull
  <2>5. Recorded # {} => Newest(Recorded) \in Recorded  BY <1>1, Types, SlotDefs, LatestIs
  <2> DEFINE N == Newest(Recorded)
  <2>6. ASSUME stale = {}, Recorded # {} PROVE GoodOf(tree', slot'[N], log', base')
    <3> HIDE DEF N
    <3>1. N \in Recorded /\ GoodOf(tree, slot[N], log, base) /\ slot'[N] = slot[N]
      BY <2>1, <2>4, <2>5, <2>6 DEF N
    <3> QED  BY <3>1, <1>4, <1>5
  <2>7. ~lost => \A s \in Recorded' : GoodOf(tree', slot'[s], log', base')  BY <2>1, <2>3, <2>4, <1>4, <1>5
  <2> QED  BY <2>1, <2>3, <2>4, <2>6, <2>7, <1>1
<1>6. ASSUME RecordStep(a)
      PROVE  /\ GoodOf(tree', slot'[Newest(Recorded)'], log', base')
             /\ GoodOf(tree', slot'[Newest(Usable)'], log', base')
             /\ ~lost => \A s \in Recorded' : GoodOf(tree', slot'[s], log', base')
             /\ Recorded' # {}
  <2> DEFINE k == NextSlot
             lens == Lengths
  <2>1. /\ k \in Recorded' /\ Newest(Recorded)' = k /\ Newest(Usable)' = k
        /\ slot'[k].lens = lens /\ lens = [tr \in Trees |-> Len(tree[tr])]
        /\ \A s \in Recorded' : s # k => s \in Recorded /\ slot'[s] = slot[s]
        /\ stale' = stale \ {k} /\ tree' = tree  BY <1>6, RecordLast
  <2>2. exposed => Clear(a)  BY <1>2
  <2>3. /\ \A tr \in Trees : tree[tr] # <<>> /\ Last(tree[tr]).applied = a
        /\ \A tr \in Trees : \A i \in 1..Len(tree[tr]) : tree[tr][i].applied <= a
        /\ ShowsOf(base, log, a, Map("index"), Map("terms"), Map("lengths"))  BY <1>6, <2>2, LastWrite
  <2>4. exposed => Recorded = {}
    <3>1. Len(todo) = 1  BY <1>6, Kinds
    <3> QED  BY <3>1, <2>2, <1>1 DEF CallInv
  <2> DEFINE r == slot'[k]
             vs == tree
             l == log
             b == base
  <2>5. /\ TreesOK(vs) /\ r.lens = [tr \in Trees |-> Len(vs[tr])] /\ a <= Len(l)
        /\ \A tr \in Trees : vs[tr] # <<>> /\ Last(vs[tr]).applied = a
        /\ \A tr \in Trees : \A i \in 1..Len(vs[tr]) : vs[tr][i].applied <= a
        /\ ShowsOf(b, l, a, Last(vs["index"]).map, Last(vs["terms"]).map, Last(vs["lengths"]).map)
    BY <2>1, <2>3, <1>1, Types DEF Map
  <2> HIDE DEF r, vs, l, b
  <2>6. GoodOf(vs, r, l, b)  BY <2>5, <1>1, GoodNew
  <2>7. GoodOf(tree', slot'[k], log', base')  BY <2>6, <2>1, <1>1 DEF vs, r, l, b
  <2> HIDE DEF k
  <2>9. ASSUME ~lost, NEW s \in Recorded', s # k PROVE GoodOf(tree', slot'[s], log', base')
    <3>1. s \in Recorded /\ slot'[s] = slot[s]  BY <2>1, <2>9
    <3>2. GoodOf(tree, slot[s], log, base)  BY <3>1, <2>4, <2>9, <1>0 DEF RecordsFull
    <3> QED  BY <3>1, <3>2, <1>4, <1>6
  <2> QED  BY <2>1, <2>7, <2>9
<1>7. ASSUME TruncateStep(a) \/ ResetStep(a) PROVE Recorded' = {} /\ Busy'  BY <1>7, <1>1, Kinds
<1> QED  BY <1>1, <1>5, <1>6, <1>7 DEF StepKinds

\* a good record stays one

----
(* A call that is half done.                                               *)

\* The postings after the writes that are left are the same after one of them.
LEMMA PostsLeft ==
  ASSUME NEW m, IndexMap(m), NEW ps, IsSeq(ps), ps # <<>>, \A i \in 1..Len(ps) : IndexWrite(ps[i])
  PROVE  AfterAll(m, ps) = AfterAll(After(m, Head(ps)), Tail(ps))
<1> DEFINE V == {m[k] : k \in DOMAIN m} \cup {ps[i].val : i \in 1..Len(ps)}
<1>1. IsFcn(m) /\ DOMAIN m \subseteq Keys  BY DEF IndexMap
<1>2. m \in MapsOf(Keys, V)
  <2>1. \A k \in DOMAIN m : m[k] \in V  OBVIOUS
  <2> HIDE DEF V
  <2> QED  BY <2>1, <1>1, MapsAre
<1>3. \A i \in 1..Len(ps) : ps[i] \in WritesOf(Keys, V)
  <2>1. ASSUME NEW i \in 1..Len(ps) PROVE ps[i] \in WritesOf(Keys, V)
    <3>1. ps[i].val \in V /\ IndexWrite(ps[i])  OBVIOUS
    <3> HIDE DEF V
    <3> QED  BY <3>1 DEF IndexWrite, WritesOf, Trees
  <2> QED  BY <2>1
<1>4. ps \in Seq(WritesOf(Keys, V))
  <2>1. ps \in Seq(ToSet(ps))  BY DEF IsSeq
  <2>2. ps = [i \in 1..Len(ps) |-> ps[i]] /\ Len(ps) \in Nat  BY <2>1
  <2> HIDE DEF V
  <2> QED  BY <2>2, <1>3
<1> HIDE DEF V
<1> QED  BY <1>2, <1>4, AfterHead

LEMMA NothingLeft ==
  ASSUME NEW m, IndexMap(m)
  PROVE  AfterAll(m, <<>>) = m
<1>1. IsFcn(m) /\ DOMAIN m \subseteq Keys  BY DEF IndexMap
<1> DEFINE V == {m[k] : k \in DOMAIN m}
<1>2. \A k \in DOMAIN m : m[k] \in V  OBVIOUS
<1> HIDE DEF V
<1>3. m \in MapsOf(Keys, V)  BY <1>1, <1>2, MapsAre
<1> QED  BY <1>3, AfterNone

LEMMA HalfIs ==
  \A ws, a : HalfDone(ws, a) <=> HalfNow(ws, a)
<1>1. ASSUME NEW ws, NEW a PROVE HalfDone(ws, a) <=> HalfNow(ws, a)
  <2>1. Contents(a) = DocsAfter(base, log, a) /\ Contents(a - 1) = DocsAfter(base, log, a - 1)  BY ContentsAll
  <2> QED  BY <2>1 DEF HalfDone, HalfNow, HalfOf
<1> QED  BY <1>1

LEMMA ShownIs ==
  ShownInv <=> (state = "open" /\ ~exposed =>
                  ShownFull(staged["index"], Busy, Clear(staged["index"])))
<1> DEFINE a == staged["index"]
           m1 == Map("index")
           m2 == Map("terms")
           m3 == Map("lengths")
           c == Clear(a)
<1>1. Shows(a, m1, m2, m3) <=> ShowsOf(base, log, a, m1, m2, m3)
  <2> HIDE DEF a, m1, m2, m3
  <2> QED  BY ShowsAll
<1>2. HalfDone(todo, a) <=> HalfNow(todo, a)
  <2> HIDE DEF a
  <2> QED  BY HalfIs
<1>3. ShownInv <=> (state = "open" /\ ~exposed =>
         /\ staged = [tr \in Trees |-> a] /\ a <= Len(log)
         /\ ~Busy => Shows(a, m1, m2, m3)
         /\ Busy /\ ~c => HalfDone(todo, a))  BY DEF ShownInv
<1>4. ShownFull(a, Busy, c) <=>
         /\ staged = [tr \in Trees |-> a] /\ a <= Len(log)
         /\ ~Busy => ShowsOf(base, log, a, m1, m2, m3)
         /\ Busy /\ ~c => HalfNow(todo, a)  BY DEF ShownFull
<1> HIDE DEF a, m1, m2, m3, c
<1>5. ShownInv <=> (state = "open" /\ ~exposed => ShownFull(a, Busy, c))  BY <1>1, <1>2, <1>3, <1>4
<1> QED  BY <1>5 DEF a, c

LEMMA HalfPost ==
  ASSUME NEW ws, IsSeq(ws), NEW t, TailOf(t, ws), t = Tail(ws), Len(ws) > 4, NEW o, Updating(ws, o),
         NEW m, IndexMap(m), NEW terms, NEW lens, NEW ta, NEW la, NEW old, NEW new, NEW a,
         HalfOf(ws, m, terms, lens, ta, la, old, new, o, a)
  PROVE  HalfOf(t, After(m, Head(ws)), terms, lens, ta, la, old, new, o, a)
<1> DEFINE n == Len(ws)
           p == SubSeq(ws, 1, n - 4)
           q == SubSeq(t, 1, Len(t) - 4)
<1>1. n \in Nat \ {0} /\ n > 4 /\ Len(t) = n - 1  BY DEF TailOf
<1>2. ws # <<>>  BY <1>1, SeqFacts
<1>3. p # <<>> /\ Head(p) = Head(ws) /\ Tail(p) = q  BY <1>1, <1>2, PostsStep
<1>4. IsSeq(p) /\ Len(p) = n - 4 /\ \A i \in 1..(n - 4) : p[i] = ws[i]
  <2>1. n - 4 \in 0..Len(ws)  BY <1>1
  <2>2. CutTo(p, ws, n - 4)  BY <2>1, Cut
  <2> QED  BY <2>2 DEF CutTo
<1>5. \A i \in 1..(n - 4) : IndexWrite(ws[i])  BY DEF Updating
<1>6. t[Len(t) - 1].val = ws[n - 1].val  BY <1>1, UpdatingStep
<1> HIDE DEF n, p, q
<1>7. AfterAll(m, p) = AfterAll(After(m, Head(ws)), q)
  <2>1. \A i \in 1..Len(p) : IndexWrite(p[i])  BY <1>4, <1>5
  <2> QED  BY <2>1, <1>3, <1>4, PostsLeft
<1>8. /\ terms = old /\ lens = LengthsOf(old) /\ (o.op = "remove" => o.doc \in DOMAIN lens)
      /\ PostingsOK(AfterAll(m, p), new) /\ ws[n - 1].val = SumFunction(LengthsOf(new))
  BY <1>1 DEF HalfOf, n, p
<1> DEFINE k == Len(t)
<1>9. k > 3 /\ ~(k <= 3) /\ k > 2 /\ ~(k <= 2) /\ k > 1 /\ ~(k <= 1)  BY <1>1
<1>10. PostingsOK(AfterAll(After(m, Head(ws)), q), new) /\ t[k - 1].val = SumFunction(LengthsOf(new))
  BY <1>6, <1>7, <1>8
<1> QED  BY <1>8, <1>9, <1>10 DEF HalfOf, q

\* The last writes of an add or a remove.
LEMMA HalfLater ==
  ASSUME NEW ws, IsSeq(ws), NEW t, TailOf(t, ws), Len(ws) \in 2..4, NEW o, Updating(ws, o),
         NEW m, IndexMap(m), NEW terms, NEW lens, NEW ta, NEW la, NEW old, NEW new, NEW a,
         HalfOf(ws, m, terms, lens, ta, la, old, new, o, a), NEW v, v = ws[Len(ws) - 1].val
  PROVE  /\ Len(ws) = 4 => HalfOf(t, m, new, lens, a, la, old, new, o, a)
         /\ Len(ws) = 3 => HalfOf(t, m, terms, LengthsOf(new), ta, a, old, new, o, a)
         /\ Len(ws) = 2 => HalfOf(t, With(m, SumKey, v), terms, lens, ta, la, old, new, o, a)
<1> DEFINE n == Len(ws)
           k == Len(t)
<1>1. IsSeq(t) /\ k = n - 1 /\ n \in 2..4  BY DEF TailOf
<1>2. ws # <<>> /\ t # <<>>  BY <1>1, SeqFacts
<1>3. SubSeq(ws, 1, n - 4) = <<>> /\ SubSeq(t, 1, k - 4) = <<>>
  <2>1. n <= 4 /\ k <= 4
    <3> HIDE DEF n, k
    <3> QED  BY <1>1
  <2>2. SubSeq(ws, 1, n - 4) = <<>>  BY <2>1, <1>2, PostsStep
  <2>3. SubSeq(t, 1, k - 4) = <<>>  BY <2>1, <1>1, <1>2, PostsStep
  <2> QED  BY <2>2, <2>3
<1>4. AfterAll(m, <<>>) = m  BY NothingLeft
<1>5. PostingsOK(m, new) /\ ws[n - 1].val = SumFunction(LengthsOf(new))
  <2>1. n > 1  BY <1>1
  <2>2. PostingsOK(AfterAll(m, SubSeq(ws, 1, n - 4)), new) /\ ws[n - 1].val = SumFunction(LengthsOf(new))
    BY <2>1 DEF HalfOf
  <2> HIDE DEF n
  <2> QED  BY <2>2, <1>3, <1>4
<1>6. n > 2 => t[k - 1].val = ws[n - 1].val  BY UpdatingStep
<1>7. ASSUME n = 4 PROVE HalfOf(t, m, new, lens, a, la, old, new, o, a)
  <2>1. lens = LengthsOf(old) /\ (o.op = "remove" => o.doc \in DOMAIN lens)  BY <1>7 DEF HalfOf
  <2>a. k = 3 /\ t[k - 1].val = SumFunction(LengthsOf(new))  BY <1>1, <1>5, <1>6, <1>7
  <2>b. PostingsOK(AfterAll(m, SubSeq(t, 1, k - 4)), new)
    <3> HIDE DEF k
    <3> QED  BY <1>3, <1>4, <1>5
  <2>2. k = 3 /\ t[k - 1].val = SumFunction(LengthsOf(new)) /\ PostingsOK(AfterAll(m, SubSeq(t, 1, k - 4)), new)
    BY <2>a, <2>b
  <2> QED  BY <2>1, <2>2 DEF HalfOf
<1>8. ASSUME n = 3 PROVE HalfOf(t, m, terms, LengthsOf(new), ta, a, old, new, o, a)
  <2>1. terms = new /\ ta = a  BY <1>8 DEF HalfOf
  <2>a. k = 2 /\ t[k - 1].val = SumFunction(LengthsOf(new))  BY <1>1, <1>5, <1>6, <1>8
  <2>b. PostingsOK(AfterAll(m, SubSeq(t, 1, k - 4)), new)
    <3> HIDE DEF k
    <3> QED  BY <1>3, <1>4, <1>5
  <2>2. k = 2 /\ t[k - 1].val = SumFunction(LengthsOf(new)) /\ PostingsOK(AfterAll(m, SubSeq(t, 1, k - 4)), new)
    BY <2>a, <2>b
  <2> QED  BY <2>1, <2>2 DEF HalfOf
<1>9. ASSUME n = 2 PROVE HalfOf(t, With(m, SumKey, v), terms, lens, ta, la, old, new, o, a)
  <2>1. terms = new /\ ta = a /\ lens = LengthsOf(new) /\ la = a  BY <1>9 DEF HalfOf
  <2>2. Serves(With(m, SumKey, v), new)  BY <1>5, SumServes
  <2>3. k = 1  BY <1>1, <1>9
  <2> QED  BY <2>1, <2>2, <2>3 DEF HalfOf
<1> QED  BY <1>7, <1>8, <1>9

LEMMA HalfStep ==
  ASSUME NEW a, AStep(a), WriteStep(a), ShownInv, ~exposed
  PROVE  HalfNow(todo, a)'
<1> DEFINE m == Map("index")
           terms == Map("terms")
           lens == Map("lengths")
           ta == Last(tree["terms"]).applied
           la == Last(tree["lengths"]).applied
           old == DocsAfter(base, log, a - 1)
           new == DocsAfter(base, log, a)
           o == log[a]
<1>1. /\ TypeInv /\ state = "open" /\ Busy /\ a = staged["index"] /\ a \in Nat /\ a \in 1..Len(log)
      /\ base' = base /\ log' = log /\ ~Clear(a) /\ Len(todo) > 1 /\ GoesOn(a) /\ o \in Operations
      /\ IndexMap(m) /\ log \in Seq(Operations) /\ base \in DocMaps
  BY StepFacts, Kinds, OpenTypes, Types DEF GoesOn
<1>2. HalfOf(todo, m, terms, lens, ta, la, old, new, o, a)
  <2>1. ShownFull(staged["index"], Busy, Clear(staged["index"]))  BY <1>1, ShownIs
  <2>2. HalfNow(todo, a)  BY <2>1, <1>1 DEF ShownFull
  <2> QED  BY <2>2 DEF HalfNow
<1>3. HalfNow(todo, a)' <=>
        HalfOf(todo', Map("index")', Map("terms")', Map("lengths")',
               Last(tree'["terms"]).applied, Last(tree'["lengths"]).applied, old, new, o, a)
  BY <1>1 DEF HalfNow
<1>4. new = Effect(old, o)  BY <1>1, DocsStep
<1>5. "index" \in Trees /\ "terms" \in Trees /\ "lengths" \in Trees
      /\ "index" # "terms" /\ "index" # "lengths" /\ "terms" # "lengths"  BY DEF Trees
<1>6. IsSeq(todo) /\ TailOf(todo', todo) /\ todo' = Tail(todo) /\ Updating(todo, o)  BY <1>1, Types DEF GoesOn
<1>a. o.op \in {"add", "remove"}  BY <1>1, OperationIs DEF Clear
<1>b. ASSUME Stays PROVE \A tr \in Trees : Map(tr)' = Map(tr) /\ tree'[tr] = tree[tr]  BY <1>b DEF Stays, Map
<1> HIDE DEF m, terms, lens, ta, la, old, new, o
<1>7. CASE PostStep(a)
  <2>1. Len(todo) > 4  BY <1>7 DEF PostStep
  <2> DEFINE k == After(m, Head(todo))
  <2>2. HalfOf(todo', k, terms, lens, ta, la, old, new, o, a)  BY <2>1, <1>1, <1>2, <1>6, HalfPost
  <2>3. VersionOK("index", Version(k, a)) /\ (Adds("index", Version(k, a)) \/ (Stays /\ k = m))
    BY <1>1, <1>7, StepTyped DEF PostStep, m
  <2> HIDE DEF k
  <2>4. Map("index")' = k /\ \A x \in Trees : x # "index" => Map(x)' = Map(x) /\ tree'[x] = tree[x]
    BY <2>3, <1>1, <1>5, <1>b, AddsMap DEF m
  <2>5. Map("terms")' = terms /\ Map("lengths")' = lens /\ tree'["terms"] = tree["terms"] /\ tree'["lengths"] = tree["lengths"]
    BY <2>4, <1>5 DEF terms, lens
  <2> QED  BY <2>2, <2>4, <2>5, <1>3 DEF ta, la
<1>8. CASE TermsStep(a)
  <2>1. Len(todo) = 4  BY <1>8 DEF TermsStep
  <2>2. HalfOf(todo', m, new, lens, a, la, old, new, o, a)  BY <2>1, <1>1, <1>2, <1>6, HalfLater
  <2>3. terms = old /\ lens = LengthsOf(old) /\ (o.op = "remove" => o.doc \in DOMAIN lens)
    BY <2>1, <1>2 DEF HalfOf
  <2>4. DOMAIN lens = DOMAIN old  BY <2>3, LensOf
  <2>5. VersionOK("terms", Version(new, a)) /\ Adds("terms", Version(new, a))
    <3>1. VersionOK("terms", Version(Effect(terms, o), a))  BY <1>1, <1>8, StepTyped DEF terms, o
    <3>2. \/ Adds("terms", Version(Effect(terms, o), a))
          \/ o.op = "remove" /\ o.doc \notin DOMAIN terms  BY <1>8 DEF TermsStep, terms, o
    <3> QED  BY <3>1, <3>2, <2>3, <2>4, <1>4
  <2>6. /\ Map("terms")' = new /\ Last(tree'["terms"]).applied = a
        /\ \A x \in Trees : x # "terms" => Map(x)' = Map(x) /\ tree'[x] = tree[x]
    BY <2>5, <1>1, <1>5, AddsMap
  <2>7. Map("index")' = m /\ Map("lengths")' = lens /\ tree'["lengths"] = tree["lengths"]
    BY <2>6, <1>5 DEF m, lens
  <2> QED  BY <2>2, <2>6, <2>7, <1>3 DEF la
<1>9. CASE LengthsStep(a)
  <2>1. Len(todo) = 3  BY <1>9 DEF LengthsStep
  <2>2. HalfOf(todo', m, terms, LengthsOf(new), ta, a, old, new, o, a)  BY <2>1, <1>1, <1>2, <1>6, HalfLater
  <2>3. lens = LengthsOf(old) /\ (o.op = "remove" => o.doc \in DOMAIN lens)  BY <2>1, <1>2 DEF HalfOf
  <2>4. NewLens(lens, o) = LengthsOf(new)  BY <2>3, <1>4, <1>a, NewLensIs
  <2>5. VersionOK("lengths", Version(LengthsOf(new), a)) /\ Adds("lengths", Version(LengthsOf(new), a))
    <3>1. VersionOK("lengths", Version(NewLens(lens, o), a))  BY <1>1, <1>9, StepTyped DEF lens, o
    <3>2. \/ Adds("lengths", Version(NewLens(lens, o), a))
          \/ o.op = "remove" /\ o.doc \notin DOMAIN lens  BY <1>9 DEF LengthsStep, lens, o
    <3> QED  BY <3>1, <3>2, <2>3, <2>4
  <2>6. /\ Map("lengths")' = LengthsOf(new) /\ Last(tree'["lengths"]).applied = a
        /\ \A x \in Trees : x # "lengths" => Map(x)' = Map(x) /\ tree'[x] = tree[x]
    BY <2>5, <1>1, <1>5, AddsMap
  <2>7. Map("index")' = m /\ Map("terms")' = terms /\ tree'["terms"] = tree["terms"]
    BY <2>6, <1>5 DEF m, terms
  <2> QED  BY <2>2, <2>6, <2>7, <1>3 DEF ta
<1>10. CASE SumStep(a)
  <2>1. Len(todo) = 2  BY <1>10 DEF SumStep
  <2> DEFINE v == todo[Len(todo) - 1].val
             k == With(m, SumKey, v)
  <2>2. HalfOf(todo', k, terms, lens, ta, la, old, new, o, a)
    <3> HIDE DEF v
    <3>1. v = todo[Len(todo) - 1].val  BY DEF v
    <3> DEFINE t == todo'
               ws == todo
    <3>2. /\ IsSeq(ws) /\ TailOf(t, ws) /\ Len(ws) \in 2..4 /\ Updating(ws, o) /\ IndexMap(m) /\ Len(ws) = 2
          /\ HalfOf(ws, m, terms, lens, ta, la, old, new, o, a) /\ v = ws[Len(ws) - 1].val
      BY <2>1, <3>1, <1>1, <1>2, <1>6
    <3> HIDE DEF t, ws
    <3>3. HalfOf(t, With(m, SumKey, v), terms, lens, ta, la, old, new, o, a)  BY <3>2, HalfLater
    <3>4. HalfOf(todo', With(m, SumKey, v), terms, lens, ta, la, old, new, o, a)  BY <3>3 DEF t
    <3> QED  BY <3>4
  <2>3. VersionOK("index", Version(k, a)) /\ Adds("index", Version(k, a))
    BY <1>1, <1>10, StepTyped DEF SumStep, m
  <2> HIDE DEF k
  <2>4. Map("index")' = k /\ \A x \in Trees : x # "index" => Map(x)' = Map(x) /\ tree'[x] = tree[x]
    BY <2>3, <1>1, <1>5, AddsMap
  <2>5. Map("terms")' = terms /\ Map("lengths")' = lens /\ tree'["terms"] = tree["terms"] /\ tree'["lengths"] = tree["lengths"]
    BY <2>4, <1>5 DEF terms, lens
  <2> QED  BY <2>2, <2>4, <2>5, <1>3 DEF ta, la
<1> QED  BY <1>7, <1>8, <1>9, <1>10 DEF WriteStep

LEMMA ShownStep ==
  ASSUME NEW a, AStep(a), RecordsInv, ShownInv
  PROVE  ShownInv'
<1>1. /\ TypeInv /\ state' = "open" /\ a = staged["index"] /\ a \in 1..Len(log) /\ GoesOn(a)
      /\ log' = log /\ base' = base /\ staged'["index"] = a /\ (Busy' <=> Len(todo) > 1)
      /\ staged' = [tr \in Trees |-> a] /\ (Clear(a))' = Clear(a) /\ StepKinds(a) /\ a \in Nat
  BY StepFacts, Kinds
<1>2. exposed' = IF Len(todo) = 1 /\ Clear(a) THEN FALSE ELSE exposed  BY <1>1 DEF GoesOn
<1>3. ASSUME ~exposed', ~Busy'
      PROVE  ShowsOf(base', log', a, Map("index")', Map("terms")', Map("lengths")')
  <2>1. RecordStep(a)
    <3>1. ~(WriteStep(a) \/ TruncateStep(a) \/ ResetStep(a))  BY <1>1, <1>3, Kinds
    <3> QED  BY <3>1, <1>1 DEF StepKinds
  <2>2. exposed => Clear(a)  BY <1>2, <1>3
  <2>3. ShowsOf(base, log, a, Map("index"), Map("terms"), Map("lengths")) /\ tree' = tree
    BY <2>1, <2>2, LastWrite, Kinds
  <2>4. Map("index")' = Map("index") /\ Map("terms")' = Map("terms") /\ Map("lengths")' = Map("lengths")
    BY <2>3 DEF Map
  <2> QED  BY <2>3, <2>4, <1>1
<1>4. ASSUME ~exposed', Busy', ~Clear(a)
      PROVE  HalfNow(todo, a)'
  <2>1. WriteStep(a)  BY <1>1, <1>4, Kinds
  <2>2. ~exposed  BY <1>2, <1>4
  <2> QED  BY <2>1, <2>2, HalfStep
<1>5. ~exposed' => ShownFull(a, Busy, Clear(a))'  BY <1>1, <1>3, <1>4 DEF ShownFull
<1>6. (ShownInv <=> (state = "open" /\ ~exposed =>
                  ShownFull(staged["index"], Busy, Clear(staged["index"]))))'  BY ShownIs, PTL
<1> QED  BY <1>1, <1>5, <1>6

----
(* The operations that returned, after a step.                             *)

LEMMA FinishedIs ==
  TypeInv => (FinishedInv <=> (~lost => /\ Behind /\ ClearsStaged(state = "open", Busy)
                                        /\ ~exposed => Counted(state = "open", Busy)))
<1> SUFFICES ASSUME TypeInv
             PROVE  FinishedInv <=> (~lost => /\ Behind /\ ClearsStaged(state = "open", Busy)
                                              /\ ~exposed => Counted(state = "open", Busy))  OBVIOUS
<1>1. \A tr \in Trees : DOMAIN tree[tr] = 1..Len(tree[tr])  BY Types, SeqFacts
<1>2. \A a : Settled(a) <=> SettledOf(base, log, finished, a)  BY ContentsAll DEF Settled, SettledOf
<1>3. \A s : Point(s) = PointOf(tree, slot[s])  BY GoodAll
<1> DEFINE N == Newest(Recorded)
<1>4. FinishedInv <=> (~lost =>
        /\ \A j \in 1..Len(log) : Over(j) =>
             \A tr \in Trees : \A i \in DOMAIN tree[tr] : i >= Kept(tr) => j <= tree[tr][i].applied
        /\ ClearsStaged(state = "open", Busy)
        /\ ~exposed =>
             /\ Recorded # {} => Point(N) <= finished /\ Settled(Point(N))
             /\ ~Busy /\ Recorded = {} => Settled(0)
             /\ (state = "open" /\ ~Busy) => staged["index"] <= finished /\ Settled(staged["index"])
             /\ Busy => staged["index"] <= finished + 1 /\ Settled(staged["index"]))
  BY DEF FinishedInv, Idle, ClearsStaged
<1>5. Counted(state = "open", Busy) <=>
             /\ Recorded # {} => PointOf(tree, slot[N]) <= finished /\ SettledOf(base, log, finished, PointOf(tree, slot[N]))
             /\ ~Busy /\ Recorded = {} => SettledOf(base, log, finished, 0)
             /\ (state = "open" /\ ~Busy) => staged["index"] <= finished /\ SettledOf(base, log, finished, staged["index"])
             /\ Busy => staged["index"] <= finished + 1 /\ SettledOf(base, log, finished, staged["index"])
  BY DEF Counted
<1>6. Behind <=> \A j \in 1..Len(log) : Over(j) =>
             \A tr \in Trees : \A i \in DOMAIN tree[tr] : i >= Kept(tr) => j <= tree[tr][i].applied
  BY <1>1 DEF Behind
<1> HIDE DEF N
<1> QED  BY <1>2, <1>3, <1>4, <1>5, <1>6

LEMMA FinishedNext ==
  ASSUME TypeInv',
         ~lost' => /\ Behind' /\ ClearsStaged(state = "open", Busy)'
                   /\ ~exposed' => Counted(state = "open", Busy)'
  PROVE  FinishedInv'
<1>1. (TypeInv => (FinishedInv <=> (~lost => /\ Behind /\ ClearsStaged(state = "open", Busy)
                                             /\ ~exposed => Counted(state = "open", Busy))))'
  BY FinishedIs, PTL
<1> QED  BY <1>1

LEMMA KeptIs ==
  ASSUME TypeInv, LossInv, ~lost, NEW tr \in Trees
  PROVE  Kept(tr) \in Nat /\ Kept(tr) <= Len(tree[tr]) /\ (Recorded = {} => Kept(tr) = Len(tree[tr]))
<1>1. CASE Recorded = {}  BY <1>1, Types DEF Kept
<1>2. CASE Recorded # {}
  <2> DEFINE N == Newest(Recorded)
  <2>1. N \in Recorded /\ N \in RecordsOf(slot) /\ SlotsOK(slot)  BY <1>2, Types, SlotDefs, LatestIs
  <2>2. Kept(tr) = slot[N].lens[tr]  BY <1>2 DEF Kept
  <2> HIDE DEF N
  <2>3. slot[N].lens \in [Trees -> Nat \ {0}]  BY <2>1, RecordIs
  <2>4. slot[N].lens[tr] <= Len(tree[tr])  BY <2>1 DEF LossInv, Satisfied
  <2> QED  BY <1>2, <2>2, <2>3, <2>4
<1> QED  BY <1>1, <1>2

\* What a step does to what has finished.
LEMMA FinishedMoves ==
  ASSUME NEW a, AStep(a), FinishedInv, ~lost
  PROVE  /\ finished \in Nat /\ finished' \in Nat /\ finished <= finished' /\ a \in Nat
         /\ Len(todo) > 1 => finished' = finished
         /\ Len(todo) = 1 => a <= finished' /\ (finished' = a \/ finished' = finished)
         /\ \A j \in Nat : j <= finished' => j <= finished \/ j <= a
         /\ \A j \in 1..finished : Clear(j) => j < a
         /\ Behind /\ (~exposed => Counted(TRUE, TRUE))
         /\ \A j \in 1..Len(log) : /\ Over(j) <=> Clear(j) /\ (j <= finished \/ j < a)
                                   /\ Over(j)' => Clear(j) /\ j <= a /\ (j = a => Len(todo) = 1) /\ (j < a => Over(j))
         /\ \A j \in 1..Len(log) : (Clear(j))' = Clear(j)
<1>1. /\ TypeInv /\ Busy /\ state = "open" /\ state' = "open" /\ a = staged["index"] /\ a \in Nat /\ GoesOn(a)
      /\ Len(todo) \in Nat \ {0} /\ (Busy' <=> Len(todo) > 1) /\ log' = log /\ staged' = [tr \in Trees |-> a]
      /\ staged = [tr \in Trees |-> a] /\ staged'["index"] = a  BY StepFacts
<1>2. finished \in Nat  BY <1>1, Types
<1>3. /\ Behind /\ ClearsStaged(state = "open", Busy) /\ (~exposed => Counted(state = "open", Busy))
  BY <1>1, FinishedIs
<1>4. Behind /\ (~exposed => Counted(TRUE, TRUE)) /\ \A j \in 1..finished : Clear(j) => j < a
  BY <1>1, <1>3 DEF ClearsStaged
<1>5. finished' = IF Len(todo) = 1 THEN Max({finished, a}) ELSE finished  BY <1>1 DEF GoesOn
<1> DEFINE M == Max({finished, a})
<1>6. M \in {finished, a} /\ finished <= M /\ a <= M  BY <1>1, <1>2, LongerOf
<1> DEFINE n == Len(todo)
<1> HIDE DEF M, n
<1>7. /\ finished' \in Nat /\ finished <= finished'
      /\ n > 1 => finished' = finished
      /\ n = 1 => a <= finished' /\ (finished' = a \/ finished' = finished)
      /\ \A j \in Nat : j <= finished' => j <= finished \/ j <= a
  <2>1. finished' = IF n = 1 THEN M ELSE finished  BY <1>5 DEF M, n
  <2>2. n \in Nat \ {0} /\ a \in Nat  BY <1>1 DEF n
  <2>3. CASE n = 1
    <3>1. finished' = M  BY <2>1, <2>3
    <3>2. M \in Nat  BY <2>2, <1>2, <1>6
    <3> QED  BY <3>1, <3>2, <2>2, <2>3, <1>2, <1>6
  <2>4. CASE n # 1
    <3>1. finished' = finished  BY <2>1, <2>4
    <3> QED  BY <3>1, <2>4, <1>2
  <2> QED  BY <2>3, <2>4
<1>8. \A j \in 1..Len(log) : (Clear(j))' = Clear(j)  BY <1>1 DEF Clear
<1>9. ASSUME NEW j \in 1..Len(log)
      PROVE  /\ Over(j) <=> Clear(j) /\ (j <= finished \/ j < a)
             /\ Over(j)' => Clear(j) /\ j <= a /\ (j = a => n = 1) /\ (j < a => Over(j))
  <2>1. Over(j) <=> Clear(j) /\ (j <= finished \/ j < a)  BY <1>1 DEF Over
  <2>2. ASSUME Over(j)' PROVE Clear(j) /\ (j <= finished' \/ (n > 1 /\ j < a) \/ (~(n > 1) /\ j <= a))
    <3>1. Clear(j)  BY <2>2, <1>8 DEF Over
    <3>2. \A tr \in Trees : staged'[tr] = a  BY <1>1
    <3>3. j <= finished' \/ (IF Busy' THEN j < a ELSE \A tr \in Trees : j <= staged'[tr])
      BY <2>2, <1>1 DEF Over
    <3>4. (\A tr \in Trees : j <= staged'[tr]) => j <= a  BY <3>2 DEF Trees
    <3> QED  BY <3>1, <3>3, <3>4, <1>1 DEF n
  <2>3. j \in Nat /\ n \in Nat \ {0}  BY <1>1 DEF n
  <2>4. ASSUME Over(j)' PROVE Clear(j) /\ j <= a /\ (j = a => n = 1) /\ (j < a => Over(j))
    <3>1. j <= finished => j < a  BY <2>2, <2>3, <2>4, <1>2, <1>4
    <3>2. n > 1 => j <= finished \/ j < a  BY <2>2, <2>4, <1>7
    <3>3. ~(n > 1) => n = 1  BY <2>3
    <3>4. j <= finished' => j <= finished \/ j <= a  BY <2>3, <1>7
    <3>5. j <= a  BY <3>1, <3>2, <3>4, <2>2, <2>3, <2>4, <1>1
    <3>6. j = a => n = 1  BY <3>1, <3>2, <3>3, <2>3
    <3> QED  BY <3>5, <3>6, <2>1, <2>2, <2>4
  <2> QED  BY <2>1, <2>4
<1> QED  BY <1>1, <1>2, <1>4, <1>7, <1>8, <1>9 DEF n

LEMMA BehindStep ==
  ASSUME NEW a, AStep(a), LossInv, FinishedInv, ~lost
  PROVE  Behind'
<1>1. /\ TypeInv /\ TypeInv' /\ CallInv /\ a \in Nat /\ a = staged["index"] /\ Busy /\ log' = log /\ StepKinds(a)
      /\ \A tr \in Trees : Len(tree[tr]) \in Nat  BY StepFacts, Kinds, Types
<1>2. ASSUME NEW tr \in Trees, NEW i \in 1..Len(tree'[tr]), i >= Kept(tr)', ~(tree'[tr][i].applied = a)
      PROVE  /\ i \in 1..Len(tree[tr]) /\ i >= Kept(tr) /\ tree'[tr][i] = tree[tr][i]
  <2>0. Kept(tr) \in Nat /\ Kept(tr) <= Len(tree[tr]) /\ (Recorded = {} => Kept(tr) = Len(tree[tr]))
    BY <1>1, KeptIs
  <2>a. Len(tree'[tr]) \in Nat  BY <1>1, TypesNext
  <2>b. Kept(tr)' = IF Recorded' = {} THEN Len(tree'[tr]) ELSE slot'[Newest(Recorded)'].lens[tr]  BY DEF Kept
  <2> DEFINE n == Len(tree[tr])
             k == Len(tree'[tr])
             q == Kept(tr)
             p == Kept(tr)'
  <2>1. CASE WriteStep(a)
    <3>1. Extends(a) /\ slot' = slot  BY <2>1, Kinds
    <3>2. /\ n <= k /\ \A j \in 1..n : tree'[tr][j] = tree[tr][j]
          /\ \A j \in 1..k : j > n => tree'[tr][j].applied = a  BY <3>1 DEF Extends
    <3>3. Recorded' = Recorded /\ (Recorded # {} => p = q) /\ (Recorded = {} => p = k /\ q = n)
      <4>1. Recorded' = Recorded /\ Newest(Recorded)' = Newest(Recorded)  BY <3>1 DEF Recorded, Newest
      <4> QED  BY <4>1, <3>1, <2>0, <2>b DEF Kept
    <3> HIDE DEF n, k, p, q
    <3>4. ~(i > n)  BY <3>2, <1>2 DEF k
    <3>5. n \in Nat /\ k \in Nat /\ i \in 1..k /\ q \in Nat /\ q <= n /\ i >= p
      BY <1>1, <1>2, <2>0, <2>a DEF n, k, p, q
    <3>6. i \in 1..n /\ i >= q  BY <3>2, <3>3, <3>4, <3>5
    <3> QED  BY <3>2, <3>6 DEF n, q
  <2>2. CASE RecordStep(a)
    <3> DEFINE s == NextSlot
               lens == Lengths
    <3>1. /\ s \in Recorded' /\ Newest(Recorded)' = s /\ slot'[s].lens = lens
          /\ lens = [x \in Trees |-> Len(tree[x])] /\ tree' = tree  BY <2>2, RecordLast
    <3> HIDE DEF s, lens
    <3>2. p = n  BY <3>1, <2>b
    <3> HIDE DEF p
    <3> QED  BY <3>1, <3>2, <2>0, <1>1, <1>2 DEF p
  <2>3. CASE TruncateStep(a)
    <3>1. tree' = tree /\ Recorded' = {}  BY <2>3, Kinds DEF TruncateStep
    <3>2. p = n  BY <3>1, <2>b
    <3> HIDE DEF p
    <3> QED  BY <3>1, <3>2, <2>0, <1>1, <1>2 DEF p
  <2>4. CASE ResetStep(a)
    <3>1. PICK x \in Trees : Restarts(x, Version(<<>>, a))  BY <2>4 DEF ResetStep, Trees
    <3>2. /\ tree'[x][1].applied = a /\ Len(tree'[x]) = 1 /\ \A y \in Trees : y # x => tree'[y] = tree[y]
      BY <3>1, <1>1, RestartsTyped
    <3>3. tr # x  BY <3>2, <1>2
    <3>4. tree'[tr] = tree[tr]  BY <3>2, <3>3
    <3>5. Recorded' = {}  BY <2>4, Kinds
    <3>6. p = n  BY <3>4, <3>5, <2>b
    <3> HIDE DEF p
    <3> QED  BY <3>4, <3>6, <2>0, <1>1, <1>2 DEF p
  <2> QED  BY <1>1, <2>1, <2>2, <2>3, <2>4 DEF StepKinds
<1>3. ASSUME NEW j \in 1..Len(log), Over(j)', NEW tr \in Trees, NEW i \in 1..Len(tree'[tr]), i >= Kept(tr)'
      PROVE  j <= tree'[tr][i].applied
  <2>1. Clear(j) /\ j <= a /\ (j = a => Len(todo) = 1) /\ (j < a => Over(j)) /\ Behind  BY <1>3, FinishedMoves
  <2>2. CASE tree'[tr][i].applied = a  BY <2>1, <2>2
  <2>3. CASE ~(tree'[tr][i].applied = a)
    <3>1. i \in 1..Len(tree[tr]) /\ i >= Kept(tr) /\ tree'[tr][i] = tree[tr][i]  BY <1>2, <1>3, <2>3
    <3>2. j # a
      <4>1. SUFFICES ASSUME j = a PROVE FALSE  OBVIOUS
      <4>2. Clear(a) /\ Len(todo) = 1  BY <4>1, <2>1
      <4> DEFINE v == Version(<<>>, a)
      <4>3. v.applied = a  BY DEF Version
      <4>4. tree[tr] = <<v>>  BY <4>2, <1>1 DEF CallInv, Trees
      <4> HIDE DEF v
      <4>5. i = 1 /\ tree[tr][1] = v  BY <4>4, <3>1
      <4> QED  BY <4>3, <4>5, <3>1, <2>3
    <3>3. j < a  BY <3>2, <2>1, <1>1
    <3>4. j <= tree[tr][i].applied  BY <3>1, <3>3, <2>1 DEF Behind
    <3> QED  BY <3>1, <3>4
  <2> QED  BY <2>2, <2>3
<1> QED  BY <1>1, <1>3 DEF Behind

LEMMA CountedStep ==
  ASSUME NEW a, AStep(a), LossInv, RecordsInv, ShownInv, FinishedInv, ~lost, ~exposed'
  PROVE  Counted(state = "open", Busy)'
<1>1. /\ TypeInv /\ CallInv /\ a \in Nat /\ a \in 1..Len(log) /\ a = staged["index"] /\ Busy
      /\ log' = log /\ base' = base /\ GoesOn(a) /\ StepKinds(a)
      /\ state' = "open" /\ staged'["index"] = a /\ (Busy' <=> Len(todo) > 1)  BY StepFacts, Kinds
<1>2. exposed' = IF Len(todo) = 1 /\ Clear(a) THEN FALSE ELSE exposed  BY <1>1 DEF GoesOn
<1>3. /\ finished \in Nat /\ finished' \in Nat /\ finished <= finished'
      /\ Len(todo) > 1 => finished' = finished
      /\ Len(todo) = 1 => a <= finished' /\ (finished' = a \/ finished' = finished)
      /\ \A j \in 1..finished : Clear(j) => j < a
      /\ ~exposed => Counted(TRUE, TRUE)  BY FinishedMoves
<1> SUFFICES
      /\ Recorded' # {} => /\ PointOf(tree', slot'[Newest(Recorded)']) <= finished'
                           /\ SettledOf(base, log, finished', PointOf(tree', slot'[Newest(Recorded)']))
      /\ ~Busy' => Recorded' # {} /\ a <= finished'
      /\ Busy' => a <= finished' + 1
      /\ SettledOf(base, log, finished', a)  BY <1>1 DEF Counted
<1>4. ~exposed => a <= finished + 1 /\ SettledOf(base, log, finished, a)  BY <1>1, <1>3 DEF Counted
<1>5. CASE RecordStep(a)
  <2> DEFINE k == NextSlot
             lens == Lengths
  <2>1. /\ k \in Recorded' /\ Newest(Recorded)' = k /\ slot'[k].lens = lens
        /\ lens = [tr \in Trees |-> Len(tree[tr])] /\ tree' = tree /\ Len(todo) = 1
    BY <1>5, RecordLast, Kinds
  <2> HIDE DEF k, lens
  <2>2. exposed => Clear(a)  BY <1>2
  <2>3. \A tr \in Trees : tree[tr] # <<>> /\ Last(tree[tr]).applied = a  BY <1>5, <2>2, LastWrite
  <2>4. PointOf(tree', slot'[k]) = a
    <3>1. slot'[k].lens["terms"] = Len(tree["terms"]) /\ "terms" \in Trees  BY <2>1 DEF Trees
    <3>2. Last(tree["terms"]) = tree["terms"][Len(tree["terms"])]  BY <3>1, <2>3, <1>1, Types, SeqFacts
    <3> QED  BY <3>1, <3>2, <2>1, <2>3 DEF PointOf
  <2>5. SettledOf(base, log, finished', a)
    <3>1. CASE finished' = a
      <4>1. \A j \in a..a : j = a  BY <1>1
      <4> QED  BY <3>1, <4>1 DEF SettledOf
    <3>2. CASE finished' # a
      <4>1. finished' = finished /\ a <= finished  BY <3>2, <2>1, <1>3
      <4>2. ~Clear(a)  BY <4>1, <1>1, <1>3
      <4> QED  BY <4>1, <4>2, <2>2, <1>4
    <3> QED  BY <3>1, <3>2
  <2>6. a <= finished' /\ ~Busy'  BY <2>1, <1>1, <1>3
  <2> QED  BY <2>1, <2>4, <2>5, <2>6
<1>6. CASE ~RecordStep(a)
  <2>1. Len(todo) > 1  BY <1>1, <1>6, Kinds DEF StepKinds
  <2>2. finished' = finished /\ ~exposed /\ Busy'  BY <2>1, <1>1, <1>2, <1>3
  <2>3. a <= finished' + 1 /\ SettledOf(base, log, finished', a)  BY <2>2, <1>4
  <2>4. ASSUME Recorded' # {}
        PROVE  /\ PointOf(tree', slot'[Newest(Recorded)']) <= finished'
               /\ SettledOf(base, log, finished', PointOf(tree', slot'[Newest(Recorded)']))
    <3>1. WriteStep(a)  BY <1>1, <1>6, <2>4, Kinds DEF StepKinds
    <3>2. Extends(a) /\ slot' = slot  BY <3>1, Kinds
    <3>3. Recorded' = Recorded /\ Newest(Recorded)' = Newest(Recorded)  BY <3>2 DEF Recorded, Newest
    <3> DEFINE N == Newest(Recorded)
    <3>4. N \in Recorded /\ N \in RecordsOf(slot) /\ SlotsOK(slot)
      BY <2>4, <3>3, <1>1, Types, SlotDefs, LatestIs
    <3>5. PointOf(tree, slot[N]) <= finished /\ SettledOf(base, log, finished, PointOf(tree, slot[N]))
      BY <2>2, <2>4, <3>3, <1>3 DEF Counted
    <3> HIDE DEF N
    <3>6. Satisfied(N) /\ "terms" \in Trees /\ slot[N].lens["terms"] \in Nat \ {0}
      <4>1. slot[N].lens \in [Trees -> Nat \ {0}] /\ "terms" \in Trees  BY <3>4, RecordIs DEF Trees
      <4> QED  BY <4>1, <3>4 DEF LossInv
    <3>7. Agree(tree, tree', slot[N].lens)  BY <3>2, <3>4, <3>6, <1>1, ExtendsAgrees
    <3>8. PointOf(tree', slot'[N]) = PointOf(tree, slot[N])
      <4>1. slot[N].lens["terms"] \in 1..slot[N].lens["terms"]  BY <3>6
      <4> QED  BY <4>1, <3>2, <3>6, <3>7 DEF PointOf, Agree
    <3> QED  BY <3>3, <3>5, <3>8, <2>2 DEF N
  <2> QED  BY <2>2, <2>3, <2>4
<1> QED  BY <1>5, <1>6

LEMMA FinishedStep ==
  ASSUME NEW a, AStep(a), LossInv, RecordsInv, ShownInv, FinishedInv
  PROVE  FinishedInv'
<1>1. /\ TypeInv' /\ lost' = lost /\ state' = "open" /\ (Busy' <=> Len(todo) > 1)
      /\ staged' = [tr \in Trees |-> a] /\ staged'["index"] = a /\ log' = log /\ GoesOn(a) /\ a \in Nat
  BY StepFacts
<1>2. ASSUME ~lost PROVE ClearsStaged(state = "open", Busy)'
  <2>1. ASSUME NEW j \in 1..finished', Clear(j)'
        PROVE  j <= a /\ (Busy' => j < a)
    <3>1. /\ finished \in Nat /\ finished' \in Nat
          /\ Len(todo) > 1 => finished' = finished
          /\ \A i \in Nat : i <= finished' => i <= finished \/ i <= a
          /\ \A i \in 1..finished : Clear(i) => i < a  BY <1>2, FinishedMoves
    <3>2. Clear(j)  BY <2>1, <1>1 DEF Clear
    <3>3. j \in 1..finished \/ (j <= a /\ ~Busy')  BY <3>1, <1>1
    <3> QED  BY <3>1, <3>2, <3>3, <1>1
  <2> QED  BY <2>1, <1>1 DEF ClearsStaged
<1> QED  BY <1>1, <1>2, BehindStep, CountedStep, FinishedNext

----
(* The index between its calls.                                            *)

\* What the journal and the trees alone determine.
LEMMA SameRecords ==
  ASSUME slot' = slot
  PROVE  /\ Recorded' = Recorded /\ Newest(Recorded)' = Newest(Recorded)
         /\ tree' = tree => /\ Usable' = Usable /\ Newest(Usable)' = Newest(Usable)
                            /\ \A tr \in Trees : Kept(tr)' = Kept(tr) /\ Back(tr)' = Back(tr)
<1>1. Recorded' = Recorded  BY DEF Recorded
<1>2. Newest(Recorded)' = Newest(Recorded)  BY <1>1 DEF Newest
<1>3. ASSUME tree' = tree
      PROVE  Usable' = Usable /\ Newest(Usable)' = Newest(Usable)
  <2>1. Usable' = Usable  BY <1>1, <1>3 DEF Usable, Satisfied
  <2> QED  BY <2>1 DEF Newest
<1>4. ASSUME tree' = tree, NEW tr \in Trees
      PROVE  Kept(tr)' = Kept(tr)  BY <1>1, <1>2, <1>4 DEF Kept
<1>5. ASSUME tree' = tree, NEW tr \in Trees
      PROVE  Back(tr)' = Back(tr)  BY <1>1, <1>3, <1>5 DEF Back, Opened
<1> QED  BY <1>1, <1>2, <1>3, <1>4, <1>5

\* RecordsInv and FinishedInv of the next state.
LEMMA RecordsNext ==
  ASSUME TypeInv',
         ~exposed' => RecordsFull(IF state = "open" THEN staged["index"] ELSE Len(log), Busy)'
  PROVE  RecordsInv'
<1>1. (TypeInv => (RecordsInv <=> (~exposed => RecordsFull(IF state = "open" THEN staged["index"] ELSE Len(log), Busy))))'
  BY RecordsIs, PTL
<1> QED  BY <1>1

LEMMA ShownNext ==
  ASSUME state' = "open" /\ ~exposed' => ShownFull(staged["index"], Busy, Clear(staged["index"]))'
  PROVE  ShownInv'
<1>1. (ShownInv <=> (state = "open" /\ ~exposed =>
                  ShownFull(staged["index"], Busy, Clear(staged["index"]))))'  BY ShownIs, PTL
<1> QED  BY <1>1

\* No version is of an operation after the log, while nothing is exposed.
LEMMA AppliedInLog ==
  ASSUME TypeInv, RecordsInv, ShownInv, ~exposed
  PROVE  \A tr \in Trees : \A i \in 1..Len(tree[tr]) : tree[tr][i].applied <= Len(log)
<1> DEFINE b == IF state = "open" THEN staged["index"] ELSE Len(log)
<1>1. RecordsFull(b, Busy)  BY RecordsIs
<1>2. b \in Nat /\ Len(log) \in Nat /\ b <= Len(log)  BY Types DEF ShownInv, Trees
<1>3. TreesOK(tree)  BY Types
<1> HIDE DEF b
<1>4. \A tr \in Trees : \A i \in 1..Len(tree[tr]) : tree[tr][i].applied <= b  BY <1>1 DEF RecordsFull
<1>5. ASSUME NEW tr \in Trees, NEW i \in 1..Len(tree[tr])
      PROVE  tree[tr][i].applied <= Len(log)
  <2>1. tree[tr][i].applied \in Nat  BY <1>3, VersionAt
  <2>2. tree[tr][i].applied <= b  BY <1>4
  <2> QED  BY <1>2, <2>1, <2>2
<1> QED  BY <1>5

\* What the next open goes back to is one of the versions there are.
LEMMA BackIs ==
  ASSUME TypeInv, NEW tr \in Trees, Recorded # {} => Usable # {}
  PROVE  Back(tr).applied = 0 \/ \E i \in 1..Len(tree[tr]) : Back(tr) = tree[tr][i]
<1>1. TreesOK(tree) /\ SlotsOK(slot) /\ IsSeq(tree[tr]) /\ Len(tree[tr]) \in Nat  BY Types
<1>2. CASE Recorded = {}
  <2>1. Back(tr) = Last(Opened(tree[tr]))  BY <1>2 DEF Back
  <2>2. CASE tree[tr] = <<>>
    <3> DEFINE v == Version(<<>>, 0)
    <3>1. v.applied = 0  BY DEF Version
    <3>2. Opened(tree[tr]) = <<v>>  BY <2>2 DEF Opened
    <3> HIDE DEF v
    <3>3. Last(<<v>>) = v  BY DEF Last
    <3> QED  BY <2>1, <3>1, <3>2, <3>3
  <2>3. CASE tree[tr] # <<>>  BY <1>1, <2>1, <2>3, SeqFacts DEF Opened
  <2> QED  BY <2>2, <2>3
<1>3. CASE Recorded # {}
  <2> DEFINE N == Newest(Usable)
  <2>1. Back(tr) = tree[tr][slot[N].lens[tr]]  BY <1>3 DEF Back
  <2>2. N \in RecordsOf(slot) /\ SatisfiedBy(tree, slot[N])
    <3>1. Usable \in SUBSET RecordsOf(slot) /\ Usable # {} /\ N = Latest(slot, Usable)
      BY <1>3, SlotDefs DEF UsableOf
    <3>2. N \in Usable  BY <1>1, <3>1, LatestIs
    <3> QED  BY <3>2, SlotDefs DEF UsableOf
  <2> HIDE DEF N
  <2>3. slot[N].lens \in [Trees -> Nat \ {0}]  BY <1>1, <2>2, RecordIs
  <2>4. slot[N].lens[tr] \in 1..Len(tree[tr])  BY <1>1, <2>2, <2>3, PointIs
  <2> QED  BY <2>1, <2>4
<1> QED  BY <1>2, <1>3

LEMMA BackAll ==
  \A tr \in Trees : TypeInv /\ (Recorded # {} => Usable # {}) =>
    Back(tr).applied = 0 \/ \E i \in 1..Len(tree[tr]) : Back(tr) = tree[tr][i]  BY BackIs

LEMMA HostNext ==
  ASSUME TypeInv', state' # "open",
         \A tr \in Trees : \A i \in 1..Len(tree'[tr]) : tree'[tr][i].applied <= Len(log')
  PROVE  HostInv'
<1>1. (\A tr \in Trees : TypeInv /\ (Recorded # {} => Usable # {}) =>
          Back(tr).applied = 0 \/ \E i \in 1..Len(tree[tr]) : Back(tr) = tree[tr][i])'  BY BackAll, PTL
<1>2. "index" \in Trees  BY DEF Trees
<1>3. Len(log') \in Nat  BY DEF TypeInv
<1>4. ASSUME Recorded' # {} => Usable' # {}
      PROVE  Back("index")'.applied <= Len(log')
  <2>1. Back("index")'.applied = 0 \/ \E i \in 1..Len(tree'["index"]) : Back("index")' = tree'["index"][i]
    BY <1>1, <1>2, <1>4
  <2> QED  BY <1>2, <1>3, <2>1
<1> QED  BY <1>2, <1>4 DEF HostInv

----
(* The index closed, failed, or down after a crash.                        *)

LEMMA StopRecorded ==
  ASSUME Stops
  PROVE  /\ SlotsOK(slot) /\ SlotsOK(slot') /\ Recorded = RecordsOf(slot) /\ Recorded' = RecordsOf(slot')
         /\ Usable = UsableOf(tree, slot) /\ Usable' = UsableOf(tree', slot')
         /\ Recorded' \subseteq Recorded /\ \A s \in Recorded' : slot'[s] = slot[s]
         /\ (Recorded = {} <=> Recorded' = {})
         /\ Recorded # {} => /\ Newest(Recorded)' = Newest(Recorded) /\ Newest(Recorded) \in Recorded'
                             /\ slot'[Newest(Recorded)] = slot[Newest(Recorded)]
         /\ ~Busy => slot' = slot
<1>1. /\ SlotsOK(slot) /\ SlotsOK(slot') /\ Recorded = RecordsOf(slot) /\ Recorded' = RecordsOf(slot')
      /\ Usable = UsableOf(tree, slot) /\ Usable' = UsableOf(tree', slot')
  BY Types, TypesNext, SlotDefs DEF Stops
<1>2. /\ RecordsOf(slot') \subseteq Recorded
      /\ \A s \in RecordsOf(slot') : slot'[s] = slot[s]
      /\ Recorded # {} => /\ Newest(Recorded) \in RecordsOf(slot')
                          /\ Latest(slot', RecordsOf(slot')) = Newest(Recorded)
      /\ Recorded = {} => RecordsOf(slot') = {}
      /\ ~Busy => slot' = slot  BY <1>1, RecordsLeft DEF Stops
<1>3. Newest(Recorded)' = Latest(slot', RecordsOf(slot'))  BY <1>1 DEF Newest, Latest
<1> QED  BY <1>1, <1>2, <1>3

\* A record the trees still satisfy stands for the same.
LEMMA StopGood ==
  ASSUME Stops, NEW s \in Recorded', GoodOf(tree, slot[s], log, base), SatisfiedBy(tree', slot'[s])
  PROVE  /\ GoodOf(tree', slot'[s], log', base')
         /\ PointOf(tree', slot'[s]) = PointOf(tree, slot[s])
<1>1. s \in Recorded /\ slot'[s] = slot[s] /\ s \in RecordsOf(slot)  BY StopRecorded
<1>2. slot[s].lens \in [Trees -> Nat \ {0}]  BY <1>1, StopRecorded, RecordIs
<1>3. Agree(tree, tree', slot[s].lens)
  <2>1. ASSUME NEW tr \in Trees
        PROVE  slot[s].lens[tr] <= Len(tree'[tr]) /\ \A i \in 1..slot[s].lens[tr] : tree'[tr][i] = tree[tr][i]
    <3> DEFINE n == slot[s].lens[tr]
               l == Len(tree'[tr])
    <3>1. n \in Nat /\ l \in Nat /\ n <= l  BY <1>1, <1>2, TypesNext DEF SatisfiedBy, Stops
    <3>2. \A i \in 1..l : tree'[tr][i] = tree[tr][i]  BY DEF Stops
    <3> HIDE DEF n, l
    <3>3. \A i \in 1..n : i \in 1..l  BY <3>1
    <3> QED  BY <3>1, <3>2, <3>3 DEF n, l
  <2> QED  BY <2>1 DEF Agree
<1>4. PointOf(tree, slot[s]) <= Len(log') /\ \A i \in 1..PointOf(tree, slot[s]) : log'[i] = log[i]
  BY DEF GoodOf, Stops
<1>5. TypeInv /\ TypeInv' /\ base' = base  BY DEF Stops
<1> QED  BY <1>1, <1>3, <1>4, <1>5, GoodKept

LEMMA StopLoss ==
  ASSUME Stops, LossInv
  PROVE  LossInv'
<1>1. ASSUME ~lost'
      PROVE  /\ ~lost /\ stale' = {} /\ tree' = tree /\ Recorded' \subseteq Recorded
             /\ \A s \in Recorded' : slot'[s] = slot[s]  BY <1>1, StopRecorded DEF Stops
<1>2. ASSUME ~lost', NEW s \in Recorded' PROVE Satisfied(s)'  BY <1>1, <1>2 DEF LossInv, Satisfied
<1>3. ASSUME ~lost', NEW tr \in Trees PROVE tree'[tr] # <<>>  BY <1>1, <1>3 DEF LossInv
<1>4. ASSUME ~lost', NEW r \in Recorded', NEW s \in Recorded', slot'[r].txn < slot'[s].txn, NEW tr \in Trees
      PROVE  slot'[r].lens[tr] <= slot'[s].lens[tr]  BY <1>1, <1>4 DEF LossInv
<1>5. state' # "refused"  BY DEF Stops
<1> QED  BY <1>1, <1>2, <1>3, <1>4, <1>5 DEF LossInv

LEMMA StopRecords ==
  ASSUME Stops, LossInv, RecordsInv, ShownInv
  PROVE  RecordsInv'
<1>1. TypeInv /\ TypeInv' /\ state' # "open" /\ ~Busy' /\ log' = log /\ base' = base  BY DEF Stops
<1> DEFINE N == Newest(Recorded)
<1>2. ASSUME ~exposed' PROVE RecordsFull(Len(log), Busy)'
  <2>1. ~exposed /\ ((Busy \/ tree' # tree) => ~Uncovered)  BY <1>2 DEF Stops
  <2> DEFINE b == IF state = "open" THEN staged["index"] ELSE Len(log)
  <2>2. RecordsFull(b, Busy)  BY <1>1, <2>1, RecordsIs
  <2> HIDE DEF b
  <2>3. ASSUME NEW tr \in Trees, NEW i \in 1..Len(tree'[tr])
        PROVE  tree'[tr][i].applied <= Len(log')
    <3> DEFINE n == Len(tree[tr])
               l == Len(tree'[tr])
    <3>1. n \in Nat /\ l \in Nat /\ l <= n /\ tree'[tr][i] = tree[tr][i]  BY <1>1, Types, TypesNext DEF Stops
    <3>2. i \in 1..l  OBVIOUS
    <3> HIDE DEF n, l
    <3>3. i \in 1..n  BY <3>1, <3>2
    <3> QED  BY <3>1, <3>3, <1>1, <2>1, AppliedInLog DEF n
  <2>4. ASSUME stale' = {}, Recorded' # {}
        PROVE  GoodOf(tree', slot'[Newest(Recorded)'], log', base')
    <3>1. Recorded # {} /\ Newest(Recorded)' = N /\ N \in Recorded' /\ slot'[N] = slot[N]
      BY <2>4, StopRecorded
    <3>2. GoodOf(tree, slot[N], log, base) /\ SatisfiedBy(tree', slot'[N])  BY <3>1, <1>2, <2>4 DEF Stops
    <3> HIDE DEF N
    <3> QED  BY <3>1, <3>2, StopGood
  <2>5. ASSUME ~lost, NEW s \in Recorded', SatisfiedBy(tree', slot'[s])
        PROVE  GoodOf(tree', slot'[s], log', base')
    <3>1. s \in Recorded  BY StopRecorded
    <3>2. GoodOf(tree, slot[s], log, base)  BY <2>2, <2>5, <3>1 DEF RecordsFull
    <3> QED  BY <2>5, <3>2, StopGood
  <2>6. ASSUME Usable' # {}
        PROVE  GoodOf(tree', slot'[Newest(Usable)'], log', base')
    <3> DEFINE U == Newest(Usable)'
    <3>1. U \in Recorded' /\ SatisfiedBy(tree', slot'[U]) /\ U \in Usable' /\ U = Latest(slot', Usable')
          /\ Usable' \in SUBSET RecordsOf(slot')
      <4>1. Usable' = UsableOf(tree', slot') /\ Recorded' = RecordsOf(slot') /\ SlotsOK(slot')
        BY StopRecorded
      <4>2. U = Latest(slot', Usable')  BY DEF Newest, Latest
      <4>3. Usable' \in SUBSET RecordsOf(slot')  BY <4>1 DEF UsableOf
      <4>4. U \in Usable'  BY <4>1, <4>2, <4>3, <2>6, LatestIs
      <4> QED  BY <4>1, <4>2, <4>3, <4>4 DEF UsableOf
    <3> HIDE DEF U
    <3>2. CASE ~lost  BY <3>1, <3>2, <2>5 DEF U
    <3>3. CASE lost /\ ~Busy
      <4>1. tree' = tree /\ slot' = slot  BY <3>3, StopRecorded DEF Stops
      <4>2. Usable' = Usable /\ U = Newest(Usable)  BY <4>1, SameRecords DEF U
      <4>3. GoodOf(tree, slot[U], log, base)  BY <2>2, <2>6, <3>3, <4>2 DEF RecordsFull
      <4> QED  BY <4>1, <4>3, <1>1 DEF U
    <3>4. CASE lost /\ Busy
      <4>1. tree' = tree /\ stale = {} /\ Recorded # {}  BY <3>4, <2>1 DEF Stops, Uncovered
      <4>2. GoodOf(tree, slot[N], log, base)  BY <2>2, <4>1 DEF RecordsFull
      <4>3. N \in Recorded' /\ slot'[N] = slot[N] /\ SlotsOK(slot') /\ N = Latest(slot', RecordsOf(slot'))
            /\ Usable' = UsableOf(tree', slot') /\ Recorded' = RecordsOf(slot')
        <5>1. N \in Recorded' /\ slot'[N] = slot[N] /\ SlotsOK(slot') /\ Newest(Recorded)' = N
              /\ Usable' = UsableOf(tree', slot') /\ Recorded' = RecordsOf(slot')  BY <4>1, StopRecorded
        <5>2. Newest(Recorded)' = Latest(slot', RecordsOf(slot'))  BY <5>1 DEF Newest, Latest
        <5> QED  BY <5>1, <5>2
      <4> HIDE DEF N
      <4>4. SatisfiedBy(tree', slot'[N])  BY <4>1, <4>2, <4>3 DEF GoodOf
      <4>5. N \in Usable'  BY <4>3, <4>4 DEF UsableOf
      <4>6. \A r \in RecordsOf(slot') : slot'[r].txn <= slot'[N].txn  BY <4>3, LatestIs
      <4>7. \A r \in Usable' : slot'[r].txn <= slot'[N].txn  BY <4>6, <3>1
      <4>8. Latest(slot', Usable') = N  BY <3>1, <4>3, <4>5, <4>7, LatestOnly
      <4>9. U = N  BY <3>1, <4>8
      <4> QED  BY <4>2, <4>3, <4>4, <4>9, StopGood DEF U
    <3> QED  BY <3>2, <3>3, <3>4
  <2>7. ASSUME ~lost', NEW s \in Recorded'
        PROVE  GoodOf(tree', slot'[s], log', base')
    <3>1. ~lost /\ s \in Recorded /\ slot'[s] = slot[s] /\ tree' = tree  BY <2>7, StopRecorded DEF Stops
    <3>2. SatisfiedBy(tree', slot'[s])  BY <3>1, SlotDefs DEF LossInv
    <3> QED  BY <2>5, <3>1, <3>2
  <2>8. ASSUME Recorded' = {}
        PROVE  /\ \A tr \in Trees : Len(tree'[tr]) = 1 /\ tree'[tr][1].applied = 0
               /\ ShowsOf(base', log', 0, tree'["index"][1].map, tree'["terms"][1].map, tree'["lengths"][1].map)
    <3>1. Recorded = {}  BY <2>8, StopRecorded
    <3>2. ~Busy /\ tree' = tree  BY <2>1, <3>1 DEF Uncovered
    <3> QED  BY <2>2, <3>1, <3>2, <1>1 DEF RecordsFull
  <2> QED  BY <1>1, <2>3, <2>4, <2>6, <2>7, <2>8 DEF RecordsFull
<1> QED  BY <1>1, <1>2, RecordsNext

LEMMA StopFinished ==
  ASSUME Stops, LossInv, RecordsInv, ShownInv, FinishedInv
  PROVE  FinishedInv'
<1>1. TypeInv /\ TypeInv' /\ state' # "open" /\ ~Busy' /\ log' = log /\ base' = base /\ finished' = finished
  BY DEF Stops
<1> DEFINE N == Newest(Recorded)
<1>2. ASSUME ~lost'
      PROVE  ~lost /\ tree' = tree /\ Behind /\ (~exposed => Counted(state = "open", Busy))
  BY <1>1, <1>2, FinishedIs DEF Stops
<1>3. ASSUME ~lost', NEW tr \in Trees PROVE Kept(tr)' = Kept(tr)
  <2>1. CASE Recorded = {}
    <3>1. Recorded' = {} /\ tree' = tree  BY <1>2, <1>3, <2>1, StopRecorded
    <3> QED  BY <2>1, <3>1 DEF Kept
  <2>2. CASE Recorded # {}
    <3>1. Recorded' # {} /\ Newest(Recorded)' = N /\ slot'[N] = slot[N]  BY <2>2, StopRecorded
    <3> QED  BY <2>2, <3>1 DEF Kept
  <2> QED  BY <2>1, <2>2
<1>4. ASSUME ~lost' PROVE Behind'
  <2>1. ASSUME NEW j \in 1..Len(log), Over(j)' PROVE Over(j)  BY <1>1, <2>1 DEF Over, Clear
  <2>2. tree' = tree /\ Behind  BY <1>2, <1>4
  <2>3. ASSUME NEW j \in 1..Len(log'), Over(j)', NEW tr \in Trees, NEW i \in 1..Len(tree'[tr]), i >= Kept(tr)'
        PROVE  j <= tree'[tr][i].applied
    <3>1. j \in 1..Len(log) /\ i \in 1..Len(tree[tr]) /\ i >= Kept(tr)  BY <1>1, <1>3, <1>4, <2>2, <2>3
    <3> QED  BY <2>1, <2>2, <2>3, <3>1 DEF Behind
  <2> QED  BY <2>3 DEF Behind
<1>5. ASSUME ~lost', ~exposed' PROVE Counted(state = "open", Busy)'
  <2>1. ~exposed /\ ((Busy \/ tree' # tree) => ~Uncovered) /\ tree' = tree  BY <1>2, <1>5 DEF Stops
  <2>2. Counted(state = "open", Busy)  BY <1>2, <1>5, <2>1
  <2>3. ASSUME Recorded' # {}
        PROVE  /\ PointOf(tree', slot'[Newest(Recorded)']) <= finished'
               /\ SettledOf(base', log', finished', PointOf(tree', slot'[Newest(Recorded)']))
    <3>1. Recorded # {} /\ Newest(Recorded)' = N /\ slot'[N] = slot[N]  BY <2>3, StopRecorded
    <3>2. PointOf(tree, slot[N]) <= finished /\ SettledOf(base, log, finished, PointOf(tree, slot[N]))
      BY <2>2, <3>1 DEF Counted
    <3> HIDE DEF N
    <3> QED  BY <1>1, <2>1, <3>1, <3>2
  <2>4. ASSUME Recorded' = {}
        PROVE  SettledOf(base', log', finished', 0)
    <3>1. Recorded = {} /\ ~Busy  BY <2>1, <2>4, StopRecorded DEF Uncovered
    <3> QED  BY <1>1, <2>2, <3>1 DEF Counted
  <2> QED  BY <1>1, <2>3, <2>4 DEF Counted
<1>6. ClearsStaged(state = "open", Busy)'  BY <1>1 DEF ClearsStaged
<1> QED  BY <1>1, <1>4, <1>5, <1>6, FinishedNext

\* What every stop keeps.
LEMMA StopKeeps ==
  ASSUME Stops, HostInv', LossInv, RecordsInv, ShownInv, FinishedInv
  PROVE  FullInv'
<1>1. CallInv' /\ ShownInv' /\ TypeInv'  BY DEF Stops, CallInv, ShownInv
<1> QED  BY <1>1, StopLoss, StopRecords, StopFinished DEF FullInv, Inv

LEMMA LengthsTyped ==
  ASSUME TypeInv
  PROVE  Lengths \in [Trees -> Nat] /\ \A tr \in Trees : Lengths[tr] = Len(tree[tr])  BY Types DEF Lengths

LEMMA CloseKeeps ==
  ASSUME FullInv, Close
  PROVE  FullInv'
<1>1. TypeInv /\ HostInv /\ LossInv /\ RecordsInv /\ ShownInv /\ FinishedInv  BY DEF FullInv, Inv
<1>2. /\ ~Busy /\ state \in {"open", "failed"} /\ state' = "down" /\ safe' = Lengths /\ tree' = tree
      /\ staged' = staged /\ slot' = slot /\ todo' = todo /\ log' = log /\ base' = base
      /\ finished' = finished /\ lost' = lost /\ stale' = stale /\ exposed' = exposed  BY DEF Close, history
<1>3. TypeInv'
  <2>1. TreesOK(tree) /\ SlotsOK(slot)  BY <1>1, Types
  <2>2. Recorded = RecordsOf(slot)  BY SlotDefs
  <2> QED  BY <1>1, <1>2, <2>1, <2>2, LengthsTyped, TypedNext DEF TypeInv, Busy
<1>4. ~Busy' /\ TornSlot  BY <1>2 DEF Busy, TornSlot
<1>5. ASSUME ~exposed, stale = {}, Recorded # {}
      PROVE  /\ GoodOf(tree, slot[Newest(Recorded)], log, base)
             /\ SatisfiedBy(tree', slot[Newest(Recorded)])
  <2> DEFINE N == Newest(Recorded)
  <2>1. Good(N)  BY <1>1, <1>5 DEF RecordsInv
  <2> HIDE DEF N
  <2>2. GoodOf(tree, slot[N], log, base)  BY <2>1, GoodAll
  <2> QED  BY <1>2, <2>2 DEF GoodOf, N
<1>6. ASSUME NEW tr \in Trees
      PROVE  /\ Len(tree'[tr]) <= Len(tree[tr])
             /\ \A i \in 1..Len(tree'[tr]) : tree'[tr][i] = tree[tr][i]  BY <1>1, <1>2, Types
<1>7. ~lost' => stale' = {}  BY <1>1, <1>2 DEF LossInv
<1>8. Stops  BY <1>1, <1>2, <1>3, <1>4, <1>5, <1>6, <1>7 DEF Stops
<1>9. HostInv'
  <2>1. Recorded' = Recorded /\ Usable' = Usable /\ \A tr \in Trees : Back(tr)' = Back(tr)
    BY <1>2, SameRecords
  <2> QED  BY <1>1, <1>2, <2>1 DEF HostInv
<1> QED  BY <1>1, <1>8, <1>9, StopKeeps

LEMMA FailKeeps ==
  ASSUME FullInv, Fail
  PROVE  FullInv'
<1>1. TypeInv /\ HostInv /\ LossInv /\ RecordsInv /\ ShownInv /\ FinishedInv  BY DEF FullInv, Inv
<1>2. /\ Busy /\ ~exposed /\ todo' = <<>> /\ state' = "failed" /\ TornSlot /\ (exposed' <=> exposed \/ Uncovered)
      /\ stale' = {s \in stale : slot'[s] # Blank}
      /\ tree' = tree /\ staged' = staged /\ safe' = safe /\ log' = log /\ base' = base
      /\ finished' = finished /\ lost' = lost /\ exposed' \in BOOLEAN  BY <1>1 DEF Fail, TypeInv, Uncovered
<1>3. TypeInv'
  <2>1. TreesOK(tree) /\ SlotsOK(slot') /\ RecordsOf(slot') = {s \in Slots : slot'[s] # Blank}
    BY <1>1, <1>2, Types, RecordsLeft DEF RecordsOf
  <2>2. stale' \subseteq RecordsOf(slot')  BY <1>1, <1>2, <2>1 DEF TypeInv, Recorded
  <2>3. IsSeq(todo')  BY <1>2 DEF IsSeq
  <2> QED  BY <1>1, <1>2, <2>1, <2>2, <2>3, TypedNext DEF TypeInv
<1>4. ~Busy'  BY <1>2 DEF Busy
<1>5. ASSUME ~exposed', stale' = {}, Recorded # {}
      PROVE  /\ GoodOf(tree, slot[Newest(Recorded)], log, base)
             /\ SatisfiedBy(tree', slot[Newest(Recorded)])
  <2> DEFINE N == Newest(Recorded)
  <2>1. Good(N)  BY <1>1, <1>2, <1>5 DEF RecordsInv, Uncovered
  <2> HIDE DEF N
  <2>2. GoodOf(tree, slot[N], log, base)  BY <2>1, GoodAll
  <2> QED  BY <1>2, <2>2 DEF GoodOf, N
<1>6. ASSUME NEW tr \in Trees
      PROVE  /\ Len(tree'[tr]) <= Len(tree[tr])
             /\ \A i \in 1..Len(tree'[tr]) : tree'[tr][i] = tree[tr][i]  BY <1>1, <1>2, Types
<1>7. ~lost' => stale' = {}  BY <1>1, <1>2 DEF LossInv
<1>8. Stops  BY <1>1, <1>2, <1>3, <1>4, <1>5, <1>6, <1>7 DEF Stops
<1>9. HostInv'
  <2>1. \A tr \in Trees : \A i \in 1..Len(tree[tr]) : tree[tr][i].applied <= Len(log)
    BY <1>1, <1>2, AppliedInLog
  <2> QED  BY <1>2, <1>3, <2>1, HostNext
<1> QED  BY <1>1, <1>8, <1>9, StopKeeps

\* What a crash leaves of a tree.
LEMMA LeftIs ==
  ASSUME TypeInv, NEW tr \in Trees, NEW x \in Left(tr)
  PROVE  /\ x \in 0..Len(tree[tr]) /\ safe[tr] <= x /\ CutTo(SubSeq(tree[tr], 1, x), tree[tr], x)
         /\ lost => x = Len(tree[tr])
<1>1. safe[tr] \in Nat /\ Len(tree[tr]) \in Nat /\ safe[tr] <= Len(tree[tr]) /\ IsSeq(tree[tr])
  BY Types DEF TypeInv
<1>2. x \in 0..Len(tree[tr]) /\ safe[tr] <= x /\ (lost => x = Len(tree[tr]))  BY <1>1 DEF Left
<1> QED  BY <1>1, <1>2, Cut

LEMMA CrashTrees ==
  ASSUME TypeInv, Crash
  PROVE  /\ TreesOK(tree') /\ (lost => tree' = tree)
         /\ \A tr \in Trees : /\ IsSeq(tree'[tr]) /\ Len(tree'[tr]) \in Nat
                              /\ Len(tree'[tr]) <= Len(tree[tr]) /\ safe[tr] <= Len(tree'[tr])
                              /\ \A i \in 1..Len(tree'[tr]) : tree'[tr][i] = tree[tr][i]
<1>1. PICK x \in Left("index"), y \in Left("terms"), z \in Left("lengths") :
        tree' = [index   |-> SubSeq(tree["index"], 1, x),
                 terms   |-> SubSeq(tree["terms"], 1, y),
                 lengths |-> SubSeq(tree["lengths"], 1, z)]  BY DEF Crash
<1>2. PICK n \in [Trees -> Nat] : \A tr \in Trees : n[tr] \in Left(tr) /\ tree'[tr] = SubSeq(tree[tr], 1, n[tr])
  <2> DEFINE n == [tr \in Trees |-> IF tr = "index" THEN x ELSE IF tr = "terms" THEN y ELSE z]
  <2>1. n["index"] = x /\ n["terms"] = y /\ n["lengths"] = z  BY DEF Trees
  <2>2. x \in Nat /\ y \in Nat /\ z \in Nat
    <3>1. "index" \in Trees /\ "terms" \in Trees /\ "lengths" \in Trees  BY DEF Trees
    <3> QED  BY <3>1, LeftIs
  <2>3. n \in [Trees -> Nat]  BY <2>2
  <2>4. \A tr \in Trees : n[tr] \in Left(tr)  BY <2>1 DEF Trees
  <2> HIDE DEF n
  <2>5. \A tr \in Trees : tree'[tr] = SubSeq(tree[tr], 1, n[tr])  BY <1>1, <2>1 DEF Trees
  <2> QED  BY <2>3, <2>4, <2>5
<1>3. tree' = [tr \in Trees |-> tree'[tr]]  BY <1>1 DEF Trees
<1>4. ASSUME NEW tr \in Trees
      PROVE  /\ n[tr] \in 0..Len(tree[tr]) /\ safe[tr] <= n[tr] /\ CutTo(tree'[tr], tree[tr], n[tr])
             /\ lost => n[tr] = Len(tree[tr])  BY <1>2, LeftIs
<1>5. ASSUME NEW tr \in Trees
      PROVE  /\ IsSeq(tree'[tr]) /\ Len(tree'[tr]) = n[tr] /\ Len(tree'[tr]) \in Nat
             /\ Len(tree'[tr]) <= Len(tree[tr]) /\ safe[tr] <= Len(tree'[tr])
             /\ \A i \in 1..Len(tree'[tr]) : tree'[tr][i] = tree[tr][i] /\ i \in 1..Len(tree[tr])
  <2>1. Len(tree[tr]) \in Nat  BY Types
  <2> QED  BY <1>4, <2>1 DEF CutTo
<1>6. TreesOK(tree')
  <2>1. \A tr \in Trees : \A i \in DOMAIN tree'[tr] : VersionOK(tr, tree'[tr][i])
    <3>1. TreesOK(tree) /\ \A tr \in Trees : DOMAIN tree'[tr] = 1..Len(tree'[tr])  BY <1>5, SeqFacts, Types
    <3>2. ASSUME NEW tr \in Trees, NEW i \in 1..Len(tree'[tr]) PROVE VersionOK(tr, tree'[tr][i])
      <4>1. tree'[tr][i] = tree[tr][i] /\ i \in 1..Len(tree[tr])  BY <1>5
      <4> QED  BY <3>1, <4>1, VersionAt
    <3> QED  BY <3>1, <3>2
  <2> QED  BY <1>3, <1>5, <2>1 DEF TreesOK
<1>7. ASSUME lost PROVE tree' = tree
  <2>1. ASSUME NEW tr \in Trees PROVE tree'[tr] = tree[tr]
    <3>1. n[tr] = Len(tree[tr]) /\ tree'[tr] = SubSeq(tree[tr], 1, n[tr]) /\ IsSeq(tree[tr])
      BY <1>2, <1>4, <1>7, Types
    <3>2. \A s : IsSeq(s) => SubSeq(s, 1, Len(s)) = s  BY DEF IsSeq
    <3> QED  BY <3>1, <3>2
  <2>2. tree = [tr \in Trees |-> tree[tr]]  BY DEF TypeInv
  <2> QED  BY <1>3, <2>1, <2>2
<1> QED  BY <1>5, <1>6, <1>7

LEMMA CrashKeeps ==
  ASSUME FullInv, Crash
  PROVE  FullInv'
<1>1. TypeInv /\ HostInv /\ LossInv /\ RecordsInv /\ ShownInv /\ FinishedInv  BY DEF FullInv, Inv
<1>2. /\ state \in {"open", "failed"} /\ ~exposed /\ (lost' <=> lost \/ tree' # tree)
      /\ (exposed' <=> exposed \/ ((Busy \/ tree' # tree) /\ Uncovered))
      /\ TornSlot /\ stale' = {s \in Slots : slot'[s] # Blank /\
                                 \E tr \in Trees : slot'[s].lens[tr] > Len(tree'[tr])}
      /\ state' = "down" /\ todo' = <<>> /\ staged' = staged /\ safe' = safe /\ log' = log
      /\ base' = base /\ finished' = finished /\ lost' \in BOOLEAN /\ exposed' \in BOOLEAN
  BY <1>1 DEF Crash, TypeInv, Uncovered
<1>3. /\ TreesOK(tree') /\ (lost => tree' = tree)
      /\ \A tr \in Trees : /\ IsSeq(tree'[tr]) /\ Len(tree'[tr]) \in Nat
                           /\ Len(tree'[tr]) <= Len(tree[tr]) /\ safe[tr] <= Len(tree'[tr])
                           /\ \A i \in 1..Len(tree'[tr]) : tree'[tr][i] = tree[tr][i]  BY <1>1, CrashTrees
<1>4. TypeInv'
  <2>1. SlotsOK(slot') /\ RecordsOf(slot') = {s \in Slots : slot'[s] # Blank}
    BY <1>1, <1>2, Types, RecordsLeft DEF RecordsOf
  <2>2. stale' \subseteq RecordsOf(slot')  BY <1>2, <2>1
  <2>3. IsSeq(todo')  BY <1>2 DEF IsSeq
  <2> QED  BY <1>1, <1>2, <1>3, <2>1, <2>2, <2>3, TypedNext DEF TypeInv
<1>5. ~Busy'  BY <1>2 DEF Busy
<1>6. /\ RecordsOf(slot') \subseteq Recorded /\ \A s \in RecordsOf(slot') : slot'[s] = slot[s]
      /\ Recorded # {} => Newest(Recorded) \in RecordsOf(slot')
      /\ ~Busy => slot' = slot
      /\ SlotsOK(slot') /\ SlotsOK(slot) /\ Recorded = RecordsOf(slot)
  BY <1>1, <1>2, Types, SlotDefs, RecordsLeft
<1>7. ASSUME NEW s \in RecordsOf(slot'), s \notin stale' PROVE SatisfiedBy(tree', slot'[s])
  <2>1. s \in Slots /\ slot'[s] # Blank /\ slot'[s].lens \in [Trees -> Nat \ {0}]
    BY <1>6, <1>7, RecordIs DEF RecordsOf
  <2>2. ASSUME NEW tr \in Trees PROVE slot'[s].lens[tr] <= Len(tree'[tr])
    <3>1. ~(slot'[s].lens[tr] > Len(tree'[tr]))  BY <1>2, <1>7, <2>1
    <3>2. slot'[s].lens[tr] \in Nat /\ Len(tree'[tr]) \in Nat  BY <1>3, <2>1
    <3> QED  BY <3>1, <3>2
  <2> QED  BY <2>2 DEF SatisfiedBy
<1>8. ASSUME ~exposed', stale' = {}, Recorded # {}
      PROVE  /\ GoodOf(tree, slot[Newest(Recorded)], log, base)
             /\ SatisfiedBy(tree', slot[Newest(Recorded)])
  <2> DEFINE N == Newest(Recorded)
  <2>1. N \in RecordsOf(slot') /\ slot'[N] = slot[N] /\ SatisfiedBy(tree', slot'[N]) /\ N \in Recorded
    BY <1>6, <1>7, <1>8
  <2>2. N = Latest(slot, RecordsOf(slot))  BY <1>6, SlotDefs
  <2> HIDE DEF N
  <2>3. Good(N)
    <3>1. CASE Busy \/ tree' # tree  BY <1>1, <1>2, <1>8, <3>1 DEF RecordsInv, Uncovered, N
    <3>2. CASE ~Busy /\ tree' = tree
      <4>1. SatisfiedBy(tree, slot[N])  BY <2>1, <3>2
      <4>2. Usable = UsableOf(tree, slot) /\ N \in Usable /\ Usable \in SUBSET RecordsOf(slot)
        BY <1>6, <2>1, <4>1, SlotDefs DEF UsableOf
      <4>3. \A r \in RecordsOf(slot) : slot[r].txn <= slot[N].txn  BY <1>6, <1>8, <2>2, LatestIs
      <4>4. \A r \in Usable : slot[r].txn <= slot[N].txn  BY <4>2, <4>3
      <4>5. Latest(slot, Usable) = N  BY <1>6, <4>2, <4>4, LatestOnly
      <4>6. Newest(Usable) = N  BY <4>5, SlotDefs
      <4> QED  BY <1>1, <1>2, <3>2, <4>2, <4>6 DEF RecordsInv
    <3> QED  BY <3>1, <3>2
  <2>4. GoodOf(tree, slot[N], log, base)  BY <2>3, GoodAll
  <2> QED  BY <2>1, <2>4 DEF N
<1>9. ~lost' => ~lost /\ tree' = tree /\ stale' = {}
  <2> SUFFICES ASSUME ~lost' PROVE ~lost /\ tree' = tree /\ stale' = {}  OBVIOUS
  <2>1. ~lost /\ tree' = tree  BY <1>2
  <2>2. ASSUME NEW s \in stale' PROVE FALSE
    <3>1. s \in RecordsOf(slot')  BY <1>2, <2>2 DEF RecordsOf
    <3>2. s \in Recorded /\ slot'[s] = slot[s]  BY <3>1, <1>6
    <3>3. Satisfied(s)  BY <2>1, <3>2, <1>1 DEF LossInv
    <3>4. PICK tr \in Trees : slot[s].lens[tr] > Len(tree[tr])  BY <1>2, <2>1, <2>2, <3>2
    <3>5. slot[s].lens[tr] <= Len(tree[tr]) /\ Len(tree[tr]) \in Nat  BY <3>3, <1>1, Types DEF Satisfied
    <3>6. slot[s].lens \in [Trees -> Nat \ {0}]  BY <3>2, <1>6, RecordIs
    <3>7. slot[s].lens[tr] \in Nat  BY <3>6
    <3> QED  BY <3>4, <3>5, <3>7
  <2> QED  BY <2>1, <2>2
<1>10. Stops  BY <1>1, <1>2, <1>3, <1>4, <1>5, <1>8, <1>9 DEF Stops
<1>11. HostInv'
  <2>1. \A tr \in Trees : \A i \in 1..Len(tree[tr]) : tree[tr][i].applied <= Len(log)
    BY <1>1, <1>2, AppliedInLog
  <2>2. ASSUME NEW tr \in Trees, NEW i \in 1..Len(tree'[tr]) PROVE tree'[tr][i].applied <= Len(log')
    <3>1. tree'[tr][i] = tree[tr][i] /\ i \in 1..Len(tree[tr])
      <4> DEFINE n == Len(tree[tr])
                 l == Len(tree'[tr])
      <4>1. n \in Nat /\ l \in Nat /\ l <= n /\ i \in 1..l /\ tree'[tr][i] = tree[tr][i]  BY <1>1, <1>3, Types
      <4> HIDE DEF n, l
      <4>2. i \in 1..n  BY <4>1
      <4> QED  BY <4>1, <4>2 DEF n
    <3> QED  BY <2>1, <3>1, <1>2
  <2> QED  BY <1>2, <1>4, <2>2, HostNext
<1> QED  BY <1>1, <1>10, <1>11, StopKeeps

----
(* The host calls for an operation.                                        *)

LEMMA AppliedIs ==
  ASSUME TypeInv
  PROVE  /\ AppliedIndex \in Nat /\ \A tr \in Trees : AppliedIndex <= staged[tr]
         /\ \E tr \in Trees : AppliedIndex = staged[tr]
<1> DEFINE S == {staged[tr] : tr \in Trees}
<1>1. S \in SUBSET Nat /\ S # {} /\ \A tr \in Trees : staged[tr] \in S  BY Types DEF Trees
<1>2. AppliedIndex = Min(S)  BY DEF AppliedIndex
<1> HIDE DEF S
<1>3. AppliedIndex \in S /\ \A y \in S : AppliedIndex <= y  BY <1>1, <1>2, MinOfNats
<1> QED  BY <1>1, <1>3 DEF S

LEMMA CallIs ==
  ASSUME TypeInv, HostInv, Call
  PROVE  \E a \in Nat : \E o \in Operations : Calls(a, o)
<1> DEFINE b == AppliedIndex
           a == b + 1
<1>1. /\ state = "open" /\ ~Busy
      /\ UNCHANGED <<tree, safe, slot, state, base, lost, stale, exposed>>  BY DEF Call, Idle
<1>2. b \in Nat /\ (\A tr \in Trees : b <= staged[tr]) /\ \E tr \in Trees : b = staged[tr]  BY AppliedIs
<1>3. log \in Seq(Operations) /\ Len(log) \in Nat /\ staged \in [Trees -> Nat]  BY Types
<1>4. b <= Len(log)
  <2>1. PICK tr \in Trees : staged[tr] <= Len(log)  BY <1>1 DEF HostInv
  <2>2. b <= staged[tr] /\ staged[tr] \in Nat  BY <1>2, <1>3
  <2> HIDE DEF b
  <2> QED  BY <1>2, <1>3, <2>1, <2>2
<1>5. PICK o \in IF a <= Len(log) THEN {log[a]} ELSE IF exposed THEN {ClearOp} ELSE Operations :
       /\ log' = IF a <= Len(log) THEN log ELSE Append(log, o)
       /\ staged' = [tr \in Trees |-> a]
       /\ todo' = Writes(o)
       /\ finished' = IF todo' = <<>> THEN Max({finished, a}) ELSE finished  BY DEF Call
<1> HIDE DEF b
<1>6. o \in Operations
  <2>1. CASE a <= Len(log)
    <3>1. a \in 1..Len(log) /\ o = log[a]  BY <1>2, <1>3, <1>5, <2>1
    <3> HIDE DEF a
    <3> QED  BY <3>1, <1>3
  <2>2. ClearOp \in Operations  BY DEF Operations
  <2> QED  BY <1>5, <2>1, <2>2
<1>7. /\ log' \in Seq(Operations) /\ Len(log) <= Len(log') /\ \A i \in 1..Len(log) : log'[i] = log[i]
      /\ a \in 1..Len(log') /\ log'[a] = o
  <2>1. CASE a <= Len(log)
    <3>1. log' = log /\ o = log[a]  BY <1>5, <2>1
    <3> QED  BY <3>1, <2>1, <1>2, <1>3
  <2>2. CASE ~(a <= Len(log))
    <3>1. log' = Append(log, o)  BY <1>5, <2>2
    <3>2. a = Len(log) + 1  BY <2>2, <1>2, <1>3, <1>4
    <3> HIDE DEF a
    <3> QED  BY <3>1, <3>2, <1>3, <1>6
  <2> QED  BY <2>1, <2>2
<1>8. a \in Nat /\ a - 1 = b  BY <1>2
<1> HIDE DEF a
<1>9. Calls(a, o)  BY <1>1, <1>2, <1>4, <1>5, <1>6, <1>7, <1>8 DEF Calls
<1> QED  BY <1>6, <1>8, <1>9

\* What the call is going to write.
LEMMA CallPlan ==
  ASSUME NEW a \in Nat, NEW o \in Operations, Calls(a, o)
  PROVE  /\ IsSeq(todo') /\ (todo' = <<>> => o.op = "remove" /\ o.doc \notin DOMAIN Map("terms"))
         /\ o.op = "clear" => todo' = ClearWrites
         /\ todo' # <<>> /\ o.op # "clear" =>
              /\ Updating(todo', o) /\ Len(todo') > 3
              /\ o.op = "remove" => o.doc \in DOMAIN Map("terms")
              /\ SubSeq(todo', 1, Len(todo') - 4) =
                   (IF o.op = "add" THEN AddPosts(Map("index"), Map("terms"), o)
                                    ELSE RemovePosts(Map("index"), Map("terms"), o))
              /\ todo'[Len(todo') - 1].val = NewSum(Map("index"), Map("terms"), Map("lengths"), o)
<1> DEFINE ws == todo'
           m == Map("index")
           terms == Map("terms")
           lens == Map("lengths")
<1>1. ws = Writes(o) /\ IndexMap(m) /\ terms \in DocMaps  BY OpenTypes DEF Calls
<1>2. \/ Writes(o) = <<>> /\ o.op = "remove" /\ o.doc \notin DOMAIN terms
      \/ o.op = "add" /\ Planned(Writes(o), o, AddPosts(m, terms, o), NewSum(m, terms, lens, o))
      \/ /\ o.op = "remove" /\ o.doc \in DOMAIN terms
         /\ Planned(Writes(o), o, RemovePosts(m, terms, o), NewSum(m, terms, lens, o))
      \/ o.op = "clear" /\ Writes(o) = ClearWrites  BY <1>1, WritesAre
<1>3. IsSeq(ClearWrites) /\ ClearWrites # <<>> /\ IsSeq(<<>>)  BY DEF ClearWrites, IsSeq, ToSet
<1> HIDE DEF ws, m, terms, lens
<1> USE <1>1
<1>4. CASE Writes(o) = <<>> /\ o.op = "remove" /\ o.doc \notin DOMAIN terms
  BY <1>3, <1>4 DEF ws, m, terms, lens
<1>5. CASE o.op = "add" /\ Planned(Writes(o), o, AddPosts(m, terms, o), NewSum(m, terms, lens, o))
  BY <1>5 DEF Planned, ws, m, terms, lens
<1>6. CASE /\ o.op = "remove" /\ o.doc \in DOMAIN terms
           /\ Planned(Writes(o), o, RemovePosts(m, terms, o), NewSum(m, terms, lens, o))
  BY <1>6 DEF Planned, ws, m, terms, lens
<1>7. CASE o.op = "clear" /\ Writes(o) = ClearWrites  BY <1>3, <1>7 DEF ws, m, terms, lens
<1> QED  BY <1>2, <1>4, <1>5, <1>6, <1>7

LEMMA CallTyped ==
  ASSUME NEW a \in Nat, NEW o \in Operations, Calls(a, o)
  PROVE  TypeInv'
<1>1. TreesOK(tree) /\ SlotsOK(slot) /\ finished \in Nat /\ finished <= Len(log) /\ Len(log) \in Nat
  BY Types DEF Calls
<1>2. IsSeq(todo')  BY CallPlan
<1>3. finished' \in 0..Len(log')
  <2>1. Len(log') \in Nat /\ a <= Len(log') /\ Len(log) <= Len(log')  BY DEF Calls
  <2>2. Max({finished, a}) \in {finished, a}  BY <1>1, LongerOf
  <2>3. finished' \in {finished, a}  BY <2>2 DEF Calls
  <2> QED  BY <1>1, <2>1, <2>3
<1>4. Recorded = RecordsOf(slot)  BY SlotDefs
<1> QED  BY <1>1, <1>2, <1>3, <1>4, TypedNext DEF Calls, TypeInv

LEMMA CallCalls ==
  ASSUME NEW a \in Nat, NEW o \in Operations, Calls(a, o)
  PROVE  CallInv'
<1>1. /\ staged' = [tr \in Trees |-> a] /\ a \in 1..Len(log') /\ log'[a] = o /\ staged'["index"] = a
  BY DEF Calls, Trees
<1>2. (Clear(a))' <=> o.op = "clear"  BY <1>1 DEF Clear
<1>3. ASSUME todo' # <<>>, o.op # "clear" PROVE Updating(todo', o) /\ ~(Len(todo') <= 1)
  <2>1. IsSeq(todo') /\ Updating(todo', o) /\ Len(todo') > 3  BY <1>3, CallPlan
  <2>2. Len(todo') \in Nat  BY <2>1, SeqFacts
  <2> QED  BY <2>1, <2>2
<1>4. ASSUME o.op = "clear" PROVE Clearing(todo') /\ Len(todo') = 5
  <2>1. todo' = ClearWrites  BY <1>4, CallPlan
  <2>2. Len(ClearWrites) = 5  BY DEF ClearWrites
  <2> QED  BY <2>1, <2>2 DEF Clearing
<1> SUFFICES ASSUME Busy'
             PROVE  /\ ~(o.op = "clear") => /\ Updating(todo', o)
                                            /\ ~(Len(todo') <= 1)
                    /\ o.op = "clear" => Clearing(todo') /\ Len(todo') = 5
  <2>1. (Clear(staged["index"]))' <=> o.op = "clear"  BY <1>1 DEF Clear
  <2> QED  BY <1>1, <2>1, SMTT(40) DEF CallInv
<1> QED  BY <1>3, <1>4 DEF Busy

LEMMA CallHost ==
  ASSUME NEW a \in Nat, NEW o \in Operations, Calls(a, o), HostInv, LossInv
  PROVE  HostInv' /\ LossInv'
<1>1. /\ staged' = [tr \in Trees |-> a] /\ a <= Len(log') /\ tree' = tree /\ slot' = slot /\ ~Busy
      /\ Len(log) <= Len(log') /\ Len(log) \in Nat /\ Len(log') \in Nat /\ "index" \in Trees /\ TypeInv
      /\ lost' = lost /\ stale' = stale /\ state' = state  BY Types DEF Calls, Trees
<1>2. Recorded' = Recorded /\ Usable' = Usable /\ \A tr \in Trees : Back(tr)' = Back(tr)  BY <1>1, SameRecords
<1>3. ASSUME Recorded # {} => Usable # {}
      PROVE  \E tr \in Trees : Back(tr)'.applied <= Len(log')
  <2>1. PICK tr \in Trees : Back(tr).applied <= Len(log)  BY <1>1, <1>3 DEF HostInv
  <2>2. Back(tr).applied \in Nat
    <3>1. CASE Back(tr).applied = 0  BY <3>1
    <3>2. CASE \E i \in 1..Len(tree[tr]) : Back(tr) = tree[tr][i]  BY <3>2, <1>1, Types, VersionAt
    <3> QED  BY <1>1, <1>3, <3>1, <3>2, BackIs
  <2> QED  BY <1>1, <1>2, <2>1, <2>2
<1>4. HostInv'
  <2>1. staged'["index"] <= Len(log')  BY <1>1
  <2> QED  BY <1>1, <1>2, <1>3, <2>1 DEF HostInv
<1>5. LossInv'  BY <1>1, <1>2 DEF LossInv, Satisfied
<1> QED  BY <1>4, <1>5

LEMMA CallContents ==
  ASSUME NEW a \in Nat, NEW o \in Operations, Calls(a, o)
  PROVE  /\ \A j \in 0..Len(log) : DocsAfter(base', log', j) = DocsAfter(base, log, j)
         /\ DocsAfter(base', log', a) = Effect(DocsAfter(base, log, a - 1), o)
         /\ DocsAfter(base, log, a - 1) \in DocMaps
<1>1. /\ log \in Seq(Operations) /\ log' \in Seq(Operations) /\ base \in DocMaps /\ base' = base
      /\ Len(log) \in Nat /\ Len(log') \in Nat /\ Len(log) <= Len(log') /\ \A i \in 1..Len(log) : log'[i] = log[i]
      /\ a \in 1..Len(log') /\ log'[a] = o /\ a - 1 <= Len(log)  BY Types DEF Calls
<1> DEFINE l == log
           k == log'
           b == base
<1>2. /\ l \in Seq(Operations) /\ k \in Seq(Operations) /\ b \in DocMaps /\ Len(l) \in Nat /\ Len(k) \in Nat
      /\ Len(l) <= Len(k) /\ (\A i \in 1..Len(l) : k[i] = l[i])
      /\ a \in 1..Len(k) /\ k[a] = o /\ a - 1 <= Len(l)  BY <1>1
<1> HIDE DEF l, k, b
<1>3. ASSUME NEW j \in 0..Len(l) PROVE DocsAfter(b, k, j) = DocsAfter(b, l, j)
  <2>1. j \in Nat /\ j <= Len(l) /\ j <= Len(k) /\ \A i \in 1..j : l[i] = k[i]  BY <1>2
  <2> QED  BY <1>2, <2>1, DocsAgree
<1>4. a - 1 \in 0..Len(l)  BY <1>2
<1>5. DocsAfter(b, k, a) = Effect(DocsAfter(b, k, a - 1), k[a]) /\ DocsAfter(b, l, a - 1) \in DocMaps
  BY <1>2, <1>4, DocsStep
<1> QED  BY <1>1, <1>2, <1>3, <1>4, <1>5 DEF l, k, b

LEMMA CallShows ==
  ASSUME NEW a \in Nat, NEW o \in Operations, Calls(a, o), ShownInv, ~exposed
  PROVE  /\ staged = [tr \in Trees |-> a - 1] /\ staged["index"] = a - 1
         /\ ShowsOf(base, log, a - 1, Map("index"), Map("terms"), Map("lengths"))
<1>1. state = "open" /\ ~Busy /\ TypeInv /\ \E tr \in Trees : a - 1 = staged[tr]  BY DEF Calls
<1> DEFINE b == staged["index"]
           c == Clear(b)
<1>2. ShownFull(b, Busy, c)  BY <1>1, ShownIs
<1> HIDE DEF b, c
<1>3. staged = [tr \in Trees |-> b] /\ ShowsOf(base, log, b, Map("index"), Map("terms"), Map("lengths"))
  BY <1>1, <1>2 DEF ShownFull
<1>4. b = a - 1  BY <1>1, <1>3
<1> QED  BY <1>3, <1>4 DEF b

LEMMA CallHalf ==
  ASSUME NEW a \in Nat, NEW o \in Operations, Calls(a, o), ShownInv, ~exposed,
         todo' # <<>>, o.op # "clear"
  PROVE  HalfNow(todo, a)'
<1>1. /\ TypeInv /\ state = "open" /\ tree' = tree /\ log'[a] = o  BY DEF Calls
<1> DEFINE ws == todo'
           m == Map("index")
           terms == Map("terms")
           lens == Map("lengths")
           ta == Last(tree["terms"]).applied
           la == Last(tree["lengths"]).applied
           old == DocsAfter(base, log, a - 1)
           new == DocsAfter(base', log', a)
           ps == SubSeq(ws, 1, Len(ws) - 4)
           v == ws[Len(ws) - 1].val
<1>2. /\ Map("index")' = m /\ Map("terms")' = terms /\ Map("lengths")' = lens
      /\ Last(tree'["terms"]).applied = ta /\ Last(tree'["lengths"]).applied = la  BY <1>1 DEF Map
<1>3. DocsAfter(base', log', a - 1) = old /\ new = Effect(old, o) /\ old \in DocMaps
  <2>1. a - 1 \in 0..Len(log)  BY Types DEF Calls
  <2> QED  BY <2>1, CallContents
<1>4. terms = old /\ lens = LengthsOf(old) /\ Serves(m, old)  BY CallShows DEF ShowsOf
<1>5. IndexMap(m)  BY <1>1, OpenTypes
<1>6. /\ Len(ws) > 3 /\ IsSeq(ws) /\ (o.op = "remove" => o.doc \in DOMAIN terms)
      /\ ps = (IF o.op = "add" THEN AddPosts(m, terms, o) ELSE RemovePosts(m, terms, o))
      /\ v = NewSum(m, terms, lens, o)  BY CallPlan
<1>7. o.op = "add" \/ o.op = "remove"  BY OperationIs
<1>8. HalfNow(todo, a)' = HalfOf(ws, m, terms, lens, ta, la, old, new, o, a)  BY <1>1, <1>2, <1>3 DEF HalfNow
<1>9. Len(ws) \in Nat  BY <1>6, SeqFacts
<1> DEFINE n == Len(ws)
<1> HIDE DEF m, terms, lens, ta, la, old, new, n, ws, v
<1>10. PostingsOK(AfterAll(m, ps), new) /\ v = SumFunction(LengthsOf(new))
  <2> HIDE DEF ps
  <2>1. CASE o.op = "add"  BY <1>3, <1>4, <1>5, <1>6, <2>1, AddServes
  <2>2. CASE o.op = "remove"  BY <1>3, <1>4, <1>5, <1>6, <2>2, RemoveServes
  <2> QED  BY <1>7, <2>1, <2>2
<1>11. o.op = "remove" => o.doc \in DOMAIN lens  BY <1>4, <1>6, LensOf
<1>12. n > 3 /\ n \in Nat  BY <1>6, <1>9 DEF n
<1>13. v = ws[n - 1].val /\ ps = SubSeq(ws, 1, n - 4)  BY DEF n, v
<1> HIDE DEF ps
<1>14. HalfOf(ws, m, terms, lens, ta, la, old, new, o, a) =
         (/\ n > 3 => terms = old
          /\ n <= 3 => terms = new /\ ta = a
          /\ n > 2 => lens = LengthsOf(old) /\ (o.op = "remove" => o.doc \in DOMAIN lens)
          /\ n <= 2 => lens = LengthsOf(new) /\ la = a
          /\ n > 1 => /\ PostingsOK(AfterAll(m, ps), new)
                      /\ v = SumFunction(LengthsOf(new))
          /\ n <= 1 => Serves(m, new))  BY <1>13 DEF HalfOf, n
<1>15. HalfOf(ws, m, terms, lens, ta, la, old, new, o, a)  BY <1>4, <1>10, <1>11, <1>12, <1>14
<1> QED  BY <1>8, <1>15

LEMMA CallShown ==
  ASSUME NEW a \in Nat, NEW o \in Operations, Calls(a, o), ShownInv
  PROVE  ShownInv'
<1>1. /\ staged' = [tr \in Trees |-> a] /\ a <= Len(log') /\ log'[a] = o /\ staged'["index"] = a
      /\ tree' = tree /\ exposed' = exposed  BY DEF Calls, Trees
<1>2. (Clear(a))' <=> o.op = "clear"  BY <1>1 DEF Clear
<1>3. ASSUME ~exposed, ~Busy'
      PROVE  ShowsOf(base', log', a, Map("index")', Map("terms")', Map("lengths")')
  <2> DEFINE old == DocsAfter(base, log, a - 1)
  <2>1. o.op = "remove" /\ o.doc \notin DOMAIN Map("terms")  BY <1>3, CallPlan DEF Busy
  <2>2. ShowsOf(base, log, a - 1, Map("index"), Map("terms"), Map("lengths"))  BY <1>3, CallShows
  <2>3. DocsAfter(base', log', a) = Effect(old, o) /\ old \in DocMaps  BY CallContents
  <2>4. Map("index")' = Map("index") /\ Map("terms")' = Map("terms") /\ Map("lengths")' = Map("lengths")
    BY <1>1 DEF Map
  <2>5. Map("terms") = old  BY <2>2 DEF ShowsOf
  <2> HIDE DEF old
  <2>6. IsFcn(old)  BY <2>3, MapsOfDocs
  <2>7. Effect(old, o) = Without(old, o.doc)  BY <2>1 DEF Effect
  <2>8. Without(old, o.doc) = old
    <3> DEFINE d == o.doc
    <3>1. d \notin DOMAIN old  BY <2>1, <2>5
    <3> HIDE DEF d
    <3>2. Without(old, d) = old  BY <3>1, <2>6, WithoutIs
    <3> QED  BY <3>2 DEF d
  <2>9. DocsAfter(base', log', a) = old  BY <2>3, <2>7, <2>8
  <2> QED  BY <2>2, <2>4, <2>9 DEF ShowsOf, old
<1>4. ASSUME ~exposed, Busy', ~(Clear(a))' PROVE HalfNow(todo, a)'  BY <1>2, <1>4, CallHalf DEF Busy
<1>5. ASSUME ~exposed PROVE ShownFull(staged["index"], Busy, Clear(staged["index"]))'
  <2>1. (Clear(staged["index"]))' = (Clear(a))'  BY <1>1 DEF Clear
  <2>2. HalfNow(todo, staged["index"])' = HalfNow(todo, a)'  BY <1>1 DEF HalfNow
  <2>3. ASSUME ~Busy' PROVE ShowsOf(base', log', staged'["index"], Map("index")', Map("terms")', Map("lengths")')
    BY <1>1, <1>3, <1>5, <2>3
  <2> QED  BY <1>1, <1>4, <1>5, <2>1, <2>2, <2>3 DEF ShownFull
<1> QED  BY <1>1, <1>5, ShownNext

LEMMA CallRecords ==
  ASSUME NEW a \in Nat, NEW o \in Operations, Calls(a, o), LossInv, RecordsInv, ShownInv
  PROVE  RecordsInv'
<1>1. /\ TypeInv /\ TypeInv' /\ state = "open" /\ state' = "open" /\ ~Busy /\ staged'["index"] = a
      /\ tree' = tree /\ slot' = slot /\ base' = base /\ lost' = lost /\ stale' = stale /\ exposed' = exposed
      /\ Len(log) <= Len(log') /\ Len(log) \in Nat /\ Len(log') \in Nat /\ \A i \in 1..Len(log) : log'[i] = log[i]
      /\ SlotsOK(slot) /\ TreesOK(tree)
  <2>1. TypeInv /\ TypeInv'  BY CallTyped DEF Calls
  <2>2. "index" \in Trees /\ Len(log') \in Nat  BY <2>1 DEF Trees, TypeInv
  <2>3. SlotsOK(slot) /\ TreesOK(tree) /\ Len(log) \in Nat  BY <2>1, Types
  <2> QED  BY <2>1, <2>2, <2>3 DEF Calls
<1>2. /\ Recorded' = Recorded /\ Usable' = Usable /\ Newest(Recorded)' = Newest(Recorded)
      /\ Newest(Usable)' = Newest(Usable)  BY <1>1, SameRecords
<1>3. ASSUME NEW s \in Recorded, GoodOf(tree, slot[s], log, base)
      PROVE  GoodOf(tree', slot'[s], log', base')
  <2>1. s \in RecordsOf(slot) /\ SatisfiedBy(tree, slot[s]) /\ PointOf(tree, slot[s]) <= Len(log)
    BY <1>3, SlotDefs DEF GoodOf
  <2>2. Satisfied(s)  BY <2>1, SlotDefs
  <2>3. Agree(tree, tree', slot[s].lens)  BY <1>1, <1>3, <2>2, SameAgrees
  <2>4. PointOf(tree, slot[s]) \in Nat
    <3> DEFINE r == slot[s]
               vs == tree
    <3>1. r.lens \in [Trees -> Nat \ {0}] /\ SatisfiedBy(vs, r) /\ TreesOK(vs)  BY <1>1, <2>1, RecordIs
    <3> HIDE DEF r, vs
    <3>2. PointOf(vs, r) \in Nat  BY <3>1, PointIs
    <3> QED  BY <3>2 DEF r, vs
  <2> DEFINE p == PointOf(tree, slot[s])
  <2>5. p <= Len(log) /\ p \in Nat  BY <2>1, <2>4
  <2> HIDE DEF p
  <2>6. p <= Len(log') /\ \A i \in 1..p : log'[i] = log[i]  BY <1>1, <2>5
  <2> QED  BY <1>1, <1>3, <2>3, <2>6, GoodKept DEF p
<1>4. ASSUME ~exposed PROVE RecordsFull(a, Busy)'
  <2>1. staged["index"] = a - 1  BY <1>4, CallShows
  <2>2. RecordsFull(a - 1, FALSE)
    <3> DEFINE b == IF state = "open" THEN staged["index"] ELSE Len(log)
    <3>1. RecordsFull(b, Busy)  BY <1>1, <1>4, RecordsIs
    <3>2. b = a - 1  BY <1>1, <2>1
    <3> HIDE DEF b
    <3>3. RecordsFull(a - 1, Busy)  BY <3>1, <3>2
    <3> QED  BY <3>3, <1>1 DEF RecordsFull
  <2>3. ASSUME NEW tr \in Trees, NEW i \in 1..Len(tree'[tr]) PROVE tree'[tr][i].applied <= a
    <3>1. tree[tr][i].applied \in Nat /\ tree[tr][i].applied <= a - 1
      BY <1>1, <2>2, <2>3, VersionAt DEF RecordsFull
    <3> QED  BY <1>1, <3>1
  <2>4. ASSUME stale' = {}, Recorded' # {} PROVE GoodOf(tree', slot'[Newest(Recorded)'], log', base')
    <3> DEFINE N == Newest(Recorded)
    <3>1. GoodOf(tree, slot[N], log, base) /\ N = Latest(slot, RecordsOf(slot))
      BY <1>1, <1>2, <2>2, <2>4, SlotDefs DEF RecordsFull
    <3>2. N \in Recorded  BY <1>1, <1>2, <2>4, <3>1, SlotDefs, LatestIs
    <3> HIDE DEF N
    <3>3. GoodOf(tree', slot'[N], log', base')  BY <1>3, <3>1, <3>2
    <3> QED  BY <3>3, <1>2 DEF N
  <2>5. ASSUME Usable' # {} PROVE GoodOf(tree', slot'[Newest(Usable)'], log', base')
    <3> DEFINE U == Newest(Usable)
    <3>1. GoodOf(tree, slot[U], log, base) /\ U = Latest(slot, Usable) /\ Usable \in SUBSET RecordsOf(slot)
      BY <1>1, <1>2, <2>2, <2>5, SlotDefs DEF RecordsFull, UsableOf
    <3>2. U \in Usable /\ U \in Recorded  BY <1>1, <1>2, <2>5, <3>1, SlotDefs, LatestIs
    <3> HIDE DEF U
    <3>3. GoodOf(tree', slot'[U], log', base')  BY <1>3, <3>1, <3>2
    <3> QED  BY <3>3, <1>2 DEF U
  <2>6. ASSUME ~lost', NEW s \in Recorded' PROVE GoodOf(tree', slot'[s], log', base')
    BY <1>1, <1>2, <1>3, <2>2, <2>6 DEF RecordsFull
  <2>7. ASSUME Recorded' = {}
        PROVE  /\ \A tr \in Trees : Len(tree'[tr]) = 1 /\ tree'[tr][1].applied = 0
               /\ ShowsOf(base', log', 0, tree'["index"][1].map, tree'["terms"][1].map, tree'["lengths"][1].map)
    <3>1. /\ \A tr \in Trees : Len(tree[tr]) = 1 /\ tree[tr][1].applied = 0
          /\ ShowsOf(base, log, 0, tree["index"][1].map, tree["terms"][1].map, tree["lengths"][1].map)
      BY <1>2, <2>2, <2>7 DEF RecordsFull
    <3>2. DocsAfter(base', log', 0) = DocsAfter(base, log, 0)  BY <1>1, CallContents
    <3> QED  BY <1>1, <3>1, <3>2 DEF ShowsOf
  <2> QED  BY <2>3, <2>4, <2>5, <2>6, <2>7 DEF RecordsFull
<1> QED  BY <1>1, <1>4, RecordsNext

\* The clears behind the index and what has finished, once the call has begun.
LEMMA CallOver ==
  ASSUME NEW a \in Nat, NEW o \in Operations, Calls(a, o)
  PROVE  /\ finished \in Nat /\ finished' \in Nat /\ finished <= Len(log)
         /\ Busy' => finished' = finished
         /\ ~Busy' => a <= finished' /\ finished <= finished' /\ (finished' = a \/ finished' = finished) /\ o.op = "remove"
         /\ \A j \in 1..Len(log') : Over(j)' => j \in 1..Len(log) /\ Over(j)
         /\ \A j \in Nat : j < a => \A tr \in Trees : j <= staged[tr]
<1>1. /\ TypeInv /\ state = "open" /\ state' = "open" /\ ~Busy /\ staged' = [tr \in Trees |-> a] /\ staged'["index"] = a
      /\ log'[a] = o /\ a - 1 <= Len(log) /\ (\A tr \in Trees : a - 1 <= staged[tr])
      /\ (\A i \in 1..Len(log) : log'[i] = log[i]) /\ "index" \in Trees
      /\ finished' = IF todo' = <<>> THEN Max({finished, a}) ELSE finished  BY DEF Calls, Trees
<1>2. finished \in Nat /\ finished <= Len(log) /\ Len(log) \in Nat /\ staged \in [Trees -> Nat]
  BY <1>1, Types
<1>3. Max({finished, a}) \in {finished, a} /\ finished <= Max({finished, a}) /\ a <= Max({finished, a})
  BY <1>2, LongerOf
<1>4. Busy' => finished' = finished  BY <1>1 DEF Busy
<1>5. ~Busy' => /\ a <= finished' /\ finished <= finished' /\ (finished' = a \/ finished' = finished) /\ o.op = "remove"
  BY <1>1, <1>3, CallPlan DEF Busy
<1>6. \A j \in Nat : j < a => \A tr \in Trees : j <= staged[tr]
  <2>1. ASSUME NEW j \in Nat, j < a, NEW tr \in Trees PROVE j <= staged[tr]
    <3>1. staged[tr] \in Nat /\ a - 1 <= staged[tr]  BY <1>1, <1>2
    <3> QED  BY <3>1, <2>1
  <2> QED  BY <2>1
<1>7. ASSUME NEW j \in 1..Len(log'), Over(j)' PROVE j \in 1..Len(log) /\ Over(j)
  <2>1. (Clear(j))' /\ (j <= finished' \/ (IF Busy' THEN j < a ELSE \A tr \in Trees : j <= a))
    BY <1>1, <1>7 DEF Over
  <2>2. j \in Nat /\ j >= 1 /\ Len(log') \in Nat
    <3>1. TypeInv'  BY CallTyped
    <3>2. Len(log') \in Nat  BY <3>1 DEF TypeInv
    <3> QED  BY <3>2
  <2>3. j <= finished \/ j < a
    <3>1. CASE Busy'  BY <2>1, <3>1, <1>4
    <3>2. CASE ~Busy'
      <4>1. j # a
        <5>1. o.op # "clear"  BY <3>2, <1>5
        <5> QED  BY <5>1, <2>1, <1>1 DEF Clear
      <4>2. j <= finished' \/ j <= a  BY <2>1, <3>2, <1>1
      <4> QED  BY <4>1, <4>2, <2>2, <1>2, <1>5, <3>2
    <3> QED  BY <3>1, <3>2
  <2>4. j \in 1..Len(log)  BY <2>2, <2>3, <1>1, <1>2
  <2>5. Clear(j)  BY <2>1, <2>4, <1>1 DEF Clear
  <2>6. j < a => \A tr \in Trees : j <= staged[tr]  BY <2>2, <1>6
  <2> QED  BY <2>3, <2>4, <2>5, <2>6, <1>1 DEF Over
<1>8. finished' \in Nat  BY <1>2, <1>4, <1>5
<1> QED  BY <1>2, <1>4, <1>5, <1>6, <1>7, <1>8

LEMMA CallCounted ==
  ASSUME NEW a \in Nat, NEW o \in Operations, Calls(a, o), LossInv, ShownInv, FinishedInv, ~exposed, ~lost
  PROVE  Counted(state = "open", Busy)'
<1>1. /\ TypeInv /\ state = "open" /\ state' = "open" /\ ~Busy /\ staged'["index"] = a
      /\ tree' = tree /\ slot' = slot /\ base' = base  BY DEF Calls, Trees
<1>2. /\ finished \in Nat /\ finished' \in Nat /\ finished <= Len(log) /\ Len(log) \in Nat
      /\ (Busy' => finished' = finished)
      /\ (~Busy' => a <= finished' /\ finished <= finished' /\ (finished' = a \/ finished' = finished) /\ o.op = "remove")
  BY <1>1, CallOver, Types
<1>3. Recorded' = Recorded /\ Newest(Recorded)' = Newest(Recorded)  BY <1>1, SameRecords
<1>4. staged["index"] = a - 1  BY CallShows
<1>5. Counted(TRUE, FALSE)  BY <1>1, FinishedIs DEF Counted
<1> DEFINE D(j) == DocsAfter(base', log', j)
           E(j) == DocsAfter(base, log, j)
           f == finished
           g == finished'
<1>6. a - 1 <= f /\ \A j \in (a - 1)..f : E(j) = E(a - 1)  BY <1>4, <1>5 DEF Counted, SettledOf
<1>7. \A j \in 0..Len(log) : D(j) = E(j)  BY CallContents
<1>8. ~Busy' => D(a) = E(a - 1)
  <2> SUFFICES ASSUME ~Busy' PROVE D(a) = E(a - 1)  OBVIOUS
  <2>1. ShowsOf(base', log', a, Map("index")', Map("terms")', Map("lengths")')
    <3>1. ShownInv'  BY CallShown
    <3>2. (ShownInv <=> (state = "open" /\ ~exposed =>
                  ShownFull(staged["index"], Busy, Clear(staged["index"]))))'  BY ShownIs, PTL
    <3>3. ShownFull(staged["index"], Busy, Clear(staged["index"]))'  BY <3>1, <3>2, <1>1 DEF Calls
    <3> QED  BY <3>3, <1>1 DEF ShownFull
  <2>2. ShowsOf(base, log, a - 1, Map("index"), Map("terms"), Map("lengths"))  BY CallShows
  <2>3. Map("terms")' = Map("terms")  BY <1>1 DEF Map
  <2> QED  BY <2>1, <2>2, <2>3 DEF ShowsOf
<1>9. a - 1 \in Nat  BY <1>4, <1>1, Types DEF Trees
<1> HIDE DEF D, E, f, g
<1>10. f \in Nat /\ g \in Nat /\ f <= g /\ f <= Len(log) /\ Len(log) \in Nat /\ (g = f \/ (g = a /\ ~Busy')) /\ a - 1 <= f
       /\ (Busy' => g = f) /\ (~Busy' => a <= g)  BY <1>2, <1>6 DEF f, g
<1>11. ASSUME NEW j \in (a - 1)..g PROVE D(j) = E(a - 1)
  <2>1. CASE j <= f
    <3>1. j \in (a - 1)..f /\ j \in 0..Len(log)  BY <1>9, <1>10, <2>1
    <3> QED  BY <3>1, <1>6, <1>7
  <2>2. CASE ~(j <= f)
    <3>1. j = a /\ ~Busy'  BY <2>2, <1>9, <1>10
    <3> QED  BY <3>1, <1>8
  <2> QED  BY <2>1, <2>2
<1>12. ASSUME NEW q \in Nat, q <= f, \A j \in q..f : E(j) = E(q)
       PROVE  \A j \in q..g : D(j) = D(q)
  <2>1. D(q) = E(q)  BY <1>7, <1>10, <1>12
  <2>2. ASSUME NEW j \in q..g PROVE D(j) = E(q)
    <3>1. CASE j <= f
      <4>1. j \in q..f /\ j \in 0..Len(log)  BY <1>10, <1>12, <3>1
      <4> QED  BY <4>1, <1>7, <1>12
    <3>2. CASE ~(j <= f)
      <4>1. j \in (a - 1)..g /\ f \in (a - 1)..f /\ f \in q..f  BY <1>9, <1>10, <1>12, <3>2
      <4>2. D(j) = E(a - 1) /\ E(f) = E(a - 1) /\ E(f) = E(q)  BY <4>1, <1>6, <1>11, <1>12
      <4> QED  BY <4>2
    <3> QED  BY <3>1, <3>2
  <2> QED  BY <2>1, <2>2
<1>13. ASSUME Recorded' # {}
       PROVE  /\ PointOf(tree', slot'[Newest(Recorded)']) <= finished'
              /\ SettledOf(base', log', finished', PointOf(tree', slot'[Newest(Recorded)']))
  <2> DEFINE q == PointOf(tree, slot[Newest(Recorded)])
  <2>1. q <= finished /\ SettledOf(base, log, finished, q)  BY <1>3, <1>5, <1>13 DEF Counted
  <2>2. q \in Nat
    <3> DEFINE N == Newest(Recorded)
               r == slot[N]
               vs == tree
    <3>1. N \in RecordsOf(slot) /\ SlotsOK(slot) /\ TreesOK(vs) /\ N \in Recorded
      BY <1>1, <1>3, <1>13, Types, SlotDefs, LatestIs
    <3> HIDE DEF N
    <3>2. r.lens \in [Trees -> Nat \ {0}] /\ SatisfiedBy(vs, r)  BY <3>1, RecordIs, SlotDefs DEF LossInv
    <3> HIDE DEF r, vs
    <3>3. PointOf(vs, r) \in Nat  BY <3>1, <3>2, PointIs
    <3> QED  BY <3>3 DEF r, vs, N
  <2>3. q <= f /\ \A j \in q..f : E(j) = E(q)  BY <2>1 DEF f, E, SettledOf
  <2>4. PointOf(tree', slot'[Newest(Recorded)']) = q  BY <1>1, <1>3
  <2> HIDE DEF q
  <2>5. q <= g /\ \A j \in q..g : D(j) = D(q)  BY <2>2, <2>3, <1>10, <1>12
  <2> QED  BY <2>4, <2>5 DEF g, D, SettledOf
<1>14. ASSUME Recorded' = {} PROVE SettledOf(base', log', finished', 0)
  <2>1. SettledOf(base, log, finished, 0)  BY <1>3, <1>5, <1>14 DEF Counted
  <2>2. 0 <= f /\ 0 \in Nat /\ \A j \in 0..f : E(j) = E(0)  BY <2>1, <1>10 DEF f, E, SettledOf
  <2>3. \A j \in 0..g : D(j) = D(0)  BY <2>2, <1>12
  <2> QED  BY <2>3 DEF g, D, SettledOf
<1>15. SettledOf(base', log', finished', a)
  <2>1. \A j \in a..g : D(j) = D(a)
    <3>1. ASSUME NEW j \in a..g PROVE D(j) = D(a)
      <4>1. j \in (a - 1)..g /\ a \in (a - 1)..g  BY <1>9, <1>10
      <4> QED  BY <4>1, <1>11
    <3> QED  BY <3>1
  <2> QED  BY <2>1 DEF g, D, SettledOf
<1>16. (Busy' => a <= finished' + 1) /\ (~Busy' => a <= finished')
  <2>1. g = f => a <= g + 1  BY <1>9, <1>10
  <2> QED  BY <2>1, <1>10 DEF g
<1> QED  BY <1>1, <1>13, <1>14, <1>15, <1>16 DEF Counted

\* Nothing has changed since the operation before the call.

LEMMA CallFinished ==
  ASSUME NEW a \in Nat, NEW o \in Operations, Calls(a, o), LossInv, ShownInv, FinishedInv
  PROVE  FinishedInv'
<1>1. /\ TypeInv /\ TypeInv' /\ state = "open" /\ state' = "open" /\ ~Busy /\ staged'["index"] = a
      /\ staged' = [tr \in Trees |-> a]
      /\ tree' = tree /\ slot' = slot /\ lost' = lost /\ exposed' = exposed /\ (\A i \in 1..Len(log) : log'[i] = log[i])
  BY CallTyped DEF Calls, Trees
<1>2. ASSUME ~lost
      PROVE  Behind /\ ClearsStaged(TRUE, FALSE)  BY <1>1, <1>2, FinishedIs DEF ClearsStaged
<1>3. \A tr \in Trees : Kept(tr)' = Kept(tr)  BY <1>1, SameRecords
<1>4. /\ finished \in Nat /\ finished' \in Nat /\ finished <= Len(log) /\ Len(log) \in Nat
      /\ (Busy' => finished' = finished)
      /\ (~Busy' => a <= finished' /\ finished <= finished' /\ (finished' = a \/ finished' = finished) /\ o.op = "remove")
      /\ \A j \in 1..Len(log') : Over(j)' => j \in 1..Len(log) /\ Over(j)  BY <1>1, CallOver, Types
<1>5. ASSUME ~lost PROVE Behind'
  <2>1. ASSUME NEW j \in 1..Len(log'), Over(j)', NEW tr \in Trees, NEW i \in 1..Len(tree'[tr]), i >= Kept(tr)'
        PROVE  j <= tree'[tr][i].applied
    <3>1. j \in 1..Len(log) /\ Over(j)  BY <1>4, <2>1
    <3>2. i \in 1..Len(tree[tr]) /\ i >= Kept(tr)  BY <1>1, <1>3, <2>1
    <3> QED  BY <1>1, <1>2, <1>5, <3>1, <3>2 DEF Behind
  <2> QED  BY <2>1 DEF Behind
<1>6. ASSUME ~lost PROVE ClearsStaged(state = "open", Busy)'
  <2>1. ASSUME NEW j \in 1..finished', (Clear(j))'
        PROVE  j <= a /\ (Busy' => j < a)
    <3>1. j \in Nat /\ j <= finished'  BY <1>4
    <3>2. CASE j <= finished
      <4>1. j \in 1..finished /\ j \in 1..Len(log)  BY <1>4, <3>1, <3>2
      <4>2. Clear(j)  BY <1>1, <2>1, <4>1 DEF Clear
      <4>3. \A tr \in Trees : j <= staged[tr]  BY <1>2, <1>6, <4>1, <4>2 DEF ClearsStaged
      <4>4. PICK tr \in Trees : a - 1 = staged[tr]  BY DEF Calls
      <4>5. j <= a - 1  BY <4>3, <4>4
      <4> QED  BY <4>5, <3>1
    <3>3. CASE ~(j <= finished)
      <4>1. ~Busy' /\ finished' = a  BY <1>4, <3>1, <3>3
      <4> QED  BY <4>1, <3>1
    <3> QED  BY <3>2, <3>3
  <2> QED  BY <1>1, <2>1 DEF ClearsStaged
<1>7. ASSUME ~lost, ~exposed PROVE Counted(state = "open", Busy)'  BY <1>7, CallCounted
<1> QED  BY <1>1, <1>5, <1>6, <1>7, FinishedNext

LEMMA CallKeeps ==
  ASSUME FullInv, Call
  PROVE  FullInv'
<1>1. TypeInv /\ HostInv /\ LossInv /\ RecordsInv /\ ShownInv /\ FinishedInv  BY DEF FullInv, Inv
<1>2. PICK a \in Nat, o \in Operations : Calls(a, o)  BY <1>1, CallIs
<1>3. TypeInv' /\ CallInv' /\ HostInv' /\ LossInv'  BY <1>1, <1>2, CallTyped, CallCalls, CallHost
<1>4. RecordsInv' /\ ShownInv' /\ FinishedInv'  BY <1>1, <1>2, CallRecords, CallShown, CallFinished
<1> QED  BY <1>3, <1>4 DEF FullInv, Inv

----
(* The index opened again.                                                 *)

LEMMA OpenedIs ==
  ASSUME NEW tr \in Trees, NEW s, IsSeq(s), \A i \in DOMAIN s : VersionOK(tr, s[i])
  PROVE  /\ IsSeq(Opened(s)) /\ Opened(s) # <<>> /\ Len(Opened(s)) \in Nat \ {0}
         /\ \A i \in 1..Len(Opened(s)) : VersionOK(tr, Opened(s)[i])
         /\ s # <<>> => Opened(s) = s
<1>1. CASE s = <<>>
  <2> DEFINE v == Version(<<>>, 0)
  <2>1. VersionOK(tr, v)  BY EmptyVersion
  <2>2. Opened(s) = <<v>>  BY <1>1 DEF Opened
  <2> HIDE DEF v
  <2>3. <<v>> \in Seq({v}) /\ Len(<<v>>) = 1 /\ <<v>>[1] = v /\ <<v>> # <<>>  OBVIOUS
  <2>4. IsSeq(<<v>>)  BY <2>3, SeqIs
  <2> DEFINE q == <<v>>
  <2>5. IsSeq(q) /\ q # <<>> /\ Len(q) = 1 /\ q[1] = v /\ Opened(s) = q  BY <2>2, <2>3, <2>4
  <2> HIDE DEF q
  <2>6. \A i \in 1..Len(q) : q[i] = v  BY <2>5
  <2> QED  BY <1>1, <2>1, <2>5, <2>6
<1>2. CASE s # <<>>
  <2>1. Opened(s) = s  BY <1>2 DEF Opened
  <2>2. DOMAIN s = 1..Len(s) /\ Len(s) \in Nat \ {0}  BY <1>2, SeqFacts
  <2> QED  BY <1>2, <2>1, <2>2
<1> QED  BY <1>1, <1>2

\* What recovery makes of the trees.
LEMMA OpenTrees ==
  ASSUME TypeInv, Recover, slot' = slot, state = "down"
  PROVE  /\ TreesOK(tree') /\ state' \in {"open", "refused"}
         /\ Recorded' = Recorded /\ Newest(Recorded)' = Newest(Recorded)
         /\ \/ Recorded # {} /\ Usable = {} /\ state' = "refused" /\ tree' = tree
            \/ /\ Recorded = {} /\ state' = "open" /\ \A tr \in Trees : tree'[tr] = Opened(tree[tr])
            \/ /\ Usable # {} /\ Recorded # {} /\ state' = "open"
               /\ Newest(Usable) \in Usable /\ Newest(Usable)' = Newest(Usable)
               /\ Newest(Usable) \in Usable' /\ slot[Newest(Usable)].lens \in [Trees -> Nat \ {0}]
               /\ \A tr \in Trees : CutTo(tree'[tr], tree[tr], slot[Newest(Usable)].lens[tr])
<1>1. TreesOK(tree) /\ SlotsOK(slot) /\ Recorded = RecordsOf(slot) /\ Usable = UsableOf(tree, slot)
      /\ Usable \subseteq Recorded  BY Types, SlotDefs DEF UsableOf
<1>2. Recorded' = Recorded /\ Newest(Recorded)' = Newest(Recorded)  BY SameRecords
<1>3. CASE Recorded = {}
  <2>1. state' = "open" /\ tree' = [tr \in Trees |-> Opened(tree[tr])]  BY <1>3 DEF Recover
  <2>2. ASSUME NEW tr \in Trees
        PROVE  IsSeq(tree'[tr]) /\ \A i \in DOMAIN tree'[tr] : VersionOK(tr, tree'[tr][i])
    <3> DEFINE s == tree[tr]
               q == Opened(s)
    <3>1. IsSeq(s) /\ \A i \in DOMAIN s : VersionOK(tr, s[i])  BY <1>1 DEF TreesOK
    <3> HIDE DEF s
    <3>2. IsSeq(q) /\ \A i \in 1..Len(q) : VersionOK(tr, q[i])  BY <3>1, OpenedIs
    <3> HIDE DEF q
    <3>3. DOMAIN q = 1..Len(q)  BY <3>2, SeqFacts
    <3>4. tree'[tr] = q  BY <2>1 DEF q, s
    <3> QED  BY <3>2, <3>3, <3>4
  <2>3. TreesOK(tree')  BY <2>1, <2>2 DEF TreesOK
  <2> QED  BY <1>2, <1>3, <2>1, <2>3
<1>4. CASE Recorded # {} /\ Usable = {}
  <2>1. state' = "refused" /\ tree' = tree  BY <1>4 DEF Recover
  <2> QED  BY <1>1, <1>2, <1>4, <2>1
<1>5. CASE Usable # {}
  <2> DEFINE N == Newest(Usable)
             lens == slot[N].lens
  <2>1. state' = "open" /\ tree' = [tr \in Trees |-> SubSeq(Opened(tree[tr]), 1, lens[tr])]
    BY <1>1, <1>5 DEF Recover
  <2>2. N \in Usable /\ Usable \in SUBSET RecordsOf(slot) /\ N = Latest(slot, Usable)
    <3>1. Usable \in SUBSET RecordsOf(slot) /\ N = Latest(slot, Usable)  BY <1>1, SlotDefs
    <3> QED  BY <1>1, <1>5, <3>1, LatestIs
  <2>3. N \in RecordsOf(slot) /\ SatisfiedBy(tree, slot[N]) /\ \A r \in Usable : slot[r].txn <= slot[N].txn
    BY <1>1, <1>5, <2>2, LatestIs DEF UsableOf
  <2> HIDE DEF N
  <2>4. lens \in [Trees -> Nat \ {0}]  BY <1>1, <2>3, RecordIs
  <2>5. ASSUME NEW tr \in Trees
        PROVE  /\ CutTo(tree'[tr], tree[tr], lens[tr]) /\ lens[tr] \in 1..Len(tree[tr]) /\ Len(tree[tr]) \in Nat
               /\ Len(tree'[tr]) = lens[tr]
    <3>1. lens[tr] \in Nat \ {0} /\ lens[tr] <= Len(tree[tr]) /\ Len(tree[tr]) \in Nat /\ IsSeq(tree[tr])
      BY <2>3, <2>4, Types DEF SatisfiedBy
    <3>2. lens[tr] \in 0..Len(tree[tr]) /\ lens[tr] \in 1..Len(tree[tr])  BY <3>1
    <3>3. tree[tr] # <<>>  BY <3>1
    <3>4. tree'[tr] = SubSeq(tree[tr], 1, lens[tr])  BY <2>1, <3>3 DEF Opened
    <3>5. CutTo(tree'[tr], tree[tr], lens[tr])  BY <3>1, <3>2, <3>4, Cut
    <3> QED  BY <3>1, <3>2, <3>5 DEF CutTo
  <2>6. ASSUME NEW tr \in Trees
        PROVE  IsSeq(tree'[tr]) /\ \A i \in DOMAIN tree'[tr] : VersionOK(tr, tree'[tr][i])
    <3>1. IsSeq(tree'[tr]) /\ Len(tree'[tr]) = lens[tr] /\ \A i \in 1..lens[tr] : tree'[tr][i] = tree[tr][i]
      BY <2>5 DEF CutTo
    <3>2. DOMAIN tree'[tr] = 1..lens[tr] /\ DOMAIN tree[tr] = 1..Len(tree[tr])  BY <3>1, SeqFacts, Types
    <3>3. \A i \in 1..lens[tr] : i \in 1..Len(tree[tr])  BY <2>5
    <3> QED  BY <1>1, <3>1, <3>2, <3>3 DEF TreesOK
  <2>7. TreesOK(tree')
    <3>1. tree' = [tr \in Trees |-> tree'[tr]]  BY <2>1
    <3> QED  BY <2>6, <3>1 DEF TreesOK
  <2>8. Usable' = UsableOf(tree', slot) /\ N \in Usable' /\ Usable' \subseteq Usable
    <3>1. Usable' = UsableOf(tree', slot)
      BY DEF Usable, UsableOf, Recorded, RecordsOf, Satisfied, SatisfiedBy
    <3>2. SatisfiedBy(tree', slot[N])
      <4>1. \A tr \in Trees : lens[tr] <= Len(tree'[tr])  BY <2>5
      <4> QED  BY <4>1 DEF SatisfiedBy
    <3>3. ASSUME NEW r \in Usable' PROVE r \in Usable
      <4>1. r \in RecordsOf(slot) /\ SatisfiedBy(tree', slot[r])  BY <3>1, <3>3 DEF UsableOf
      <4>2. slot[r].lens \in [Trees -> Nat \ {0}]  BY <1>1, <4>1, RecordIs
      <4>3. ASSUME NEW tr \in Trees PROVE slot[r].lens[tr] <= Len(tree[tr])
        <5>1. slot[r].lens[tr] \in Nat /\ slot[r].lens[tr] <= Len(tree'[tr])  BY <4>1, <4>2 DEF SatisfiedBy
        <5> QED  BY <5>1, <2>5
      <4>4. SatisfiedBy(tree, slot[r])  BY <4>3 DEF SatisfiedBy
      <4> QED  BY <1>1, <4>1, <4>4 DEF UsableOf
    <3> QED  BY <3>1, <3>2, <3>3, <2>3 DEF UsableOf
  <2>9. Newest(Usable)' = N
    <3>1. Newest(Usable)' = Latest(slot, Usable')  BY DEF Newest, Latest
    <3>2. Usable' \in SUBSET RecordsOf(slot) /\ \A r \in Usable' : slot[r].txn <= slot[N].txn
      BY <2>2, <2>3, <2>8
    <3> QED  BY <1>1, <2>8, <3>1, <3>2, LatestOnly
  <2> QED  BY <1>1, <1>2, <1>5, <2>1, <2>2, <2>4, <2>5, <2>7, <2>8, <2>9 DEF N
<1> QED  BY <1>1, <1>3, <1>4, <1>5

\* Where an open index stands is where the next open would go back to.
LEMMA OpenBack ==
  ASSUME TypeInv, Recover, slot' = slot, state = "down", state' = "open", NEW tr \in Trees
  PROVE  /\ tree'[tr] # <<>> /\ Back(tr) = Last(tree'[tr]) /\ Back(tr)' = Last(tree'[tr])
         /\ Last(tree'[tr]).applied \in Nat
<1>1. TreesOK(tree') /\ Recorded' = Recorded  BY OpenTrees
<1>2. IsSeq(tree'[tr]) /\ Len(tree'[tr]) \in Nat /\ DOMAIN tree'[tr] = 1..Len(tree'[tr])
  BY <1>1, SeqFacts DEF TreesOK
<1>3. ASSUME tree'[tr] # <<>> PROVE Last(tree'[tr]).applied \in Nat /\ Last(tree'[tr]) = tree'[tr][Len(tree'[tr])]
  <2>1. Last(tree'[tr]) = tree'[tr][Len(tree'[tr])] /\ Len(tree'[tr]) \in 1..Len(tree'[tr])
    BY <1>2, <1>3, SeqFacts
  <2> DEFINE vs == tree'
             i == Len(tree'[tr])
  <2>2. TreesOK(vs) /\ i \in 1..Len(vs[tr])  BY <1>1, <2>1
  <2> HIDE DEF vs, i
  <2>3. vs[tr][i].applied \in Nat  BY <2>2, VersionAt
  <2> QED  BY <2>1, <2>3 DEF vs, i
<1>4. CASE Recorded = {}
  <2>1. tree'[tr] = Opened(tree[tr]) /\ Recorded' = {}  BY <1>1, <1>4, OpenTrees DEF UsableOf, Usable
  <2>2. Back(tr) = Last(Opened(tree[tr])) /\ Back(tr)' = Last(Opened(tree'[tr]))
    BY <1>4, <2>1 DEF Back, Opened
  <2>3. tree'[tr] # <<>>
    <3> DEFINE s == tree[tr]
               q == Opened(s)
    <3>1. IsSeq(s) /\ \A i \in DOMAIN s : VersionOK(tr, s[i])  BY Types DEF TreesOK
    <3> HIDE DEF s
    <3>2. q # <<>>  BY <3>1, OpenedIs
    <3> QED  BY <2>1, <3>2 DEF s
  <2>4. Opened(tree'[tr]) = tree'[tr]  BY <2>3 DEF Opened
  <2> QED  BY <1>3, <2>1, <2>2, <2>3, <2>4
<1>5. CASE Recorded # {}
  <2> DEFINE N == Newest(Usable)
             n == slot[N].lens[tr]
  <2>1. /\ Newest(Usable)' = N /\ slot[N].lens \in [Trees -> Nat \ {0}] /\ CutTo(tree'[tr], tree[tr], n)
        /\ Recorded' # {}  BY <1>5, OpenTrees
  <2>2. Back(tr) = tree[tr][n] /\ Back(tr)' = tree'[tr][n]  BY <1>5, <2>1 DEF Back
  <2>3. n \in Nat \ {0} /\ Len(tree'[tr]) = n /\ n \in 1..n /\ tree'[tr][n] = tree[tr][n]
    <3>1. n \in Nat \ {0}  BY <2>1
    <3> HIDE DEF n
    <3> QED  BY <2>1, <3>1 DEF CutTo
  <2>4. tree'[tr] # <<>>  BY <2>3, <1>2, SeqFacts
  <2> HIDE DEF n
  <2> QED  BY <1>3, <2>2, <2>3, <2>4
<1> QED  BY <1>4, <1>5

LEMMA OpenIs ==
  ASSUME TypeInv, Open
  PROVE  Opens
<1>1. /\ state = "down" /\ Recover /\ staged' = [tr \in Trees |-> IF state' = "open" THEN Last(tree'[tr]).applied ELSE 0]
      /\ safe' = [tr \in Trees |-> Min({safe[tr], Len(tree'[tr])})]
      /\ log' \in {log} \cup
           (IF state' = "open" THEN {SubSeq(log, 1, Min({Len(log)} \cup Range(staged')))} ELSE {})
      /\ finished' = Min({finished, Len(log')})
      /\ UNCHANGED <<slot, todo, base, lost, stale, exposed>>  BY DEF Open
<1>2. /\ TreesOK(tree') /\ state' \in {"open", "refused"}
      /\ Recorded' = Recorded /\ Newest(Recorded)' = Newest(Recorded)  BY <1>1, OpenTrees
<1>3. ~Busy /\ ~Busy' /\ SlotsOK(slot) /\ log \in Seq(Operations) /\ Len(log) \in Nat
      /\ finished \in Nat /\ finished <= Len(log) /\ safe \in [Trees -> Nat] /\ Recorded = RecordsOf(slot)
  BY <1>1, Types, SlotDefs DEF Busy
<1>4. state' = "open" => \A tr \in Trees : /\ tree'[tr] # <<>> /\ staged'[tr] = Last(tree'[tr]).applied
                                           /\ Back(tr) = Last(tree'[tr]) /\ Back(tr)' = Last(tree'[tr])
  BY <1>1, OpenBack
<1>5. staged' \in [Trees -> Nat]  BY <1>1, OpenBack
<1>6. \A tr \in Trees : IsSeq(tree'[tr]) /\ Len(tree'[tr]) \in Nat  BY <1>2, SeqFacts DEF TreesOK
<1>7. safe' \in [Trees -> Nat] /\ \A tr \in Trees : safe'[tr] <= Len(tree'[tr])
  <2>1. ASSUME NEW tr \in Trees
        PROVE  Min({safe[tr], Len(tree'[tr])}) \in Nat /\ Min({safe[tr], Len(tree'[tr])}) <= Len(tree'[tr])
    <3> DEFINE x == safe[tr]
               y == Len(tree'[tr])
    <3>1. x \in Nat /\ y \in Nat  BY <1>3, <1>6
    <3> HIDE DEF x, y
    <3>2. Min({x, y}) \in {x, y} /\ Min({x, y}) <= y  BY <3>1, MinOfTwo
    <3> QED  BY <3>1, <3>2 DEF x, y
  <2> QED  BY <1>1, <2>1
<1> DEFINE R == Range(staged')
           k == Min({Len(log)} \cup R)
<1>8. R = {staged'[tr] : tr \in Trees}
  <2>1. DOMAIN staged' = Trees  BY <1>5
  <2> QED  BY <2>1 DEF Range
<1>9. k \in Nat /\ k <= Len(log) /\ (\A tr \in Trees : k <= staged'[tr])
      /\ (k = Len(log) \/ \E tr \in Trees : k = staged'[tr])
  <2> DEFINE S == {Len(log)} \cup R
  <2>1. S \in SUBSET Nat /\ S # {}  BY <1>3, <1>5, <1>8
  <2> HIDE DEF R
  <2>2. k \in S /\ \A y \in S : k <= y  BY <2>1, MinOfNats
  <2> HIDE DEF k
  <2> QED  BY <2>1, <2>2, <1>8
<1> HIDE DEF R, k
<1>10. \/ log' = log
       \/ state' = "open" /\ log' = SubSeq(log, 1, k)  BY <1>1 DEF k, R
<1>11. ASSUME NEW x, x = SubSeq(log, 1, k)
       PROVE  x \in Seq(Operations) /\ Len(x) = k /\ \A i \in 1..k : x[i] = log[i]  BY <1>3, <1>9, <1>11
<1>12. log' \in Seq(Operations) /\ Len(log') <= Len(log) /\ (\A i \in 1..Len(log') : log'[i] = log[i])
       /\ (log' # log => state' = "open" /\ \A tr \in Trees : Len(log') <= staged'[tr])
       /\ (log' = log \/ Len(log') = Len(log) \/ \E tr \in Trees : Len(log') = staged'[tr])
  <2>1. CASE log' = log  BY <2>1, <1>3
  <2>2. CASE state' = "open" /\ log' = SubSeq(log, 1, k)
    <3>1. log' \in Seq(Operations) /\ Len(log') = k /\ \A i \in 1..k : log'[i] = log[i]  BY <2>2, <1>11
    <3> QED  BY <3>1, <2>2, <1>9
  <2> QED  BY <1>10, <2>1, <2>2
<1>13. finished' \in Nat /\ finished' <= finished /\ finished' <= Len(log') /\ (finished' = finished \/ finished' = Len(log'))
  <2> DEFINE y == Len(log')
  <2>1. y \in Nat /\ finished' = Min({finished, y})  BY <1>1, <1>12
  <2> HIDE DEF y
  <2>2. Min({finished, y}) \in {finished, y} /\ Min({finished, y}) <= finished /\ Min({finished, y}) <= y
    BY <1>3, <2>1, MinOfTwo
  <2> QED  BY <1>3, <2>1, <2>2 DEF y
<1>14. TypeInv'
  <2>1. Len(log') \in Nat  BY <1>12
  <2>2. finished' \in 0..Len(log')  BY <1>13, <2>1
  <2> QED
    <3>1. /\ SlotsOK(slot') /\ IsSeq(todo') /\ (todo' # <<>> => state' = "open") /\ base' \in {<<>>, Legacy}
          /\ stale' \subseteq RecordsOf(slot') /\ lost' \in BOOLEAN /\ exposed' \in BOOLEAN
      BY <1>1, <1>3 DEF TypeInv, Busy
    <3>2. state' \in {"down", "open", "failed", "refused"} /\ \A tr \in Trees : state' = "open" => tree'[tr] # <<>>
      BY <1>2, <1>4
    <3>3. TreesOK(tree') /\ staged' \in [Trees -> Nat] /\ safe' \in [Trees -> Nat]
          /\ (\A tr \in Trees : safe'[tr] <= Len(tree'[tr])) /\ log' \in Seq(Operations)
      BY <1>2, <1>5, <1>7, <1>12
    <3> QED  BY <3>1, <3>2, <3>3, <2>2, TypedNext
<1>15. OpenAs
  <2>1. state' = "refused" => log' = log  BY <1>10
  <2> QED  BY <1>1, <2>1, OpenTrees DEF OpenAs
<1> QED  BY <1>1, <1>2, <1>3, <1>4, <1>12, <1>13, <1>14, <1>15 DEF Opens

\* The records an open index keeps and the operations its log keeps.
LEMMA OpenHost ==
  ASSUME Opens, HostInv
  PROVE  HostInv'
<1>1. /\ ~Busy /\ TypeInv' /\ Len(log') \in Nat
      /\ state' = "open" => \A tr \in Trees : /\ tree'[tr] # <<>> /\ staged'[tr] = Last(tree'[tr]).applied
                                              /\ Back(tr) = Last(tree'[tr]) /\ Back(tr)' = Last(tree'[tr])
  BY DEF Opens, TypeInv
<1>2. CASE state' = "open"
  <2>1. Recorded # {} => Usable # {}  BY <1>2 DEF Opens, OpenAs
  <2>2. PICK x \in Trees : Back(x).applied <= Len(log)  BY <1>1, <2>1 DEF HostInv
  <2>3. \E tr \in Trees : staged'[tr] <= Len(log')
    <3>1. CASE Len(log') = Len(log)  BY <1>1, <1>2, <2>2, <3>1
    <3>2. CASE \E tr \in Trees : Len(log') = staged'[tr]  BY <1>1, <3>2
    <3> QED  BY <3>1, <3>2 DEF Opens
  <2> QED  BY <1>1, <1>2, <2>3 DEF HostInv
<1>3. CASE state' # "open"
  <2>1. Recorded' # {} /\ Usable' = {}
    <3>1. Recorded # {} /\ Usable = {} /\ tree' = tree /\ slot' = slot  BY <1>3 DEF Opens, OpenAs
    <3> QED  BY <3>1, SameRecords
  <2> QED  BY <1>3, <2>1 DEF HostInv
<1> QED  BY <1>2, <1>3

LEMMA OpenNewest ==
  ASSUME Opens, LossInv, ~lost
  PROVE  /\ Usable = Recorded /\ \A tr \in Trees : tree[tr] # <<>>
         /\ Recorded = {} => tree' = tree
         /\ state' = "open"
<1>1. Usable = Recorded  BY DEF LossInv, Usable
<1>2. \A tr \in Trees : tree[tr] # <<>>  BY DEF LossInv
<1>3. state' = "open"  BY <1>1 DEF Opens, OpenAs
<1>4. ASSUME Recorded = {} PROVE tree' = tree
  <2>1. \A tr \in Trees : tree'[tr] = Opened(tree[tr])  BY <1>1, <1>4 DEF Opens, OpenAs
  <2>2. \A tr \in Trees : tree'[tr] = tree[tr]  BY <1>2, <2>1 DEF Opened
  <2>3. tree = [tr \in Trees |-> tree[tr]] /\ tree' = [tr \in Trees |-> tree'[tr]]  BY DEF Opens, TypeInv
  <2> QED  BY <2>2, <2>3
<1> QED  BY <1>1, <1>2, <1>3, <1>4

LEMMA OpenLoss ==
  ASSUME Opens, LossInv
  PROVE  LossInv'
<1>1. lost' = lost /\ stale' = stale /\ slot' = slot /\ Recorded' = Recorded /\ TypeInv /\ TypeInv'
  BY DEF Opens
<1>2. ASSUME ~lost, NEW s \in Recorded PROVE Satisfied(s)'
  <2> DEFINE N == Newest(Usable)
  <2>1. Usable = Recorded /\ SlotsOK(slot) /\ Recorded = RecordsOf(slot)
    BY <1>1, <1>2, OpenNewest, Types, SlotDefs
  <2>2. \A tr \in Trees : CutTo(tree'[tr], tree[tr], slot[N].lens[tr])  BY <1>2, <2>1 DEF Opens, OpenAs
  <2>3. N = Latest(slot, RecordsOf(slot)) /\ Recorded # {}  BY <1>2, <2>1, SlotDefs
  <2>4. N \in Recorded /\ (s # N => slot[s].txn < slot[N].txn)  BY <1>2, <2>1, <2>3, LatestIs
  <2> HIDE DEF N
  <2>5. slot[N].lens \in [Trees -> Nat \ {0}] /\ slot[s].lens \in [Trees -> Nat \ {0}]
    BY <1>2, <2>1, <2>4, RecordIs
  <2>6. ASSUME NEW tr \in Trees PROVE slot[s].lens[tr] <= Len(tree'[tr])
    <3>1. Len(tree'[tr]) = slot[N].lens[tr]  BY <2>2 DEF CutTo
    <3>2. CASE s = N  BY <2>5, <3>1, <3>2
    <3>3. CASE s # N  BY <1>2, <2>4, <3>1, <3>3 DEF LossInv
    <3> QED  BY <3>2, <3>3
  <2> QED  BY <1>1, <2>6 DEF Satisfied
<1>3. ASSUME ~lost, NEW tr \in Trees PROVE tree'[tr] # <<>>  BY <1>1, <1>3, OpenNewest DEF TypeInv
<1>4. state' = "refused" => lost  BY OpenNewest
<1> QED  BY <1>1, <1>2, <1>3, <1>4 DEF LossInv

LEMMA OpenFull ==
  ASSUME Opens, RecordsInv, ~exposed
  PROVE  RecordsFull(Len(log), FALSE)
<1>1. TypeInv /\ state # "open" /\ ~Busy  BY DEF Opens
<1> DEFINE b == IF state = "open" THEN staged["index"] ELSE Len(log)
<1>2. RecordsFull(b, Busy)  BY <1>1, RecordsIs
<1>3. b = Len(log)  BY <1>1
<1> HIDE DEF b
<1>4. RecordsFull(Len(log), Busy)  BY <1>2, <1>3
<1> QED  BY <1>1, <1>4 DEF RecordsFull

LEMMA OpenFresh ==
  ASSUME Opens, RecordsInv, ~exposed, Recorded = {}
  PROVE  OpensAt(0)
<1>1. /\ TypeInv /\ TypeInv' /\ base' = base /\ Len(log) \in Nat /\ Len(log') \in Nat
      /\ log \in Seq(Operations) /\ log' \in Seq(Operations) /\ base \in DocMaps
      /\ tree = [tr \in Trees |-> tree[tr]] /\ tree' = [tr \in Trees |-> tree'[tr]]
      /\ staged' = [tr \in Trees |-> staged'[tr]]  BY Types DEF Opens, TypeInv
<1>2. /\ \A tr \in Trees : Len(tree[tr]) = 1 /\ tree[tr][1].applied = 0
      /\ ShowsOf(base, log, 0, tree["index"][1].map, tree["terms"][1].map, tree["lengths"][1].map)
  BY OpenFull DEF RecordsFull
<1>3. state' = "open" /\ \A tr \in Trees : tree'[tr] = Opened(tree[tr])  BY DEF Opens, OpenAs, Usable
<1>4. ASSUME NEW tr \in Trees PROVE tree[tr] # <<>> /\ Last(tree[tr]) = tree[tr][1]
  <2>1. IsSeq(tree[tr]) /\ Len(tree[tr]) = 1  BY <1>1, <1>2, Types
  <2>2. tree[tr] # <<>> /\ Last(tree[tr]) = tree[tr][Len(tree[tr])]  BY <2>1, SeqFacts
  <2> QED  BY <2>1, <2>2
<1>5. tree' = tree
  <2>1. \A tr \in Trees : tree'[tr] = tree[tr]  BY <1>3, <1>4 DEF Opened
  <2> QED  BY <1>1, <2>1
<1>6. \A tr \in Trees : staged'[tr] = 0  BY <1>2, <1>3, <1>4, <1>5 DEF Opens
<1>7. DocsAfter(base', log', 0) = DocsAfter(base, log, 0)  BY <1>1, DocsStep
<1>8. ShowsOf(base', log', 0, Map("index")', Map("terms")', Map("lengths")')
  <2>1. /\ Map("index")' = tree["index"][1].map /\ Map("terms")' = tree["terms"][1].map
        /\ Map("lengths")' = tree["lengths"][1].map  BY <1>4, <1>5 DEF Map, Trees
  <2> QED  BY <1>2, <1>7, <2>1 DEF ShowsOf
<1>9. ASSUME NEW tr \in Trees, NEW i \in 1..Len(tree'[tr]) PROVE tree'[tr][i].applied <= 0
  <2>1. Len(tree[tr]) = 1 /\ tree[tr][1].applied = 0  BY <1>2
  <2>2. i = 1
    <3> DEFINE n == Len(tree'[tr])
    <3>1. i \in 1..n /\ n = 1  BY <2>1, <1>5
    <3> HIDE DEF n
    <3> QED  BY <3>1
  <2> QED  BY <2>1, <2>2, <1>5
<1>10. staged' = [tr \in Trees |-> 0]  BY <1>1, <1>6
<1> QED  BY <1>1, <1>2, <1>5, <1>8, <1>9, <1>10 DEF OpensAt

LEMMA OpenCut ==
  ASSUME Opens, RecordsInv, ~exposed, Usable # {}
  PROVE  OpensAt(PointOf(tree, slot[Newest(Usable)])) /\ PointOf(tree, slot[Newest(Usable)]) \in Nat
<1> DEFINE N == Newest(Usable)
           p == PointOf(tree, slot[N])
           lens == slot[N].lens
<1>1. /\ TypeInv /\ TypeInv' /\ base' = base /\ slot' = slot /\ Len(log) \in Nat /\ Len(log') \in Nat
      /\ SlotsOK(slot) /\ TreesOK(tree) /\ TreesOK(tree') /\ Recorded = RecordsOf(slot) /\ Usable = UsableOf(tree, slot)
      /\ staged' = [tr \in Trees |-> staged'[tr]] /\ staged' \in [Trees -> Nat]
  <2>1. TypeInv /\ TypeInv' /\ base' = base /\ slot' = slot  BY DEF Opens
  <2>2. SlotsOK(slot) /\ TreesOK(tree) /\ Len(log) \in Nat /\ Recorded = RecordsOf(slot) /\ Usable = UsableOf(tree, slot)
    BY <2>1, Types, SlotDefs
  <2>3. TreesOK(tree') /\ Len(log') \in Nat /\ staged' \in [Trees -> Nat]  BY <2>1, TypesNext DEF TypeInv
  <2> QED  BY <2>1, <2>2, <2>3
<1>2. Recorded # {} /\ Usable \subseteq Recorded  BY <1>1 DEF UsableOf
<1>3. /\ state' = "open" /\ N \in Usable
      /\ \A tr \in Trees : CutTo(tree'[tr], tree[tr], lens[tr])  BY <1>2 DEF Opens, OpenAs
<1>4. GoodOf(tree, slot[N], log, base)  BY OpenFull DEF RecordsFull
<1> HIDE DEF N
<1>5. N \in Recorded /\ lens \in [Trees -> Nat \ {0}] /\ SatisfiedBy(tree, slot[N])
  BY <1>1, <1>3, RecordIs DEF UsableOf
<1>6. p \in Nat /\ \A tr \in Trees : lens[tr] \in 1..Len(tree[tr])
  <2> DEFINE vs == tree
             r == slot[N]
  <2>1. TreesOK(vs) /\ r.lens \in [Trees -> Nat \ {0}] /\ SatisfiedBy(vs, r)  BY <1>1, <1>5
  <2> HIDE DEF vs, r
  <2>2. PointOf(vs, r) \in Nat /\ \A tr \in Trees : r.lens[tr] \in 1..Len(vs[tr])  BY <2>1, PointIs
  <2> QED  BY <2>2 DEF vs, r
<1>7. p <= Len(log) /\ AppliedGood(tree, slot[N])  BY <1>4 DEF GoodOf
<1>8. ASSUME NEW tr \in Trees
      PROVE  /\ Len(tree'[tr]) = lens[tr] /\ lens[tr] \in 1..lens[tr]
             /\ \A i \in 1..lens[tr] : tree'[tr][i] = tree[tr][i] /\ tree[tr][i].applied <= p
             /\ Last(tree'[tr]) = tree'[tr][lens[tr]] /\ tree'[tr][lens[tr]] = tree[tr][lens[tr]]
             /\ tree'[tr][lens[tr]].applied = p
  <2>1. /\ Len(tree'[tr]) = lens[tr] /\ lens[tr] \in Nat \ {0} /\ IsSeq(tree'[tr])
        /\ \A i \in 1..lens[tr] : tree'[tr][i] = tree[tr][i]  BY <1>3, <1>5 DEF CutTo
  <2>2. tree[tr][lens[tr]].applied = p /\ \A i \in 1..lens[tr] : tree[tr][i].applied <= p
    BY <1>7 DEF AppliedGood
  <2>3. lens[tr] \in 1..lens[tr]  BY <2>1
  <2>4. Last(tree'[tr]) = tree'[tr][Len(tree'[tr])]
    <3>1. tree'[tr] # <<>>  BY <1>3 DEF Opens
    <3> QED  BY <2>1, <3>1, SeqFacts
  <2> QED  BY <2>1, <2>2, <2>3, <2>4
<1>9. \A tr \in Trees : staged'[tr] = p  BY <1>3, <1>8 DEF Opens
<1>10. staged' = [tr \in Trees |-> p]  BY <1>1, <1>9
<1> HIDE DEF p
<1>11. p <= Len(log')
  <2>1. log' # log => \A tr \in Trees : Len(log') <= staged'[tr]  BY DEF Opens
  <2>2. log' = log \/ Len(log') = Len(log) \/ \E tr \in Trees : Len(log') = staged'[tr]  BY DEF Opens
  <2> QED  BY <1>1, <1>6, <1>7, <1>9, <2>1, <2>2
<1>12. \A i \in 1..p : log'[i] = log[i]
  <2>1. \A i \in 1..Len(log') : log'[i] = log[i]  BY DEF Opens
  <2>2. \A i \in 1..p : i \in 1..Len(log')  BY <1>1, <1>6, <1>11
  <2> QED  BY <2>1, <2>2
<1>13. Agree(tree, tree', lens)
  <2>1. \A tr \in Trees : lens[tr] <= Len(tree'[tr]) /\ \A i \in 1..lens[tr] : tree'[tr][i] = tree[tr][i]
    BY <1>5, <1>8
  <2> QED  BY <2>1 DEF Agree
<1>14. GoodOf(tree', slot'[N], log', base') /\ PointOf(tree', slot'[N]) = p
  BY <1>1, <1>4, <1>5, <1>11, <1>12, <1>13, GoodKept DEF p
<1>15. ShowsOf(base', log', p, Map("index")', Map("terms")', Map("lengths")')
  <2>1. MapsGood(tree', slot'[N], log', base')  BY <1>14 DEF GoodOf
  <2>2. /\ Map("index")' = tree'["index"][lens["index"]].map
        /\ Map("terms")' = tree'["terms"][lens["terms"]].map
        /\ Map("lengths")' = tree'["lengths"][lens["lengths"]].map  BY <1>8 DEF Map, Trees
  <2> QED  BY <1>1, <1>14, <2>1, <2>2 DEF MapsGood
<1>16. \A tr \in Trees : \A i \in 1..Len(tree'[tr]) : tree'[tr][i].applied <= p  BY <1>8 DEF p
<1>17. PointOf(tree, slot[N]) = p  BY DEF p
<1>18. OpensAt(p)  BY <1>2, <1>4, <1>5, <1>7, <1>10, <1>11, <1>14, <1>15, <1>16, <1>17 DEF OpensAt, N
<1> QED  BY <1>6, <1>17, <1>18 DEF N

LEMMA OpenPoint ==
  ASSUME Opens, RecordsInv, ~exposed, state' = "open"
  PROVE  \E p \in Nat : OpensAt(p)
<1>1. CASE Recorded = {}  BY <1>1, OpenFresh
<1>2. CASE Usable # {}  BY <1>2, OpenCut
<1> QED  BY <1>1, <1>2 DEF Opens, OpenAs

LEMMA OpenShown ==
  ASSUME Opens, RecordsInv
  PROVE  ShownInv'
<1>1. exposed' = exposed /\ ~Busy' /\ "index" \in Trees  BY DEF Opens, Trees
<1>2. ASSUME state' = "open", ~exposed' PROVE ShownFull(staged["index"], Busy, Clear(staged["index"]))'
  <2>1. PICK p \in Nat : OpensAt(p)  BY <1>1, <1>2, OpenPoint
  <2>2. staged' = [tr \in Trees |-> p] /\ p <= Len(log') /\ staged'["index"] = p
        /\ ShowsOf(base', log', p, Map("index")', Map("terms")', Map("lengths")')  BY <1>1, <2>1 DEF OpensAt
  <2> QED  BY <1>1, <2>2 DEF ShownFull
<1> QED  BY <1>2, ShownNext

\* Before a crash took commits, an older record is of no later operation.
LEMMA OpenOlder ==
  ASSUME Opens, LossInv, RecordsInv, ~exposed, ~lost, NEW s \in Recorded
  PROVE  GoodOf(tree', slot'[s], log', base')
<1> DEFINE N == Newest(Usable)
<1>1. /\ TypeInv /\ TypeInv' /\ base' = base /\ slot' = slot /\ Len(log) \in Nat /\ Len(log') \in Nat
      /\ SlotsOK(slot) /\ TreesOK(tree) /\ Recorded = RecordsOf(slot) /\ Usable = Recorded
      /\ \A i \in 1..Len(log') : log'[i] = log[i]  BY OpenNewest, Types, SlotDefs DEF Opens, TypeInv
<1>2. GoodOf(tree, slot[s], log, base)  BY OpenFull DEF RecordsFull
<1>3. OpensAt(PointOf(tree, slot[N]))  BY <1>1, OpenCut
<1>4. N \in Recorded /\ \A tr \in Trees : CutTo(tree'[tr], tree[tr], slot[N].lens[tr])
  BY <1>1, <1>3 DEF OpensAt, Opens, OpenAs
<1>5. N = Latest(slot, RecordsOf(slot))  BY <1>1, SlotDefs
<1> HIDE DEF N
<1>6. s # N => slot[s].txn < slot[N].txn  BY <1>1, <1>5, LatestIs
<1>7. slot[s].lens \in [Trees -> Nat \ {0}] /\ slot[N].lens \in [Trees -> Nat \ {0}]  BY <1>1, <1>4, RecordIs
<1>8. \A tr \in Trees : slot[s].lens[tr] <= slot[N].lens[tr]
  <2>1. CASE s = N  BY <1>7, <2>1
  <2>2. CASE s # N  BY <1>1, <1>4, <1>6, <2>2 DEF LossInv
  <2> QED  BY <2>1, <2>2
<1>9. Agree(tree, tree', slot[s].lens)
  <2>1. ASSUME NEW tr \in Trees
        PROVE  slot[s].lens[tr] <= Len(tree'[tr]) /\ \A i \in 1..slot[s].lens[tr] : tree'[tr][i] = tree[tr][i]
    <3> DEFINE x == slot[s].lens[tr]
               y == slot[N].lens[tr]
    <3>1. x \in Nat /\ y \in Nat /\ x <= y /\ Len(tree'[tr]) = y /\ \A i \in 1..y : tree'[tr][i] = tree[tr][i]
      BY <1>4, <1>7, <1>8 DEF CutTo
    <3> HIDE DEF x, y
    <3>2. \A i \in 1..x : i \in 1..y  BY <3>1
    <3> QED  BY <3>1, <3>2 DEF x
  <2> QED  BY <2>1 DEF Agree
<1> DEFINE p == PointOf(tree, slot[s])
           q == PointOf(tree, slot[N])
<1>10. p \in Nat /\ p <= q /\ q <= Len(log')
  <2>1. q <= Len(log') /\ GoodOf(tree, slot[N], log, base)  BY <1>1, <1>3, <1>4 DEF OpensAt, N
  <2>2. \A i \in 1..slot[N].lens["terms"] : tree["terms"][i].applied <= q
    BY <2>1 DEF GoodOf, AppliedGood, Trees
  <2>3. slot[s].lens["terms"] \in 1..slot[N].lens["terms"]
    <3> DEFINE x == slot[s].lens["terms"]
               y == slot[N].lens["terms"]
    <3>1. x \in Nat \ {0} /\ y \in Nat /\ x <= y  BY <1>7, <1>8 DEF Trees
    <3> HIDE DEF x, y
    <3>2. x \in 1..y  BY <3>1
    <3> QED  BY <3>2 DEF x, y
  <2>4. p \in Nat
    <3> DEFINE vs == tree
               r == slot[s]
    <3>1. TreesOK(vs) /\ r.lens \in [Trees -> Nat \ {0}] /\ SatisfiedBy(vs, r)  BY <1>1, <1>2, <1>7 DEF GoodOf
    <3> HIDE DEF vs, r
    <3>2. PointOf(vs, r) \in Nat  BY <3>1, PointIs
    <3> QED  BY <3>2 DEF vs, r
  <2>5. p <= q  BY <2>2, <2>3 DEF PointOf
  <2> QED  BY <2>1, <2>4, <2>5
<1>11. q \in Nat  BY <1>1, OpenCut DEF N
<1> HIDE DEF p, q
<1>12. p <= Len(log') /\ \A i \in 1..p : log'[i] = log[i]
  <2>1. p <= Len(log')  BY <1>1, <1>10, <1>11
  <2>2. \A i \in 1..p : i \in 1..Len(log')  BY <1>1, <1>10, <2>1
  <2> QED  BY <1>1, <2>1, <2>2
<1> QED  BY <1>1, <1>2, <1>9, <1>12, GoodKept DEF p

LEMMA OpenRecords ==
  ASSUME Opens, LossInv, RecordsInv
  PROVE  RecordsInv'
<1>1. /\ TypeInv /\ TypeInv' /\ state = "down" /\ ~Busy /\ ~Busy' /\ exposed' = exposed /\ lost' = lost /\ stale' = stale
      /\ slot' = slot /\ base' = base /\ Recorded' = Recorded /\ Newest(Recorded)' = Newest(Recorded) /\ OpenAs
      /\ "index" \in Trees  BY DEF Opens, Trees
<1>2. CASE state' # "open"
  <2>1. /\ Recorded # {} /\ Usable = {} /\ state' = "refused" /\ tree' = tree /\ log' = log
    BY <1>1, <1>2 DEF OpenAs
  <2>2. Usable' = Usable /\ Newest(Usable)' = Newest(Usable)  BY <1>1, <2>1, SameRecords
  <2>3. ASSUME ~exposed PROVE RecordsFull(Len(log), Busy)'
    <3>1. RecordsFull(Len(log), FALSE)  BY <2>3, OpenFull
    <3> QED  BY <1>1, <2>1, <2>2, <3>1 DEF RecordsFull
  <2> QED  BY <1>1, <2>1, <2>3, RecordsNext
<1>3. CASE state' = "open"
  <2>1. ASSUME ~exposed PROVE RecordsFull(staged["index"], Busy)'
    <3>1. PICK p \in Nat : OpensAt(p)  BY <1>3, <2>1, OpenPoint
    <3>2. RecordsFull(Len(log), FALSE)  BY <2>1, OpenFull
    <3> DEFINE N == Newest(Usable)
    <3>3. staged'["index"] = p  BY <1>1, <3>1 DEF OpensAt
    <3>4. ASSUME Usable' # {}
          PROVE  GoodOf(tree', slot'[Newest(Usable)'], log', base')
      <4>1. Recorded # {}  BY <1>1, <3>4 DEF Usable
      <4>2. Newest(Usable)' = N  BY <1>3, <4>1, <1>1 DEF OpenAs
      <4> QED  BY <3>1, <4>1, <4>2 DEF OpensAt
    <3>5. ASSUME stale = {}, Recorded # {}
          PROVE  GoodOf(tree', slot'[Newest(Recorded)], log', base')
      <4> DEFINE M == Newest(Recorded)
      <4>1. GoodOf(tree, slot[M], log, base) /\ M = Latest(slot, RecordsOf(slot)) /\ SlotsOK(slot)
            /\ Recorded = RecordsOf(slot) /\ Usable = UsableOf(tree, slot) /\ N = Latest(slot, Usable)
        BY <1>1, <3>2, <3>5, Types, SlotDefs DEF RecordsFull
      <4>2. M \in Recorded /\ \A r \in RecordsOf(slot) : slot[r].txn <= slot[M].txn  BY <3>5, <4>1, LatestIs
      <4> HIDE DEF M, N
      <4>3. M \in Usable /\ Usable \in SUBSET RecordsOf(slot) /\ \A r \in Usable : slot[r].txn <= slot[M].txn
        BY <4>1, <4>2 DEF UsableOf, GoodOf
      <4>4. N = M  BY <4>1, <4>3, LatestOnly
      <4> QED  BY <3>1, <3>5, <4>4 DEF OpensAt, N, M
    <3>6. ASSUME ~lost, NEW s \in Recorded PROVE GoodOf(tree', slot'[s], log', base')
      BY <2>1, <3>6, OpenOlder
    <3>7. ASSUME Recorded = {}
          PROVE  /\ \A tr \in Trees : Len(tree'[tr]) = 1 /\ tree'[tr][1].applied = 0
                 /\ ShowsOf(base', log', 0, tree'["index"][1].map, tree'["terms"][1].map, tree'["lengths"][1].map)
      <4>1. p = 0 /\ tree' = tree /\ \A tr \in Trees : Len(tree[tr]) = 1 /\ tree[tr][1].applied = 0
        BY <3>1, <3>7 DEF OpensAt
      <4>2. ShowsOf(base', log', 0, Map("index")', Map("terms")', Map("lengths")')  BY <3>1, <4>1 DEF OpensAt
      <4>3. \A tr \in Trees : Last(tree'[tr]) = tree'[tr][1]
        <5>1. ASSUME NEW tr \in Trees PROVE Last(tree'[tr]) = tree'[tr][1]
          <6>1. IsSeq(tree'[tr]) /\ Len(tree'[tr]) = 1  BY <1>1, <4>1, TypesNext
          <6> DEFINE q == tree'[tr]
          <6> HIDE DEF q
          <6>2. Len(q) > 0 => q # <<>>  BY <6>1, SeqFacts DEF q
          <6>3. q # <<>> => Last(q) = q[Len(q)]  BY <6>1, SeqFacts DEF q
          <6>4. Len(q) = 1  BY <6>1 DEF q
          <6> QED  BY <6>2, <6>3, <6>4 DEF q
        <5> QED  BY <5>1
      <4>4. /\ Map("index")' = tree'["index"][1].map /\ Map("terms")' = tree'["terms"][1].map
            /\ Map("lengths")' = tree'["lengths"][1].map  BY <4>3 DEF Map, Trees
      <4> QED  BY <4>1, <4>2, <4>4
    <3>8. \A tr \in Trees : \A i \in 1..Len(tree'[tr]) : tree'[tr][i].applied <= p  BY <3>1 DEF OpensAt
    <3> QED  BY <1>1, <3>3, <3>4, <3>5, <3>6, <3>7, <3>8 DEF RecordsFull
  <2> QED  BY <1>1, <1>3, <2>1, RecordsNext
<1> QED  BY <1>2, <1>3

\* Where the trees end after an open is where the newest record had them before.
LEMMA OpenEnds ==
  ASSUME Opens, LossInv, ~lost, NEW tr \in Trees
  PROVE  /\ Len(tree'[tr]) \in Nat /\ Kept(tr)' = Len(tree'[tr]) /\ Len(tree'[tr]) \in 1..Len(tree[tr])
         /\ Kept(tr) = Len(tree'[tr]) /\ tree'[tr][Len(tree'[tr])] = tree[tr][Len(tree'[tr])]
         /\ staged'[tr] = tree'[tr][Len(tree'[tr])].applied
<1>1. /\ TypeInv /\ TypeInv' /\ slot' = slot /\ Recorded' = Recorded /\ Newest(Recorded)' = Newest(Recorded)
      /\ OpenAs /\ Usable = Recorded /\ SlotsOK(slot) /\ Recorded = RecordsOf(slot) /\ state' = "open"
      /\ IsSeq(tree'[tr]) /\ Len(tree'[tr]) \in Nat /\ tree'[tr] # <<>> /\ staged'[tr] = Last(tree'[tr]).applied
      /\ Len(tree[tr]) \in Nat
  <2>1. TypeInv /\ TypeInv' /\ Usable = Recorded /\ state' = "open"  BY OpenNewest DEF Opens
  <2>2. SlotsOK(slot) /\ Recorded = RecordsOf(slot) /\ IsSeq(tree'[tr]) /\ Len(tree'[tr]) \in Nat /\ Len(tree[tr]) \in Nat
    BY <2>1, Types, TypesNext, SlotDefs
  <2> QED  BY <2>1, <2>2 DEF Opens
<1>2. Last(tree'[tr]) = tree'[tr][Len(tree'[tr])] /\ Len(tree'[tr]) \in 1..Len(tree'[tr])  BY <1>1, SeqFacts
<1>3. CASE Recorded = {}
  <2>1. tree' = tree /\ Recorded' = {}  BY <1>1, <1>3, OpenNewest
  <2>2. Kept(tr)' = Len(tree'[tr]) /\ Kept(tr) = Len(tree[tr])  BY <1>3, <2>1 DEF Kept
  <2> QED  BY <1>1, <1>2, <2>1, <2>2
<1>4. CASE Recorded # {}
  <2> DEFINE N == Newest(Recorded)
             n == slot[N].lens[tr]
  <2>1. CutTo(tree'[tr], tree[tr], n)  BY <1>1, <1>4 DEF OpenAs
  <2>2. Kept(tr)' = n /\ Kept(tr) = n  BY <1>1, <1>4 DEF Kept
  <2>3. N \in Recorded  BY <1>1, <1>4, LatestIs, SlotDefs
  <2>4. n \in Nat \ {0} /\ n <= Len(tree[tr])  BY <1>1, <2>3, RecordIs DEF LossInv, Satisfied
  <2> HIDE DEF n
  <2>5. Len(tree'[tr]) = n /\ tree'[tr][n] = tree[tr][n]  BY <2>1, <2>4 DEF CutTo
  <2>6. n \in 1..Len(tree[tr])  BY <1>1, <2>4
  <2> QED  BY <1>1, <1>2, <2>2, <2>5, <2>6
<1> QED  BY <1>3, <1>4

\* The clears behind the index after an open were behind it before, or behind its trees.
LEMMA OpenBehind ==
  ASSUME Opens, LossInv, FinishedInv, ~lost
  PROVE  Behind' /\ ClearsStaged(state = "open", Busy)'
<1>1. /\ TypeInv /\ TypeInv' /\ state = "down" /\ ~Busy /\ ~Busy' /\ lost' = lost
      /\ (\A i \in 1..Len(log') : log'[i] = log[i]) /\ Len(log') <= Len(log)
      /\ finished' <= finished /\ finished' <= Len(log') /\ state' = "open" /\ "index" \in Trees
      /\ finished \in Nat /\ finished' \in Nat /\ Len(log) \in Nat /\ Len(log') \in Nat /\ finished <= Len(log)
      /\ staged' \in [Trees -> Nat]
  <2>1. TypeInv /\ TypeInv' /\ state' = "open"  BY OpenNewest DEF Opens
  <2>2. finished \in Nat /\ Len(log) \in Nat /\ finished <= Len(log)  BY <2>1, Types
  <2>3. Len(log') \in Nat /\ finished' \in Nat /\ staged' \in [Trees -> Nat]  BY <2>1 DEF TypeInv
  <2> QED  BY <2>1, <2>2, <2>3 DEF Opens, Trees
<1>2. Behind  BY <1>1, FinishedIs
<1>3. ASSUME NEW j \in 1..finished', Clear(j)', NEW tr \in Trees
      PROVE  j <= staged'[tr]
  <2>1. j \in 1..Len(log') /\ j \in 1..Len(log) /\ j <= finished  BY <1>1
  <2>2. Over(j)  BY <1>1, <1>3, <2>1 DEF Over, Clear
  <2> DEFINE n == Len(tree'[tr])
  <2>3. /\ n \in 1..Len(tree[tr]) /\ Kept(tr) = n /\ tree'[tr][n] = tree[tr][n]
        /\ staged'[tr] = tree'[tr][n].applied /\ n \in Nat  BY OpenEnds
  <2> HIDE DEF n
  <2>4. n >= Kept(tr)  BY <2>3
  <2> QED  BY <1>2, <2>1, <2>2, <2>3, <2>4 DEF Behind
<1>4. ASSUME NEW j \in 1..Len(log'), Over(j)', NEW tr \in Trees, NEW i \in 1..Len(tree'[tr]), i >= Kept(tr)'
      PROVE  j <= tree'[tr][i].applied
  <2>1. Clear(j)' /\ (j <= finished' \/ \A x \in Trees : j <= staged'[x])  BY <1>1, <1>4 DEF Over
  <2>2. j \in Nat /\ j >= 1  BY <1>1
  <2>3. j <= staged'[tr]
    <3>1. CASE j <= finished'
      <4>1. j \in 1..finished'  BY <2>2, <3>1, <1>1
      <4> QED  BY <4>1, <2>1, <1>3
    <3> QED  BY <2>1, <3>1
  <2>4. i = Len(tree'[tr])
    <3> DEFINE n == Len(tree'[tr])
    <3>1. n \in Nat /\ i \in 1..n /\ i >= n  BY <1>4, OpenEnds
    <3> HIDE DEF n
    <3>2. i = n  BY <3>1
    <3> QED  BY <3>2 DEF n
  <2> QED  BY <2>3, <2>4, OpenEnds
<1>5. Behind'  BY <1>4 DEF Behind
<1>6. ClearsStaged(state = "open", Busy)'  BY <1>1, <1>3 DEF ClearsStaged
<1> QED  BY <1>5, <1>6

\* A finished clear is before what the open index has applied.

LEMMA OpenCounted ==
  ASSUME Opens, LossInv, RecordsInv, FinishedInv, ~lost, ~exposed
  PROVE  Counted(state = "open", Busy)'
<1>1. /\ TypeInv /\ TypeInv' /\ state = "down" /\ ~Busy /\ ~Busy' /\ state' = "open" /\ slot' = slot /\ base' = base
      /\ (\A i \in 1..Len(log') : log'[i] = log[i]) /\ Len(log') <= Len(log)
      /\ finished' <= finished /\ finished' <= Len(log') /\ (finished' = finished \/ finished' = Len(log'))
      /\ Recorded' = Recorded /\ Newest(Recorded)' = Newest(Recorded) /\ "index" \in Trees
      /\ finished \in Nat /\ finished' \in Nat /\ Len(log) \in Nat /\ Len(log') \in Nat
      /\ log \in Seq(Operations) /\ log' \in Seq(Operations) /\ base \in DocMaps /\ Usable = Recorded
  <2>1. TypeInv /\ TypeInv' /\ state' = "open" /\ Usable = Recorded  BY OpenNewest DEF Opens
  <2>2. finished \in Nat /\ Len(log) \in Nat /\ log \in Seq(Operations) /\ base \in DocMaps  BY <2>1, Types
  <2>3. Len(log') \in Nat /\ finished' \in Nat /\ log' \in Seq(Operations)  BY <2>1 DEF TypeInv
  <2> QED  BY <2>1, <2>2, <2>3 DEF Opens, Trees
<1>2. PICK p \in Nat : OpensAt(p)  BY <1>1, OpenPoint
<1>3. staged'["index"] = p /\ p <= Len(log')  BY <1>1, <1>2 DEF OpensAt
<1>4. Counted(FALSE, FALSE)  BY <1>1, FinishedIs DEF Counted
<1>5. p <= finished /\ SettledOf(base, log, finished, p)
  <2>1. CASE Recorded = {}
    <3>1. p = 0  BY <1>2, <2>1 DEF OpensAt
    <3> QED  BY <1>1, <1>4, <2>1, <3>1 DEF Counted
  <2>2. CASE Recorded # {}  BY <1>1, <1>2, <1>4, <2>2 DEF Counted, OpensAt
  <2> QED  BY <2>1, <2>2
<1>6. p <= finished'  BY <1>1, <1>3, <1>5
<1>7. SettledOf(base', log', finished', p)
  <2> DEFINE l == log
             k == log'
             b == base
             f == finished
             g == finished'
  <2>1. /\ l \in Seq(Operations) /\ k \in Seq(Operations) /\ b \in DocMaps /\ f \in Nat /\ g \in Nat
        /\ Len(l) \in Nat /\ Len(k) \in Nat /\ Len(k) <= Len(l) /\ g <= f /\ g <= Len(k) /\ p <= g
        /\ (\A i \in 1..Len(k) : k[i] = l[i]) /\ \A j \in p..f : DocsAfter(b, l, j) = DocsAfter(b, l, p)
    BY <1>1, <1>5, <1>6 DEF SettledOf
  <2> HIDE DEF l, k, b, f, g
  <2>2. ASSUME NEW j \in 0..g PROVE DocsAfter(b, k, j) = DocsAfter(b, l, j)
    <3>1. j \in Nat /\ j <= Len(l) /\ j <= Len(k) /\ \A i \in 1..j : l[i] = k[i]  BY <2>1
    <3> QED  BY <2>1, <3>1, DocsAgree
  <2>3. ASSUME NEW j \in p..g PROVE DocsAfter(b, k, j) = DocsAfter(b, k, p)
    <3>1. j \in 0..g /\ p \in 0..g /\ j \in p..f  BY <2>1
    <3> QED  BY <2>1, <2>2, <3>1
  <2> QED  BY <1>1, <2>3 DEF SettledOf, k, b, g
<1>8. Recorded' # {} => PointOf(tree', slot'[Newest(Recorded)']) = p  BY <1>1, <1>2 DEF OpensAt
<1>9. Recorded' = {} => p = 0  BY <1>1, <1>2 DEF OpensAt
<1> QED  BY <1>1, <1>3, <1>6, <1>7, <1>8, <1>9 DEF Counted

LEMMA OpenKeeps ==
  ASSUME FullInv, Open
  PROVE  FullInv'
<1>1. TypeInv /\ HostInv /\ LossInv /\ RecordsInv /\ ShownInv /\ FinishedInv  BY DEF FullInv, Inv
<1>2. Opens  BY <1>1, OpenIs
<1>3. TypeInv' /\ CallInv' /\ HostInv' /\ LossInv' /\ RecordsInv' /\ ShownInv'
  <2>1. TypeInv' /\ CallInv'  BY <1>2 DEF Opens, CallInv
  <2> QED  BY <1>1, <1>2, <2>1, OpenHost, OpenLoss, OpenRecords, OpenShown
<1>4. FinishedInv'
  <2>1. lost' = lost /\ exposed' = exposed /\ TypeInv'  BY <1>2 DEF Opens
  <2>2. ASSUME ~lost PROVE Behind' /\ ClearsStaged(state = "open", Busy)'  BY <1>1, <1>2, <2>2, OpenBehind
  <2>3. ASSUME ~lost, ~exposed PROVE Counted(state = "open", Busy)'  BY <1>1, <1>2, <2>3, OpenCounted
  <2> QED  BY <2>1, <2>2, <2>3, FinishedNext
<1> QED  BY <1>3, <1>4 DEF FullInv, Inv

----
(* The specification keeps the invariant.                                  *)

LEMMA StepKeeps ==
  ASSUME FullInv, Step
  PROVE  FullInv'
<1> DEFINE a == staged["index"]
<1>1. TypeInv /\ CallInv /\ HostInv /\ LossInv /\ RecordsInv /\ ShownInv /\ FinishedInv  BY DEF FullInv, Inv
<1>2. AStep(a)  BY <1>1, StepIs
<1>3. TypeInv'  BY <1>1, StepsTyped
<1> HIDE DEF a
<1>4. CallInv' /\ HostInv' /\ LossInv' /\ RecordsInv' /\ ShownInv' /\ FinishedInv'
  BY <1>1, <1>2, CallStep, HostStep, LossStep, RecordsStep, ShownStep, FinishedStep
<1> QED  BY <1>3, <1>4 DEF FullInv, Inv

LEMMA StutterKeeps ==
  ASSUME FullInv, UNCHANGED vars
  PROVE  FullInv'
<1>0. /\ tree' = tree /\ staged' = staged /\ safe' = safe /\ slot' = slot /\ state' = state /\ todo' = todo
      /\ log' = log /\ base' = base /\ finished' = finished /\ lost' = lost /\ stale' = stale
      /\ exposed' = exposed  BY DEF vars
<1>1. TypeInv' /\ CallInv'  BY <1>0 DEF FullInv, Inv, TypeInv, CallInv, Clear, Recorded, Busy
<1>2. HostInv'  BY <1>0 DEF FullInv, Inv, HostInv, Busy, Recorded, Usable, Satisfied, Back, Newest
<1>3. LossInv'  BY <1>0 DEF FullInv, Inv, LossInv, Recorded, Satisfied
<1>4. /\ Recorded' = Recorded /\ Usable' = Usable /\ Busy' = Busy /\ Idle' = Idle
      /\ Newest(Recorded)' = Newest(Recorded) /\ Newest(Usable)' = Newest(Usable)
      /\ \A tr \in Trees : Map(tr)' = Map(tr) /\ Kept(tr)' = Kept(tr)
  BY <1>0, SameRecords DEF Busy, Idle, Map
<1>5. /\ \A j : Contents(j)' = Contents(j) /\ Clear(j)' = Clear(j)
      /\ \A s : Point(s)' = Point(s)
      /\ \A j, m, terms, lens : Shows(j, m, terms, lens)' <=> Shows(j, m, terms, lens)
  BY <1>0 DEF Contents, Clear, Point, Shows
<1>6. \A s : Good(s)' <=> Good(s)  BY <1>0, <1>5 DEF Good, Satisfied
<1>7. \A ws, j : HalfDone(ws, j)' <=> HalfDone(ws, j)  BY <1>0, <1>4, <1>5 DEF HalfDone, Trees
<1>8. /\ \A j : Settled(j)' <=> Settled(j)
      /\ \A j : Over(j)' <=> Over(j)  BY <1>0, <1>4, <1>5 DEF Settled, Over
<1>9. RecordsInv'  BY <1>0, <1>4, <1>5, <1>6 DEF FullInv, RecordsInv, Trees
<1>10. ShownInv'  BY <1>0, <1>4, <1>5, <1>7 DEF FullInv, ShownInv, Trees
<1>11. FinishedInv'  BY <1>0, <1>4, <1>5, <1>8 DEF FullInv, FinishedInv
<1> QED  BY <1>1, <1>2, <1>3, <1>9, <1>10, <1>11 DEF FullInv, Inv

----
(* The index a host starts with.                                           *)

LEMMA FirstMaps ==
  ASSUME Init
  PROVE  /\ base \in DocMaps /\ state = "open" /\ tree = [tr \in Trees |-> tree[tr]]
         /\ \A tr \in Trees : \E m : /\ MapOK(tr, m) /\ tree[tr] = <<Version(m, 0)>>
                                     /\ VersionOK(tr, Version(m, 0))
         /\ Serves(Map("index"), base) /\ Map("terms") = base /\ Map("lengths") = LengthsOf(base)
<1> DEFINE maps(tr) == CASE tr = "index"   -> LegacyMap(base)
                         [] tr = "terms"   -> base
                         [] tr = "lengths" -> [d \in DOMAIN base |-> Length(base[d])]
<1>1. base \in {<<>>, Legacy} /\ tree = [tr \in Trees |-> <<Version(maps(tr), 0)>>] /\ state = "open"
  BY DEF Init
<1>2. base \in DocMaps  BY <1>1, BaseTyped
<1>3. IndexMap(LegacyMap(base)) /\ Serves(LegacyMap(base), base)  BY <1>1, LegacyServes
<1>4. LengthMap(LengthsOf(base)) /\ LengthsOf(base) = [d \in DOMAIN base |-> Length(base[d])]
  <2>1. DOMAIN base \in DocSets  BY <1>2, MapsOfDocs
  <2> QED  BY <2>1, LensOf DEF LengthMap, LengthsOf
<1>5. maps("index") = LegacyMap(base) /\ maps("terms") = base /\ maps("lengths") = LengthsOf(base)  BY <1>4
<1>6. \A tr \in Trees : MapOK(tr, maps(tr))  BY <1>2, <1>3, <1>4, <1>5 DEF Trees, MapOK
<1> HIDE DEF maps
<1>7. tree = [tr \in Trees |-> tree[tr]] /\ \A tr \in Trees : tree[tr] = <<Version(maps(tr), 0)>>  BY <1>1
<1>8. \A tr \in Trees : VersionOK(tr, Version(maps(tr), 0)) /\ Version(maps(tr), 0).map = maps(tr)
  BY <1>6, NewVersion
<1>9. \A tr \in Trees : Map(tr) = maps(tr)  BY <1>7, <1>8 DEF Map, Last
<1>10. Serves(Map("index"), base) /\ Map("terms") = base /\ Map("lengths") = LengthsOf(base)
  BY <1>3, <1>5, <1>9 DEF Trees
<1>11. \A tr \in Trees : \E m : /\ MapOK(tr, m) /\ tree[tr] = <<Version(m, 0)>>
                                /\ VersionOK(tr, Version(m, 0))  BY <1>6, <1>7, <1>8
<1> QED  BY <1>1, <1>2, <1>7, <1>10, <1>11

LEMMA FirstTyped ==
  ASSUME Init
  PROVE  /\ TypeInv /\ Recorded = {} /\ Busy = FALSE
         /\ \A tr \in Trees : Len(tree[tr]) = 1 /\ tree[tr][1].applied = 0 /\ Last(tree[tr]) = tree[tr][1]
<1>1. /\ base \in {<<>>, Legacy} /\ staged = [tr \in Trees |-> 0] /\ safe = [tr \in Trees |-> 1]
      /\ slot = [s \in Slots |-> Blank] /\ state = "open" /\ todo = <<>> /\ log = <<>>
      /\ finished = 0 /\ lost = FALSE /\ stale = {} /\ exposed = FALSE  BY DEF Init
<1>2. tree = [tr \in Trees |-> tree[tr]]  BY FirstMaps
<1>3. ASSUME NEW tr \in Trees
      PROVE  /\ IsSeq(tree[tr]) /\ Len(tree[tr]) = 1 /\ tree[tr] # <<>> /\ tree[tr][1].applied = 0
             /\ Last(tree[tr]) = tree[tr][1]
             /\ \A i \in DOMAIN tree[tr] : VersionOK(tr, tree[tr][i])
  <2>1. PICK m : tree[tr] = <<Version(m, 0)>> /\ VersionOK(tr, Version(m, 0))  BY FirstMaps
  <2> DEFINE v == Version(m, 0)
  <2>2. v.applied = 0  BY DEF Version
  <2> HIDE DEF v
  <2>3. tree[tr] = <<v>> /\ VersionOK(tr, v)  BY <2>1 DEF v
  <2>4. <<v>> \in Seq({v}) /\ Len(<<v>>) = 1 /\ DOMAIN <<v>> = {1} /\ <<v>>[1] = v /\ <<v>> # <<>>  OBVIOUS
  <2>5. IsSeq(<<v>>)  BY <2>4, SeqIs
  <2> QED  BY <2>2, <2>3, <2>4, <2>5 DEF Last
<1>4. Recorded = {} /\ \A s \in Slots : slot[s] = Blank  BY <1>1 DEF Recorded
<1>5. IsSeq(todo) /\ log \in Seq(Operations) /\ Len(log) = 0
  <2>1. <<>> \in Seq({}) /\ <<>> \in Seq(Operations) /\ Len(<<>>) = 0  OBVIOUS
  <2> QED  BY <1>1, <2>1, SeqIs
<1>6. staged \in [Trees -> Nat] /\ safe \in [Trees -> Nat] /\ \A tr \in Trees : safe[tr] <= Len(tree[tr])
  BY <1>1, <1>3
<1>7. slot = [s \in Slots |-> slot[s]]  BY <1>1
<1>8. finished \in 0..Len(log) /\ stale \subseteq Recorded /\ lost \in BOOLEAN /\ exposed \in BOOLEAN
  <2>1. finished \in 0..Len(log)
    <3>1. 0 \in 0..0  OBVIOUS
    <3> QED  BY <1>1, <1>5, <3>1
  <2>2. stale \subseteq Recorded /\ lost \in BOOLEAN /\ exposed \in BOOLEAN  BY <1>1, Zenon
  <2> QED  BY <2>1, <2>2
<1>9. state \in {"down", "open", "failed", "refused"} /\ ~Busy  BY <1>1 DEF Busy
<1>10. TypeInv  BY <1>1, <1>2, <1>3, <1>4, <1>5, <1>6, <1>7, <1>8, <1>9 DEF TypeInv
<1> QED  BY <1>3, <1>4, <1>9, <1>10 DEF Busy

LEMMA InitKeeps ==
  ASSUME Init
  PROVE  FullInv
<1>1. /\ staged = [tr \in Trees |-> 0] /\ log = <<>> /\ state = "open" /\ todo = <<>> /\ finished = 0
      /\ lost = FALSE /\ stale = {} /\ exposed = FALSE /\ staged["index"] = 0  BY DEF Init, Trees
<1>2. /\ TypeInv /\ Recorded = {} /\ ~Busy
      /\ \A tr \in Trees : Len(tree[tr]) = 1 /\ tree[tr][1].applied = 0 /\ Last(tree[tr]) = tree[tr][1]
  BY FirstTyped
<1>3. Len(log) = 0 /\ log \in Seq(Operations)  BY <1>1
<1>4. CallInv  BY <1>2 DEF CallInv
<1>5. HostInv
  <2>1. "index" \in Trees /\ staged["index"] <= Len(log)  BY <1>1, <1>3 DEF Trees
  <2>2. TypeInv /\ (Recorded # {} => Usable # {}) /\ Recorded = {}  BY <1>2
  <2>3. Back("index").applied = 0 \/ \E i \in 1..Len(tree["index"]) : Back("index") = tree["index"][i]
    BY <2>1, <2>2, BackAll
  <2>4. Len(tree["index"]) = 1 /\ tree["index"][1].applied = 0  BY <1>2, <2>1
  <2>5. Back("index").applied = 0  BY <2>3, <2>4
  <2> HIDE DEF Back
  <2>6. Back("index").applied <= Len(log)  BY <2>5, <1>3
  <2> QED  BY <2>1, <2>6 DEF HostInv
<1>6. LossInv
  <2>1. \A tr \in Trees : tree[tr] # <<>>  BY <1>2
  <2> QED  BY <1>1, <1>2, <2>1 DEF LossInv
<1>7. base \in DocMaps /\ Serves(Map("index"), base) /\ Map("terms") = base /\ Map("lengths") = LengthsOf(base)
  BY FirstMaps
<1>8. DocsAfter(base, log, 0) = base  BY <1>3, <1>7, DocsStep
<1>9. ShowsOf(base, log, 0, Map("index"), Map("terms"), Map("lengths"))  BY <1>7, <1>8 DEF ShowsOf
<1>10. \A tr \in Trees : Map(tr) = tree[tr][1].map  BY <1>2 DEF Map
<1>11. ShowsOf(base, log, 0, tree["index"][1].map, tree["terms"][1].map, tree["lengths"][1].map)
  BY <1>9, <1>10 DEF Trees
<1>12. RecordsInv
  <2>1. \A tr \in Trees : \A i \in 1..Len(tree[tr]) : tree[tr][i].applied <= 0  BY <1>2
  <2>2. Usable = {}  BY <1>2 DEF Usable
  <2>3. RecordsFull(0, FALSE)  BY <1>2, <1>11, <2>1, <2>2 DEF RecordsFull
  <2>4. Busy = FALSE  BY FirstTyped
  <2> QED  BY <1>1, <1>2, <2>3, <2>4, RecordsIs
<1>13. ShownInv
  <2>1. 0 <= Len(log)  BY <1>3
  <2> QED  BY <1>1, <1>2, <1>9, <2>1, ShownIs DEF ShownFull
<1>14. FinishedInv
  <2>1. Behind  BY <1>3 DEF Behind
  <2>2. ClearsStaged(state = "open", Busy)  BY <1>1 DEF ClearsStaged
  <2>3. SettledOf(base, log, finished, 0)  BY <1>1 DEF SettledOf
  <2>4. Counted(state = "open", Busy)  BY <1>1, <1>2, <2>3 DEF Counted
  <2> QED  BY <1>2, <2>1, <2>2, <2>4, FinishedIs
<1> QED  BY <1>2, <1>4, <1>5, <1>6, <1>12, <1>13, <1>14 DEF FullInv, Inv

----
(* Queries.                                                                *)

\* The sets and the counts of queries are those of the documents.
LEMMA AgreedPostings ==
  ASSUME NEW m, m = Map("index"), IndexMap(m), NEW docs, docs = Map("terms"), docs \in DocMaps, Serves(m, docs)
  PROVE  PostingsAgree
<1>1. TidyMap(m) /\ \A t \in Terms : LoadPostings(m, t) = Having(docs, t)  BY Served
<1>2. \A t \in Terms : LoadPostings(m, t) = [d \in {e \in DOMAIN docs : t \in DOMAIN docs[e]} |-> docs[d][t]]
  BY <1>1 DEF Having
<1>3. \A t \in Terms : \A d : d \in Hits(t) <=> d \in DOMAIN docs /\ t \in DOMAIN docs[d]
  BY <1>1, HavingIs DEF Hits
<1>4. ASSUME NEW ts \in (SUBSET Terms) \ {{}}
      PROVE  QueryAll(ts) = {d \in DOMAIN docs : ts \subseteq DOMAIN docs[d]}
  <2>1. PICK u \in ts : TRUE  OBVIOUS
  <2>2. DOMAIN docs \subseteq Docs  BY MapsOfDocs DEF DocSets
  <2>3. ASSUME NEW d \in QueryAll(ts) PROVE d \in DOMAIN docs /\ ts \subseteq DOMAIN docs[d]
    BY <2>1, <1>3 DEF QueryAll
  <2>4. ASSUME NEW d \in DOMAIN docs, ts \subseteq DOMAIN docs[d] PROVE d \in QueryAll(ts)
    BY <2>2, <2>4, <1>3 DEF QueryAll
  <2> QED  BY <2>3, <2>4
<1>5. TermCount = Cardinality({t \in Terms : Hits(t) # {}})
  <2> DEFINE U == {t \in Terms : DOMAIN LoadPostings(m, t) # {}}
  <2>1. U = {t \in Terms : DOMAIN Having(docs, t) # {}}  BY <1>1
  <2>2. IsFiniteSet(U)  BY <2>1, FewTerms
  <2>3. U = {t \in Terms : Hits(t) # {}}  BY DEF Hits
  <2>4. Cardinality({k \in DOMAIN m : k[2] \in {"header", "blob"}}) = Cardinality(U)  BY <1>1, <2>2, TermKeys
  <2> QED  BY <2>3, <2>4 DEF TermCount
<1> QED  BY <1>2, <1>4, <1>5, Zenon DEF PostingsAgree

\* So is what a query scores them by.
LEMMA AgreedStatistics ==
  ASSUME NEW m, m = Map("index"), IndexMap(m), NEW docs, docs = Map("terms"), docs \in DocMaps,
         Serves(m, docs), NEW lens, lens = Map("lengths"), lens = LengthsOf(docs)
  PROVE  StatisticsAgree
<1>1. SumOK(m, docs) /\ \A t \in Terms : LoadPostings(m, t) = Having(docs, t)  BY Served
<1>2. DOMAIN lens = DOMAIN docs /\ \A d \in DOMAIN docs : lens[d] = Length(docs[d])  BY LensOf
<1>3. CorpusLength(m, lens, 0) = SumFunction([d \in DOMAIN docs |-> Length(docs[d])])
  <2> DEFINE s == SumFunction(LengthsOf(docs))
  <2>1. s \in Int  BY Lengthy, SumTyped
  <2>2. s = SumFunction([d \in DOMAIN docs |-> Length(docs[d])])  BY DEF LengthsOf
  <2>3. CorpusLength(m, lens, 0) = IF SumKey \in DOMAIN m THEN m[SumKey] + 0 ELSE s  BY DEF CorpusLength
  <2>4. SumKey \in DOMAIN m => m[SumKey] = s  BY <1>1 DEF SumOK
  <2> HIDE DEF s
  <2> QED  BY <2>1, <2>2, <2>3, <2>4
<1>4. \A t \in Terms : \A d : d \in Hits(t) <=> d \in DOMAIN docs /\ t \in DOMAIN docs[d]
  BY <1>1, HavingIs DEF Hits
<1>5. \A t \in Terms : \A d \in Hits(t) : LoadPostings(m, t)[d] = docs[d][t]  BY <1>1, HavingIs DEF Hits
<1>6. ASSUME NEW ts \in SUBSET Terms
      PROVE  [d \in UNION {Hits(t) : t \in ts} |->
                [length |-> At(lens, d, 0),
                 counts |-> [t \in {u \in ts : d \in Hits(u)} |-> LoadPostings(m, t)[d]]]] =
             [d \in {e \in DOMAIN docs : DOMAIN docs[e] \cap ts # {}} |->
                [length |-> Length(docs[d]),
                 counts |-> [t \in ts \cap DOMAIN docs[d] |-> docs[d][t]]]]
  <2> DEFINE A == UNION {Hits(t) : t \in ts}
             B == {e \in DOMAIN docs : DOMAIN docs[e] \cap ts # {}}
             a(d) == [t \in {u \in ts : d \in Hits(u)} |-> LoadPostings(m, t)[d]]
             b(d) == [t \in ts \cap DOMAIN docs[d] |-> docs[d][t]]
  <2>1. A = B
    <3>1. \A d \in A : d \in B  BY <1>4
    <3>2. \A d \in B : d \in A  BY <1>4
    <3> QED  BY <3>1, <3>2
  <2>2. ASSUME NEW d \in B PROVE a(d) = b(d)
    <3> DEFINE S == {u \in ts : d \in Hits(u)}
    <3>1. S = ts \cap DOMAIN docs[d]  BY <1>4
    <3>2. \A t \in S : LoadPostings(m, t)[d] = docs[d][t]  BY <1>5
    <3> QED  BY <3>1, <3>2
  <2>3. ASSUME NEW d \in B PROVE At(lens, d, 0) = Length(docs[d])  BY <1>2 DEF At
  <2> HIDE DEF A, B, a, b
  <2>4. [d \in A |-> [length |-> At(lens, d, 0), counts |-> a(d)]] =
        [d \in B |-> [length |-> Length(docs[d]), counts |-> b(d)]]  BY <2>1, <2>2, <2>3
  <2> QED  BY <2>4 DEF A, B, a, b
<1>7. ASSUME NEW ts \in (SUBSET Terms) \ {{}}
      PROVE  Query(ts) =
               [total |-> Cardinality(DOMAIN docs),
                sum   |-> SumFunction([d \in DOMAIN docs |-> Length(docs[d])]),
                found |-> [d \in {e \in DOMAIN docs : DOMAIN docs[e] \cap ts # {}} |->
                             [length |-> Length(docs[d]),
                              counts |-> [t \in ts \cap DOMAIN docs[d] |-> docs[d][t]]]]]
  <2>1. Cardinality(DOMAIN lens) = Cardinality(DOMAIN docs)  BY <1>2
  <2>2. Query(ts) =
          [total |-> Cardinality(DOMAIN lens), sum |-> CorpusLength(m, lens, 0),
           found |-> [d \in UNION {Hits(t) : t \in ts} |->
                [length |-> At(lens, d, 0),
                 counts |-> [t \in {u \in ts : d \in Hits(u)} |-> LoadPostings(m, t)[d]]]]]  BY DEF Query
  <2>3. ts \in SUBSET Terms  OBVIOUS
  <2> QED  BY <2>1, <2>2, <2>3, <1>3, <1>6, Zenon
<1> QED  BY <1>7, Zenon DEF StatisticsAgree

----
(* The theorems.                                                           *)

\* Every call, write, failure, crash and open keeps what the maps, the records and the
\* log have to say of each other.
THEOREM Invariant == Spec => []FullInv
<1>1. Init => FullInv  BY InitKeeps
<1>2. FullInv /\ [Next]_vars => FullInv'
  <2> SUFFICES ASSUME FullInv, [Next]_vars
               PROVE  FullInv'  OBVIOUS
  <2>1. CASE UNCHANGED vars  BY <2>1, StutterKeeps
  <2>2. CASE Call  BY <2>2, CallKeeps
  <2>3. CASE Step  BY <2>3, StepKeeps
  <2>4. CASE Fail  BY <2>4, FailKeeps
  <2>5. CASE Close  BY <2>5, CloseKeeps
  <2>6. CASE Crash  BY <2>6, CrashKeeps
  <2>7. CASE Open  BY <2>7, OpenKeeps
  <2> QED  BY <2>1, <2>2, <2>3, <2>4, <2>5, <2>6, <2>7 DEF Next
<1> QED  BY <1>1, <1>2, PTL DEF Spec

\* The variables keep their types and no record promises more than it can, for every
\* set of documents, terms and texts.
THEOREM TypeCorrect == Spec => []TypeOK
<1>1. FullInv => TypeOK
  <2> SUFFICES ASSUME FullInv
               PROVE  TypeOK  OBVIOUS
  <2>1. TypeInv  BY DEF FullInv, Inv
  <2>2. ASSUME NEW tr \in Trees
        PROVE  safe[tr] \in 0..Len(tree[tr]) /\ (state = "open" => tree[tr] # <<>>)
    <3>1. safe[tr] \in Nat /\ Len(tree[tr]) \in Nat /\ safe[tr] <= Len(tree[tr])  BY <2>1, Types DEF TypeInv
    <3> DEFINE x == safe[tr]
               n == Len(tree[tr])
    <3>2. x \in Nat /\ n \in Nat /\ x <= n  BY <3>1
    <3> HIDE DEF x, n
    <3>3. x \in 0..n  BY <3>2
    <3> QED  BY <3>3, <2>1 DEF x, n, TypeInv
  <2>3. ASSUME NEW s \in Slots, slot[s] # Blank
        PROVE  DOMAIN slot[s].lens = Trees  BY <2>1, <2>3 DEF TypeInv, RecordOK
  <2> QED  BY <2>1, <2>2, <2>3 DEF TypeInv, TypeOK
<1> QED  BY <1>1, Invariant, PTL

\* An open refuses an index only after a crash that took commits of a tree: an index
\* whose processes ended, wherever they did, always opens again.
THEOREM OnlyLossRefused == Spec => []RefusesOnlyLoss
<1>1. FullInv => RefusesOnlyLoss  BY DEF FullInv, Inv, LossInv, RefusesOnlyLoss
<1> QED  BY <1>1, Invariant, PTL

\* Between calls the documents are those of the log up to the applied index, and where
\* no crash took commits they are those of every operation that returned.
THEOREM OperationsAtomic == Spec => []DocumentsMatchLog
<1>1. FullInv => DocumentsMatchLog
  <2> SUFFICES ASSUME FullInv, Idle, ~exposed
               PROVE  /\ Map("terms") = Contents(AppliedIndex)
                      /\ ~lost => Map("terms") = Contents(finished)  BY DEF DocumentsMatchLog
  <2> DEFINE a == staged["index"]
  <2>1. TypeInv /\ ShownInv /\ FinishedInv /\ state = "open" /\ ~Busy  BY DEF FullInv, Inv, Idle
  <2>2. staged = [tr \in Trees |-> a] /\ Shows(a, Map("index"), Map("terms"), Map("lengths"))
    BY <2>1 DEF ShownInv
  <2>3. AppliedIndex = a  BY <2>1, <2>2, AppliedIs
  <2>4. Map("terms") = Contents(a)  BY <2>2 DEF Shows
  <2>5. ASSUME ~lost
        PROVE  Contents(finished) = Contents(a)
    <3>1. a <= finished /\ Settled(a)  BY <2>1, <2>5 DEF FinishedInv, Idle
    <3>2. a \in Nat /\ finished \in Nat  BY <2>1, Types DEF Trees
    <3> HIDE DEF a
    <3>3. finished \in a..finished  BY <3>1, <3>2
    <3> QED  BY <3>1, <3>3 DEF Settled
  <2> QED  BY <2>3, <2>4, <2>5
<1> QED  BY <1>1, Invariant, PTL

\* Between calls queries, counts and the statistics of the ranking are those of the
\* documents there are, over new and older files, wherever crashes and failures fell.
THEOREM QueriesRight == Spec => []QueriesMatchDocuments
<1>1. FullInv => QueriesMatchDocuments
  <2> SUFFICES ASSUME FullInv, Idle, ~exposed
               PROVE  PostingsAgree /\ StatisticsAgree  BY DEF QueriesMatchDocuments
  <2> DEFINE a == staged["index"]
             m == Map("index")
             docs == Map("terms")
             lens == Map("lengths")
  <2>1. TypeInv /\ ShownInv /\ state = "open" /\ ~Busy  BY DEF FullInv, Inv, Idle
  <2>2. Shows(a, m, docs, lens)  BY <2>1 DEF ShownInv
  <2>3. lens = LengthsOf(docs) /\ Serves(m, docs)  BY <2>2 DEF Shows
  <2>4. IndexMap(m) /\ docs \in DocMaps  BY <2>1, OpenTypes DEF Map
  <2>5. m = Map("index") /\ docs = Map("terms") /\ lens = Map("lengths")  OBVIOUS
  <2> HIDE DEF m, docs, lens
  <2> QED  BY <2>3, <2>4, <2>5, AgreedPostings, AgreedStatistics
<1> QED  BY <1>1, Invariant, PTL

=============================================================================
