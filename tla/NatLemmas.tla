--------------------------------- MODULE NatLemmas ---------------------------------
(***************************************************************************)
(* The least and the greatest element of a set of naturals, induction over *)
(* a set of them, functions defined by recursion, the sum of a function    *)
(* over a finite set, and products of naturals, for the proofs.            *)
(***************************************************************************)
EXTENDS Integers, FiniteSetsExt, Functions, Folds, FiniteSetTheorems, WellFoundedInduction, TLAPS

Less == {ss \in Nat \X Nat : ss[1] < ss[2]}

\* Less is well-founded, so a non-empty set of naturals has a least element.
LEMMA LessWF == IsWellFoundedOn(Less, Nat)
  BY NatLessThanWellFounded, Zenon DEF OpToRel, Less

LEMMA MinOfNats ==
  ASSUME NEW S \in SUBSET Nat, S # {}
  PROVE  Min(S) \in S /\ \A y \in S : Min(S) <= y
<1>1. PICK x \in S : \A y \in S : ~ (<<y, x>> \in Less)
  BY LessWF, WFMin
<1>2. ASSUME NEW y \in S PROVE x <= y
  <2>1. x \in Nat /\ y \in Nat /\ ~ (<<y, x>> \in Less)
    BY <1>1
  <2>2. ~ (y < x)
    BY <2>1 DEF Less
  <2> QED
    BY <2>1, <2>2
<1> QED
  BY <1>2 DEF Min

\* A bounded one has a greatest.
LEMMA MaxOfNats ==
  ASSUME NEW n \in Nat, NEW S \in SUBSET (0..n), S # {}
  PROVE  Max(S) \in S /\ \A y \in S : y <= Max(S)
<1> DEFINE T == {n - x : x \in S}
<1>1. PICK e \in S : TRUE
  OBVIOUS
<1>2. T \in SUBSET Nat /\ T # {}
  BY <1>1
<1>3. PICK x \in T : \A y \in T : x <= y
  <2> HIDE DEF T
  <2> QED
    BY <1>2, MinOfNats
<1>4. PICK w \in S : x = n - w
  BY <1>3
<1>5. ASSUME NEW y \in S PROVE y <= w
  <2>1. n - y \in T
    OBVIOUS
  <2> HIDE DEF T
  <2> QED
    BY <2>1, <1>3, <1>4
<1> QED
  BY <1>4, <1>5 DEF Max

-----------------------------------------------------------------------------
(* Induction, over a set instead of a predicate.                           *)

LEMMA UpTo ==
  ASSUME NEW n \in Nat, NEW S, 0 \in S, \A i \in 0..n : i < n /\ i \in S => i + 1 \in S
  PROVE  \A i \in 0..n : i \in S
<1> SUFFICES ASSUME NEW i \in 0..n, i \notin S PROVE FALSE
  OBVIOUS
<1> DEFINE T == {j \in 0..n : j \notin S}
           k == Min(T)
<1>1. T \in SUBSET Nat /\ T # {}
  OBVIOUS
<1>2. k \in T /\ \A j \in T : k <= j
  <2> HIDE DEF T
  <2> QED
    BY <1>1, MinOfNats
<1>3. k \in 0..n /\ k \notin S
  <2> HIDE DEF k
  <2> QED
    BY <1>2
<1> HIDE DEF k
<1>4. k - 1 \in 0..n /\ k - 1 < n /\ (k - 1) + 1 = k
  BY <1>3
<1>5. k - 1 \in S
  BY <1>2, <1>3, <1>4
<1> QED
  BY <1>3, <1>4, <1>5

\* v starts at c and takes n steps.
Recurses(v, c, n, step) == v = [i \in 0..n |-> IF i = 0 THEN c ELSE step[<<i, v[i - 1]>>]]

\* What is defined by recursion on 0..n is a function, and takes a step at a time.
LEMMA Recursion ==
  ASSUME NEW X, NEW c \in X, NEW n \in Nat, NEW step \in [(1..n) \X X -> X]
  PROVE  \E v \in [0..n -> X] : Recurses(v, c, n, step)
<1> DEFINE Is(m, v) == Recurses(v, c, m, step)
           S == {m \in 0..n : \E v \in [0..m -> X] : Is(m, v)}
<1>1. 0 \in S
  <2> DEFINE v == [i \in 0..0 |-> c]
  <2>1. v \in [0..0 -> X] /\ Is(0, v)
    BY DEF Recurses
  <2> HIDE DEF v
  <2>2. \E u \in [0..0 -> X] : Is(0, u)
    BY <2>1
  <2> QED
    BY <2>2
<1>2. ASSUME NEW m \in 0..n, m < n, m \in S PROVE m + 1 \in S
  <2>1. PICK v \in [0..m -> X] : Is(m, v)
    BY <1>2
  <2> DEFINE x == step[<<m + 1, v[m]>>]
             w == [i \in 0..(m + 1) |-> IF i <= m THEN v[i] ELSE x]
  <2>2. x \in X /\ m + 1 \in 1..n
    BY <1>2
  <2>3. w \in [0..(m + 1) -> X]
    BY <2>2
  <2>4. ASSUME NEW i \in 0..(m + 1)
        PROVE  w[i] = IF i = 0 THEN c ELSE step[<<i, w[i - 1]>>]
    <3>1. CASE i <= m
      <4>1. i \in 0..m /\ w[i] = v[i] /\ (i # 0 => i - 1 \in 0..m /\ w[i - 1] = v[i - 1])
        BY <3>1
      <4>2. v[i] = IF i = 0 THEN c ELSE step[<<i, v[i - 1]>>]
        BY <4>1, <2>1 DEF Recurses
      <4> QED
        BY <4>1, <4>2
    <3>2. CASE ~ (i <= m)
      <4>1. i = m + 1 /\ i # 0 /\ i - 1 = m
        BY <3>2
      <4>2. w[i] = x /\ w[m] = v[m]
        BY <4>1
      <4> QED
        BY <4>1, <4>2
    <3> QED
      BY <3>1, <3>2
  <2>5. Is(m + 1, w)
    <3> HIDE DEF w
    <3> QED
      BY <2>3, <2>4 DEF Recurses
  <2> HIDE DEF w
  <2>6. m + 1 \in 0..n
    BY <2>2
  <2>7. \E u \in [0..(m + 1) -> X] : Is(m + 1, u)
    BY <2>3, <2>5, Zenon
  <2> QED
    BY <2>6, <2>7
<1> HIDE DEF S
<1>3. n \in S
  BY <1>1, <1>2, UpTo
<1> QED
  BY <1>3 DEF S

-----------------------------------------------------------------------------
(* Sums over finite sets, and products.                                    *)

Pick(T) == CHOOSE x \in T : TRUE

\* The sums of a function over the subsets of S.
SubsetSums(it, f, S) ==
  it = [T \in SUBSET S |-> IF T = {} THEN 0 ELSE f[Pick(T)] + it[T \ {Pick(T)}]]

SumOf(f, S) == LET it == CHOOSE it : SubsetSums(it, f, S) IN it[S]

LEMMA SumFunctionIs ==
  ASSUME NEW f
  PROVE  SumFunction(f) = SumOf(f, DOMAIN f)
  BY DEF SumFunction, SumFunctionOnSet, FoldFunctionOnSet, MapThenFoldSet, SumOf, SubsetSums, Pick

LEMMA PickIs ==
  ASSUME NEW T, T # {}
  PROVE  Pick(T) \in T
  BY DEF Pick

\* A finite set has sums: those of the sets of at most i elements, for each i.
LEMMA SumsExist ==
  ASSUME NEW S, IsFiniteSet(S), NEW f, \A x \in S : f[x] \in Int
  PROVE  \E it \in [SUBSET S -> Int] : SubsetSums(it, f, S)
<1> DEFINE n == Cardinality(S)
           X == [SUBSET S -> Int]
           c == [T \in SUBSET S |-> 0]
           next(g) == [T \in SUBSET S |-> IF T = {} THEN 0 ELSE f[Pick(T)] + g[T \ {Pick(T)}]]
           step == [x \in (1..n) \X X |-> next(x[2])]
<1>1. n \in Nat
  BY FS_CardinalityType
<1>2. c \in X
  OBVIOUS
<1>3. ASSUME NEW g \in X PROVE next(g) \in X
  <2>1. ASSUME NEW T \in SUBSET S, T # {} PROVE f[Pick(T)] + g[T \ {Pick(T)}] \in Int
    <3>1. Pick(T) \in S /\ T \ {Pick(T)} \in SUBSET S
      BY <2>1, PickIs
    <3> QED
      BY <3>1
  <2> QED
    BY <2>1
<1>4. \A g \in X : \A T \in SUBSET S :
        next(g)[T] = IF T = {} THEN 0 ELSE f[Pick(T)] + g[T \ {Pick(T)}]
  OBVIOUS
<1> HIDE DEF n, X, c, next
<1>5. step \in [(1..n) \X X -> X] /\ \A i \in 1..n, x \in X : step[<<i, x>>] = next(x)
  BY <1>3
<1> HIDE DEF step
<1>6. PICK v \in [0..n -> X] : Recurses(v, c, n, step)
  BY <1>1, <1>2, <1>5, Recursion
<1>7. v[0] = c /\ \A i \in 1..n : v[i] = next(v[i - 1]) /\ v[i - 1] \in X /\ v[i] \in X
  <2>1. v[0] = c
    BY <1>1, <1>6 DEF Recurses
  <2>2. ASSUME NEW i \in 1..n PROVE v[i] = next(v[i - 1]) /\ v[i - 1] \in X /\ v[i] \in X
    <3>1. i \in 0..n /\ i # 0 /\ i - 1 \in 0..n
      BY <1>1
    <3>2. v[i] = step[<<i, v[i - 1]>>]
      BY <3>1, <1>6 DEF Recurses
    <3> QED
      BY <3>1, <3>2, <1>5, <1>6
  <2> QED
    BY <2>1, <2>2
<1> DEFINE it == [T \in SUBSET S |-> v[Cardinality(T)][T]]
<1>8. ASSUME NEW T \in SUBSET S
      PROVE  /\ Cardinality(T) \in 0..n /\ v[Cardinality(T)] \in X
             /\ T # {} => /\ Cardinality(T) \in 1..n /\ Pick(T) \in T
                          /\ Cardinality(T \ {Pick(T)}) = Cardinality(T) - 1
             /\ T = {} => Cardinality(T) = 0
  <2>1. IsFiniteSet(T) /\ Cardinality(T) <= n /\ Cardinality(T) \in Nat
    BY FS_Subset, FS_CardinalityType DEF n
  <2>2. T = {} <=> Cardinality(T) = 0
    BY <2>1, FS_EmptySet
  <2>3. ASSUME T # {} PROVE Pick(T) \in T /\ Cardinality(T \ {Pick(T)}) = Cardinality(T) - 1
    BY <2>1, <2>3, PickIs, FS_RemoveElement
  <2>4. Cardinality(T) \in 0..n /\ (T # {} => Cardinality(T) \in 1..n)
    BY <1>1, <2>1, <2>2
  <2> QED
    BY <2>2, <2>3, <2>4, <1>6
<1>9. ASSUME NEW T \in SUBSET S
      PROVE  it[T] = IF T = {} THEN 0 ELSE f[Pick(T)] + it[T \ {Pick(T)}]
  <2>1. CASE T = {}
    <3>1. it[T] = v[0][T]
      BY <2>1, <1>8
    <3> QED
      BY <2>1, <3>1, <1>7 DEF c
  <2>2. CASE T # {}
    <3> DEFINE i == Cardinality(T)
               U == T \ {Pick(T)}
    <3>1. i \in 1..n /\ Cardinality(U) = i - 1 /\ U \in SUBSET S
      BY <2>2, <1>8
    <3>2. it[T] = v[i][T] /\ it[U] = v[i - 1][U]
      BY <3>1
    <3>3. v[i][T] = f[Pick(T)] + v[i - 1][U]
      <4> HIDE DEF i
      <4>1. v[i] = next(v[i - 1]) /\ v[i - 1] \in X
        BY <3>1, <1>7
      <4> QED
        BY <4>1, <2>2, <1>4
    <3> QED
      BY <2>2, <3>2, <3>3
  <2> QED
    BY <2>1, <2>2
<1>10. it \in [SUBSET S -> Int]
  <2>1. ASSUME NEW T \in SUBSET S PROVE v[Cardinality(T)][T] \in Int
    BY <1>8 DEF X
  <2> QED
    BY <2>1
<1>11. SubsetSums(it, f, S)
  <2>1. it = [T \in SUBSET S |-> it[T]]
    OBVIOUS
  <2> HIDE DEF it
  <2> QED
    BY <2>1, <1>9 DEF SubsetSums
<1> QED
  BY <1>10, <1>11

\* Induction over the subsets of a finite set, by their number of elements.
LEMMA SubsetsUp ==
  ASSUME NEW S, IsFiniteSet(S), NEW G, {} \in G,
         \A T \in SUBSET S : T # {} /\ (\A U \in SUBSET S : U \subseteq T /\ U # T => U \in G) => T \in G
  PROVE  \A T \in SUBSET S : T \in G
<1> DEFINE n == Cardinality(S)
           A == {i \in 0..n : \A T \in SUBSET S : Cardinality(T) <= i => T \in G}
<1>1. n \in Nat
  BY FS_CardinalityType
<1>2. \A T \in SUBSET S : IsFiniteSet(T) /\ Cardinality(T) \in Nat /\ Cardinality(T) <= n
  BY FS_Subset, FS_CardinalityType
<1> HIDE DEF n
<1>3. 0 \in A
  <2>1. ASSUME NEW T \in SUBSET S, Cardinality(T) <= 0 PROVE T \in G
    <3>1. Cardinality(T) = 0
      BY <1>2, <2>1
    <3> QED
      BY <3>1, <1>2, FS_EmptySet
  <2> QED
    BY <1>1, <2>1
<1>4. ASSUME NEW i \in 0..n, i < n, i \in A PROVE i + 1 \in A
  <2>1. ASSUME NEW T \in SUBSET S, Cardinality(T) <= i + 1 PROVE T \in G
    <3>1. ASSUME NEW U \in SUBSET S, U \subseteq T, U # T PROVE U \in G
      <4>1. Cardinality(U) <= Cardinality(T) /\ Cardinality(U) # Cardinality(T)
        BY <1>2, <3>1, FS_Subset
      <4>2. Cardinality(U) <= i
        <5> DEFINE x == Cardinality(U)
                   y == Cardinality(T)
        <5>1. x \in Nat /\ y \in Nat /\ i \in Nat
          BY <1>1, <1>2
        <5>2. x <= y /\ x # y /\ y <= i + 1
          BY <4>1, <2>1
        <5> HIDE DEF x, y
        <5>3. x <= i
          BY <5>1, <5>2
        <5> QED
          BY <5>3 DEF x
      <4> QED
        BY <4>2, <1>4
    <3>2. CASE T = {}
      BY <3>2
    <3>3. CASE T # {}
      BY <3>1, <3>3
    <3> QED
      BY <3>2, <3>3
  <2>2. i + 1 \in 0..n
    BY <1>1, <1>4
  <2> QED
    BY <2>1, <2>2
<1> HIDE DEF A
<1>5. \A i \in 0..n : i \in A
  BY <1>1, <1>3, <1>4, UpTo
<1>6. n \in A
  BY <1>1, <1>5
<1> QED
  BY <1>2, <1>6 DEF A

LEMMA SumsInt ==
  ASSUME NEW S, IsFiniteSet(S), NEW f, \A x \in S : f[x] \in Int, NEW it, SubsetSums(it, f, S)
  PROVE  /\ \A T \in SUBSET S : it[T] \in Int
         /\ it[{}] = 0
         /\ \A T \in SUBSET S : T # {} => it[T] = f[Pick(T)] + it[T \ {Pick(T)}] /\ Pick(T) \in T
<1>1. /\ it[{}] = 0
      /\ \A T \in SUBSET S : T # {} => it[T] = f[Pick(T)] + it[T \ {Pick(T)}]
  BY DEF SubsetSums
<1> DEFINE G == {T \in SUBSET S : it[T] \in Int}
<1>2. {} \in G
  BY <1>1
<1>3. ASSUME NEW T \in SUBSET S, T # {}, \A U \in SUBSET S : U \subseteq T /\ U # T => U \in G
      PROVE  T \in G
  <2> DEFINE x == Pick(T)
             U == T \ {x}
  <2>1. x \in T
    BY <1>3, PickIs
  <2>2. U \in SUBSET S /\ U \subseteq T /\ U # T
    BY <2>1
  <2>3. it[U] \in Int /\ f[x] \in Int
    BY <1>3, <2>1, <2>2
  <2>4. it[T] = f[x] + it[U]
    BY <1>1, <1>3
  <2> HIDE DEF x, U
  <2>5. it[T] \in Int
    BY <2>3, <2>4
  <2> QED
    BY <2>5
<1> HIDE DEF G
<1>4. \A T \in SUBSET S : T \in G
  BY <1>2, <1>3, SubsetsUp
<1> QED
  BY <1>1, <1>4, PickIs DEF G

\* It does not matter which element is taken first.
AnyFirst(it, f, S) == \A T \in SUBSET S : \A y \in T : it[T] = f[y] + it[T \ {y}]

LEMMA SumsAny ==
  ASSUME NEW S, IsFiniteSet(S), NEW f, \A x \in S : f[x] \in Int, NEW it, SubsetSums(it, f, S)
  PROVE  AnyFirst(it, f, S)
<1> DEFINE G == {T \in SUBSET S : \A y \in T : it[T] = f[y] + it[T \ {y}]}
<1>0. /\ \A T \in SUBSET S : it[T] \in Int
      /\ \A T \in SUBSET S : T # {} => it[T] = f[Pick(T)] + it[T \ {Pick(T)}] /\ Pick(T) \in T
  BY SumsInt
<1>1. {} \in G
  OBVIOUS
<1>2. ASSUME NEW T \in SUBSET S, T # {}, \A U \in SUBSET S : U \subseteq T /\ U # T => U \in G
      PROVE  T \in G
  <2> DEFINE x == Pick(T)
  <2>1. x \in T /\ it[T] = f[x] + it[T \ {x}]
    BY <1>0, <1>2
  <2> HIDE DEF x
  <2>2. ASSUME NEW y \in T PROVE it[T] = f[y] + it[T \ {y}]
    <3>1. CASE y = x
      BY <2>1, <3>1
    <3>2. CASE y # x
      <4> DEFINE U == T \ {x}
                 V == T \ {y}
                 W == T \ {x, y}
      <4>1. /\ U \in SUBSET S /\ U \subseteq T /\ U # T /\ y \in U /\ U \ {y} = W
            /\ V \in SUBSET S /\ V \subseteq T /\ V # T /\ x \in V /\ V \ {x} = W
            /\ W \in SUBSET S
        BY <2>1, <3>2
      <4>2. U \in G /\ V \in G
        <5> HIDE DEF G, U, V, W
        <5> QED
          BY <4>1, <1>2
      <4>3. it[U] = f[y] + it[W] /\ it[V] = f[x] + it[W]
        <5> HIDE DEF U, V, W
        <5>1. it[U] = f[y] + it[U \ {y}] /\ it[V] = f[x] + it[V \ {x}]
          BY <4>1, <4>2
        <5> QED
          BY <5>1, <4>1
      <4>4. f[x] \in Int /\ f[y] \in Int /\ it[W] \in Int
        BY <1>0, <2>1, <4>1
      <4>5. it[T] = f[x] + it[U]
        BY <2>1
      <4> HIDE DEF U, W, V
      <4>6. it[T] = f[y] + it[V]
        BY <4>3, <4>4, <4>5
      <4> QED
        BY <4>6 DEF V
    <3> QED
      BY <3>1, <3>2
  <2> QED
    BY <2>2
<1> HIDE DEF G
<1>3. \A T \in SUBSET S : T \in G
  BY <1>1, <1>2, SubsetsUp
<1> QED
  BY <1>3 DEF G, AnyFirst

LEMMA SumsAgree ==
  ASSUME NEW S, IsFiniteSet(S), NEW f, \A x \in S : f[x] \in Int, NEW it, SubsetSums(it, f, S),
         NEW R, IsFiniteSet(R), NEW g, \A x \in R : g[x] \in Int, NEW jt, SubsetSums(jt, g, R),
         R \subseteq S, \A x \in R : f[x] = g[x]
  PROVE  it[R] = jt[R]
<1> DEFINE G == {T \in SUBSET R : it[T] = jt[T]}
<1>1. {} \in G
  BY SumsInt
<1>2. ASSUME NEW T \in SUBSET R, T # {}, \A U \in SUBSET R : U \subseteq T /\ U # T => U \in G
      PROVE  T \in G
  <2> DEFINE x == Pick(T)
             U == T \ {x}
  <2>0. T \in SUBSET S /\ T \in SUBSET R /\ T # {}
    BY <1>2
  <2>a. \A V \in SUBSET S : V # {} => it[V] = f[Pick(V)] + it[V \ {Pick(V)}] /\ Pick(V) \in V
    BY SumsInt
  <2>b. \A V \in SUBSET R : V # {} => jt[V] = g[Pick(V)] + jt[V \ {Pick(V)}] /\ Pick(V) \in V
    BY SumsInt
  <2>1. it[T] = f[x] + it[U] /\ x \in T
    BY <2>0, <2>a
  <2>2. jt[T] = g[x] + jt[U]
    BY <2>0, <2>b
  <2> HIDE DEF x
  <2>3. U \in SUBSET R /\ U \subseteq T /\ U # T
    BY <2>1
  <2>4. it[U] = jt[U]
    BY <1>2, <2>3
  <2> QED
    BY <2>1, <2>2, <2>4
<1> HIDE DEF G
<1>3. \A T \in SUBSET R : T \in G
  BY <1>1, <1>2, SubsetsUp
<1> QED
  BY <1>3 DEF G

\* The functions that have a sum.
Countable(f) == IsFiniteSet(DOMAIN f) /\ \A x \in DOMAIN f : f[x] \in Int

LEMMA SumIs ==
  ASSUME NEW f, Countable(f)
  PROVE  \E it : SubsetSums(it, f, DOMAIN f) /\ SumFunction(f) = it[DOMAIN f]
<1> DEFINE S == DOMAIN f
           it == CHOOSE it : SubsetSums(it, f, S)
<1>1. \E i : SubsetSums(i, f, S)
  BY SumsExist DEF Countable
<1>2. SubsetSums(it, f, S)
  BY <1>1
<1>3. SumFunction(f) = it[S]
  BY SumFunctionIs DEF SumOf
<1> QED
  BY <1>2, <1>3

LEMMA SumTyped ==
  ASSUME NEW f, Countable(f)
  PROVE  SumFunction(f) \in Int /\ (DOMAIN f = {} => SumFunction(f) = 0)
<1>1. PICK it : SubsetSums(it, f, DOMAIN f) /\ SumFunction(f) = it[DOMAIN f]
  BY SumIs
<1> QED
  BY <1>1, SumsInt DEF Countable

LEMMA InPart ==
  ASSUME NEW s \in Nat \ {0}, NEW x \in Nat \ {0}, NEW i, i = ((x - 1) \div s) + 1
  PROVE  i \in Nat \ {0} /\ (i - 1) * s < x /\ x <= i * s
  OBVIOUS

LEMMA LessTimes ==
  ASSUME NEW s \in Nat \ {0}, NEW a \in Int, NEW b \in Int
  PROVE  (a * s < b * s => a < b) /\ (a <= b => a * s <= b * s)
<1>1. ASSUME a <= b PROVE a * s <= b * s
  <2> DEFINE k == b - a
  <2>1. k \in Nat /\ b = a + k
    BY <1>1
  <2> HIDE DEF k
  <2>2. b * s = a * s + k * s /\ k * s \in Nat /\ a * s \in Int
    BY <2>1
  <2> DEFINE x == a * s
             y == k * s
  <2>3. b * s = x + y /\ y \in Nat /\ x \in Int
    BY <2>2
  <2> HIDE DEF x, y
  <2>4. x <= b * s
    BY <2>3
  <2> QED
    BY <2>4 DEF x
<1>2. ASSUME b <= a PROVE b * s <= a * s
  <2> DEFINE k == a - b
  <2>1. k \in Nat /\ a = b + k
    BY <1>2
  <2> HIDE DEF k
  <2>2. a * s = b * s + k * s /\ k * s \in Nat /\ b * s \in Int
    BY <2>1
  <2> DEFINE x == b * s
             y == k * s
  <2>3. a * s = x + y /\ y \in Nat /\ x \in Int
    BY <2>2
  <2> HIDE DEF x, y
  <2>4. x <= a * s
    BY <2>3
  <2> QED
    BY <2>4 DEF x
<1> DEFINE x == a * s
           y == b * s
<1>3. x \in Int /\ y \in Int
  OBVIOUS
<1>4. (a <= b => x <= y) /\ (b <= a => y <= x)
  BY <1>1, <1>2
<1> HIDE DEF x, y
<1>5. (x < y => a < b) /\ (a <= b => x <= y)
  BY <1>3, <1>4
<1> QED
  BY <1>5 DEF x, y

LEMMA OnePart ==
  ASSUME NEW s \in Nat \ {0}, NEW x \in Nat, NEW i \in Nat \ {0}, NEW j \in Nat \ {0},
         (i - 1) * s < x, x <= i * s, (j - 1) * s < x, x <= j * s
  PROVE  i = j
<1> DEFINE a == (i - 1) * s
           b == i * s
           c == (j - 1) * s
           e == j * s
<1>1. a \in Int /\ b \in Int /\ c \in Int /\ e \in Int
  OBVIOUS
<1>2. a < x /\ x <= b /\ c < x /\ x <= e
  OBVIOUS
<1>3. (a < e => i - 1 < j) /\ (c < b => j - 1 < i)
  BY LessTimes
<1> HIDE DEF a, b, c, e
<1>4. a < e /\ c < b
  BY <1>1, <1>2
<1> QED
  BY <1>3, <1>4

LEMMA MinOfTwo ==
  ASSUME NEW x \in Nat, NEW y \in Nat
  PROVE  Min({x, y}) \in {x, y} /\ Min({x, y}) <= x /\ Min({x, y}) <= y
  BY MinOfNats

=============================================================================
