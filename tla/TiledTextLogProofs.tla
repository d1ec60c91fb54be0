--------------------------- MODULE TiledTextLogProofs ---------------------------
(***************************************************************************)
(* TLAPS proofs about TextDelta, TextLog and TiledTextLog, for every value *)
(* of their constants.                                                     *)
(***************************************************************************)
EXTENDS TiledTextLogInv, NatLemmas

-----------------------------------------------------------------------------
(* Sequences.                                                              *)

\* A sequence is the function of its elements.
LEMMA SameSequence ==
  ASSUME NEW A, NEW x \in Seq(A), NEW y \in Seq(A), Len(x) = Len(y),
         \A i \in 1..Len(x) : x[i] = y[i]
  PROVE  x = y
<1>1. x = [i \in 1..Len(x) |-> x[i]] /\ y = [i \in 1..Len(x) |-> y[i]]
  OBVIOUS
<1> QED
  BY <1>1

LEMMA Concatenation ==
  ASSUME NEW A, NEW x \in Seq(A), NEW y \in Seq(A)
  PROVE  /\ x \o y \in Seq(A) /\ Len(x \o y) = Len(x) + Len(y)
         /\ \A i \in 1..(Len(x) + Len(y)) : (x \o y)[i] = IF i <= Len(x) THEN x[i] ELSE y[i - Len(x)]
  OBVIOUS

\* Two pieces of a sequence, one after the other.
LEMMA Pieces ==
  ASSUME NEW A, NEW t \in Seq(A), NEW a \in Nat, NEW b \in Nat, a <= b, b <= Len(t)
  PROVE  SubSeq(t, 1, a) \o SubSeq(t, a + 1, b) = SubSeq(t, 1, b)
<1> DEFINE x == SubSeq(t, 1, a)
           y == SubSeq(t, a + 1, b)
           z == SubSeq(t, 1, b)
<1>1. x \in Seq(A) /\ Len(x) = a /\ \A i \in 1..a : x[i] = t[i]
  OBVIOUS
<1>2. y \in Seq(A) /\ Len(y) = b - a /\ \A i \in 1..(b - a) : y[i] = t[a + i]
  OBVIOUS
<1>3. z \in Seq(A) /\ Len(z) = b /\ \A i \in 1..b : z[i] = t[i]
  OBVIOUS
<1> HIDE DEF x, y, z
<1>4. /\ x \o y \in Seq(A) /\ Len(x \o y) = b
      /\ \A i \in 1..b : (x \o y)[i] = IF i <= a THEN x[i] ELSE y[i - a]
  <2>1. Len(x) + Len(y) = b
    BY <1>1, <1>2
  <2> QED
    BY <2>1, <1>1, <1>2, Concatenation
<1>5. ASSUME NEW i \in 1..b PROVE (x \o y)[i] = z[i]
  BY <1>1, <1>2, <1>3, <1>4, SMTT(40)
<1> DEFINE w == x \o y
<1> HIDE DEF w
<1>6. w = z
  <2>1. w \in Seq(A) /\ Len(w) = Len(z) /\ \A i \in 1..b : w[i] = z[i]
    BY <1>3, <1>4, <1>5 DEF w
  <2> QED
    BY <2>1, <1>3, SameSequence
<1> QED
  BY <1>6 DEF w, x, y, z

\* Two pieces of the same length with the same elements are equal.
LEMMA SamePiece ==
  ASSUME NEW A, NEW s \in Seq(A), NEW t \in Seq(A), NEW p \in Nat, NEW q \in Nat, NEW n \in Nat,
         p + n <= Len(s), q + n <= Len(t), \A k \in 1..n : s[p + k] = t[q + k]
  PROVE  SubSeq(s, p + 1, p + n) = SubSeq(t, q + 1, q + n)
<1> DEFINE x == SubSeq(s, p + 1, p + n)
           y == SubSeq(t, q + 1, q + n)
<1>1. x \in Seq(A) /\ Len(x) = n /\ \A i \in 1..n : x[i] = s[p + i]
  OBVIOUS
<1>2. y \in Seq(A) /\ Len(y) = n /\ \A i \in 1..n : y[i] = t[q + i]
  OBVIOUS
<1> HIDE DEF x, y
<1>3. Len(x) = Len(y) /\ \A i \in 1..Len(x) : x[i] = y[i]
  BY <1>1, <1>2
<1>4. x = y
  BY <1>1, <1>2, <1>3, SameSequence
<1> QED
  BY <1>4 DEF x, y

-----------------------------------------------------------------------------
(* Deltas.                                                                 *)

\* How far two texts agree.
LEMMA RunAgrees ==
  ASSUME NEW A, NEW s \in Seq(A), NEW t \in Seq(A), NEW i \in 0..Len(s), NEW j \in 0..Len(t)
  PROVE  LET n == CommonRun(s, i, t, j) IN
         n \in Nat /\ i + n <= Len(s) /\ j + n <= Len(t) /\ \A k \in 1..n : s[i + k] = t[j + k]
<1> DEFINE limit == Min({Len(s) - i, Len(t) - j})
           S == {n \in 0..limit : \A k \in 1..n : s[i + k] = t[j + k]}
<1>1. limit \in Nat /\ limit <= Len(s) - i /\ limit <= Len(t) - j
  <2>1. Len(s) - i \in Nat /\ Len(t) - j \in Nat
    OBVIOUS
  <2> QED
    BY <2>1, MinOfTwo
<1> HIDE DEF limit
<1>2. S \in SUBSET (0..limit) /\ 0 \in S
  BY <1>1
<1>3. CommonRun(s, i, t, j) = Max(S)
  BY DEF CommonRun, limit
<1>4. Max(S) \in S
  <2> HIDE DEF S
  <2> QED
    BY <1>1, <1>2, MaxOfNats
<1>5. /\ CommonRun(s, i, t, j) \in 0..limit
      /\ \A k \in 1..CommonRun(s, i, t, j) : s[i + k] = t[j + k]
  BY <1>3, <1>4
<1> DEFINE n == CommonRun(s, i, t, j)
<1> HIDE DEF n
<1>6. n \in Nat /\ i + n <= Len(s) /\ j + n <= Len(t)
  BY <1>1, <1>5 DEF n
<1> QED
  BY <1>5, <1>6 DEF n

LEMMA BeforeAgrees ==
  ASSUME NEW s, NEW t, NEW i, NEW j, NEW limit \in Nat
  PROVE  LET b == CommonBefore(s, i, t, j, limit) IN
         b \in 0..limit /\ \A k \in 0..(b - 1) : s[i - k] = t[j - k]
<1> DEFINE S == {n \in 0..limit : \A k \in 0..(n - 1) : s[i - k] = t[j - k]}
<1>1. S \in SUBSET (0..limit) /\ 0 \in S
  OBVIOUS
<1>2. CommonBefore(s, i, t, j, limit) = Max(S)
  BY DEF CommonBefore
<1>3. Max(S) \in S
  <2> HIDE DEF S
  <2> QED
    BY <1>1, MaxOfNats
<1> QED
  BY <1>2, <1>3

\* The operations of a delta over the symbols A; a copy is taken from within src.
Ops(A) == [op : {"insert"}, bytes : Seq(A)] \cup [op : {"copy"}, off : Nat, len : Nat]
Within(src, e) == e.op = "copy" => e.off + e.len <= Len(src)

\* The delta d makes the text t from src: v[n] is what the first n operations make.
Makes(A, src, d, t, v) ==
  /\ v \in [0..Len(d) -> Seq(A)] /\ v[0] = <<>> /\ v[Len(d)] = t
  /\ \A n \in 1..Len(d) : v[n] = v[n - 1] \o Bytes(src, d[n])
Gives(A, src, d, t) ==
  /\ \A n \in 1..Len(d) : Within(src, d[n])
  /\ \E v : Makes(A, src, d, t, v)

LEMMA GivesApplies ==
  ASSUME NEW A, NEW src, NEW d \in Seq(Ops(A)), NEW t, Gives(A, src, d, t)
  PROVE  ApplyDelta(src, d) = Done(t)
<1> DEFINE N == Len(d)
           Runs(u) == u = [n \in 0..N |-> IF n = 0 THEN <<>> ELSE u[n - 1] \o Bytes(src, d[n])]
           out == CHOOSE u : Runs(u)
<1>1. N \in Nat /\ DOMAIN d = 1..N
  OBVIOUS
<1>2. PICK v : Makes(A, src, d, t, v)
  BY DEF Gives
<1>3. /\ v = [n \in 0..N |-> v[n]] /\ v[0] = <<>> /\ v[N] = t
      /\ \A n \in 1..N : v[n] = v[n - 1] \o Bytes(src, d[n])
  BY <1>2 DEF Makes
<1>4. ApplyDelta(src, d) = Done(out[N])
  <2>1. \A i \in DOMAIN d : ~(d[i].op = "copy" /\ d[i].off + d[i].len > Len(src))
    <3> SUFFICES ASSUME NEW i \in 1..N, d[i].op = "copy", d[i].off + d[i].len > Len(src) PROVE FALSE
      BY <1>1
    <3>1. d[i] \in Ops(A) /\ d[i].off + d[i].len <= Len(src)
      BY DEF Gives, Within
    <3> QED
      BY <3>1 DEF Ops
  <2> QED
    BY <2>1 DEF ApplyDelta
<1> HIDE DEF N
<1>5. Runs(v)
  <2>1. ASSUME NEW n \in 0..N
        PROVE  v[n] = IF n = 0 THEN <<>> ELSE v[n - 1] \o Bytes(src, d[n])
    <3>1. CASE n = 0
      BY <3>1, <1>3
    <3>2. CASE n # 0
      <4>1. n \in 1..N
        BY <3>2, <1>1
      <4> QED
        BY <4>1, <3>2, <1>3
    <3> QED
      BY <3>1, <3>2
  <2> QED
    BY <2>1, <1>3
<1>6. Runs(out)
  <2> HIDE DEF Runs
  <2> QED
    BY <1>5, Zenon
<1> HIDE DEF out
<1>7. \A n \in 0..N : out[n] = IF n = 0 THEN <<>> ELSE out[n - 1] \o Bytes(src, d[n])
  BY <1>6
<1> DEFINE S == {n \in 0..N : out[n] = v[n]}
<1>8. 0 \in S
  BY <1>1, <1>3, <1>7
<1>9. ASSUME NEW n \in 0..N, n < N, n \in S PROVE n + 1 \in S
  <2>1. n + 1 \in 1..N /\ n + 1 \in 0..N /\ (n + 1) - 1 = n /\ n + 1 # 0
    BY <1>9, <1>1
  <2>2. out[n + 1] = out[n] \o Bytes(src, d[n + 1])
    BY <1>7, <2>1
  <2>3. v[n + 1] = v[n] \o Bytes(src, d[n + 1])
    BY <1>3, <2>1
  <2> QED
    BY <1>9, <2>1, <2>2, <2>3
<1>10. N \in S
  <2>1. \A n \in 0..N : n \in S
    <3> HIDE DEF S
    <3> QED
      BY <1>1, <1>8, <1>9, UpTo
  <2> QED
    BY <2>1, <1>1
<1> QED
  BY <1>3, <1>4, <1>10

LEMMA GivesNothing ==
  ASSUME NEW A, NEW src
  PROVE  Gives(A, src, <<>>, <<>>)
<1> DEFINE v == [n \in 0..0 |-> <<>>]
<1>1. Makes(A, src, <<>>, <<>>, v)
  BY DEF Makes
<1> QED
  BY <1>1 DEF Gives

LEMMA GivesMore ==
  ASSUME NEW A, NEW src, NEW d \in Seq(Ops(A)), NEW t \in Seq(A), Gives(A, src, d, t),
         NEW e \in Ops(A), Within(src, e), NEW x \in Seq(A), x = Bytes(src, e)
  PROVE  Gives(A, src, Append(d, e), t \o x)
<1> DEFINE N == Len(d)
           g == Append(d, e)
           r == t \o x
<1>1. N \in Nat /\ Len(g) = N + 1 /\ g[N + 1] = e /\ \A n \in 1..N : g[n] = d[n]
  OBVIOUS
<1>2. r \in Seq(A)
  BY Concatenation
<1>3. PICK v : Makes(A, src, d, t, v)
  BY DEF Gives
<1> DEFINE w == [n \in 0..(N + 1) |-> IF n <= N THEN v[n] ELSE r]
<1>4. /\ v \in [0..N -> Seq(A)] /\ v[0] = <<>> /\ v[N] = t
      /\ \A n \in 1..N : v[n] = v[n - 1] \o Bytes(src, d[n])
  BY <1>3 DEF Makes
<1>5. \A n \in 1..(N + 1) : Within(src, g[n])
  <2> SUFFICES ASSUME NEW n \in 1..(N + 1) PROVE Within(src, g[n])
    OBVIOUS
  <2>1. CASE n = N + 1
    BY <2>1, <1>1
  <2>2. CASE n \in 1..N
    <3>1. g[n] = d[n]
      BY <2>2, <1>1
    <3> HIDE DEF g
    <3> QED
      BY <3>1, <2>2 DEF Gives
  <2> QED
    BY <2>1, <2>2, <1>1
<1> HIDE DEF g, r, N
<1>6. w \in [0..(N + 1) -> Seq(A)]
  BY <1>1, <1>2, <1>4
<1>7. /\ \A n \in 0..N : w[n] = v[n]
      /\ w[N + 1] = r
  BY <1>1
<1> HIDE DEF w
<1>8. ASSUME NEW n \in 1..(N + 1) PROVE w[n] = w[n - 1] \o Bytes(src, g[n])
  <2>1. CASE n = N + 1
    <3>1. w[n - 1] = t
      BY <2>1, <1>1, <1>4, <1>7
    <3> QED
      BY <2>1, <3>1, <1>1, <1>7 DEF r
  <2>2. CASE n \in 1..N
    <3>1. n - 1 \in 0..N /\ n \in 0..N
      BY <2>2, <1>1
    <3> QED
      BY <2>2, <3>1, <1>1, <1>4, <1>7
  <2> QED
    BY <2>1, <2>2, <1>1
<1>9. Makes(A, src, g, r, w)
  <2>1. w[0] = <<>>
    BY <1>1, <1>4, <1>7
  <2>2. w[Len(g)] = r /\ w \in [0..Len(g) -> Seq(A)]
    BY <1>1, <1>6, <1>7
  <2> QED
    BY <2>1, <2>2, <1>1, <1>8 DEF Makes
<1>10. Gives(A, src, g, r)
  BY <1>1, <1>5, <1>9 DEF Gives
<1> QED
  BY <1>10 DEF g, r

\* What an insertion and a copy add.
LEMMA GivesInsert ==
  ASSUME NEW A, NEW src, NEW d \in Seq(Ops(A)), NEW t \in Seq(A), Gives(A, src, d, t),
         NEW x \in Seq(A)
  PROVE  d \o Insert(x) \in Seq(Ops(A)) /\ Gives(A, src, d \o Insert(x), t \o x)
<1>1. CASE x = <<>>
  <2>1. d \o Insert(x) = d /\ t \o x = t
    BY <1>1 DEF Insert
  <2> QED
    BY <2>1
<1>2. CASE x # <<>>
  <2> DEFINE e == [op |-> "insert", bytes |-> x]
  <2>1. Insert(x) = <<e>> /\ e \in Ops(A)
    BY <1>2 DEF Insert, Ops
  <2>2. Within(src, e) /\ Bytes(src, e) = x
    BY DEF Within, Bytes
  <2> HIDE DEF e
  <2>3. Gives(A, src, Append(d, e), t \o x)
    BY <2>1, <2>2, GivesMore
  <2>4. d \o <<e>> = Append(d, e) /\ Append(d, e) \in Seq(Ops(A))
    BY <2>1
  <2> QED
    BY <2>1, <2>3, <2>4
<1> QED
  BY <1>1, <1>2

LEMMA GivesCopy ==
  ASSUME NEW A, NEW src \in Seq(A), NEW d \in Seq(Ops(A)), NEW t \in Seq(A), Gives(A, src, d, t),
         NEW off \in Nat, NEW n \in Nat, off + n <= Len(src)
  PROVE  /\ d \o Copy(off, n) \in Seq(Ops(A))
         /\ Gives(A, src, d \o Copy(off, n), t \o SubSeq(src, off + 1, off + n))
<1> DEFINE e == [op |-> "copy", off |-> off, len |-> n]
           x == SubSeq(src, off + 1, off + n)
<1>1. Copy(off, n) = <<e>> /\ e \in Ops(A)
  BY DEF Copy, Ops
<1>2. Within(src, e) /\ Bytes(src, e) = x
  BY DEF Within, Bytes
<1>3. x \in Seq(A)
  OBVIOUS
<1> HIDE DEF e, x
<1>4. Gives(A, src, Append(d, e), t \o x)
  BY <1>1, <1>2, <1>3, GivesMore
<1>5. d \o <<e>> = Append(d, e) /\ Append(d, e) \in Seq(Ops(A))
  BY <1>1
<1> QED
  BY <1>1, <1>4, <1>5 DEF x

\* What the loop of diff_create_delta keeps: the operations so far make the text up to ins.
DeltaStates(A, src, tgt) ==
  {st \in [j : 0..Len(tgt), ins : 0..Len(tgt), out : Seq(Ops(A))] :
     st.ins <= st.j /\ Gives(A, src, st.out, SubSeq(tgt, 1, st.ins))}

LEMMA DeltaStepKeeps ==
  ASSUME NEW A, NEW src \in Seq(A), NEW tgt \in Seq(A), NEW st \in DeltaStates(A, src, tgt)
  PROVE  DeltaStep(src, tgt, st) \in DeltaStates(A, src, tgt)
<1> DEFINE j == st.j
           ins == st.ins
<1>1. /\ st \in [j : 0..Len(tgt), ins : 0..Len(tgt), out : Seq(Ops(A))]
      /\ ins <= j /\ Gives(A, src, st.out, SubSeq(tgt, 1, ins))
  BY DEF DeltaStates
<1>2. /\ Len(src) \in Nat /\ Len(tgt) \in Nat /\ j \in Nat /\ j <= Len(tgt) /\ ins \in Nat
      /\ DeltaK \in Nat /\ DeltaK > 0
  BY <1>1, DeltaAssumption
<1>3. CASE j + DeltaK > Len(tgt)
  BY <1>3 DEF DeltaStep
<1>4. CASE ~(j + DeltaK > Len(tgt)) /\ ~Matches(src, tgt, j)
  <2>1. DeltaStep(src, tgt, st) = [st EXCEPT !.j = @ + 1]
    BY <1>4 DEF DeltaStep
  <2>2. j + 1 \in 0..Len(tgt) /\ ins <= j + 1
    BY <1>4, <1>1, <1>2
  <2>3. /\ [st EXCEPT !.j = @ + 1] \in [j : 0..Len(tgt), ins : 0..Len(tgt), out : Seq(Ops(A))]
        /\ [st EXCEPT !.j = @ + 1].j = j + 1
        /\ [st EXCEPT !.j = @ + 1].ins = ins
        /\ [st EXCEPT !.j = @ + 1].out = st.out
    BY <1>1, <2>2
  <2> QED
    BY <2>1, <2>2, <2>3, <1>1 DEF DeltaStates
<1>5. CASE ~(j + DeltaK > Len(tgt)) /\ Matches(src, tgt, j)
  <2> DEFINE C == Candidates(src, tgt, j)
             sp == Max(C)
             n == CommonRun(src, sp, tgt, j)
             b == CommonBefore(src, sp, tgt, j, BackLimit(sp, st))
             x == SubSeq(tgt, ins + 1, j - b)
             out1 == st.out \o Insert(x)
             out2 == out1 \o Copy(sp - b, n + b)
  <2>1. sp \in Nat /\ sp <= Len(src)
    <3>1. C # {} /\ C \in SUBSET (0..(Len(src) - DeltaK))
      BY <1>5 DEF Matches, Candidates
    <3>2. C \in SUBSET (0..Len(src))
      BY <3>1, <1>2
    <3> HIDE DEF C
    <3>3. Max(C) \in C
      BY <3>1, <3>2, <1>2, MaxOfNats
    <3>4. Max(C) \in 0..Len(src)
      BY <3>2, <3>3
    <3> QED
      BY <3>4, <1>2
  <2>2. DeltaStep(src, tgt, st) = [j |-> j + n, ins |-> j + n, out |-> out2]
    BY <1>5 DEF DeltaStep
  <2> HIDE DEF C, sp, j, ins
  <2>3. n \in Nat /\ sp + n <= Len(src) /\ j + n <= Len(tgt) /\ \A k \in 1..n : src[sp + k] = tgt[j + k]
    <3>1. sp \in 0..Len(src) /\ j \in 0..Len(tgt)
      BY <2>1, <1>2
    <3>2. LET r == CommonRun(src, sp, tgt, j) IN
          r \in Nat /\ sp + r <= Len(src) /\ j + r <= Len(tgt) /\ \A k \in 1..r : src[sp + k] = tgt[j + k]
      <4> HIDE DEF n, b, x, out1, out2
      <4> QED
        BY <3>1, RunAgrees
    <3> QED
      BY <3>2
  <2>4. BackLimit(sp, st) \in Nat /\ BackLimit(sp, st) <= sp /\ BackLimit(sp, st) <= j - ins
    <3>1. j - ins \in Nat
      BY <1>1, <1>2
    <3> QED
      BY <3>1, <2>1, MinOfTwo DEF BackLimit, j, ins
  <2>5. b \in 0..BackLimit(sp, st) /\ \A k \in 0..(b - 1) : src[sp - k] = tgt[j - k]
    BY <2>4, BeforeAgrees
  <2> HIDE DEF n, b
  <2>6. b \in Nat /\ b <= sp /\ b <= j - ins /\ ins <= j - b /\ j - b \in Nat /\ sp - b \in Nat
    BY <2>4, <2>5, <2>1, <1>2
  <2>7. x \in Seq(A) /\ SubSeq(tgt, 1, ins) \in Seq(A)
    BY <2>6, <1>1, <1>2
  <2>8. SubSeq(tgt, 1, ins) \o x = SubSeq(tgt, 1, j - b)
    <3>1. j - b <= Len(tgt)
      BY <2>6, <1>2
    <3> QED
      BY <3>1, <2>6, <1>2, Pieces
  <2>9. out1 \in Seq(Ops(A)) /\ Gives(A, src, out1, SubSeq(tgt, 1, j - b))
    <3> HIDE DEF x
    <3>1. st.out \in Seq(Ops(A))
      BY <1>1
    <3> QED
      BY <3>1, <2>7, <2>8, <1>1, GivesInsert
  <2>10. SubSeq(src, (sp - b) + 1, (sp - b) + (n + b)) = SubSeq(tgt, (j - b) + 1, (j - b) + (n + b))
    <3>1. ASSUME NEW k \in 1..(n + b) PROVE src[(sp - b) + k] = tgt[(j - b) + k]
      <4>1. CASE k <= b
        <5>1. b - k \in 0..(b - 1) /\ sp - (b - k) = (sp - b) + k /\ j - (b - k) = (j - b) + k
          BY <4>1, <2>1, <2>3, <2>6, <1>2
        <5>2. src[sp - (b - k)] = tgt[j - (b - k)]
          BY <5>1, <2>5
        <5> QED
          BY <5>1, <5>2
      <4>2. CASE k > b
        <5>1. k - b \in 1..n /\ sp + (k - b) = (sp - b) + k /\ j + (k - b) = (j - b) + k
          BY <4>2, <2>1, <2>3, <2>6, <1>2
        <5>2. src[sp + (k - b)] = tgt[j + (k - b)]
          BY <5>1, <2>3
        <5> QED
          BY <5>1, <5>2
      <4> QED
        BY <4>1, <4>2, <2>3, <2>6
    <3>2. n + b \in Nat /\ (sp - b) + (n + b) <= Len(src) /\ (j - b) + (n + b) <= Len(tgt)
      BY <2>1, <2>3, <2>6, <1>2
    <3> DEFINE N == n + b
               P == sp - b
               Q == j - b
    <3>3. /\ N \in Nat /\ P \in Nat /\ Q \in Nat /\ P + N <= Len(src) /\ Q + N <= Len(tgt)
          /\ \A k \in 1..N : src[P + k] = tgt[Q + k]
      BY <3>1, <3>2, <2>6
    <3>4. SubSeq(src, P + 1, P + N) = SubSeq(tgt, Q + 1, Q + N)
      <4> HIDE DEF N, P, Q, x, out1, out2
      <4> QED
        BY <3>3, SamePiece
    <3> QED
      BY <3>4
  <2>11. SubSeq(tgt, 1, j - b) \o SubSeq(tgt, (j - b) + 1, j + n) = SubSeq(tgt, 1, j + n)
    <3>1. j + n \in Nat /\ j - b <= j + n
      BY <2>3, <2>6, <1>2
    <3> QED
      BY <3>1, <2>3, <2>6, Pieces
  <2>12. out2 \in Seq(Ops(A)) /\ Gives(A, src, out2, SubSeq(tgt, 1, j + n))
    <3>1. (j - b) + (n + b) = j + n /\ n + b \in Nat /\ (sp - b) + (n + b) <= Len(src)
      BY <2>1, <2>3, <2>6, <1>2
    <3>2. SubSeq(tgt, 1, j - b) \in Seq(A)
      BY <2>6, <2>3, <1>2
    <3> HIDE DEF out1
    <3>3. Gives(A, src, out2, SubSeq(tgt, 1, j - b) \o SubSeq(src, (sp - b) + 1, (sp - b) + (n + b)))
      BY <3>1, <3>2, <2>6, <2>9, GivesCopy
    <3>4. out2 \in Seq(Ops(A))
      BY <3>1, <3>2, <2>6, <2>9, GivesCopy
    <3> QED
      BY <3>1, <3>3, <3>4, <2>10, <2>11
  <2> HIDE DEF out2
  <2>13. j + n \in 0..Len(tgt)
    BY <2>3, <1>2
  <2> QED
    BY <2>2, <2>12, <2>13 DEF DeltaStates
<1> QED
  BY <1>3, <1>4, <1>5

\* The rounds of the loop.
DeltaRun(v, src, tgt) ==
  /\ v[0] = NothingFound
  /\ \A i \in 1..Len(tgt) : v[i] = DeltaStep(src, tgt, v[i - 1])
DeltaEnd(end, tgt) == end.out \o Insert(SubSeq(tgt, end.ins + 1, Len(tgt)))

LEMMA DeltaRuns ==
  ASSUME NEW A, NEW src \in Seq(A), NEW tgt \in Seq(A)
  PROVE  \E v \in [0..Len(tgt) -> DeltaStates(A, src, tgt)] :
           DeltaRun(v, src, tgt) /\ CreateDelta(src, tgt) = DeltaEnd(v[Len(tgt)], tgt)
<1> DEFINE n == Len(tgt)
           X == DeltaStates(A, src, tgt)
           step == [x \in (1..n) \X X |-> DeltaStep(src, tgt, x[2])]
           Runs(v) == v = [i \in 0..n |->
                             IF i = 0 THEN NothingFound ELSE DeltaStep(src, tgt, v[i - 1])]
           v == CHOOSE u : Runs(u)
<1>1. n \in Nat
  OBVIOUS
<1>2. ASSUME NEW st \in X PROVE DeltaStep(src, tgt, st) \in X
  BY DeltaStepKeeps
<1>3. NothingFound \in X
  <2>1. SubSeq(tgt, 1, 0) = <<>>
    OBVIOUS
  <2>2. Gives(A, src, <<>>, SubSeq(tgt, 1, 0))
    BY <2>1, GivesNothing
  <2> QED
    BY <1>1, <2>2 DEF DeltaStates, NothingFound
<1>4. CreateDelta(src, tgt) = DeltaEnd(v[n], tgt)
  BY DEF CreateDelta, DeltaEnd
<1> HIDE DEF X, n
<1>5. /\ step \in [(1..n) \X X -> X]
      /\ \A i \in 1..n, st \in X : step[<<i, st>>] = DeltaStep(src, tgt, st)
  BY <1>2
<1> HIDE DEF step
<1>6. PICK u \in [0..n -> X] : Recurses(u, NothingFound, n, step)
  BY <1>1, <1>3, <1>5, Recursion
<1>7. ASSUME NEW i \in 0..n
      PROVE  u[i] = IF i = 0 THEN NothingFound ELSE DeltaStep(src, tgt, u[i - 1])
  <2>1. CASE i = 0
    BY <2>1, <1>6 DEF Recurses
  <2>2. CASE i # 0
    <3>1. i \in 1..n /\ i - 1 \in 0..n
      BY <2>2, <1>1
    <3>2. u[i - 1] \in X
      BY <3>1, <1>6
    <3>3. u[i] = step[<<i, u[i - 1]>>]
      BY <2>2, <1>6 DEF Recurses
    <3> QED
      BY <3>1, <3>2, <3>3, <2>2, <1>5
  <2> QED
    BY <2>1, <2>2
<1>8. u = [i \in 0..n |-> u[i]]
  BY <1>6 DEF Recurses
<1>9. Runs(u)
  BY <1>7, <1>8
<1>10. Runs(v)
  <2> HIDE DEF Runs
  <2> QED
    BY <1>9, Zenon
<1> HIDE DEF v
<1>11. /\ DOMAIN v = 0..n
       /\ \A i \in 0..n : v[i] = IF i = 0 THEN NothingFound ELSE DeltaStep(src, tgt, v[i - 1])
  BY <1>10
<1>12. v = [i \in 0..n |-> v[i]]
  <2>1. v = [i \in 0..n |-> IF i = 0 THEN NothingFound ELSE DeltaStep(src, tgt, v[i - 1])]
    BY <1>10 DEF Runs
  <2> QED
    BY <2>1, <1>11
<1> HIDE DEF Runs
<1>13. v[0] = NothingFound /\ \A i \in 1..n : v[i] = DeltaStep(src, tgt, v[i - 1])
  BY <1>1, <1>11
<1> DEFINE S == {i \in 0..n : v[i] \in X}
<1>14. 0 \in S
  BY <1>1, <1>3, <1>13
<1>15. ASSUME NEW i \in 0..n, i < n, i \in S PROVE i + 1 \in S
  <2>1. i + 1 \in 1..n /\ i + 1 \in 0..n /\ (i + 1) - 1 = i
    BY <1>15, <1>1
  <2>2. v[i + 1] = DeltaStep(src, tgt, v[i])
    BY <2>1, <1>13
  <2>3. v[i] \in X
    BY <1>15
  <2> QED
    BY <2>1, <2>2, <2>3, <1>2
<1>16. \A i \in 0..n : i \in S
  <2> HIDE DEF S
  <2> QED
    BY <1>1, <1>14, <1>15, UpTo
<1>17. v \in [0..n -> X]
  BY <1>12, <1>16
<1>18. DeltaRun(v, src, tgt)
  BY <1>13 DEF DeltaRun, n
<1> QED
  BY <1>4, <1>17, <1>18 DEF X, n

\* The delta between two texts, applied to the first, makes the second (diff_create_delta,
\* diff_apply_delta): whichever grams share a slot and however far a match grows backwards.
THEOREM DeltaCorrect ==
  ASSUME NEW A, NEW src \in Seq(A), NEW tgt \in Seq(A)
  PROVE  ApplyDelta(src, CreateDelta(src, tgt)) = Done(tgt)
<1> DEFINE n == Len(tgt)
<1>1. PICK v \in [0..n -> DeltaStates(A, src, tgt)] :
           DeltaRun(v, src, tgt) /\ CreateDelta(src, tgt) = DeltaEnd(v[n], tgt)
  BY DeltaRuns
<1> DEFINE end == v[n]
           ins == end.ins
           x == SubSeq(tgt, ins + 1, n)
           y == SubSeq(tgt, 1, ins)
<1>2. n \in Nat /\ end \in DeltaStates(A, src, tgt)
  <2>1. n \in Nat /\ n \in 0..n
    OBVIOUS
  <2> HIDE DEF n
  <2> QED
    BY <2>1, <1>1
<1> HIDE DEF end
<1>3. ins \in 0..n /\ end.out \in Seq(Ops(A)) /\ Gives(A, src, end.out, y)
  BY <1>2 DEF DeltaStates
<1>4. x \in Seq(A) /\ y \in Seq(A) /\ y \o x = tgt
  <2>1. ins \in Nat /\ ins <= n
    BY <1>2, <1>3
  <2>2. y \o x = SubSeq(tgt, 1, n)
    <3>1. ins \in Nat /\ n \in Nat /\ ins <= n /\ n <= Len(tgt)
      BY <2>1, <1>2
    <3> HIDE DEF ins, n
    <3> QED
      BY <3>1, Pieces
  <2>3. SubSeq(tgt, 1, n) = tgt
    OBVIOUS
  <2>4. x \in Seq(A) /\ y \in Seq(A)
    BY <2>1, <1>2
  <2> QED
    BY <2>2, <2>3, <2>4
<1> DEFINE d == end.out \o Insert(x)
<1>5. CreateDelta(src, tgt) = d
  BY <1>1 DEF DeltaEnd, end
<1>6. d \in Seq(Ops(A)) /\ Gives(A, src, d, y \o x)
  <2> HIDE DEF x, y
  <2> QED
    BY <1>3, <1>4, GivesInsert
<1>7. d \in Seq(Ops(A)) /\ Gives(A, src, d, tgt)
  BY <1>4, <1>6
<1> HIDE DEF d
<1> QED
  BY <1>5, <1>7, GivesApplies

-----------------------------------------------------------------------------
(* Sequences of whatever elements.                                         *)

LEMMA SeqFacts ==
  ASSUME NEW s, IsSeq(s)
  PROVE  /\ Len(s) \in Nat /\ DOMAIN s = 1..Len(s)
         /\ s = [i \in 1..Len(s) |-> s[i]]
         /\ (s = <<>> <=> Len(s) = 0)
         /\ \A i \in 1..Len(s) : s[i] \in ToSet(s)
<1> DEFINE S == ToSet(s)
<1>1. s \in Seq(S)
  BY DEF IsSeq
<1>2. \A i \in DOMAIN s : s[i] \in S
  BY DEF ToSet
<1> HIDE DEF S
<1> QED
  BY <1>1, <1>2 DEF S

LEMMA AnySeq ==
  ASSUME NEW S, NEW s \in Seq(S)
  PROVE  IsSeq(s)
<1> DEFINE T == ToSet(s)
<1>1. Len(s) \in Nat /\ DOMAIN s = 1..Len(s) /\ s = [i \in 1..Len(s) |-> s[i]]
  OBVIOUS
<1>2. \A i \in DOMAIN s : s[i] \in T
  BY DEF ToSet
<1> HIDE DEF T
<1>3. s \in Seq(T)
  BY <1>1, <1>2
<1> QED
  BY <1>3 DEF IsSeq, T

LEMMA FunctionSeq ==
  ASSUME NEW n \in Nat, NEW s, s = [i \in 1..n |-> s[i]]
  PROVE  IsSeq(s) /\ Len(s) = n /\ DOMAIN s = 1..n
<1> DEFINE T == {s[i] : i \in 1..n}
<1>1. \A i \in 1..n : s[i] \in T
  OBVIOUS
<1> HIDE DEF T
<1>2. s \in Seq(T) /\ Len(s) = n /\ DOMAIN s = 1..n
  BY <1>1
<1> QED
  BY <1>2, AnySeq

LEMMA Appended ==
  ASSUME NEW s, IsSeq(s), NEW e
  PROVE  /\ IsSeq(Append(s, e)) /\ Len(Append(s, e)) = Len(s) + 1
         /\ Append(s, e)[Len(s) + 1] = e
         /\ \A i \in 1..Len(s) : Append(s, e)[i] = s[i]
         /\ ToSet(Append(s, e)) = ToSet(s) \cup {e}
<1> DEFINE T == ToSet(s) \cup {e}
           n == Len(s)
           r == Append(s, e)
<1>1. n \in Nat /\ s \in Seq(ToSet(s)) /\ DOMAIN s = 1..n
  BY SeqFacts DEF IsSeq
<1>2. s \in Seq(T) /\ e \in T
  BY <1>1, SeqFacts
<1> HIDE DEF T
<1>3. r \in Seq(T) /\ Len(r) = n + 1 /\ r[n + 1] = e /\ (\A i \in 1..n : r[i] = s[i]) /\ DOMAIN r = 1..(n + 1)
  BY <1>1, <1>2
<1>4. IsSeq(r)
  BY <1>3, AnySeq
<1> HIDE DEF r, n
<1>5. ToSet(r) = ToSet(s) \cup {e}
  BY <1>1, <1>3 DEF ToSet
<1> QED
  BY <1>3, <1>4, <1>5 DEF r, n

LEMMA Prefix ==
  ASSUME NEW s, IsSeq(s), NEW n \in 0..Len(s)
  PROVE  /\ IsSeq(SubSeq(s, 1, n)) /\ Len(SubSeq(s, 1, n)) = n
         /\ \A i \in 1..n : SubSeq(s, 1, n)[i] = s[i]
<1> DEFINE T == ToSet(s)
           r == SubSeq(s, 1, n)
<1>1. s \in Seq(T) /\ Len(s) \in Nat
  BY SeqFacts DEF IsSeq
<1> HIDE DEF T
<1>2. r \in Seq(T) /\ Len(r) = n /\ \A i \in 1..n : r[i] = s[i]
  BY <1>1
<1> QED
  BY <1>2, AnySeq

\* The entries of a file are its commits but the first.
LEMMA EntriesAre ==
  ASSUME NEW c, IsSeq(c)
  PROVE  /\ DOMAIN Entries(c) = 1..(Len(c) - 1)
         /\ \A i \in 1..(Len(c) - 1) : Entries(c)[i] = c[i + 1]
<1> DEFINE T == ToSet(c)
<1>1. c \in Seq(T) /\ Len(c) \in Nat
  BY SeqFacts DEF IsSeq
<1> HIDE DEF T
<1>2. CASE Len(c) = 0
  BY <1>1, <1>2 DEF Entries
<1>3. CASE Len(c) # 0
  BY <1>1, <1>3 DEF Entries
<1> QED
  BY <1>2, <1>3

LEMMA StoredAre ==
  ASSUME NEW fs, \A t \in DOMAIN fs : IsSeq(fs[t].commits)
  PROVE  \A v : v \in Stored(fs) <=>
           \E t \in DOMAIN fs : \E i \in 2..Len(fs[t].commits) : v = fs[t].commits[i].version
<1>1. ASSUME NEW t \in DOMAIN fs, NEW v
      PROVE  v \in {e.version : e \in ToSet(Entries(fs[t].commits))} <=>
               \E i \in 2..Len(fs[t].commits) : v = fs[t].commits[i].version
  <2> DEFINE c == fs[t].commits
             es == Entries(c)
  <2>1. Len(c) \in Nat /\ DOMAIN es = 1..(Len(c) - 1) /\ \A i \in 1..(Len(c) - 1) : es[i] = c[i + 1]
    BY EntriesAre, SeqFacts
  <2>2. v \in {e.version : e \in ToSet(Entries(fs[t].commits))} <=> \E i \in DOMAIN es : v = es[i].version
    BY DEF ToSet
  <2> HIDE DEF es
  <2>3. (\E i \in 1..(Len(c) - 1) : v = c[i + 1].version) <=> \E i \in 2..Len(c) : v = c[i].version
    <3>1. ASSUME NEW i \in 1..(Len(c) - 1), v = c[i + 1].version PROVE \E k \in 2..Len(c) : v = c[k].version
      <4>1. i + 1 \in 2..Len(c)
        BY <2>1
      <4> QED
        BY <3>1, <4>1
    <3>2. ASSUME NEW k \in 2..Len(c), v = c[k].version PROVE \E i \in 1..(Len(c) - 1) : v = c[i + 1].version
      <4>1. k - 1 \in 1..(Len(c) - 1) /\ (k - 1) + 1 = k
        BY <2>1
      <4> QED
        BY <3>2, <4>1
    <3> QED
      BY <3>1, <3>2
  <2> QED
    BY <2>1, <2>2, <2>3
<1> DEFINE V(t) == {e.version : e \in ToSet(Entries(fs[t].commits))}
<1>2. Stored(fs) = UNION {V(t) : t \in DOMAIN fs}
  BY DEF Stored
<1>3. \A t \in DOMAIN fs : \A v : v \in V(t) <=> \E i \in 2..Len(fs[t].commits) : v = fs[t].commits[i].version
  BY <1>1
<1> HIDE DEF V
<1>4. \A v : v \in UNION {V(t) : t \in DOMAIN fs} <=> \E t \in DOMAIN fs : v \in V(t)
  OBVIOUS
<1> QED
  BY <1>2, <1>3, <1>4

-----------------------------------------------------------------------------
(* One file: a chain of versions.                                          *)

LEMMA ChainFacts ==
  ASSUME NEW b \in Nat, NEW c, Chain(b, c)
  PROVE  /\ IsSeq(c) /\ Len(c) \in Nat /\ DOMAIN c = 1..Len(c) /\ (c = <<>> <=> Len(c) = 0)
         /\ c # <<>> => c[1] = Header(b)
         /\ \A i \in 2..Len(c) : VersionAt(b, c, i)
BY SeqFacts DEF Chain

\* What is said of a commit says nothing of those after it.
LEMMA VersionKept ==
  ASSUME NEW b \in Nat, NEW c, NEW d, NEW i \in Nat, i >= 2,
         \A k \in 1..i : c[k] = d[k], VersionAt(b, c, i)
  PROVE  VersionAt(b, d, i)
<1>1. c[i] = d[i] /\ (\A j \in 2..i : c[j] = d[j]) /\ (i > 2 => c[i - 1] = d[i - 1])
  OBVIOUS
<1>2. c[i].type # "snapshot" => i > 2
  BY DEF VersionAt
<1>3. \E j \in 2..i : i - j <= d[i].md.diffs /\ d[j].type # "delta"
  <2>1. PICK j \in 2..i : i - j <= c[i].md.diffs /\ c[j].type # "delta"
    BY DEF VersionAt
  <2>2. c[j] = d[j]
    BY <1>1
  <2> QED
    BY <1>1, <2>1, <2>2
<1> QED
  BY <1>1, <1>2, <1>3 DEF VersionAt

LEMMA ChainPrefix ==
  ASSUME NEW b \in Nat, NEW c, Chain(b, c), NEW n \in 0..Len(c)
  PROVE  Chain(b, SubSeq(c, 1, n))
<1> DEFINE d == SubSeq(c, 1, n)
<1>1. IsSeq(d) /\ Len(d) = n /\ \A i \in 1..n : d[i] = c[i]
  BY Prefix, ChainFacts
<1> HIDE DEF d
<1>2. n \in Nat /\ Len(c) \in Nat
  BY ChainFacts
<1>3. d # <<>> => d[1] = Header(b)
  <2> SUFFICES ASSUME d # <<>> PROVE d[1] = Header(b)
    OBVIOUS
  <2>1. n >= 1
    BY <1>1, <1>2, SeqFacts
  <2>2. c # <<>>
    BY <2>1, <1>2, ChainFacts
  <2> QED
    BY <1>1, <1>2, <2>1, <2>2, ChainFacts
<1>4. ASSUME NEW i \in 2..Len(d) PROVE VersionAt(b, d, i)
  <2>1. i \in Nat /\ i >= 2 /\ i \in 2..Len(c) /\ \A k \in 1..i : c[k] = d[k]
    BY <1>1, <1>2
  <2>2. VersionAt(b, c, i)
    BY <2>1, ChainFacts
  <2> QED
    BY <2>1, <2>2, VersionKept
<1>5. Chain(b, d)
  BY <1>1, <1>3, <1>4 DEF Chain
<1> QED
  BY <1>5 DEF d

LEMMA ChainCreate ==
  ASSUME NEW b \in Nat
  PROVE  Chain(b, CreateAt(b)) /\ CreateAt(b) # <<>> /\ Len(CreateAt(b)) = 1
<1>1. CreateAt(b) = <<Header(b)>>
  BY DEF CreateAt, Header
<1>2. <<Header(b)>> \in Seq({Header(b)})
  OBVIOUS
<1>3. IsSeq(<<Header(b)>>)
  BY <1>2, AnySeq
<1> QED
  BY <1>1, <1>3 DEF Chain

LEMMA ChainAppend ==
  ASSUME NEW b \in Nat, NEW c, Chain(b, c), c # <<>>, NEW e, VersionAt(b, Append(c, e), Len(c) + 1)
  PROVE  Chain(b, Append(c, e))
<1> DEFINE d == Append(c, e)
           n == Len(c)
<1>1. IsSeq(d) /\ Len(d) = n + 1 /\ \A i \in 1..n : d[i] = c[i]
  BY Appended, ChainFacts
<1>2. n \in Nat /\ n >= 1
  BY ChainFacts
<1> HIDE DEF d, n
<1>3. d[1] = Header(b)
  BY <1>1, <1>2, ChainFacts
<1>4. ASSUME NEW i \in 2..(n + 1) PROVE VersionAt(b, d, i)
  <2>1. CASE i = n + 1
    BY <2>1 DEF d, n
  <2>2. CASE i # n + 1
    <3>1. i \in Nat /\ i >= 2 /\ i \in 2..n /\ \A k \in 1..i : c[k] = d[k]
      BY <1>1, <1>2, <2>2
    <3>2. VersionAt(b, c, i)
      BY <3>1, ChainFacts DEF n
    <3> QED
      BY <3>1, <3>2, VersionKept
  <2> QED
    BY <2>1, <2>2
<1>5. Chain(b, d)
  BY <1>1, <1>3, <1>4 DEF Chain
<1> QED
  BY <1>5 DEF d

\* The metadata of the last commit.
LEMMA ChainLast ==
  ASSUME NEW b \in Nat, NEW c, Chain(b, c), c # <<>>
  PROVE  /\ Last(c) = c[Len(c)] /\ Len(c) >= 1
         /\ Last(c).md.version = b + Len(c) - 1 /\ Last(c).md.base = b
         /\ Last(c).md.diffs \in Nat
         /\ Last(c).md = Metadata(b + Len(c) - 1, b, Last(c).md.diffs, Last(c).md.latest)
         /\ Len(c) = 1 <=> ~Last(c).md.latest
         /\ Last(c).md.latest \in BOOLEAN
<1> DEFINE n == Len(c)
           md == Last(c).md
<1>1. n \in Nat /\ n >= 1 /\ Last(c) = c[n]
  BY ChainFacts DEF Last
<1>2. md.diffs \in Nat /\ md = Metadata(b + n - 1, b, md.diffs, n # 1)
  <2>1. CASE n = 1
    <3>1. c[1] = Header(b)
      BY ChainFacts
    <3>2. md = Metadata(b, b, 0, FALSE)
      BY <3>1, <2>1, <1>1 DEF Header
    <3> HIDE DEF md, n
    <3>3. md.diffs = 0 /\ b + n - 1 = b /\ (n # 1) = FALSE
      BY <3>2, <2>1 DEF Metadata
    <3>4. md.diffs \in Nat
      BY <3>3
    <3>5. md = Metadata(b + n - 1, b, md.diffs, n # 1)
      BY <3>2, <3>3, Zenon
    <3> QED
      BY <3>4, <3>5
  <2>2. CASE n # 1
    <3>1. n \in 2..n
      <4> HIDE DEF n
      <4> QED
        BY <1>1, <2>2
    <3>2. VersionAt(b, c, n)
      BY <3>1, ChainFacts
    <3>3. c[n].md.diffs \in Nat /\ c[n].md = Metadata(b + n - 1, b, c[n].md.diffs, TRUE)
      BY <3>2 DEF VersionAt
    <3>4. md.diffs \in Nat /\ md = Metadata(b + n - 1, b, md.diffs, TRUE)
      BY <3>3, <1>1
    <3> HIDE DEF md, n
    <3> QED
      BY <3>4, <2>2
  <2> QED
    BY <2>1, <2>2
<1> HIDE DEF md
<1>3. md.version = b + n - 1 /\ md.base = b /\ md.latest = (n # 1)
  <2> HIDE DEF n
  <2> QED
    BY <1>2 DEF Metadata
<1> QED
  BY <1>1, <1>2, <1>3 DEF md

\* What reading the i-th version of a chain applies.
LEMMA VersionApplies ==
  ASSUME NEW b \in Nat, NEW c, Chain(b, c), NEW i \in 2..Len(c)
  PROVE  /\ c[i].version = b + i - 1 /\ c[i].hash \in AllTexts
         /\ i = 2 => c[i].type = "snapshot"
         /\ c[i].type = "snapshot" => \A x : ApplyEntry(Done(x), c[i]) = Done(c[i].hash)
         /\ i > 2 => ApplyEntry(Done(c[i - 1].hash), c[i]) = Done(c[i].hash)
<1>1. VersionAt(b, c, i) /\ i \in Nat
  BY ChainFacts
<1>2. c[i].type = "snapshot" => c[i].data = c[i].hash
  BY <1>1 DEF VersionAt
<1>3. ASSUME c[i].type = "snapshot", NEW x PROVE ApplyEntry(Done(x), c[i]) = Done(c[i].hash)
  <2>1. Done(x).ok
    BY DEF Done
  <2> QED
    BY <1>2, <1>3, <2>1 DEF ApplyEntry
<1>4. c[i].type # "snapshot" => i > 2 /\ ApplyEntry(Done(c[i - 1].hash), c[i]) = Done(c[i].hash)
  BY <1>1 DEF VersionAt
<1>5. c[i].version = b + i - 1 /\ c[i].hash \in AllTexts
  BY <1>1 DEF VersionAt
<1> QED
  BY <1>1, <1>3, <1>4, <1>5

LEMMA AppliedIs ==
  ASSUME NEW b \in Nat, NEW c, Chain(b, c), NEW hi \in 1..(Len(c) - 1), NEW start \in 1..hi,
         Entries(c)[start].type = "snapshot"
  PROVE  Applied(Entries(c), start, hi) = Done(Entries(c)[hi].hash)
<1> DEFINE es == Entries(c)
           N == hi - start + 1
           Runs(f) == f = [n \in 0..N |->
                             IF n = 0 THEN Done(<<>>) ELSE ApplyEntry(f[n - 1], es[start + n - 1])]
           after == CHOOSE f : Runs(f)
           v == [n \in 0..N |-> IF n = 0 THEN Done(<<>>) ELSE Done(es[start + n - 1].hash)]
<1>1. /\ Len(c) \in Nat /\ N \in Nat /\ hi \in Nat /\ start \in Nat /\ N >= 1
      /\ start >= 1 /\ start <= hi /\ hi <= Len(c) - 1
  BY ChainFacts
<1>2. \A i \in 1..(Len(c) - 1) : es[i] = c[i + 1]
  BY EntriesAre, ChainFacts
<1>3. Applied(es, start, hi) = after[N]
  BY DEF Applied
<1> HIDE DEF es
<1>4. ASSUME NEW n \in 1..N
      PROVE  ApplyEntry(v[n - 1], es[start + n - 1]) = v[n]
  <2> DEFINE i == start + n
  <2>1. i \in 2..Len(c) /\ start + n - 1 \in 1..(Len(c) - 1) /\ i = (start + n - 1) + 1 /\ n \in 0..N /\ n # 0
    BY <1>1
  <2>2. es[start + n - 1] = c[i]
    BY <1>2, <2>1
  <2>3. v[n] = Done(c[i].hash)
    BY <2>1, <2>2
  <2>4. CASE n = 1
    <3>1. v[n - 1] = Done(<<>>)
      BY <2>4, <1>1
    <3>2. c[i].type = "snapshot"
      BY <2>2, <2>4, <1>1 DEF es
    <3> HIDE DEF i, v
    <3> QED
      BY <3>1, <3>2, <2>1, <2>2, <2>3, VersionApplies
  <2>5. CASE n # 1
    <3>1. n - 1 \in 0..N /\ n - 1 # 0 /\ start + (n - 1) - 1 \in 1..(Len(c) - 1)
          /\ (start + (n - 1) - 1) + 1 = i - 1 /\ i > 2
      BY <2>5, <1>1
    <3>2. v[n - 1] = Done(c[i - 1].hash)
      BY <3>1, <1>2
    <3> HIDE DEF i, v
    <3> QED
      BY <3>1, <3>2, <2>1, <2>2, <2>3, VersionApplies
  <2> QED
    BY <2>4, <2>5
<1>5. v = [n \in 0..N |-> v[n]] /\ v[0] = Done(<<>>)
      /\ v[N] = Done(es[hi].hash)
  <2>1. start + N - 1 = hi /\ N # 0 /\ N \in 0..N /\ 0 \in 0..N
    BY <1>1
  <2> HIDE DEF N
  <2> QED
    BY <2>1
<1> HIDE DEF v, N
<1>6. Runs(v)
  <2>1. ASSUME NEW n \in 0..N
        PROVE  v[n] = IF n = 0 THEN Done(<<>>) ELSE ApplyEntry(v[n - 1], es[start + n - 1])
    <3>1. CASE n = 0
      BY <3>1, <1>5
    <3>2. CASE n # 0
      <4>1. n \in 1..N
        BY <3>2, <1>1
      <4> QED
        BY <4>1, <3>2, <1>4
    <3> QED
      BY <3>1, <3>2
  <2> QED
    BY <2>1, <1>5
<1>7. Runs(after)
  <2> HIDE DEF Runs
  <2> QED
    BY <1>6, Zenon
<1> HIDE DEF after
<1>8. \A n \in 0..N : after[n] = IF n = 0 THEN Done(<<>>) ELSE ApplyEntry(after[n - 1], es[start + n - 1])
  BY <1>7
<1> DEFINE S == {n \in 0..N : after[n] = v[n]}
<1>9. 0 \in S
  BY <1>1, <1>5, <1>8
<1>10. ASSUME NEW n \in 0..N, n < N, n \in S PROVE n + 1 \in S
  <2>1. n + 1 \in 1..N /\ n + 1 \in 0..N /\ (n + 1) - 1 = n /\ n + 1 # 0
    BY <1>10, <1>1
  <2>2. after[n + 1] = ApplyEntry(after[(n + 1) - 1], es[start + (n + 1) - 1])
    BY <2>1, <1>8
  <2>3. v[n + 1] = ApplyEntry(v[(n + 1) - 1], es[start + (n + 1) - 1])
    BY <2>1, <1>4
  <2> QED
    BY <2>1, <2>2, <2>3, <1>10
<1>11. N \in S
  <2>1. \A n \in 0..N : n \in S
    <3> HIDE DEF S
    <3> QED
      BY <1>1, <1>9, <1>10, UpTo
  <2> QED
    BY <2>1, <1>1
<1> QED
  BY <1>3, <1>5, <1>11 DEF es

\* Every version of a chain reads back.
LEMMA ChainReads ==
  ASSUME NEW b \in Nat, NEW c, Chain(b, c), NEW v \in (b + 1)..(b + Len(c) - 1)
  PROVE  /\ Reconstruct(c, v) = Done(c[v - b + 1].hash)
         /\ v - b + 1 \in 2..Len(c)
<1> DEFINE es == Entries(c)
           n == Len(c) - 1
           upTo == {i \in DOMAIN es : es[i].version <= v}
           hi == Max(upTo)
           snaps == {i \in 1..hi : es[i].type = "snapshot"}
           start == Max(snaps)
<1>1. Len(c) \in Nat /\ n \in Nat /\ v \in Nat /\ v - b \in 1..n /\ v - b + 1 \in 2..Len(c)
  BY ChainFacts
<1>2. DOMAIN es = 1..n /\ \A i \in 1..n : es[i] = c[i + 1] /\ i + 1 \in 2..Len(c)
  BY EntriesAre, ChainFacts
<1>3. \A i \in 1..n : es[i].version = b + i
  <2> SUFFICES ASSUME NEW i \in 1..n PROVE es[i].version = b + i
    OBVIOUS
  <2>1. c[i + 1].version = b + (i + 1) - 1
    BY <1>2, VersionApplies
  <2> QED
    BY <2>1, <1>1, <1>2
<1>4. Reconstruct(c, v) = IF upTo = {} THEN Done(<<>>)
                          ELSE IF snaps = {} THEN Failed
                          ELSE Checked(Applied(es, start, hi), es[hi].hash)
  BY DEF Reconstruct
<1> HIDE DEF es
<1>5. upTo \in SUBSET (0..n) /\ v - b \in upTo
  <2> HIDE DEF n
  <2> QED
    BY <1>1, <1>2, <1>3
<1>6. hi \in upTo /\ \A y \in upTo : y <= hi
  <2> HIDE DEF upTo, n
  <2> QED
    BY <1>1, <1>5, MaxOfNats
<1>7. hi = v - b
  <2>1. hi \in 1..n /\ es[hi].version <= v /\ v - b <= hi
    <3> HIDE DEF hi
    <3> QED
      BY <1>2, <1>5, <1>6
  <2>2. es[hi].version = b + hi
    BY <2>1, <1>3
  <2> HIDE DEF hi
  <2> QED
    BY <2>1, <2>2, <1>1
<1> HIDE DEF hi
<1>8. snaps \in SUBSET (0..n) /\ 1 \in snaps
  <2>1. 1 \in 1..hi /\ 1 \in 1..n
    BY <1>1, <1>7
  <2>2. c[2].type = "snapshot" /\ es[1] = c[2]
    <3>1. 1 + 1 \in 2..Len(c) /\ es[1] = c[1 + 1]
      BY <2>1, <1>2
    <3> QED
      BY <3>1, VersionApplies
  <2> QED
    BY <2>1, <2>2, <1>1, <1>7
<1>9. start \in snaps
  <2> HIDE DEF snaps, n
  <2> QED
    BY <1>1, <1>8, MaxOfNats
<1> HIDE DEF start
<1>10. start \in 1..hi /\ es[start].type = "snapshot" /\ hi \in 1..(Len(c) - 1)
  BY <1>1, <1>7, <1>9
<1>11. Applied(es, start, hi) = Done(es[hi].hash)
  BY <1>10, AppliedIs DEF es
<1>12. Checked(Done(es[hi].hash), es[hi].hash) = Done(es[hi].hash)
  BY DEF Checked, Done
<1>13. es[hi] = c[v - b + 1]
  BY <1>2, <1>7, <1>10
<1> QED
  BY <1>1, <1>4, <1>5, <1>8, <1>11, <1>12, <1>13

LEMMA HashIsText ==
  ASSUME NEW x \in AllTexts
  PROVE  x \in Seq(Symbols) /\ x # NoText
BY TextAssumption

\* The version an add writes after the last one of a file.
LEMMA CommitFollows ==
  ASSUME NEW f, f.base \in Nat, Chain(f.base, f.commits), NEW log, HandleOK(f, log),
         NEW text \in AllTexts, NEW e, e = VersionCommit(f.commits, log, text)
  PROVE  /\ CanAdd(f.commits, log)
         /\ e.version = f.base + Len(f.commits) /\ e.hash = text
         /\ Chain(f.base, Append(f.commits, e))
<1> DEFINE b == f.base
           c == f.commits
           n == Len(c)
           d == Append(c, e)
           md == log.md
           prev == Previous(c, log)
           v == md.version + 1
           more == md.diffs + 1
<1>1. c # <<>> /\ log = [md |-> Last(c).md, text |-> log.text]
      /\ (log.text # NoText => n > 1 /\ log.text = Last(c).hash)
  BY DEF HandleOK
<1>2. /\ Last(c) = c[n] /\ n \in Nat /\ n >= 1 /\ b \in Nat
      /\ md.version = b + n - 1 /\ md.base = b /\ md.diffs \in Nat /\ (n = 1 <=> ~md.latest)
      /\ md = c[n].md /\ n + 1 \in Nat /\ (n + 1) - 1 = n /\ b + (n + 1) - 1 = b + n
      /\ v = b + n /\ v = b + (n + 1) - 1 /\ more \in Nat
  <2>1. md = Last(c).md
    BY <1>1
  <2>2. Len(c) \in Nat
    BY ChainFacts
  <2> QED
    BY <1>1, <2>1, <2>2, ChainLast
<1>3. IsSeq(d) /\ Len(d) = n + 1 /\ d[n + 1] = e /\ (\A i \in 1..n : d[i] = c[i])
  BY Appended, ChainFacts
<1>4. CASE SnapshotDue(md)
  <2>1. e = [type |-> "snapshot", version |-> v, hash |-> text, data |-> text, md |-> Metadata(v, b, 0, TRUE)]
    BY <1>2, <1>4 DEF VersionCommit
  <2> HIDE DEF md, b, c, n, d, v, prev, more
  <2>2. /\ e.type = "snapshot" /\ e.version = v /\ e.hash = text /\ e.data = text
        /\ e.md = Metadata(v, b, 0, TRUE)
    BY <2>1
  <2>3. e.md.diffs = 0
    <3>1. Metadata(v, b, 0, TRUE).diffs = 0
      BY DEF Metadata
    <3> QED
      BY <2>2, <3>1
  <2>4. \E j \in 2..(n + 1) : (n + 1) - j <= e.md.diffs /\ d[j].type # "delta"
    <3>1. n + 1 \in 2..(n + 1) /\ (n + 1) - (n + 1) = 0 /\ 0 <= e.md.diffs
      BY <1>2, <2>3
    <3> QED
      BY <3>1, <1>3, <2>2
  <2>5. VersionAt(b, d, n + 1)
    <3>1. d[n + 1] = e /\ e.md.diffs \in Nat /\ e.version = b + (n + 1) - 1
      <4>1. e.version = b + (n + 1) - 1
        BY <1>2, <2>2, Zenon
      <4> QED
        BY <1>3, <2>3, <4>1
    <3>2. e.md = Metadata(b + (n + 1) - 1, b, e.md.diffs, TRUE)
      BY <1>2, <2>2, <2>3, Zenon
    <3> QED
      BY <2>2, <2>4, <3>1, <3>2 DEF VersionAt
  <2>6. Chain(b, Append(c, e))
    <3>1. Chain(b, c)
      BY DEF b, c
    <3> QED
      BY <1>1, <1>2, <2>5, <3>1, ChainAppend DEF d, n
  <2>7. CanAdd(c, log)
    BY <1>4 DEF CanAdd, md
  <2> QED
    BY <1>2, <2>2, <2>6, <2>7 DEF b, c, n
<1>5. CASE ~SnapshotDue(md)
  <2>1. n > 1 /\ md.diffs < DiffsPerSnapshot
    <3>1. md.latest /\ ~(md.diffs >= DiffsPerSnapshot)
      BY <1>5 DEF SnapshotDue
    <3> HIDE DEF md, n
    <3> QED
      BY <3>1, <1>2, SnapshotAssumption
  <2>2. VersionAt(b, c, n) /\ n \in 2..Len(c)
    <3>1. n \in 2..n
      <4> HIDE DEF n
      <4> QED
        BY <1>2, <2>1
    <3> QED
      BY <3>1, <1>2, ChainFacts
  <2>3. prev = Done(c[n].hash)
    <3>1. CASE log.text # NoText
      BY <3>1, <1>1, <1>2 DEF Previous
    <3>2. CASE log.text = NoText
      <4> HIDE DEF n
      <4>1. b + n - 1 \in (b + 1)..(b + n - 1) /\ (b + n - 1) - b + 1 = n
        BY <1>2, <2>1
      <4>2. Reconstruct(c, b + n - 1) = Done(c[n].hash)
        BY <4>1, <1>2, ChainReads DEF n
      <4> QED
        BY <3>2, <4>2, <1>2 DEF Previous
    <3> QED
      BY <3>1, <3>2
  <2>4. prev.ok /\ prev.text = c[n].hash
    BY <2>3 DEF Done
  <2>5. e = [type |-> "delta", version |-> v, hash |-> text, data |-> CreateDelta(c[n].hash, text),
             md |-> Metadata(v, b, more, TRUE)]
    BY <1>2, <1>5, <2>4 DEF VersionCommit
  <2>7. CanAdd(c, log)
    BY <2>4 DEF CanAdd
  <2> HIDE DEF b, c, n, d, prev, v, more
  <2>6. /\ e.type = "delta" /\ e.version = v /\ e.hash = text /\ e.data = CreateDelta(c[n].hash, text)
        /\ e.md = Metadata(v, b, more, TRUE)
    BY <2>5
  <2>8. e.md.diffs = more /\ more = md.diffs + 1
    <3>1. Metadata(v, b, more, TRUE).diffs = more
      BY DEF Metadata
    <3> QED
      BY <2>6, <3>1 DEF more
  <2> HIDE DEF md
  <2>9. c[n].hash \in AllTexts
    BY <2>2 DEF VersionAt
  <2>10. ApplyEntry(Done(c[n].hash), e) = Done(text)
    <3>1. ApplyDelta(c[n].hash, CreateDelta(c[n].hash, text)) = Done(text)
      BY <2>9, HashIsText, DeltaCorrect
    <3>2. Done(c[n].hash).ok /\ Done(c[n].hash).text = c[n].hash
      BY DEF Done
    <3> QED
      BY <3>1, <3>2, <2>6 DEF ApplyEntry
  <2>11. \E j \in 2..(n + 1) : (n + 1) - j <= e.md.diffs /\ d[j].type # "delta"
    <3>1. PICK j \in 2..n : n - j <= c[n].md.diffs /\ c[j].type # "delta"
      BY <2>2 DEF VersionAt
    <3>2. c[n].md.diffs = md.diffs /\ j \in 1..n /\ j \in 2..(n + 1)
      BY <1>2
    <3>3. (n + 1) - j <= e.md.diffs
      BY <3>1, <3>2, <1>2, <2>8
    <3> QED
      BY <3>1, <3>2, <3>3, <1>3
  <2>12. n + 1 > 2 /\ more <= DiffsPerSnapshot
    BY <1>2, <2>1, <2>8, SnapshotAssumption
  <2>13. VersionAt(b, d, n + 1)
    <3>1. d[n + 1] = e /\ d[(n + 1) - 1] = c[n] /\ e.md.diffs \in Nat /\ e.md.diffs <= DiffsPerSnapshot
          /\ e.version = b + (n + 1) - 1
      <4>1. e.md.diffs \in Nat /\ e.md.diffs <= DiffsPerSnapshot
        BY <1>2, <2>8, <2>12, Zenon
      <4>2. e.version = b + (n + 1) - 1
        BY <1>2, <2>6, Zenon
      <4>3. n \in 1..n
        BY <1>2
      <4>4. d[(n + 1) - 1] = c[n]
        BY <1>2, <1>3, <4>3
      <4> QED
        BY <1>3, <4>1, <4>2, <4>4
    <3>2. e.md = Metadata(b + (n + 1) - 1, b, e.md.diffs, TRUE)
      BY <1>2, <2>6, <2>8, Zenon
    <3> QED
      BY <2>6, <2>10, <2>11, <2>12, <3>1, <3>2 DEF VersionAt
  <2>14. Chain(b, Append(c, e))
    <3>1. Chain(b, c)
      BY DEF b, c
    <3> QED
      BY <1>1, <1>2, <2>13, <3>1, ChainAppend DEF d, n
  <2> QED
    BY <1>2, <2>6, <2>7, <2>14 DEF b, c, n
<1> QED
  BY <1>4, <1>5

LEMMA Joined ==
  ASSUME NEW x, NEW y, IsSeq(x), IsSeq(y)
  PROVE  /\ IsSeq(x \o y) /\ Len(x \o y) = Len(x) + Len(y)
         /\ \A i \in 1..(Len(x) + Len(y)) : (x \o y)[i] = IF i <= Len(x) THEN x[i] ELSE y[i - Len(x)]
<1> DEFINE T == ToSet(x) \cup ToSet(y)
<1>1. x \in Seq(T) /\ y \in Seq(T)
  BY SeqFacts
<1> HIDE DEF T
<1>2. x \o y \in Seq(T)
  BY <1>1, Concatenation
<1> QED
  BY <1>1, <1>2, Concatenation, AnySeq

LEMMA OlderChain ==
  ASSUME NEW s \in OlderTexts
  PROVE  /\ Chain(0, OlderFile(s)) /\ Len(OlderFile(s)) = Len(s) + 1
         /\ Len(s) \in 0..MaxVersions /\ DOMAIN s = 1..Len(s) /\ s = [v \in DOMAIN s |-> s[v]]
         /\ \A v \in 1..Len(s) : /\ OlderFile(s)[v + 1].version = v
                                 /\ OlderFile(s)[v + 1].hash = s[v]
<1> DEFINE n == Len(s)
           part == [v \in 1..n |->
             [type |-> IF v = 1 THEN "snapshot" ELSE "patch", version |-> v, hash |-> s[v],
              data |-> IF v = 1 THEN s[v] ELSE CreatePatch(s[v - 1], s[v]),
              md   |-> Metadata(v, 0, v - 1, TRUE)]]
           c == OlderFile(s)
<1>1. /\ n \in Nat /\ n <= MaxVersions /\ MaxVersions \in Nat /\ DOMAIN s = 1..n
      /\ s = [v \in DOMAIN s |-> s[v]] /\ \A v \in 1..n : s[v] \in AllTexts
  <2>1. s \in Seq(AllTexts) /\ n <= MaxVersions /\ MaxVersions \in Nat
    BY OlderAssumption
  <2> QED
    BY <2>1
<1>2. c = CreateAt(0) \o part
  BY <1>1 DEF OlderFile
<1> HIDE DEF c
<1>3. /\ Len(part) = n /\ IsSeq(part)
  <2>1. part = [v \in 1..n |-> part[v]]
    OBVIOUS
  <2> HIDE DEF part
  <2> QED
    BY <2>1, <1>1, FunctionSeq
<1>4. \A v \in 1..n :
        /\ part[v].type = IF v = 1 THEN "snapshot" ELSE "patch"
        /\ part[v].version = v /\ part[v].hash = s[v]
        /\ part[v].data = IF v = 1 THEN s[v] ELSE CreatePatch(s[v - 1], s[v])
        /\ part[v].md = Metadata(v, 0, v - 1, TRUE)
  BY <1>1
<1> HIDE DEF part
<1>5. /\ Len(CreateAt(0)) = 1 /\ IsSeq(CreateAt(0)) /\ CreateAt(0)[1] = Header(0)
  BY ChainCreate, ChainFacts
<1>6. /\ IsSeq(c) /\ Len(c) = n + 1 /\ c[1] = Header(0)
      /\ \A v \in 1..n : c[v + 1] = part[v]
  <2>1. /\ IsSeq(c) /\ Len(c) = 1 + n
        /\ \A i \in 1..(1 + n) : c[i] = IF i <= 1 THEN CreateAt(0)[i] ELSE part[i - 1]
    BY <1>2, <1>3, <1>5, Joined, SMTT(40)
  <2>2. c[1] = Header(0)
    BY <1>1, <1>5, <2>1
  <2>3. ASSUME NEW v \in 1..n PROVE c[v + 1] = part[v]
    <3>1. v + 1 \in 1..(1 + n) /\ ~(v + 1 <= 1) /\ (v + 1) - 1 = v
      BY <1>1
    <3> QED
      BY <3>1, <2>1
  <2> QED
    BY <1>1, <2>1, <2>2, <2>3
<1>7. ASSUME NEW i \in 2..(n + 1) PROVE VersionAt(0, c, i)
  <2> DEFINE v == i - 1
  <2>1. v \in 1..n /\ i = v + 1 /\ v \in Nat /\ 0 + i - 1 = v /\ (v # 1 => i > 2 /\ v \in 2..n /\ v - 1 \in 1..n /\ i - 1 = (v - 1) + 1)
    BY <1>1
  <2> HIDE DEF v
  <2>2. c[i] = part[v] /\ c[2] = part[1]
    <3>1. 1 \in 1..n /\ 1 + 1 = 2
      BY <1>1, <2>1
    <3> QED
      BY <1>6, <2>1, <3>1
  <2>3. /\ c[i].type = (IF v = 1 THEN "snapshot" ELSE "patch")
        /\ c[i].version = v /\ c[i].hash = s[v] /\ s[v] \in AllTexts
        /\ c[i].data = (IF v = 1 THEN s[v] ELSE CreatePatch(s[v - 1], s[v]))
        /\ c[i].md = Metadata(v, 0, v - 1, TRUE) /\ c[i].md.diffs = v - 1 /\ v - 1 \in Nat
    BY <1>1, <1>4, <2>1, <2>2 DEF Metadata
  <2>4. c[i].type # "snapshot" => i > 2 /\ ApplyEntry(Done(c[i - 1].hash), c[i]) = Done(c[i].hash)
    <3> SUFFICES ASSUME v # 1
                 PROVE  i > 2 /\ ApplyEntry(Done(c[i - 1].hash), c[i]) = Done(c[i].hash)
      BY <2>3
    <3>1. c[i - 1].hash = s[v - 1]
      <4> DEFINE u == v - 1
      <4>1. u \in 1..n /\ i - 1 = u + 1
        BY <2>1
      <4> HIDE DEF u
      <4>2. c[i - 1] = part[u] /\ part[u].hash = s[u]
        BY <1>4, <1>6, <4>1
      <4> QED
        BY <4>2 DEF u
    <3>2. ApplyPatch(s[v - 1], CreatePatch(s[v - 1], s[v])) = Done(s[v])
      BY <2>1, OlderAssumption
    <3>3. Done(s[v - 1]).ok /\ Done(s[v - 1]).text = s[v - 1]
      BY DEF Done
    <3>4. ApplyEntry(Done(s[v - 1]), c[i]) = Done(s[v])
      BY <2>3, <3>2, <3>3 DEF ApplyEntry
    <3> QED
      BY <2>1, <2>3, <3>1, <3>4
  <2>5. \E j \in 2..i : i - j <= c[i].md.diffs /\ c[j].type # "delta"
    <3>1. 2 \in 2..i /\ i - 2 <= v - 1 /\ 1 \in 1..n
      BY <1>1, <2>1
    <3>2. part[1].type = "snapshot"
      BY <1>4, <3>1
    <3>3. c[2].type = "snapshot"
      BY <2>2, <3>2
    <3> QED
      BY <2>3, <3>1, <3>3
  <2> QED
    BY <2>1, <2>3, <2>4, <2>5 DEF VersionAt
<1>8. Chain(0, c)
  BY <1>6, <1>7 DEF Chain
<1>9. \A v \in 1..n : c[v + 1].version = v /\ c[v + 1].hash = s[v]
  BY <1>4, <1>6
<1> QED
  BY <1>1, <1>6, <1>8, <1>9 DEF c

-----------------------------------------------------------------------------
(* The cache.                                                              *)

LEMMA WithoutIs ==
  ASSUME NEW s, IsSeq(s), NEW out
  PROVE  IsSeq(Without(s, out)) /\ ToSet(Without(s, out)) = ToSet(s) \ out
<1> DEFINE n == Len(s)
           X == Seq(ToSet(s))
           Next_(x, i) == IF s[i] \in out THEN x ELSE Append(x, s[i])
           step == [x \in (1..n) \X X |-> Next_(x[2], x[1])]
           Runs(f) == f = [i \in 0..n |->
                             IF i = 0 THEN <<>> ELSE IF s[i] \in out THEN f[i - 1]
                             ELSE Append(f[i - 1], s[i])]
           kept == CHOOSE f : Runs(f)
<1>1. n \in Nat /\ \A i \in 1..n : s[i] \in ToSet(s)
  BY SeqFacts
<1>2. ASSUME NEW i \in 1..n, NEW x \in X PROVE Next_(x, i) \in X
  BY <1>1
<1>3. <<>> \in X
  OBVIOUS
<1>4. Without(s, out) = kept[n]
  BY DEF Without
<1> HIDE DEF X
<1>5. /\ step \in [(1..n) \X X -> X]
      /\ \A i \in 1..n, x \in X : step[<<i, x>>] = Next_(x, i)
  BY <1>2
<1> HIDE DEF step
<1>6. PICK u \in [0..n -> X] : Recurses(u, <<>>, n, step)
  BY <1>1, <1>3, <1>5, Recursion
<1>7. ASSUME NEW i \in 0..n
      PROVE  u[i] = IF i = 0 THEN <<>> ELSE Next_(u[i - 1], i)
  <2> HIDE DEF Next_
  <2>1. CASE i = 0
    BY <2>1, <1>6 DEF Recurses
  <2>2. CASE i # 0
    <3>1. i \in 1..n /\ i - 1 \in 0..n
      BY <2>2, <1>1
    <3>2. u[i - 1] \in X
      BY <3>1, <1>6
    <3>3. u[i] = step[<<i, u[i - 1]>>]
      BY <2>2, <1>6 DEF Recurses
    <3> QED
      BY <3>1, <3>2, <3>3, <2>2, <1>5
  <2> QED
    BY <2>1, <2>2
<1>8. u = [i \in 0..n |-> u[i]]
  BY <1>6 DEF Recurses
<1>9. Runs(u)
  BY <1>7, <1>8
<1>10. Runs(kept)
  <2> HIDE DEF Runs
  <2> QED
    BY <1>9, Zenon
<1> HIDE DEF kept
<1>11. \A i \in 0..n : kept[i] = IF i = 0 THEN <<>> ELSE Next_(kept[i - 1], i)
  BY <1>10
<1> HIDE DEF Runs
<1> DEFINE Firsts(i) == {s[k] : k \in 1..i}
           S == {i \in 0..n : IsSeq(kept[i]) /\ ToSet(kept[i]) = Firsts(i) \ out}
<1>12. 0 \in S
  <2>1. kept[0] = <<>>
    BY <1>1, <1>11
  <2>2. ToSet(<<>>) = {} /\ IsSeq(<<>>)
    BY DEF ToSet, IsSeq
  <2> QED
    BY <1>1, <2>1, <2>2
<1>13. ASSUME NEW i \in 0..n, i < n, i \in S PROVE i + 1 \in S
  <2>1. i + 1 \in 1..n /\ i + 1 \in 0..n /\ (i + 1) - 1 = i /\ i + 1 # 0
    BY <1>13, <1>1
  <2>2. kept[i + 1] = Next_(kept[i], i + 1)
    BY <2>1, <1>11
  <2>3. Firsts(i + 1) = Firsts(i) \cup {s[i + 1]}
    BY <2>1
  <2>4. IsSeq(kept[i]) /\ ToSet(kept[i]) = Firsts(i) \ out
    BY <1>13
  <2> HIDE DEF Firsts
  <2>5. CASE s[i + 1] \in out
    BY <2>1, <2>2, <2>3, <2>4, <2>5
  <2>6. CASE s[i + 1] \notin out
    <3>1. IsSeq(Append(kept[i], s[i + 1])) /\ ToSet(Append(kept[i], s[i + 1])) = ToSet(kept[i]) \cup {s[i + 1]}
      BY <2>4, Appended
    <3> QED
      BY <2>1, <2>2, <2>3, <2>4, <2>6, <3>1
  <2> QED
    BY <2>5, <2>6
<1>14. n \in S
  <2>1. \A i \in 0..n : i \in S
    <3> HIDE DEF S
    <3> QED
      BY <1>1, <1>12, <1>13, UpTo
  <2> QED
    BY <2>1, <1>1
<1>15. Firsts(n) = ToSet(s)
  BY SeqFacts DEF ToSet
<1> QED
  BY <1>4, <1>14, <1>15

\* The order of use after t was used.
LEMMA UsedIs ==
  ASSUME NEW s, IsSeq(s), NEW t
  PROVE  IsSeq(Used(t, s)) /\ ToSet(Used(t, s)) = ToSet(s) \cup {t}
<1> DEFINE w == Without(s, {t})
<1>1. IsSeq(w) /\ ToSet(w) = ToSet(s) \ {t}
  BY WithoutIs
<1>2. Used(t, s) = Append(w, t)
  BY DEF Used
<1> HIDE DEF w
<1>3. IsSeq(Append(w, t)) /\ ToSet(Append(w, t)) = ToSet(w) \cup {t}
  BY <1>1, Appended
<1> QED
  BY <1>1, <1>2, <1>3

\* The tiles evicted are among those open, and the active one is not.
LEMMA EvictedAre ==
  ASSUME NEW s, IsSeq(s), NEW active
  PROVE  ToSet(Evicted(s, active)) \subseteq ToSet(s) \ {active}
<1> DEFINE vs == Victims(s, active)
           n == Min({Len(vs), Max({0, Len(s) - MaxOpenTiles})})
<1>1. IsSeq(vs) /\ ToSet(vs) = ToSet(s) \ {active}
  BY WithoutIs DEF Victims
<1> HIDE DEF vs
<1>2. n \in 0..Len(vs)
  <2> DEFINE m == Len(s) - MaxOpenTiles
             T == {0, m}
             k == Max(T)
  <2>1. m \in Int /\ Len(s) \in Nat /\ m <= Len(s) /\ Len(vs) \in Nat
    BY <1>1, SeqFacts, TileAssumption
  <2> HIDE DEF m
  <2>2. k \in Nat
    <3>1. CASE m >= 0
      <4>1. T \in SUBSET (0..Len(s)) /\ T # {}
        BY <2>1, <3>1
      <4>2. k \in T
        <5> HIDE DEF T
        <5> QED
          BY <2>1, <4>1, MaxOfNats
      <4> QED
        BY <2>1, <3>1, <4>2
    <3>2. CASE m < 0
      <4>1. 0 \in T /\ \A y \in T : 0 >= y
        BY <2>1, <3>2
      <4>2. \A x \in T : (\A y \in T : x >= y) => x = 0
        BY <2>1, <3>2
      <4>3. k = CHOOSE x \in T : \A y \in T : x >= y
        BY DEF Max
      <4> HIDE DEF T, k
      <4>4. k = 0
        BY <4>1, <4>2, <4>3
      <4> QED
        BY <4>4
    <3> QED
      BY <2>1, <3>1, <3>2
  <2> HIDE DEF k
  <2>3. Min({Len(vs), k}) \in {Len(vs), k} /\ Min({Len(vs), k}) <= Len(vs)
    BY <2>1, <2>2, MinOfTwo
  <2>4. Min({Len(vs), k}) \in 0..Len(vs)
    BY <2>1, <2>2, <2>3
  <2> QED
    BY <2>4 DEF k, m
<1> HIDE DEF n
<1>3. Evicted(s, active) = SubSeq(vs, 1, n)
  BY DEF Evicted, vs, n
<1> DEFINE w == SubSeq(vs, 1, n)
<1>4. IsSeq(w) /\ Len(w) = n /\ \A i \in 1..n : w[i] = vs[i]
  BY <1>1, <1>2, Prefix
<1> HIDE DEF w
<1>5. DOMAIN w = 1..n /\ n \in Nat /\ Len(vs) \in Nat /\ n <= Len(vs)
  BY <1>1, <1>2, <1>4, SeqFacts
<1>6. ToSet(w) \subseteq ToSet(vs)
  <2> SUFFICES ASSUME NEW i \in 1..n PROVE w[i] \in ToSet(vs)
    BY <1>5 DEF ToSet
  <2>1. i \in 1..Len(vs) /\ w[i] = vs[i]
    BY <1>4, <1>5
  <2> QED
    BY <1>1, <2>1, SeqFacts
<1> QED
  BY <1>1, <1>3, <1>6 DEF w

-----------------------------------------------------------------------------
(* The files.                                                              *)

\* What opening and flushing do to a file: it gets its header, and more of it is synced.
Touched(f, g) ==
  /\ g = [base |-> f.base, commits |-> g.commits, synced |-> g.synced]
  /\ g.commits = f.commits \/ (f.commits = <<>> /\ g.commits = CreateAt(f.base))
  /\ g.synced \in Nat /\ f.synced <= g.synced /\ g.synced <= Len(g.commits)

LEMMA FileFacts ==
  ASSUME NEW f, FileOK(f)
  PROVE  /\ f.base \in Nat /\ Chain(f.base, f.commits) /\ IsSeq(f.commits)
         /\ Len(f.commits) \in Nat /\ f.synced \in Nat /\ f.synced <= Len(f.commits)
         /\ (f.commits = <<>> <=> Len(f.commits) = 0)
         /\ Newest(f) \in Nat /\ f.base <= Newest(f)
         /\ Len(f.commits) >= 1 => Newest(f) = f.base + Len(f.commits) - 1
         /\ Len(f.commits) < 2 => Newest(f) = f.base
         /\ \A i \in 2..Len(f.commits) :
              /\ f.commits[i].version = f.base + i - 1 /\ f.commits[i].hash \in AllTexts
              /\ f.base < f.base + i - 1 /\ f.base + i - 1 <= Newest(f)
<1> DEFINE n == Len(f.commits)
           b == f.base
<1>1. b \in Nat /\ Chain(b, f.commits) /\ f.synced \in 0..n
  BY DEF FileOK
<1>2. IsSeq(f.commits) /\ n \in Nat /\ (f.commits = <<>> <=> n = 0)
  BY <1>1, ChainFacts
<1>3. Newest(f) = b + (IF n = 0 THEN 0 ELSE n - 1)
  BY <1>2 DEF Newest
<1>4. \A i \in 2..n : f.commits[i].version = b + i - 1 /\ f.commits[i].hash \in AllTexts
  BY <1>1, VersionApplies
<1> HIDE DEF n, b
<1>5. /\ Newest(f) \in Nat /\ b <= Newest(f) /\ (n >= 1 => Newest(f) = b + n - 1)
      /\ (n < 2 => Newest(f) = b) /\ \A i \in 2..n : b < b + i - 1 /\ b + i - 1 <= Newest(f)
  BY <1>1, <1>2, <1>3
<1>6. f.synced \in Nat /\ f.synced <= n
  BY <1>1, <1>2
<1> QED
  BY <1>1, <1>2, <1>4, <1>5, <1>6 DEF n, b

LEMMA TouchedOK ==
  ASSUME NEW f, NEW g, FileOK(f), Touched(f, g)
  PROVE  /\ FileOK(g) /\ g.base = f.base /\ Newest(g) = Newest(f)
         /\ \A i : i \in 2..Len(g.commits) <=> i \in 2..Len(f.commits)
         /\ \A i \in 2..Len(g.commits) : g.commits[i] = f.commits[i]
<1>1. g = [base |-> f.base, commits |-> g.commits, synced |-> g.synced] /\ g.base = f.base
  BY DEF Touched
<1>2. g.synced \in Nat /\ g.synced <= Len(g.commits)
  BY DEF Touched
<1>3. f.base \in Nat /\ Chain(f.base, f.commits) /\ Newest(f) <= MaxVersions
  BY DEF FileOK
<1>4. CASE g.commits = f.commits
  <2>1. Newest(g) = Newest(f)
    BY <1>1, <1>4 DEF Newest
  <2>2. g.synced \in 0..Len(g.commits)
    BY <1>2, <1>3, <1>4, ChainFacts
  <2>3. FileOK(g)
    BY <1>1, <1>3, <1>4, <2>1, <2>2 DEF FileOK
  <2> QED
    BY <1>1, <1>4, <2>1, <2>3
<1>5. CASE f.commits = <<>> /\ g.commits = CreateAt(f.base)
  <2>1. Chain(f.base, g.commits) /\ g.commits # <<>> /\ Len(g.commits) = 1
    BY <1>3, <1>5, ChainCreate
  <2>2. Newest(g) = f.base /\ Newest(f) = f.base
    BY <1>1, <1>3, <1>5, <2>1 DEF Newest
  <2>3. g.synced \in 0..Len(g.commits)
    BY <1>2, <2>1
  <2>4. FileOK(g)
    BY <1>1, <1>3, <2>1, <2>2, <2>3 DEF FileOK
  <2>5. 2..Len(g.commits) = {} /\ 2..Len(f.commits) = {}
    <3>1. Len(f.commits) = 0
      BY <1>5
    <3> QED
      BY <2>1, <3>1
  <2> QED
    BY <1>1, <2>2, <2>4, <2>5
<1> QED
  BY <1>4, <1>5 DEF Touched

LEMMA FileIndices ==
  ASSUME FilesInv
  PROVE  /\ Len(file) \in Nat /\ DOMAIN file = 1..Len(file) /\ (file = <<>> <=> Len(file) = 0)
         /\ file = [t \in 1..Len(file) |-> file[t]]
BY SeqFacts DEF FilesInv

\* What a file holds is stored, and nothing else is.
LEMMA StoredIs ==
  ASSUME FilesInv
  PROVE  \A v : v \in Stored(file) <=>
           \E t \in DOMAIN file : \E i \in 2..Len(file[t].commits) : v = file[t].commits[i].version
<1>1. \A t \in DOMAIN file : IsSeq(file[t].commits)
  BY FileFacts DEF FilesInv
<1> QED
  BY <1>1, StoredAre

LEMMA StoredIsP ==
  ASSUME FilesInv'
  PROVE  \A v : v \in Stored(file') <=>
           \E t \in DOMAIN file' : \E i \in 2..Len(file'[t].commits) : v = file'[t].commits[i].version
<1>1. \A t \in DOMAIN file' : IsSeq(file'[t].commits)
  BY FileFacts DEF FilesInv
<1> QED
  BY <1>1, StoredAre

LEMMA FilesTouched ==
  ASSUME FilesInv, WrittenInv, written' = written,
         file' = [t \in DOMAIN file |-> file'[t]],
         \A t \in DOMAIN file : Touched(file[t], file'[t])
  PROVE  /\ FilesInv' /\ WrittenInv' /\ DOMAIN file' = DOMAIN file /\ Len(file') = Len(file)
         /\ \A t \in DOMAIN file : file'[t].base = file[t].base /\ Newest(file'[t]) = Newest(file[t])
<1>1. Len(file) \in Nat /\ DOMAIN file = 1..Len(file)
  BY FileIndices
<1>2. IsSeq(file') /\ Len(file') = Len(file) /\ DOMAIN file' = DOMAIN file
  <2>1. file' = [t \in 1..Len(file) |-> file'[t]]
    BY <1>1
  <2> QED
    BY <1>1, <2>1, FunctionSeq
<1>3. \A t \in DOMAIN file :
        /\ FileOK(file'[t]) /\ file'[t].base = file[t].base /\ Newest(file'[t]) = Newest(file[t])
        /\ \A i : i \in 2..Len(file'[t].commits) <=> i \in 2..Len(file[t].commits)
        /\ \A i \in 2..Len(file'[t].commits) : file'[t].commits[i] = file[t].commits[i]
  BY TouchedOK DEF FilesInv
<1>4. file' # <<>> => file'[1].base = 0
  <2>1. file' # <<>> => file # <<>> /\ 1 \in DOMAIN file
    BY <1>1, <1>2, SeqFacts, FileIndices
  <2> QED
    BY <1>3, <2>1 DEF FilesInv
<1>5. FilesInv'
  BY <1>2, <1>3, <1>4 DEF FilesInv
<1>6. WrittenInv'
  <2>1. \A v : v \in Stored(file') <=> v \in Stored(file)
    BY <1>2, <1>3, <1>5, StoredIs, StoredIsP
  <2>2. Stored(file') = Stored(file)
    BY <2>1
  <2> QED
    BY <1>2, <1>3, <2>2 DEF WrittenInv
<1> QED
  BY <1>2, <1>3, <1>5, <1>6

\* The cache holds handles of files that stand where these do.
Cached(fs, l, order) ==
  /\ IsSeq(order) /\ ToSet(order) \subseteq DOMAIN fs
  /\ l = [t \in ToSet(order) |-> l[t]]
  /\ \A t \in ToSet(order) : HandleOK(fs[t], l[t])

LEMMA AdoptOK ==
  ASSUME NEW f, f.commits # <<>>
  PROVE  HandleOK(f, Adopt(f.commits))
BY DEF Adopt, HandleOK

LEMMA TileOpened ==
  ASSUME FilesInv, WrittenInv, written' = written, Cached(file, logs, lru),
         NEW t \in DOMAIN file, NEW active, OpenTile(t, active)
  PROVE  /\ FilesInv' /\ WrittenInv' /\ DOMAIN file' = DOMAIN file /\ Len(file') = Len(file)
         /\ \A u \in DOMAIN file : file'[u].base = file[u].base /\ Newest(file'[u]) = Newest(file[u])
         /\ \A u \in DOMAIN file : Touched(file[u], file'[u])
         /\ \A u \in DOMAIN file : u # t /\ u \notin ToSet(lru) => file'[u] = file[u]
         /\ Cached(file', logs', lru')
         /\ ToSet(lru') \subseteq ToSet(lru) \cup {t}
         /\ active \in ToSet(lru) \cup {t} => active \in ToSet(lru')
<1> DEFINE commits == IF file[t].commits = <<>> THEN CreateAt(file[t].base) ELSE file[t].commits
           order == Used(t, lru)
           out == ToSet(Evicted(order, active))
           opened == [file[t] EXCEPT !.commits = commits]
           g(u) == IF u = t THEN opened ELSE file[u]
<1>1. /\ file' = [u \in DOMAIN file |-> IF u \in out THEN Synced(g(u)) ELSE g(u)]
      /\ logs' = [u \in ToSet(order) \ out |-> IF u = t THEN Adopt(commits) ELSE logs[u]]
      /\ lru' = Without(order, out)
  BY DEF OpenTile
<1>2. \A u \in DOMAIN file : FileOK(file[u])
  BY DEF FilesInv
<1>3. IsSeq(order) /\ ToSet(order) = ToSet(lru) \cup {t}
  BY UsedIs DEF Cached
<1>4. IsSeq(lru') /\ ToSet(lru') = ToSet(order) \ out
  BY <1>1, <1>3, WithoutIs
<1>5. out \subseteq ToSet(order) \ {active}
  BY <1>3, EvictedAre
<1> HIDE DEF order, out
<1>6. commits # <<>> /\ Len(commits) \in Nat /\ Len(file[t].commits) <= Len(commits)
      /\ (commits = file[t].commits \/ (file[t].commits = <<>> /\ commits = CreateAt(file[t].base)))
  <2>1. CASE file[t].commits = <<>>
    <3>1. commits = CreateAt(file[t].base) /\ file[t].base \in Nat
      BY <1>2, <2>1, FileFacts
    <3>2. commits # <<>> /\ Len(commits) = 1 /\ Len(file[t].commits) = 0
      BY <2>1, <3>1, ChainCreate
    <3> QED
      BY <2>1, <3>1, <3>2
  <2>2. CASE file[t].commits # <<>>
    <3>1. commits = file[t].commits /\ Len(file[t].commits) \in Nat
      BY <1>2, <2>2, FileFacts
    <3> QED
      BY <2>2, <3>1
  <2> QED
    BY <2>1, <2>2
<1> HIDE DEF commits
<1>7. /\ opened = [base |-> file[t].base, commits |-> commits, synced |-> file[t].synced]
      /\ opened.commits = commits /\ opened.base = file[t].base /\ opened.synced = file[t].synced
  <2>1. file[t] = [base |-> file[t].base, commits |-> file[t].commits, synced |-> file[t].synced]
    BY <1>2 DEF FileOK
  <2> QED
    BY <2>1
<1> HIDE DEF opened
<1>8. ASSUME NEW u \in DOMAIN file
      PROVE  /\ g(u) = [base |-> file[u].base, commits |-> g(u).commits, synced |-> file[u].synced]
             /\ (g(u).commits = file[u].commits \/ (file[u].commits = <<>> /\ g(u).commits = CreateAt(file[u].base)))
             /\ Len(g(u).commits) \in Nat /\ file[u].synced \in Nat /\ file[u].synced <= Len(g(u).commits)
  <2>1. FileOK(file[u])
    BY <1>2
  <2>2. Len(file[u].commits) \in Nat /\ file[u].synced \in Nat /\ file[u].synced <= Len(file[u].commits)
    BY <2>1, FileFacts
  <2>3. CASE u = t
    BY <1>6, <1>7, <2>2, <2>3
  <2>4. CASE u # t
    BY <2>1, <2>2, <2>4 DEF FileOK
  <2> QED
    BY <2>3, <2>4
<1> HIDE DEF g
<1>9. ASSUME NEW u \in DOMAIN file
      PROVE  Touched(file[u], file'[u]) /\ file'[u].commits = g(u).commits
  <2>1. CASE u \in out
    <3>1. file'[u] = Synced(g(u))
      BY <1>1, <2>1
    <3>2. Synced(g(u)) = [base |-> file[u].base, commits |-> g(u).commits, synced |-> Len(g(u).commits)]
      BY <1>8 DEF Synced
    <3> QED
      BY <1>8, <3>1, <3>2 DEF Touched
  <2>2. CASE u \notin out
    <3>1. file'[u] = g(u)
      BY <1>1, <2>2
    <3> QED
      BY <1>8, <3>1 DEF Touched
  <2> QED
    BY <2>1, <2>2
<1>10. file' = [u \in DOMAIN file |-> file'[u]]
  BY <1>1
<1>11. /\ FilesInv' /\ WrittenInv' /\ DOMAIN file' = DOMAIN file /\ Len(file') = Len(file)
       /\ \A u \in DOMAIN file : file'[u].base = file[u].base /\ Newest(file'[u]) = Newest(file[u])
  BY <1>9, <1>10, FilesTouched
<1>12. \A u \in DOMAIN file : u # t /\ u \notin ToSet(lru) => file'[u] = file[u]
  <2> SUFFICES ASSUME NEW u \in DOMAIN file, u # t, u \notin ToSet(lru) PROVE file'[u] = file[u]
    OBVIOUS
  <2>1. u \notin out
    BY <1>3, <1>5
  <2> QED
    BY <1>1, <2>1 DEF g
<1>13. Cached(file', logs', lru')
  <2>1. ToSet(lru') \subseteq DOMAIN file'
    BY <1>3, <1>4, <1>11 DEF Cached
  <2>2. logs' = [u \in ToSet(lru') |-> logs'[u]]
    BY <1>1, <1>4
  <2>3. ASSUME NEW u \in ToSet(lru') PROVE HandleOK(file'[u], logs'[u])
    <3>1. u \in DOMAIN file /\ file'[u].commits = g(u).commits /\ u \in ToSet(order) \ out
      BY <1>4, <1>9, <1>11, <2>1
    <3>2. CASE u = t
      <4>1. logs'[u] = Adopt(commits) /\ file'[u].commits = commits
        BY <1>1, <1>7, <3>1, <3>2 DEF g
      <4> QED
        BY <1>6, <4>1, AdoptOK
    <3>3. CASE u # t
      <4>1. logs'[u] = logs[u] /\ file'[u].commits = file[u].commits /\ u \in ToSet(lru)
        BY <1>1, <1>3, <3>1, <3>3 DEF g
      <4>2. HandleOK(file[u], logs[u])
        BY <4>1 DEF Cached
      <4> QED
        BY <4>1, <4>2 DEF HandleOK
    <3> QED
      BY <3>2, <3>3
  <2> QED
    BY <1>4, <2>1, <2>2, <2>3 DEF Cached
<1> QED
  BY <1>3, <1>4, <1>5, <1>9, <1>11, <1>12, <1>13

-----------------------------------------------------------------------------
(* Which file has a version, and what it reads there.                      *)

\* The last of the first n files that is based below v.
Owner(fs, n, v) == Max({1} \cup {t \in 1..n : fs[t].base < v})

LEMMA OwnerIs ==
  ASSUME FilesInv, NEW n \in 1..Len(file), NEW v
  PROVE  /\ Owner(file, n, v) \in 1..n
         /\ Owner(file, n, v) = 1 \/ file[Owner(file, n, v)].base < v
         /\ \A t \in 1..n : file[t].base < v => t <= Owner(file, n, v)
<1> DEFINE S == {1} \cup {t \in 1..n : file[t].base < v}
           k == Max(S)
<1>1. Len(file) \in Nat /\ n \in Nat /\ n >= 1
  BY FileIndices
<1>2. S \in SUBSET (0..n) /\ S # {} /\ S \subseteq 1..n
  BY <1>1
<1>3. k \in S /\ \A y \in S : y <= k
  <2> HIDE DEF S
  <2> QED
    BY <1>1, <1>2, MaxOfNats
<1> HIDE DEF k
<1>4. k \in 1..n /\ (k = 1 \/ file[k].base < v) /\ \A t \in 1..n : file[t].base < v => t <= k
  BY <1>2, <1>3
<1> QED
  BY <1>4 DEF Owner, k

\* A file holds exactly the versions after its base up to its newest.
LEMMA OwnerHolds ==
  ASSUME FilesInv, NEW n \in 1..Len(file), NEW t \in 1..n, NEW i \in 2..Len(file[t].commits)
  PROVE  Owner(file, n, file[t].base + i - 1) = t
<1> DEFINE v == file[t].base + i - 1
           k == Owner(file, n, v)
<1>1. Len(file) \in Nat /\ DOMAIN file = 1..Len(file) /\ n \in Nat /\ t \in DOMAIN file
  BY FileIndices
<1>2. FileOK(file[t])
  BY <1>1 DEF FilesInv
<1>3. file[t].base < v /\ v <= Newest(file[t]) /\ file[t].base \in Nat /\ Newest(file[t]) \in Nat /\ v \in Nat
  <2>1. file[t].base < v /\ v <= Newest(file[t]) /\ file[t].base \in Nat /\ Newest(file[t]) \in Nat
        /\ Len(file[t].commits) \in Nat
    BY <1>2, FileFacts
  <2> QED
    BY <2>1
<1> HIDE DEF v
<1>4. k \in 1..n /\ (k = 1 \/ file[k].base < v) /\ t <= k
  BY <1>3, OwnerIs
<1> HIDE DEF k
<1>5. ~(t < k)
  <2> SUFFICES ASSUME t < k PROVE FALSE
    OBVIOUS
  <2>1. k \in DOMAIN file /\ k # 1
    BY <1>1, <1>4
  <2>2. file[k].base \in Nat /\ Newest(file[t]) <= file[k].base /\ file[k].base < v
    BY <1>1, <1>4, <2>1, FileFacts DEF FilesInv
  <2> QED
    BY <1>3, <2>2
<1>6. t = k
  BY <1>1, <1>4, <1>5
<1> QED
  BY <1>6 DEF k, v

LEMMA HandleReads ==
  ASSUME NEW f, FileOK(f), NEW log, HandleOK(f, log), NEW v \in Nat
  PROVE  /\ v > f.base /\ v <= Newest(f) =>
              /\ GetVersion(f.commits, log, v) = Done(f.commits[v - f.base + 1].hash)
              /\ v - f.base + 1 \in 2..Len(f.commits)
         /\ ~(v > f.base /\ v <= Newest(f)) => GetVersion(f.commits, log, v) = Failed
         /\ log.md.version = Newest(f) /\ log.md.base = f.base
<1> DEFINE c == f.commits
           b == f.base
           n == Len(c)
<1>1. /\ b \in Nat /\ Chain(b, c) /\ n \in Nat /\ c # <<>> /\ n >= 1 /\ Newest(f) = b + n - 1
  <2>1. b \in Nat /\ Chain(b, c) /\ n \in Nat /\ (c = <<>> <=> n = 0)
    BY FileFacts
  <2>2. c # <<>>
    BY DEF HandleOK
  <2> QED
    BY <2>1, <2>2, FileFacts
<1>2. log.md = Last(c).md /\ (log.text # NoText => n > 1 /\ log.text = Last(c).hash)
  BY DEF HandleOK
<1>3. log.md.version = b + n - 1 /\ log.md.base = b /\ Last(c) = c[n]
  <2> HIDE DEF b, c, n
  <2>1. Last(c).md.version = b + n - 1 /\ Last(c).md.base = b /\ Last(c) = c[n]
    BY <1>1, ChainLast DEF n
  <2> QED
    BY <1>2, <2>1
<1>4. InRange(log.md, v) <=> v > b /\ v <= b + n - 1
  BY <1>1, <1>3 DEF InRange
<1>5. ASSUME v > b /\ v <= b + n - 1
      PROVE  GetVersion(c, log, v) = Done(c[v - b + 1].hash) /\ v - b + 1 \in 2..n
  <2> HIDE DEF n, c, b
  <2>1. v \in (b + 1)..(b + n - 1)
    BY <1>1, <1>5
  <2>2. Reconstruct(c, v) = Done(c[v - b + 1].hash) /\ v - b + 1 \in 2..n
    BY <1>1, <2>1, ChainReads DEF n
  <2>3. CASE log.text # NoText /\ v = log.md.version
    <3>1. v - b + 1 = n
      BY <1>1, <1>3, <2>3
    <3> QED
      BY <1>2, <1>3, <1>4, <1>5, <2>2, <2>3, <3>1 DEF GetVersion
  <2>4. CASE ~(log.text # NoText /\ v = log.md.version)
    BY <1>4, <1>5, <2>2, <2>4 DEF GetVersion
  <2> QED
    BY <2>3, <2>4
<1>6. ASSUME ~(v > b /\ v <= b + n - 1) PROVE GetVersion(c, log, v) = Failed
  BY <1>4, <1>6 DEF GetVersion
<1> QED
  BY <1>1, <1>3, <1>5, <1>6

-----------------------------------------------------------------------------
(* The invariant.                                                          *)

LEMMA NothingStored ==
  FilesInv /\ file = <<>> => Stored(file) = {}
<1> SUFFICES ASSUME FilesInv, file = <<>> PROVE Stored(file) = {}
  OBVIOUS
<1>1. DOMAIN file = {}
  BY FileIndices
<1>2. \A v : v \notin Stored(file)
  BY <1>1, StoredIs
<1> QED
  BY <1>2

LEMMA InitInv == Init => Inv
<1> SUFFICES ASSUME Init PROVE Inv
  OBVIOUS
<1>1. PICK older \in OlderTexts \cup {<<>>} :
        /\ file = IF older = <<>> THEN <<>>
                  ELSE <<Synced([base |-> 0, commits |-> OlderFile(older), synced |-> 0])>>
        /\ written = older
  BY DEF Init
<1>2. up = FALSE /\ Closed
  BY DEF Init, Closed
<1>3. CASE older = <<>>
  <2>1. file = <<>> /\ written = <<>>
    BY <1>1, <1>3
  <2>2. IsSeq(file) /\ DOMAIN file = {} /\ DOMAIN written = {}
    <3>1. file \in Seq({})
      BY <2>1
    <3>2. DOMAIN file = 1..Len(file) /\ Len(file) = 0
      BY <2>1, <3>1
    <3>3. DOMAIN file = {}
      BY <3>2
    <3> QED
      BY <2>1, <3>1, <3>3, AnySeq
  <2>3. FilesInv
    BY <2>1, <2>2 DEF FilesInv
  <2>4. WrittenInv
    <3>1. written = [v \in DOMAIN written |-> written[v]]
      BY <2>1
    <3> QED
      BY <2>1, <2>2, <2>3, <3>1, NothingStored DEF WrittenInv
  <2> QED
    BY <1>2, <2>3, <2>4 DEF Inv
<1>4. CASE older # <<>>
  <2> DEFINE c == OlderFile(older)
             f == [base |-> 0, commits |-> c, synced |-> Len(c)]
             n == Len(older)
  <2>1. older \in OlderTexts /\ file = <<f>> /\ written = older
    BY <1>1, <1>4 DEF Synced
  <2>2. /\ Chain(0, c) /\ Len(c) = n + 1 /\ n \in 0..MaxVersions /\ MaxVersions \in Nat
        /\ DOMAIN older = 1..n /\ older = [v \in DOMAIN older |-> older[v]]
        /\ \A v \in 1..n : c[v + 1].version = v /\ c[v + 1].hash = older[v]
    BY <2>1, OlderChain, OlderAssumption
  <2> HIDE DEF c, n
  <2>3. IsSeq(file) /\ DOMAIN file = {1} /\ file[1] = f
    <3>1. file \in Seq({f}) /\ Len(file) = 1 /\ file[1] = f
      BY <2>1
    <3>2. DOMAIN file = 1..1
      BY <3>1
    <3> HIDE DEF f
    <3> QED
      BY <3>1, <3>2, AnySeq
  <2>4. f.base = 0 /\ f.commits = c /\ f.synced = Len(c) /\ Len(c) = n + 1 /\ n \in Nat
    BY <2>2
  <2>5. FileOK(f)
    <3>1. f = [base |-> f.base, commits |-> f.commits, synced |-> f.synced]
      OBVIOUS
    <3>2. c # <<>>
      BY <2>2, <2>4, ChainFacts
    <3>3. Newest(f) = n
      BY <2>4, <3>2 DEF Newest
    <3>4. f.synced \in 0..Len(f.commits)
      BY <2>4
    <3> HIDE DEF f
    <3> QED
      BY <2>2, <2>4, <3>1, <3>3, <3>4 DEF FileOK
  <2> HIDE DEF f
  <2>6. FilesInv
    BY <2>3, <2>4, <2>5 DEF FilesInv
  <2>7. WrittenInv
    <3>1. ASSUME NEW v PROVE v \in Stored(file) <=> v \in 1..n
      <4>1. v \in Stored(file) <=> \E i \in 2..(n + 1) : v = c[i].version
        BY <2>3, <2>4, <2>6, StoredIs
      <4>2. ASSUME NEW i \in 2..(n + 1) PROVE c[i].version = i - 1 /\ i - 1 \in 1..n
        <5>1. i - 1 \in 1..n /\ (i - 1) + 1 = i
          BY <2>4
        <5> QED
          BY <2>2, <5>1
      <4>3. ASSUME v \in 1..n PROVE \E i \in 2..(n + 1) : v = c[i].version
        <5>1. v + 1 \in 2..(n + 1) /\ c[v + 1].version = v
          BY <2>2, <2>4, <4>3
        <5> QED
          BY <5>1
      <4> QED
        BY <4>1, <4>2, <4>3
    <3>2. Stored(file) = 1..n
      BY <3>1
    <3>3. ASSUME NEW i \in 2..(n + 1) PROVE written[c[i].version] = c[i].hash
      <4>1. i - 1 \in 1..n /\ (i - 1) + 1 = i
        BY <2>4
      <4> QED
        BY <2>1, <2>2, <4>1
    <3> QED
      BY <2>1, <2>2, <2>3, <2>4, <3>2, <3>3 DEF WrittenInv
  <2> QED
    BY <1>2, <2>6, <2>7 DEF Inv
<1> QED
  BY <1>3, <1>4

\* What the reader waits for or has read is not touched by what leaves the versions up to
\* the one reported alone.
LEMMA ReaderKept ==
  ASSUME ReaderInv, reader' = reader, version \in Nat, version' \in Nat, version <= version',
         tiles \in Nat, tiles' \in Nat, tiles <= tiles',
         \A v \in 1..version : Owner(file', tiles', v) = Owner(file, tiles, v),
         \A v \in 1..version : v \in DOMAIN written' <=> v \in DOMAIN written,
         \A v \in DOMAIN written : v \in 1..version => written'[v] = written[v]
  PROVE  ReaderInv'
<1>1. 1..version \subseteq 1..version' /\ 1..tiles \subseteq 1..tiles'
  OBVIOUS
<1>2. CASE reader = Idle
  BY <1>2 DEF ReaderInv, Idle
<1>3. CASE /\ reader \in [pc : {"opening", "got"}, version : 1..version, tile : 1..tiles]
           /\ reader.tile = TileFor(reader.version)
  <2>1. reader.version \in 1..version
    BY <1>3
  <2>2. /\ TileFor(reader.version) = Owner(file, tiles, reader.version)
        /\ TileFor(reader.version)' = Owner(file', tiles', reader'.version)
    BY DEF TileFor, Owner
  <2>3. reader' \in [pc : {"opening", "got"}, version : 1..version', tile : 1..tiles']
    BY <1>1, <1>3
  <2>4. reader'.tile = TileFor(reader.version)'
    BY <1>3, <2>1, <2>2
  <2> QED
    BY <2>3, <2>4 DEF ReaderInv
<1>4. CASE /\ reader \in {[pc |-> "read", version |-> v, result |-> r] :
                            v \in 1..version, r \in {Failed} \cup {Done(x) : x \in AllTexts}}
           /\ IF reader.version \in DOMAIN written THEN reader.result = Done(written[reader.version])
              ELSE ~reader.result.ok
  <2>1. reader.version \in 1..version
    BY <1>4
  <2>2. reader' \in {[pc |-> "read", version |-> v, result |-> r] :
                       v \in 1..version', r \in {Failed} \cup {Done(x) : x \in AllTexts}}
    BY <1>1, <1>4
  <2>3. IF reader.version \in DOMAIN written' THEN reader.result = Done(written'[reader.version])
        ELSE ~reader.result.ok
    BY <1>4, <2>1
  <2> QED
    BY <2>2, <2>3 DEF ReaderInv
<1> QED
  BY <1>2, <1>3, <1>4 DEF ReaderInv

LEMMA OpenFacts ==
  ASSUME Inv, up
  PROVE  /\ FilesInv /\ WrittenInv /\ OpenInv /\ CacheInv /\ WriterInv /\ ReaderInv
         /\ Len(file) \in Nat /\ DOMAIN file = 1..Len(file) /\ tiles \in 1..Len(file) /\ tiles \in Nat
         /\ 1..tiles \subseteq DOMAIN file
         /\ version \in Nat /\ Newest(file[tiles]) \in Nat /\ version <= Newest(file[tiles])
         /\ Cached(file, logs, lru) /\ DOMAIN logs = ToSet(lru)
         /\ \A t \in DOMAIN file : FileOK(file[t]) /\ file[t].base \in Nat
<1>1. FilesInv /\ WrittenInv /\ OpenInv /\ CacheInv /\ WriterInv /\ ReaderInv
  BY DEF Inv, OpenInv
<1>2. Len(file) \in Nat /\ DOMAIN file = 1..Len(file)
  BY <1>1, FileIndices
<1>3. tiles \in 1..Len(file) /\ tiles \in Nat /\ version \in Nat
  <2>1. tiles \in Nat \ {0} /\ (Len(file) = tiles + 1 \/ Len(file) = tiles) /\ version \in Nat
    BY <1>1 DEF OpenInv
  <2> DEFINE n == Len(file)
  <2>2. n \in Nat /\ tiles \in Nat /\ tiles # 0 /\ (n = tiles + 1 \/ n = tiles)
    BY <1>2, <2>1
  <2> HIDE DEF n
  <2>3. tiles \in 1..n
    BY <2>2
  <2> QED
    BY <2>1, <2>2, <2>3 DEF n
<1>4. \A t \in DOMAIN file : FileOK(file[t]) /\ file[t].base \in Nat
  BY <1>1, FileFacts DEF FilesInv
<1>5. Newest(file[tiles]) \in Nat /\ version <= Newest(file[tiles])
  <2>1. Newest(file[tiles]) \in Nat
    BY <1>2, <1>3, <1>4, FileFacts
  <2>2. version = Newest(file[tiles]) - (IF writer.pc = "written" THEN 1 ELSE 0)
    BY <1>1 DEF OpenInv
  <2> QED
    BY <1>3, <2>1, <2>2
<1>6. 1..tiles \subseteq DOMAIN file
  BY <1>2, <1>3
<1>7. Cached(file, logs, lru) /\ DOMAIN logs = ToSet(lru)
  <2>1. logs = [t \in ToSet(lru) |-> logs[t]]
    BY <1>1 DEF CacheInv
  <2> QED
    BY <1>1, <1>6, <2>1 DEF CacheInv, Cached
<1> QED
  BY <1>1, <1>2, <1>3, <1>4, <1>5, <1>6, <1>7

LEMMA CacheKept ==
  ASSUME Cached(file', logs', lru'), ToSet(lru') \subseteq 1..tiles'
  PROVE  CacheInv' /\ DOMAIN logs' = ToSet(lru')
<1>1. logs' = [t \in ToSet(lru') |-> logs'[t]]
  BY DEF Cached
<1> QED
  BY <1>1 DEF Cached, CacheInv

\* A step that leaves what the log knows and reports, and what its files hold.
LEMMA StillOpen ==
  ASSUME Inv, up, up', tiles' = tiles, version' = version, FilesInv', WrittenInv',
         Len(file') = Len(file), \A t \in DOMAIN file : Newest(file'[t]) = Newest(file[t]),
         writer.pc = "rolling" => file'[Len(file)] = file[Len(file)],
         writer'.pc = "rolling" <=> writer.pc = "rolling",
         writer'.pc = "written" <=> writer.pc = "written",
         CacheInv', WriterInv', ReaderInv'
  PROVE  Inv'
<1>1. /\ tiles \in Nat \ {0}
      /\ IF writer.pc = "rolling" THEN Len(file) = tiles + 1 /\ file[Len(file)] = NewFile(version)
         ELSE Len(file) = tiles
      /\ version = Newest(file[tiles]) - (IF writer.pc = "written" THEN 1 ELSE 0)
      /\ version \in Nat
  BY DEF Inv, OpenInv
<1>2. Newest(file'[tiles]) = Newest(file[tiles])
  BY OpenFacts
<1>3. /\ tiles' \in Nat \ {0}
      /\ IF writer'.pc = "rolling" THEN Len(file') = tiles' + 1 /\ file'[Len(file')] = NewFile(version')
         ELSE Len(file') = tiles'
      /\ version' = Newest(file'[tiles']) - (IF writer'.pc = "written" THEN 1 ELSE 0)
      /\ version' \in Nat
  BY <1>1, <1>2
<1>4. OpenInv'
  BY <1>3 DEF OpenInv, NewFile
<1>5. up' \in BOOLEAN /\ up'
  BY DEF Inv
<1> QED
  BY <1>4, <1>5 DEF Inv

LEMMA OwnerSame ==
  ASSUME NEW fs, NEW gs, NEW n, NEW v, \A t \in 1..n : fs[t].base = gs[t].base
  PROVE  Owner(fs, n, v) = Owner(gs, n, v)
<1>1. {t \in 1..n : fs[t].base < v} = {t \in 1..n : gs[t].base < v}
  OBVIOUS
<1> QED
  BY <1>1 DEF Owner

\* A read under way while the writer's part goes on in the known files.
LEMMA ReaderSame ==
  ASSUME Inv, up, reader' = reader, version' = version, tiles' = tiles, written' = written,
         \A t \in DOMAIN file : file'[t].base = file[t].base
  PROVE  ReaderInv'
<1>1. /\ ReaderInv /\ version \in Nat /\ tiles \in Nat /\ 1..tiles \subseteq DOMAIN file
  BY OpenFacts
<1>2. version' \in Nat /\ version <= version' /\ tiles' \in Nat /\ tiles <= tiles'
  BY <1>1
<1>3. \A v \in 1..version : Owner(file', tiles', v) = Owner(file, tiles, v)
  BY <1>1, OwnerSame
<1> QED
  BY <1>1, <1>2, <1>3, ReaderKept

LEMMA FlushStep == Inv /\ Flush => Inv'
<1> SUFFICES ASSUME Inv, Flush PROVE Inv'
  OBVIOUS
<1>1. /\ up /\ tiles \in DOMAIN logs /\ file' = [file EXCEPT ![tiles] = Synced(@)]
      /\ UNCHANGED <<up, tiles, version, logs, lru, writer, reader, written>>
  BY DEF Flush, Active
<1>2. /\ FilesInv /\ WrittenInv /\ CacheInv /\ WriterInv /\ Cached(file, logs, lru)
      /\ Len(file) \in Nat /\ DOMAIN file = 1..Len(file) /\ tiles \in 1..Len(file)
      /\ \A t \in DOMAIN file : FileOK(file[t])
  BY <1>1, OpenFacts
<1>3. ASSUME NEW t \in DOMAIN file
      PROVE  Touched(file[t], file'[t]) /\ file'[t].commits = file[t].commits
  <2>1. /\ file[t] = [base |-> file[t].base, commits |-> file[t].commits, synced |-> file[t].synced]
        /\ Len(file[t].commits) \in Nat /\ file[t].synced \in Nat /\ file[t].synced <= Len(file[t].commits)
    BY <1>2, FileFacts DEF FileOK
  <2>2. CASE t = tiles
    <3>1. file'[t] = Synced(file[t])
      BY <1>1, <2>2
    <3>2. Synced(file[t]) = [base |-> file[t].base, commits |-> file[t].commits, synced |-> Len(file[t].commits)]
      BY <2>1 DEF Synced
    <3> QED
      BY <2>1, <3>1, <3>2 DEF Touched
  <2>3. CASE t # tiles
    <3>1. file'[t] = file[t]
      BY <1>1, <2>3
    <3> QED
      BY <2>1, <3>1 DEF Touched
  <2> QED
    BY <2>2, <2>3
<1>4. /\ FilesInv' /\ WrittenInv' /\ DOMAIN file' = DOMAIN file /\ Len(file') = Len(file)
      /\ \A t \in DOMAIN file : file'[t].base = file[t].base /\ Newest(file'[t]) = Newest(file[t])
  <2>1. file' = [t \in DOMAIN file |-> file'[t]]
    BY <1>1, <1>2, FileIndices
  <2> QED
    BY <1>1, <1>2, <1>3, <2>1, FilesTouched
<1>5. CacheInv'
  <2>1. Cached(file', logs', lru')
    BY <1>1, <1>2, <1>3, <1>4 DEF Cached, HandleOK
  <2>2. ToSet(lru') \subseteq 1..tiles'
    BY <1>1, <1>2 DEF CacheInv
  <2> QED
    BY <2>1, <2>2, CacheKept
<1>6. WriterInv'
  BY <1>1, <1>2 DEF WriterInv, Idle
<1>7. ReaderInv'
  BY <1>1, <1>4, ReaderSame
<1>8. writer.pc = "rolling" => file'[Len(file)] = file[Len(file)]
  <2>1. writer.pc = "rolling" => Len(file) = tiles + 1
    BY <1>1 DEF Inv, OpenInv
  <2> QED
    BY <1>1, <1>2, <2>1
<1> QED
  BY <1>1, <1>4, <1>5, <1>6, <1>7, <1>8, StillOpen

LEMMA AddCallStep == Inv /\ AddCall => Inv'
<1> SUFFICES ASSUME Inv, AddCall PROVE Inv'
  OBVIOUS
<1>1. /\ up /\ writer = Idle /\ version < MaxVersions
      /\ lru' = IF tiles \in DOMAIN logs THEN Used(tiles, lru) ELSE lru
      /\ UNCHANGED <<file, up, tiles, version, logs, reader, written>>
  BY DEF AddCall, Active
<1>2. PICK x \in Texts : writer' = [pc |-> IF tiles \in DOMAIN logs THEN "got" ELSE "opening",
                                    text |-> x, tile |-> tiles, rolled |-> FALSE]
  BY DEF AddCall, Active
<1>3. /\ FilesInv /\ WrittenInv /\ CacheInv /\ Cached(file, logs, lru) /\ DOMAIN logs = ToSet(lru)
      /\ version \in Nat
  BY <1>1, OpenFacts
<1>4. FilesInv' /\ WrittenInv'
  BY <1>1, <1>3 DEF FilesInv, WrittenInv
<1>5. IsSeq(lru') /\ ToSet(lru') = ToSet(lru)
  <2>1. CASE tiles \in DOMAIN logs
    BY <1>1, <1>3, <2>1, UsedIs DEF Cached
  <2>2. CASE tiles \notin DOMAIN logs
    BY <1>1, <1>3, <2>2 DEF Cached
  <2> QED
    BY <2>1, <2>2
<1>6. CacheInv' /\ DOMAIN logs' = DOMAIN logs
  <2>1. Cached(file', logs', lru') /\ ToSet(lru') \subseteq 1..tiles'
    BY <1>1, <1>3, <1>5 DEF Cached, CacheInv
  <2> QED
    BY <1>1, <2>1, CacheKept
<1>7. version < MaxVersions
  BY <1>1
<1>8. WriterInv'
  <2>1. writer' \in [pc : {"opening", "got", "rolling", "written"}, text : Texts,
                     tile : {tiles}, rolled : BOOLEAN]
    BY <1>2
  <2>2. writer'.pc = IF tiles \in DOMAIN logs THEN "got" ELSE "opening"
    BY <1>2
  <2> QED
    BY <1>1, <1>6, <1>7, <2>1, <2>2 DEF WriterInv
<1>9. ReaderInv'
  BY <1>1, ReaderSame
<1>10. writer.pc = "idle" /\ writer'.pc \in {"got", "opening"}
  BY <1>1, <1>2 DEF Idle
<1> QED
  BY <1>1, <1>4, <1>6, <1>8, <1>9, <1>10, StillOpen

\* What opening a tile leaves of the open log, for whichever of the two calls does it.
LEMMA TileOpenedUp ==
  ASSUME Inv, up, NEW t \in 1..tiles, OpenTile(t, Active),
         UNCHANGED <<up, tiles, version, written>>
  PROVE  /\ FilesInv' /\ WrittenInv' /\ Len(file') = Len(file)
         /\ \A u \in DOMAIN file : Newest(file'[u]) = Newest(file[u]) /\ file'[u].base = file[u].base
         /\ writer.pc = "rolling" => file'[Len(file)] = file[Len(file)]
         /\ CacheInv' /\ (tiles \in DOMAIN logs \/ t = tiles => tiles \in DOMAIN logs')
<1>1. /\ FilesInv /\ WrittenInv /\ CacheInv /\ Cached(file, logs, lru) /\ DOMAIN logs = ToSet(lru)
      /\ Len(file) \in Nat /\ DOMAIN file = 1..Len(file) /\ tiles \in Nat /\ t \in DOMAIN file
      /\ ToSet(lru) \subseteq 1..tiles
  BY OpenFacts DEF CacheInv
<1>2. /\ FilesInv' /\ WrittenInv' /\ DOMAIN file' = DOMAIN file /\ Len(file') = Len(file)
      /\ \A u \in DOMAIN file : file'[u].base = file[u].base /\ Newest(file'[u]) = Newest(file[u])
      /\ \A u \in DOMAIN file : u # t /\ u \notin ToSet(lru) => file'[u] = file[u]
      /\ Cached(file', logs', lru')
      /\ ToSet(lru') \subseteq ToSet(lru) \cup {t}
      /\ tiles \in ToSet(lru) \cup {t} => tiles \in ToSet(lru')
  BY <1>1, TileOpened DEF Active
<1>3. CacheInv' /\ DOMAIN logs' = ToSet(lru')
  <2>1. ToSet(lru') \subseteq 1..tiles'
    BY <1>1, <1>2
  <2> QED
    BY <1>2, <2>1, CacheKept
<1>4. writer.pc = "rolling" => file'[Len(file)] = file[Len(file)]
  <2> SUFFICES ASSUME writer.pc = "rolling" PROVE file'[Len(file)] = file[Len(file)]
    OBVIOUS
  <2>1. Len(file) = tiles + 1
    BY DEF Inv, OpenInv
  <2>2. tiles + 1 \in DOMAIN file /\ tiles + 1 # t /\ tiles + 1 \notin 1..tiles
    BY <1>1, <2>1
  <2>3. tiles + 1 \notin ToSet(lru)
    BY <1>1, <2>2
  <2> QED
    BY <1>2, <2>1, <2>2, <2>3
<1> QED
  BY <1>1, <1>2, <1>3, <1>4

LEMMA AddOpenedStep == Inv /\ AddOpened => Inv'
<1> SUFFICES ASSUME Inv, AddOpened PROVE Inv'
  OBVIOUS
<1>1. /\ writer.pc = "opening" /\ OpenTile(writer.tile, Active)
      /\ writer' = [writer EXCEPT !.pc = "got"]
      /\ UNCHANGED <<up, tiles, version, reader, written>>
  BY DEF AddOpened
<1>2. writer # Idle
  BY <1>1 DEF Idle
<1>3. up
  BY <1>2 DEF Inv, Closed
<1>4. /\ writer \in [pc : {"opening", "got", "rolling", "written"}, text : Texts,
                     tile : {tiles}, rolled : BOOLEAN]
      /\ version < MaxVersions /\ tiles \in 1..tiles /\ writer.tile = tiles
  <2>1. WriterInv /\ tiles \in Nat /\ tiles \in 1..Len(file)
    BY <1>3, OpenFacts
  <2> QED
    BY <1>1, <1>2, <2>1 DEF WriterInv
<1>5. /\ FilesInv' /\ WrittenInv' /\ Len(file') = Len(file)
      /\ \A u \in DOMAIN file : Newest(file'[u]) = Newest(file[u]) /\ file'[u].base = file[u].base
      /\ writer.pc = "rolling" => file'[Len(file)] = file[Len(file)]
      /\ CacheInv' /\ tiles \in DOMAIN logs'
  BY <1>1, <1>3, <1>4, TileOpenedUp
<1>6. /\ writer' \in [pc : {"opening", "got", "rolling", "written"}, text : Texts,
                      tile : {tiles}, rolled : BOOLEAN]
      /\ writer'.pc = "got"
  BY <1>1, <1>4
<1>7. WriterInv'
  BY <1>1, <1>4, <1>5, <1>6 DEF WriterInv
<1>8. ReaderInv'
  BY <1>1, <1>3, <1>5, ReaderSame
<1> QED
  BY <1>1, <1>3, <1>5, <1>6, <1>7, <1>8, StillOpen

LEMMA AddFailsStep == Inv /\ AddFails => Inv'
<1> SUFFICES ASSUME Inv, AddFails PROVE Inv'
  OBVIOUS
<1>1. /\ writer.pc \in {"opening", "got"} /\ writer' = Idle
      /\ UNCHANGED <<file, up, tiles, version, logs, lru, reader, written>>
  BY DEF AddFails
<1>2. writer # Idle
  BY <1>1 DEF Idle
<1>3. up
  BY <1>2 DEF Inv, Closed
<1>4. FilesInv' /\ WrittenInv' /\ CacheInv'
  BY <1>1, <1>3, OpenFacts DEF FilesInv, WrittenInv, CacheInv
<1>5. WriterInv' /\ writer'.pc = "idle"
  BY <1>1 DEF WriterInv, Idle
<1>6. ReaderInv'
  BY <1>1, <1>3, ReaderSame
<1> QED
  BY <1>1, <1>3, <1>4, <1>5, <1>6, StillOpen

\* Files that are known not to hold anything above the newest version.
LEMMA NothingAbove ==
  ASSUME Inv, up, NEW t \in DOMAIN file, NEW i \in 2..Len(file[t].commits)
  PROVE  /\ t \in 1..tiles /\ file[t].commits[i].version = file[t].base + i - 1
         /\ file[t].commits[i].version \in Nat /\ file[t].commits[i].version <= Newest(file[tiles])
<1>1. /\ FilesInv /\ Len(file) \in Nat /\ DOMAIN file = 1..Len(file) /\ tiles \in 1..Len(file)
      /\ \A u \in DOMAIN file : FileOK(file[u]) /\ file[u].base \in Nat
      /\ tiles \in Nat
  BY OpenFacts
<1>2. t \in 1..tiles
  <2>1. CASE Len(file) = tiles
    BY <1>1, <2>1
  <2>2. CASE Len(file) # tiles
    <3>1. Len(file) = tiles + 1 /\ file[Len(file)] = NewFile(version)
      BY <2>2 DEF Inv, OpenInv
    <3>2. file[tiles + 1].commits = <<>>
      BY <3>1 DEF NewFile
    <3>3. t # tiles + 1
      <4> SUFFICES ASSUME t = tiles + 1 PROVE FALSE
        OBVIOUS
      <4>1. Len(file[t].commits) = 0
        BY <3>2
      <4> QED
        BY <4>1
    <3> QED
      BY <1>1, <3>1, <3>3
  <2> QED
    BY <2>1, <2>2
<1>3. /\ file[t].commits[i].version = file[t].base + i - 1 /\ file[t].base + i - 1 <= Newest(file[t])
      /\ Newest(file[t]) \in Nat /\ file[t].base \in Nat /\ i \in Nat /\ i >= 2
  <2>1. Len(file[t].commits) \in Nat
    BY <1>1, FileFacts
  <2> QED
    BY <1>1, <2>1, FileFacts
<1>4. Newest(file[t]) <= Newest(file[tiles])
  <2>1. CASE t = tiles
    BY <1>3, <2>1
  <2>2. CASE t # tiles
    <3>1. t < tiles /\ tiles \in DOMAIN file
      BY <1>1, <1>2, <2>2
    <3>2. Newest(file[t]) <= file[tiles].base
      BY <1>1, <3>1 DEF FilesInv
    <3>3. file[tiles].base <= Newest(file[tiles]) /\ Newest(file[tiles]) \in Nat /\ file[tiles].base \in Nat
      BY <1>1, <3>1, FileFacts
    <3> QED
      BY <1>3, <3>2, <3>3
  <2> QED
    BY <2>1, <2>2
<1>5. Newest(file[tiles]) \in Nat
  BY OpenFacts
<1> QED
  BY <1>2, <1>3, <1>4, <1>5

LEMMA AddRollStep == Inv /\ AddRoll => Inv'
<1> SUFFICES ASSUME Inv, AddRoll PROVE Inv'
  OBVIOUS
<1>1. /\ writer.pc = "got" /\ file' = Append(file, NewFile(version))
      /\ writer' = [writer EXCEPT !.pc = "rolling"]
      /\ UNCHANGED <<up, tiles, version, logs, lru, reader, written>>
  BY DEF AddRoll
<1>2. up
  BY <1>1 DEF Inv, Closed, Idle
<1>3. /\ FilesInv /\ WrittenInv /\ CacheInv /\ Cached(file, logs, lru) /\ WriterInv
      /\ Len(file) \in Nat /\ DOMAIN file = 1..Len(file) /\ tiles \in Nat /\ tiles \in 1..Len(file)
      /\ version \in Nat /\ \A t \in DOMAIN file : FileOK(file[t]) /\ file[t].base \in Nat
  BY <1>2, OpenFacts
<1>4. Len(file) = tiles /\ version = Newest(file[tiles])
  BY <1>1, <1>2, <1>3, FileFacts DEF Inv, OpenInv
<1>5. /\ writer \in [pc : {"opening", "got", "rolling", "written"}, text : Texts,
                     tile : {tiles}, rolled : BOOLEAN]
      /\ version < MaxVersions
  BY <1>1, <1>3 DEF WriterInv, Idle
<1> DEFINE n == Len(file)
           new == NewFile(version)
<1>6. /\ IsSeq(file') /\ Len(file') = n + 1 /\ DOMAIN file' = 1..(n + 1)
      /\ file'[n + 1] = new /\ \A t \in 1..n : file'[t] = file[t]
  BY <1>1, <1>3, Appended, SeqFacts DEF FilesInv
<1>7. FileOK(new) /\ new.base = version /\ new.commits = <<>> /\ Newest(new) = version
  <2>1. /\ new = [base |-> new.base, commits |-> new.commits, synced |-> new.synced]
        /\ new.base = version /\ new.commits = <<>> /\ new.synced = 0
    BY DEF NewFile
  <2> HIDE DEF new
  <2>2. Newest(new) = version
    BY <1>3, <2>1 DEF Newest
  <2>3. Chain(version, <<>>)
    <3>1. IsSeq(<<>>) /\ 2..Len(<<>>) = {}
      <4>1. <<>> \in Seq({}) /\ Len(<<>>) = 0
        OBVIOUS
      <4>2. IsSeq(<<>>)
        BY <4>1, AnySeq
      <4>3. 2..Len(<<>>) = {}
        BY <4>1
      <4> QED
        BY <4>2, <4>3
    <3> QED
      BY <3>1 DEF Chain
  <2>4. version <= MaxVersions
    BY <1>3, <1>5, OlderAssumption
  <2> QED
    BY <1>3, <2>1, <2>2, <2>3, <2>4 DEF FileOK
<1> HIDE DEF new, n
<1>8. FilesInv'
  <2>1. \A t \in DOMAIN file' : FileOK(file'[t])
    <3> SUFFICES ASSUME NEW t \in 1..(n + 1) PROVE FileOK(file'[t])
      BY <1>6
    <3>1. CASE t = n + 1
      BY <1>6, <1>7, <3>1
    <3>2. CASE t # n + 1
      BY <1>3, <1>6, <3>2 DEF n
    <3> QED
      BY <3>1, <3>2
  <2>2. file'[1].base = 0
    <3>1. 1 \in 1..n /\ file # <<>>
      BY <1>3, FileIndices DEF n
    <3> QED
      BY <1>3, <1>6, <3>1 DEF FilesInv
  <2>3. ASSUME NEW t \in DOMAIN file', NEW u \in DOMAIN file', t < u
        PROVE  Newest(file'[t]) <= file'[u].base
    <3>1. t \in 1..n /\ t \in DOMAIN file /\ file'[t] = file[t]
      BY <1>3, <1>6, <2>3 DEF n
    <3>2. CASE u = n + 1
      <4>1. Newest(file[t]) \in Nat /\ Newest(file[t]) <= Newest(file[tiles])
        <5>1. CASE t = tiles
          BY <1>3, <3>1, <5>1, FileFacts
        <5>2. CASE t # tiles
          <6>1. t < tiles /\ tiles \in DOMAIN file
            BY <1>3, <1>4, <3>1, <5>2 DEF n
          <6>2. Newest(file[t]) <= file[tiles].base
            BY <1>3, <3>1, <6>1 DEF FilesInv
          <6>3. /\ file[tiles].base <= Newest(file[tiles]) /\ Newest(file[tiles]) \in Nat
                /\ file[tiles].base \in Nat /\ Newest(file[t]) \in Nat
            BY <1>3, <3>1, <6>1, FileFacts
          <6> QED
            BY <6>2, <6>3
        <5> QED
          BY <5>1, <5>2
      <4> QED
        BY <1>4, <1>6, <1>7, <3>1, <3>2, <4>1
    <3>3. CASE u # n + 1
      <4>1. u \in DOMAIN file /\ file'[u] = file[u]
        <5>1. u \in 1..n
          <6>1. u \in 1..(n + 1) /\ n \in Nat
            BY <1>3, <1>6 DEF n
          <6> QED
            BY <3>3, <6>1
        <5> QED
          BY <1>3, <1>6, <5>1 DEF n
      <4> QED
        BY <1>3, <2>3, <3>1, <4>1 DEF FilesInv
    <3> QED
      BY <3>2, <3>3
  <2> QED
    BY <1>6, <2>1, <2>2, <2>3 DEF FilesInv
<1>9. WrittenInv'
  <2>1. \A t \in DOMAIN file' : \A i \in 2..Len(file'[t].commits) : t \in DOMAIN file /\ file'[t] = file[t]
    <3> SUFFICES ASSUME NEW t \in 1..(n + 1), NEW i \in 2..Len(file'[t].commits)
                 PROVE  t \in DOMAIN file /\ file'[t] = file[t]
      BY <1>6
    <3>1. t # n + 1
      <4> SUFFICES ASSUME t = n + 1 PROVE FALSE
        OBVIOUS
      <4>1. Len(file'[t].commits) = 0
        BY <1>6, <1>7
      <4> QED
        BY <4>1
    <3> QED
      BY <1>3, <1>6, <3>1 DEF n
  <2>2. \A t \in DOMAIN file : t \in DOMAIN file' /\ file'[t] = file[t]
    BY <1>3, <1>6 DEF n
  <2>3. \A v : v \in Stored(file') <=> v \in Stored(file)
    BY <1>3, <1>8, <2>1, <2>2, StoredIs, StoredIsP
  <2>4. Stored(file') = Stored(file)
    BY <2>3
  <2> QED
    BY <1>1, <1>3, <2>1, <2>4 DEF WrittenInv
<1>10. CacheInv'
  <2>1. ToSet(lru') \subseteq 1..tiles' /\ ToSet(lru') \subseteq DOMAIN file'
    BY <1>1, <1>3, <1>6 DEF CacheInv, n
  <2>2. \A t \in ToSet(lru) : file'[t] = file[t]
    BY <1>3, <1>4, <1>6 DEF CacheInv, n
  <2>3. Cached(file', logs', lru')
    BY <1>1, <1>3, <2>1, <2>2 DEF Cached
  <2> QED
    BY <2>1, <2>3, CacheKept
<1>11. WriterInv' /\ writer'.pc = "rolling"
  <2>1. /\ writer' \in [pc : {"opening", "got", "rolling", "written"}, text : Texts,
                        tile : {tiles}, rolled : BOOLEAN]
        /\ writer'.pc = "rolling"
    BY <1>1, <1>5
  <2> QED
    BY <1>1, <1>5, <2>1 DEF WriterInv
<1>12. ReaderInv'
  BY <1>1, <1>2, <1>3, <1>6, ReaderSame DEF n
<1>13. OpenInv'
  <2>1. /\ Len(file') = tiles' + 1 /\ file'[Len(file')] = NewFile(version')
        /\ version' = Newest(file'[tiles']) - 0 /\ tiles' \in Nat \ {0} /\ version' \in Nat
    BY <1>1, <1>3, <1>4, <1>6 DEF n, new, NewFile
  <2> QED
    BY <1>10, <1>11, <1>12, <2>1 DEF OpenInv, NewFile
<1> QED
  BY <1>1, <1>2, <1>8, <1>9, <1>13 DEF Inv

LEMMA AddRolledStep == Inv /\ AddRolled => Inv'
<1> SUFFICES ASSUME Inv, AddRolled PROVE Inv'
  OBVIOUS
<1>1. /\ writer.pc = "rolling" /\ tiles' = Len(file)
      /\ writer' = [writer EXCEPT !.pc = "opening", !.tile = Len(file), !.rolled = TRUE]
      /\ UNCHANGED <<file, up, version, logs, lru, reader, written>>
  BY DEF AddRolled
<1>2. up
  BY <1>1 DEF Inv, Closed, Idle
<1>3. /\ FilesInv /\ WrittenInv /\ CacheInv /\ Cached(file, logs, lru) /\ WriterInv /\ ReaderInv
      /\ Len(file) \in Nat /\ DOMAIN file = 1..Len(file) /\ tiles \in Nat
      /\ version \in Nat
  BY <1>2, OpenFacts
<1>4. Len(file) = tiles + 1 /\ file[tiles + 1] = NewFile(version)
  BY <1>1, <1>2 DEF Inv, OpenInv
<1>5. /\ writer \in [pc : {"opening", "got", "rolling", "written"}, text : Texts,
                     tile : {tiles}, rolled : BOOLEAN]
      /\ version < MaxVersions
  BY <1>1, <1>3 DEF WriterInv, Idle
<1>6. NewFile(version).base = version /\ Newest(NewFile(version)) = version
  BY <1>3 DEF NewFile, Newest
<1>7. FilesInv' /\ WrittenInv'
  BY <1>1, <1>3 DEF FilesInv, WrittenInv
<1>8. CacheInv'
  <2>1. ToSet(lru') \subseteq 1..tiles'
    BY <1>1, <1>3, <1>4 DEF CacheInv
  <2> QED
    BY <1>1, <1>3, <2>1, CacheKept DEF Cached
<1>9. WriterInv' /\ writer'.pc = "opening"
  <2>1. /\ writer' \in [pc : {"opening", "got", "rolling", "written"}, text : Texts,
                        tile : {tiles'}, rolled : BOOLEAN]
        /\ writer'.pc = "opening"
    BY <1>1, <1>5
  <2> QED
    BY <1>1, <1>5, <2>1 DEF WriterInv
<1>10. ReaderInv'
  <2>1. ASSUME NEW v \in 1..version PROVE Owner(file', tiles', v) = Owner(file, tiles, v)
    <3>1. ~(file[tiles + 1].base < v)
      BY <1>3, <1>4, <1>6
    <3>2. {t \in 1..(tiles + 1) : file[t].base < v} = {t \in 1..tiles : file[t].base < v}
      BY <1>3, <3>1
    <3> QED
      BY <1>1, <1>4, <3>2 DEF Owner
  <2>2. version' \in Nat /\ version <= version' /\ tiles' \in Nat /\ tiles <= tiles'
    BY <1>1, <1>3, <1>4
  <2> QED
    BY <1>1, <1>3, <2>1, <2>2, ReaderKept
<1>11. OpenInv'
  <2>1. /\ Len(file') = tiles' /\ tiles' \in Nat \ {0} /\ version' \in Nat
        /\ version' = Newest(file'[tiles']) - 0
    BY <1>1, <1>3, <1>4, <1>6
  <2> QED
    BY <1>8, <1>9, <1>10, <2>1 DEF OpenInv
<1> QED
  BY <1>1, <1>2, <1>7, <1>11 DEF Inv

\* What a version that is written adds to the history.
AddsVersion ==
  /\ version \in Nat /\ version < MaxVersions /\ \A v \in DOMAIN written : v <= version
  /\ \E x \in AllTexts : written' = [v \in DOMAIN written \cup {version + 1} |->
                                      IF v = version + 1 THEN x ELSE written[v]]
  /\ DOMAIN file' = DOMAIN file
  /\ \A t \in DOMAIN file :
       /\ file'[t].synced = file[t].synced
       /\ \A i \in 2..Len(file[t].commits) : file'[t].commits[i] = file[t].commits[i]

LEMMA AddWriteStep == Inv /\ AddWrite => Inv' /\ AddsVersion
<1> SUFFICES ASSUME Inv, AddWrite PROVE Inv' /\ AddsVersion
  OBVIOUS
<1> DEFINE t == writer.tile
           x == writer.text
<1>1. /\ writer.pc = "got" /\ t \in DOMAIN logs
      /\ UNCHANGED <<up, tiles, version, lru, reader>>
  BY DEF AddWrite
<1>2. PICK c : /\ c = VersionCommit(file[t].commits, logs[t], x)
               /\ file' = [file EXCEPT ![t].commits = Append(@, c)]
               /\ logs' = [logs EXCEPT ![t] = [md |-> c.md, text |-> x]]
               /\ written' = [v \in DOMAIN written \cup {c.version} |->
                                IF v = c.version THEN x ELSE written[v]]
               /\ writer' = [writer EXCEPT !.pc = "written"]
  BY ZenonT(60) DEF AddWrite
<1>3. up
  BY <1>1 DEF Inv, Closed, Idle
<1>4. /\ FilesInv /\ WrittenInv /\ CacheInv /\ Cached(file, logs, lru) /\ WriterInv /\ ReaderInv
      /\ Len(file) \in Nat /\ DOMAIN file = 1..Len(file) /\ tiles \in Nat /\ tiles \in 1..Len(file)
      /\ version \in Nat /\ DOMAIN logs = ToSet(lru)
      /\ \A u \in DOMAIN file : FileOK(file[u]) /\ file[u].base \in Nat
  BY <1>3, OpenFacts
<1>5. Len(file) = tiles /\ version = Newest(file[tiles])
  BY <1>1, <1>3, <1>4, FileFacts DEF Inv, OpenInv
<1>6. /\ writer \in [pc : {"opening", "got", "rolling", "written"}, text : Texts,
                     tile : {tiles}, rolled : BOOLEAN]
      /\ version < MaxVersions /\ t = tiles /\ x \in AllTexts
  BY <1>1, <1>4 DEF WriterInv, Idle, AllTexts
<1> HIDE DEF t, x
<1> DEFINE f == file[t]
           g == file'[t]
           n == Len(f.commits)
           b == f.base
<1>7. /\ FileOK(f) /\ HandleOK(f, logs[t]) /\ b \in Nat /\ n \in Nat /\ f.synced \in Nat /\ f.synced <= n
      /\ Chain(b, f.commits) /\ IsSeq(f.commits) /\ f.commits # <<>> /\ n >= 1
      /\ version = b + n - 1 /\ t \in DOMAIN file
  <2>1. FileOK(f) /\ HandleOK(f, logs[t])
    BY <1>1, <1>4, <1>6 DEF Cached
  <2>2. f.commits # <<>>
    BY <2>1 DEF HandleOK
  <2>3. /\ b \in Nat /\ n \in Nat /\ f.synced \in Nat /\ f.synced <= n /\ Chain(b, f.commits) /\ IsSeq(f.commits)
        /\ (f.commits = <<>> <=> n = 0) /\ (n >= 1 => Newest(f) = b + n - 1)
    BY <2>1, FileFacts
  <2>4. n >= 1 /\ Newest(f) = b + n - 1
    <3> HIDE DEF n, b, f
    <3> QED
      BY <2>2, <2>3
  <2>5. t \in DOMAIN file /\ f = file[tiles]
    BY <1>4, <1>6
  <2>6. version = b + n - 1
    BY <1>5, <2>4, <2>5
  <2> HIDE DEF n, b, f
  <2> QED
    BY <2>1, <2>2, <2>3, <2>4, <2>5, <2>6
<1>8. /\ c.version = b + n /\ c.hash = x /\ Chain(b, Append(f.commits, c))
  BY <1>2, <1>6, <1>7, CommitFollows
<1>9. /\ IsSeq(Append(f.commits, c)) /\ Len(Append(f.commits, c)) = n + 1
      /\ Append(f.commits, c)[n + 1] = c
      /\ \A i \in 1..n : Append(f.commits, c)[i] = f.commits[i]
  BY <1>7, Appended
<1>10. /\ g = [base |-> b, commits |-> Append(f.commits, c), synced |-> f.synced]
       /\ \A u \in DOMAIN file : u # t => file'[u] = file[u]
       /\ file' = [u \in DOMAIN file |-> file'[u]]
  <2>1. f = [base |-> b, commits |-> f.commits, synced |-> f.synced]
    BY <1>7 DEF FileOK
  <2>2. g = [f EXCEPT !.commits = Append(@, c)]
    BY <1>2, <1>7
  <2>3. [f EXCEPT !.commits = Append(@, c)] = [base |-> b, commits |-> Append(f.commits, c), synced |-> f.synced]
    <3> HIDE DEF f, b
    <3> QED
      BY <2>1, SMTT(40)
  <2>4. \A u \in DOMAIN file : u # t => file'[u] = file[u]
    BY <1>2
  <2>5. file' = [u \in DOMAIN file |-> file'[u]]
    BY <1>2
  <2> QED
    BY <2>2, <2>3, <2>4, <2>5
<1> HIDE DEF n, b, f, g
<1>11. /\ g.base = b /\ g.commits = Append(f.commits, c) /\ g.synced = f.synced
  BY <1>10
<1>12. FileOK(g) /\ Newest(g) = version + 1 /\ g.commits # <<>> /\ Last(g.commits) = c /\ Len(g.commits) = n + 1
  <2>1. g.commits # <<>> /\ Len(g.commits) = n + 1 /\ IsSeq(g.commits)
    BY <1>7, <1>9, <1>11, SeqFacts
  <2>2. Newest(g) = b + ((n + 1) - 1)
    BY <1>11, <2>1 DEF Newest
  <2>3. Newest(g) = version + 1 /\ version + 1 <= MaxVersions
    BY <1>4, <1>6, <1>7, <2>2, OlderAssumption
  <2>4. g.synced \in 0..Len(g.commits)
    BY <1>7, <1>11, <2>1
  <2>5. Last(g.commits) = c
    BY <1>9, <1>11, <2>1 DEF Last
  <2>6. g = [base |-> g.base, commits |-> g.commits, synced |-> g.synced]
    BY <1>10
  <2>7. FileOK(g)
    BY <1>7, <1>8, <1>11, <2>3, <2>4, <2>6 DEF FileOK
  <2> QED
    BY <2>1, <2>3, <2>5, <2>7
<1>13. IsSeq(file') /\ Len(file') = Len(file) /\ DOMAIN file' = DOMAIN file
  <2>1. file' = [u \in 1..Len(file) |-> file'[u]]
    BY <1>4, <1>10
  <2> QED
    BY <1>4, <2>1, FunctionSeq
<1>14. \A u \in DOMAIN file : FileOK(file'[u]) /\ file'[u].base = file[u].base
                              /\ (u # t => file'[u] = file[u])
  <2> SUFFICES ASSUME NEW u \in DOMAIN file
               PROVE  FileOK(file'[u]) /\ file'[u].base = file[u].base /\ (u # t => file'[u] = file[u])
    OBVIOUS
  <2>1. CASE u = t
    BY <1>11, <1>12, <2>1 DEF g, b, f
  <2>2. CASE u # t
    BY <1>4, <1>10, <2>2
  <2> QED
    BY <2>1, <2>2
<1>15. FilesInv'
  <2>1. file' # <<>> => file'[1].base = 0
    <3>1. 1 \in DOMAIN file /\ file # <<>>
      BY <1>4, FileIndices
    <3> QED
      BY <1>4, <1>14, <3>1 DEF FilesInv
  <2>2. ASSUME NEW s \in DOMAIN file, NEW u \in DOMAIN file, s < u
        PROVE  Newest(file'[s]) <= file'[u].base
    <3>1. s # t
      BY <1>4, <1>5, <1>6, <2>2
    <3> QED
      BY <1>4, <1>14, <2>2, <3>1 DEF FilesInv
  <2> QED
    BY <1>13, <1>14, <2>1, <2>2 DEF FilesInv
<1>16. \A u \in DOMAIN file : \A i \in 2..Len(file[u].commits) :
         /\ i \in 2..Len(file'[u].commits) /\ file'[u].commits[i] = file[u].commits[i]
         /\ file[u].commits[i].version # c.version
         /\ file[u].commits[i].version \in DOMAIN written
  <2> SUFFICES ASSUME NEW u \in DOMAIN file, NEW i \in 2..Len(file[u].commits)
               PROVE  /\ i \in 2..Len(file'[u].commits) /\ file'[u].commits[i] = file[u].commits[i]
                      /\ file[u].commits[i].version # c.version
                      /\ file[u].commits[i].version \in DOMAIN written
    OBVIOUS
  <2>1. file[u].commits[i].version \in Nat /\ file[u].commits[i].version <= version
    BY <1>3, <1>5, NothingAbove
  <2>2. c.version = version + 1
    BY <1>7, <1>8
  <2>3. file[u].commits[i].version # c.version
    BY <1>4, <2>1, <2>2
  <2>4. file[u].commits[i].version \in DOMAIN written
    BY <1>4, StoredIs DEF WrittenInv
  <2>5. i \in 2..Len(file'[u].commits) /\ file'[u].commits[i] = file[u].commits[i]
    <3>1. CASE u = t
      <4>1. i \in 2..n /\ file[u].commits[i] = f.commits[i]
        BY <3>1 DEF n, f
      <4>2. i \in 2..(n + 1) /\ i \in 1..n
        BY <1>7, <4>1
      <4> QED
        BY <1>9, <1>11, <1>12, <3>1, <4>1, <4>2 DEF g
    <3>2. CASE u # t
      BY <1>14, <3>2
    <3> QED
      BY <3>1, <3>2
  <2> QED
    BY <2>3, <2>4, <2>5
<1>17. \A u \in DOMAIN file' : \A i \in 2..Len(file'[u].commits) :
         \/ i \in 2..Len(file[u].commits)
         \/ u = t /\ file'[u].commits[i] = c
  <2> SUFFICES ASSUME NEW u \in DOMAIN file, NEW i \in 2..Len(file'[u].commits)
               PROVE  i \in 2..Len(file[u].commits) \/ (u = t /\ file'[u].commits[i] = c)
    BY <1>13
  <2>1. CASE u = t
    <3>1. i \in 2..(n + 1) /\ file'[u].commits[i] = Append(f.commits, c)[i]
      BY <1>11, <1>12, <2>1 DEF g
    <3>2. i = n + 1 \/ i \in 2..n
      BY <1>7, <3>1
    <3>3. i \in 2..n => i \in 2..Len(file[u].commits)
      BY <2>1 DEF n, f
    <3> QED
      BY <1>9, <2>1, <3>1, <3>2, <3>3
  <2>2. CASE u # t
    BY <1>14, <2>2
  <2> QED
    BY <2>1, <2>2
<1>18. WrittenInv'
  <2>1. written' = [v \in DOMAIN written' |-> written'[v]]
        /\ DOMAIN written' = DOMAIN written \cup {c.version}
        /\ written'[c.version] = x
        /\ \A v \in DOMAIN written : v # c.version => written'[v] = written[v]
    BY <1>2
  <2>2. n + 1 \in 2..Len(file'[t].commits) /\ file'[t].commits[n + 1] = c
    <3>1. n + 1 \in 2..(n + 1)
      BY <1>7
    <3> QED
      BY <1>9, <1>11, <1>12, <3>1 DEF g
  <2>3. \A v : v \in Stored(file') <=> v \in Stored(file) \/ v = c.version
    <3>1. ASSUME NEW v, v \in Stored(file') PROVE v \in Stored(file) \/ v = c.version
      <4>1. PICK u \in DOMAIN file' : \E i \in 2..Len(file'[u].commits) : v = file'[u].commits[i].version
        BY <1>15, <3>1, StoredIsP
      <4>2. PICK i \in 2..Len(file'[u].commits) : v = file'[u].commits[i].version
        BY <4>1
      <4>3. CASE i \in 2..Len(file[u].commits)
        BY <1>4, <1>13, <1>16, <4>2, <4>3, StoredIs
      <4>4. CASE file'[u].commits[i] = c
        BY <4>2, <4>4
      <4> QED
        BY <1>17, <4>3, <4>4
    <3>2. ASSUME NEW v, v \in Stored(file) PROVE v \in Stored(file')
      <4>1. PICK u \in DOMAIN file : \E i \in 2..Len(file[u].commits) : v = file[u].commits[i].version
        BY <1>4, <3>2, StoredIs
      <4> QED
        BY <1>13, <1>15, <1>16, <4>1, StoredIsP
    <3>3. c.version \in Stored(file')
      BY <1>7, <1>13, <1>15, <2>2, StoredIsP
    <3> QED
      BY <3>1, <3>2, <3>3
  <2>4. DOMAIN written' = Stored(file')
    BY <1>4, <2>1, <2>3 DEF WrittenInv
  <2>5. ASSUME NEW u \in DOMAIN file', NEW i \in 2..Len(file'[u].commits)
        PROVE  written'[file'[u].commits[i].version] = file'[u].commits[i].hash
    <3>1. CASE i \in 2..Len(file[u].commits)
      BY <1>4, <1>13, <1>16, <2>1, <3>1 DEF WrittenInv
    <3>2. CASE file'[u].commits[i] = c
      BY <1>8, <2>1, <3>2
    <3> QED
      BY <1>17, <3>1, <3>2
  <2> QED
    BY <2>1, <2>4, <2>5 DEF WrittenInv
<1>19. CacheInv' /\ DOMAIN logs' = DOMAIN logs
  <2>1. ASSUME NEW u \in ToSet(lru) PROVE HandleOK(file'[u], logs'[u])
    <3>1. CASE u = t
      <4>1. logs'[u] = [md |-> c.md, text |-> x] /\ file'[u] = g
        BY <1>1, <1>2, <3>1 DEF g
      <4>2. n + 1 > 1
        BY <1>7
      <4> QED
        BY <1>8, <1>12, <4>1, <4>2 DEF HandleOK
    <3>2. CASE u # t
      <4>1. logs'[u] = logs[u] /\ file'[u] = file[u]
        BY <1>2, <1>4, <1>14, <3>2 DEF Cached
      <4> QED
        BY <1>4, <4>1 DEF Cached
    <3> QED
      BY <3>1, <3>2
  <2>2. logs' = [u \in ToSet(lru) |-> logs'[u]]
    BY <1>2, <1>4 DEF Cached
  <2>3. Cached(file', logs', lru') /\ ToSet(lru') \subseteq 1..tiles'
    BY <1>1, <1>4, <1>13, <2>1, <2>2 DEF Cached, CacheInv
  <2>4. CacheInv' /\ DOMAIN logs' = ToSet(lru')
    BY <2>3, CacheKept
  <2> QED
    BY <1>1, <1>4, <2>4
<1>20. WriterInv' /\ writer'.pc = "written"
  <2>1. /\ writer' \in [pc : {"opening", "got", "rolling", "written"}, text : Texts,
                        tile : {tiles}, rolled : BOOLEAN]
        /\ writer'.pc = "written"
    BY <1>2, <1>6
  <2> QED
    BY <1>1, <1>6, <1>19, <2>1 DEF WriterInv
<1>21. ReaderInv'
  <2>1. \A v \in 1..version : Owner(file', tiles', v) = Owner(file, tiles, v)
    <3>1. \A u \in 1..tiles : file'[u].base = file[u].base
      BY <1>4, <1>5, <1>14
    <3> QED
      BY <1>1, <3>1, OwnerSame
  <2>2. \A v \in 1..version : v # c.version
    BY <1>4, <1>7, <1>8
  <2>3. \A v \in 1..version : v \in DOMAIN written' <=> v \in DOMAIN written
    BY <1>2, <2>2
  <2>4. \A v \in DOMAIN written : v \in 1..version => written'[v] = written[v]
    BY <1>2, <2>2
  <2>5. version' \in Nat /\ version <= version' /\ tiles' \in Nat /\ tiles <= tiles'
    BY <1>1, <1>4
  <2> QED
    BY <1>1, <1>4, <2>1, <2>3, <2>4, <2>5, ReaderKept
<1>22. OpenInv'
  <2>1. version = (version + 1) - 1
    BY <1>4
  <2>2. /\ Len(file') = tiles' /\ tiles' \in Nat \ {0} /\ version' \in Nat
        /\ version' = Newest(file'[tiles']) - 1
    BY <1>1, <1>4, <1>5, <1>6, <1>12, <1>13, <2>1 DEF g
  <2> QED
    BY <1>19, <1>20, <1>21, <2>2 DEF OpenInv
<1>23. AddsVersion
  <2>1. ASSUME NEW v \in DOMAIN written PROVE v <= version
    <3>1. PICK u \in DOMAIN file : \E i \in 2..Len(file[u].commits) : v = file[u].commits[i].version
      BY <1>4, StoredIs DEF WrittenInv
    <3> QED
      BY <1>3, <1>5, <3>1, NothingAbove
  <2>2. c.version = version + 1
    BY <1>7, <1>8
  <2>3. \E y \in AllTexts : written' = [v \in DOMAIN written \cup {version + 1} |->
                                      IF v = version + 1 THEN y ELSE written[v]]
    BY <1>2, <1>6, <2>2
  <2>4. \A u \in DOMAIN file : file'[u].synced = file[u].synced
    <3> SUFFICES ASSUME NEW u \in DOMAIN file PROVE file'[u].synced = file[u].synced
      OBVIOUS
    <3>1. CASE u = t
      BY <1>11, <3>1 DEF f, g
    <3>2. CASE u # t
      BY <1>14, <3>2
    <3> QED
      BY <3>1, <3>2
  <2> QED
    BY <1>4, <1>6, <1>13, <1>16, <2>1, <2>3, <2>4 DEF AddsVersion
<1> QED
  BY <1>1, <1>3, <1>15, <1>18, <1>22, <1>23 DEF Inv

LEMMA AddReturnStep == Inv /\ AddReturn => Inv'
<1> SUFFICES ASSUME Inv, AddReturn PROVE Inv'
  OBVIOUS
<1>1. /\ writer.pc = "written" /\ version' = logs[writer.tile].md.version /\ writer' = Idle
      /\ UNCHANGED <<file, up, tiles, logs, lru, reader, written>>
  BY DEF AddReturn
<1>2. up
  BY <1>1 DEF Inv, Closed, Idle
<1>3. /\ FilesInv /\ WrittenInv /\ CacheInv /\ Cached(file, logs, lru) /\ WriterInv /\ ReaderInv
      /\ Len(file) \in Nat /\ DOMAIN file = 1..Len(file) /\ tiles \in Nat /\ tiles \in 1..Len(file)
      /\ version \in Nat /\ DOMAIN logs = ToSet(lru) /\ Newest(file[tiles]) \in Nat
      /\ version <= Newest(file[tiles])
      /\ \A u \in DOMAIN file : FileOK(file[u]) /\ file[u].base \in Nat
  BY <1>2, OpenFacts
<1>4. writer.tile = tiles /\ tiles \in DOMAIN logs /\ Len(file) = tiles
  BY <1>1, <1>2, <1>3 DEF WriterInv, Idle, Inv, OpenInv
<1>5. version' = Newest(file[tiles])
  <2>1. FileOK(file[tiles]) /\ HandleOK(file[tiles], logs[tiles]) /\ 0 \in Nat
    BY <1>3, <1>4 DEF Cached
  <2>2. logs[tiles].md.version = Newest(file[tiles])
    BY <2>1, HandleReads
  <2> QED
    BY <1>1, <1>4, <2>2
<1>6. FilesInv' /\ WrittenInv' /\ CacheInv'
  BY <1>1, <1>3 DEF FilesInv, WrittenInv, CacheInv
<1>7. WriterInv' /\ writer'.pc = "idle"
  BY <1>1 DEF WriterInv, Idle
<1>8. ReaderInv'
  <2>1. version' \in Nat /\ version <= version' /\ tiles' \in Nat /\ tiles <= tiles'
    BY <1>1, <1>3, <1>5
  <2> QED
    BY <1>1, <1>3, <2>1, ReaderKept
<1>9. OpenInv'
  <2>1. /\ Len(file') = tiles' /\ tiles' \in Nat \ {0} /\ version' \in Nat
        /\ version' = Newest(file'[tiles']) - 0
    BY <1>1, <1>3, <1>4, <1>5
  <2> QED
    BY <1>6, <1>7, <1>8, <2>1 DEF OpenInv
<1> QED
  BY <1>1, <1>2, <1>6, <1>9 DEF Inv

LEMMA TileForIs ==
  ASSUME Inv, up, NEW v
  PROVE  TileFor(v) = Owner(file, tiles, v) /\ TileFor(v) \in 1..tiles
<1>1. TileFor(v) = Owner(file, tiles, v)
  BY DEF TileFor, Owner
<1>2. Owner(file, tiles, v) \in 1..tiles
  BY OpenFacts, OwnerIs
<1> QED
  BY <1>1, <1>2

LEMMA ReadCallStep == Inv /\ ReadCall => Inv'
<1> SUFFICES ASSUME Inv, ReadCall PROVE Inv'
  OBVIOUS
<1>1. up /\ UNCHANGED <<file, up, tiles, version, logs, writer, written>>
  BY DEF ReadCall
<1>2. PICK v \in 1..version :
        /\ reader' = [pc |-> IF TileFor(v) \in DOMAIN logs THEN "got" ELSE "opening",
                      version |-> v, tile |-> TileFor(v)]
        /\ lru' = IF TileFor(v) \in DOMAIN logs THEN Used(TileFor(v), lru) ELSE lru
  BY DEF ReadCall
<1>3. /\ FilesInv /\ WrittenInv /\ CacheInv /\ WriterInv /\ Cached(file, logs, lru)
      /\ DOMAIN logs = ToSet(lru)
  BY <1>1, OpenFacts
<1> DEFINE t == TileFor(v)
<1>4. t \in 1..tiles /\ t = Owner(file, tiles, v)
  BY <1>1, TileForIs
<1>5. /\ reader' = [pc |-> IF t \in DOMAIN logs THEN "got" ELSE "opening", version |-> v, tile |-> t]
      /\ lru' = IF t \in DOMAIN logs THEN Used(t, lru) ELSE lru
  BY <1>2
<1> HIDE DEF t
<1>6. IsSeq(lru') /\ ToSet(lru') = ToSet(lru)
  <2>1. CASE t \in DOMAIN logs
    BY <1>3, <1>5, <2>1, UsedIs DEF Cached
  <2>2. CASE t \notin DOMAIN logs
    BY <1>3, <1>5, <2>2 DEF Cached
  <2> QED
    BY <2>1, <2>2
<1>7. CacheInv'
  <2>1. Cached(file', logs', lru') /\ ToSet(lru') \subseteq 1..tiles'
    BY <1>1, <1>3, <1>6 DEF Cached, CacheInv
  <2> QED
    BY <2>1, CacheKept
<1>8. ReaderInv'
  <2>1. reader' \in [pc : {"opening", "got"}, version : 1..version', tile : 1..tiles']
    BY <1>1, <1>4, <1>5
  <2>2. reader'.version = v /\ reader'.tile = t
    BY <1>5
  <2>3. TileFor(reader.version)' = Owner(file', tiles', reader'.version)
    BY DEF TileFor, Owner
  <2>4. reader'.tile = TileFor(reader.version)'
    BY <1>1, <1>4, <2>2, <2>3
  <2> QED
    BY <2>1, <2>4 DEF ReaderInv
<1>9. FilesInv' /\ WrittenInv' /\ WriterInv'
  BY <1>1, <1>3 DEF FilesInv, WrittenInv, WriterInv, Idle
<1> QED
  BY <1>1, <1>7, <1>8, <1>9, StillOpen

LEMMA ReadOpenedStep == Inv /\ ReadOpened => Inv'
<1> SUFFICES ASSUME Inv, ReadOpened PROVE Inv'
  OBVIOUS
<1>1. /\ reader.pc = "opening" /\ OpenTile(reader.tile, Active)
      /\ reader' = [reader EXCEPT !.pc = "got"]
      /\ UNCHANGED <<up, tiles, version, writer, written>>
  BY DEF ReadOpened
<1>2. up
  BY <1>1 DEF Inv, Closed, Idle
<1>3. /\ FilesInv /\ WriterInv /\ ReaderInv /\ DOMAIN logs = ToSet(lru) /\ 1..tiles \subseteq DOMAIN file
  BY <1>2, OpenFacts
<1>4. /\ reader \in [pc : {"opening", "got"}, version : 1..version, tile : 1..tiles]
      /\ reader.tile = TileFor(reader.version)
  BY <1>1, <1>3 DEF ReaderInv, Idle
<1>5. /\ FilesInv' /\ WrittenInv' /\ Len(file') = Len(file)
      /\ \A u \in DOMAIN file : Newest(file'[u]) = Newest(file[u]) /\ file'[u].base = file[u].base
      /\ writer.pc = "rolling" => file'[Len(file)] = file[Len(file)]
      /\ CacheInv' /\ (tiles \in DOMAIN logs => tiles \in DOMAIN logs')
  BY <1>1, <1>2, <1>4, TileOpenedUp
<1>6. ReaderInv'
  <2>1. /\ reader' \in [pc : {"opening", "got"}, version : 1..version', tile : 1..tiles']
        /\ reader'.version = reader.version /\ reader'.tile = reader.tile
    BY <1>1, <1>4
  <2>2. TileFor(reader.version)' = Owner(file', tiles', reader'.version)
    BY DEF TileFor, Owner
  <2>3. TileFor(reader.version) = Owner(file, tiles, reader.version)
    BY <1>2, TileForIs
  <2>4. Owner(file', tiles, reader.version) = Owner(file, tiles, reader.version)
    BY <1>3, <1>5, OwnerSame
  <2>5. reader'.tile = TileFor(reader.version)'
    BY <1>1, <1>4, <2>1, <2>2, <2>3, <2>4
  <2> QED
    BY <2>1, <2>5 DEF ReaderInv
<1>7. WriterInv'
  BY <1>1, <1>3, <1>5 DEF WriterInv, Idle
<1> QED
  BY <1>1, <1>2, <1>5, <1>6, <1>7, StillOpen

\* Where the tile of a version asked for does not have it, no file does.
LEMMA ReaderFinds ==
  ASSUME Inv, up, NEW v \in 1..version
  PROVE  LET f == file[TileFor(v)] IN
         /\ v > f.base /\ v <= Newest(f) => v \in DOMAIN written
         /\ v > f.base /\ v <= Newest(f) => written[v] = f.commits[v - f.base + 1].hash
         /\ ~(v > f.base /\ v <= Newest(f)) => v \notin DOMAIN written
<1> DEFINE t == TileFor(v)
           f == file[t]
           i == v - f.base + 1
<1>1. /\ FilesInv /\ WrittenInv /\ Len(file) \in Nat /\ DOMAIN file = 1..Len(file)
      /\ tiles \in 1..Len(file) /\ tiles \in Nat /\ 1..tiles \subseteq DOMAIN file /\ version \in Nat
      /\ \A u \in DOMAIN file : FileOK(file[u]) /\ file[u].base \in Nat
  BY OpenFacts
<1>2. t \in 1..tiles /\ t = Owner(file, tiles, v) /\ t \in DOMAIN file
  BY <1>1, TileForIs
<1> HIDE DEF t
<1>3. /\ f.base \in Nat /\ Newest(f) \in Nat /\ Len(f.commits) \in Nat /\ v \in Nat
      /\ (Len(f.commits) >= 1 => Newest(f) = f.base + Len(f.commits) - 1)
      /\ (Len(f.commits) < 2 => Newest(f) = f.base)
      /\ \A k \in 2..Len(f.commits) : f.commits[k].version = f.base + k - 1
                                      /\ f.base < f.base + k - 1 /\ f.base + k - 1 <= Newest(f)
  BY <1>1, <1>2, FileFacts
<1>4. ASSUME v > f.base /\ v <= Newest(f)
      PROVE  v \in DOMAIN written /\ written[v] = f.commits[i].hash
  <2> HIDE DEF f
  <2>1. i \in 2..Len(f.commits) /\ f.base + i - 1 = v
    BY <1>3, <1>4, SMTT(40)
  <2> HIDE DEF i
  <2>2. f.commits[i].version = v
    BY <1>3, <2>1
  <2>3. v \in Stored(file)
    BY <1>1, <1>2, <2>1, <2>2, StoredIs DEF f
  <2> QED
    BY <1>1, <1>2, <2>1, <2>2, <2>3 DEF WrittenInv, f
<1>5. ASSUME v \in DOMAIN written PROVE v > f.base /\ v <= Newest(f)
  <2>1. PICK u \in DOMAIN file : \E k \in 2..Len(file[u].commits) : v = file[u].commits[k].version
    BY <1>1, <1>5, StoredIs DEF WrittenInv
  <2>2. PICK k \in 2..Len(file[u].commits) : v = file[u].commits[k].version
    BY <2>1
  <2>3. u \in 1..tiles /\ v = file[u].base + k - 1
    BY <2>2, NothingAbove
  <2>4. Owner(file, tiles, v) = u
    BY <1>1, <2>3, OwnerHolds
  <2>5. k \in 2..Len(f.commits) /\ v = f.base + k - 1
    BY <1>2, <2>2, <2>3, <2>4
  <2> QED
    BY <1>3, <2>5
<1> QED
  BY <1>4, <1>5 DEF t

LEMMA ReadReturnStep == Inv /\ ReadReturn => Inv'
<1> SUFFICES ASSUME Inv, ReadReturn PROVE Inv'
  OBVIOUS
<1> DEFINE t == reader.tile
           v == reader.version
<1>1. /\ reader.pc = "got" /\ UNCHANGED <<file, up, tiles, version, lru, writer, written>>
      /\ IF t \in DOMAIN logs
         THEN \E r \in {GetVersion(file[t].commits, logs[t], v)} :
                /\ reader' = [pc |-> "read", version |-> v, result |-> r]
                /\ logs' = [logs EXCEPT ![t] = Remember(@, v, r)]
         ELSE reader' = Idle /\ UNCHANGED logs
  BY DEF ReadReturn
<1>2. up
  BY <1>1 DEF Inv, Closed, Idle
<1>3. /\ FilesInv /\ WrittenInv /\ WriterInv /\ CacheInv /\ ReaderInv /\ Cached(file, logs, lru)
      /\ DOMAIN logs = ToSet(lru) /\ 1..tiles \subseteq DOMAIN file /\ version \in Nat
      /\ \A u \in DOMAIN file : FileOK(file[u]) /\ file[u].base \in Nat
  BY <1>2, OpenFacts
<1>4. v \in 1..version /\ t \in 1..tiles /\ t = TileFor(v)
  BY <1>1, <1>3 DEF ReaderInv, Idle
<1>5. FilesInv' /\ WrittenInv'
  BY <1>1, <1>3 DEF FilesInv, WrittenInv
<1> HIDE DEF t, v
<1>6. CASE t \notin DOMAIN logs
  <2>1. reader' = Idle /\ logs' = logs
    BY <1>1, <1>6
  <2>2. CacheInv' /\ WriterInv' /\ ReaderInv'
    BY <1>1, <1>3, <2>1 DEF CacheInv, WriterInv, ReaderInv, Idle
  <2> QED
    BY <1>1, <1>2, <1>5, <2>2, StillOpen
<1>7. CASE t \in DOMAIN logs
  <2> DEFINE f == file[t]
             r == GetVersion(f.commits, logs[t], v)
             log == Remember(logs[t], v, r)
             i == v - f.base + 1
  <2>1. /\ reader' = [pc |-> "read", version |-> v, result |-> r]
        /\ logs' = [logs EXCEPT ![t] = log]
    BY <1>1, <1>7
  <2>2. FileOK(f) /\ HandleOK(f, logs[t]) /\ v \in Nat
    BY <1>3, <1>4, <1>7 DEF Cached
  <2>3. /\ v > f.base /\ v <= Newest(f) => r = Done(f.commits[i].hash) /\ i \in 2..Len(f.commits)
        /\ ~(v > f.base /\ v <= Newest(f)) => r = Failed
        /\ logs[t].md.version = Newest(f)
    BY <2>2, HandleReads
  <2>4. /\ v > f.base /\ v <= Newest(f) => v \in DOMAIN written /\ written[v] = f.commits[i].hash
        /\ ~(v > f.base /\ v <= Newest(f)) => v \notin DOMAIN written
    BY <1>2, <1>4, ReaderFinds
  <2>5. /\ Len(f.commits) \in Nat /\ f.base \in Nat /\ f.commits # <<>> /\ Last(f.commits) = f.commits[Len(f.commits)]
        /\ Newest(f) = f.base + Len(f.commits) - 1 /\ Newest(f) \in Nat
        /\ \A k \in 2..Len(f.commits) : f.commits[k].hash \in AllTexts
    <3>1. f.commits # <<>>
      BY <2>2 DEF HandleOK
    <3>2. Chain(f.base, f.commits) /\ f.base \in Nat
      BY <2>2, FileFacts
    <3>3. Last(f.commits) = f.commits[Len(f.commits)] /\ Len(f.commits) >= 1
      BY <3>1, <3>2, ChainLast
    <3> QED
      BY <2>2, <3>1, <3>3, FileFacts
  <2> HIDE DEF f, r, i, log
  <2>6. r \in {Failed} \cup {Done(x) : x \in AllTexts}
    BY <2>3, <2>5
  <2>7. Failed.ok = FALSE /\ \A x : Done(x).ok = TRUE /\ Done(x).text = x
    BY DEF Failed, Done
  <2>8. IF v \in DOMAIN written THEN r = Done(written[v]) ELSE ~r.ok
    BY <2>3, <2>4, <2>7
  <2>9. ReaderInv'
    <3>1. reader' \in {[pc |-> "read", version |-> w, result |-> q] :
                         w \in 1..version', q \in {Failed} \cup {Done(x) : x \in AllTexts}}
      <4> DEFINE W == 1..version'
                 Q == {Failed} \cup {Done(x) : x \in AllTexts}
      <4>1. v \in W /\ r \in Q
        BY <1>1, <1>4, <2>6
      <4> DEFINE rec == [pc |-> "read", version |-> v, result |-> r]
                 U == {[pc |-> "read", version |-> w, result |-> q] : w \in W, q \in Q}
      <4> HIDE DEF W, Q
      <4>2. rec \in U
        BY <4>1
      <4>3. reader' = rec
        BY <2>1
      <4> HIDE DEF rec, U
      <4>4. reader' \in U
        BY <4>2, <4>3
      <4> QED
        BY <4>4 DEF U, W, Q
    <3>2. reader'.version = v /\ reader'.result = r
      BY <2>1
    <3> QED
      BY <1>1, <2>8, <3>1, <3>2 DEF ReaderInv
  <2>10. HandleOK(f, log)
    <3>1. CASE r.ok /\ v = logs[t].md.version
      <4>1. v > f.base /\ v <= Newest(f)
        BY <2>3, <2>7, <3>1
      <4>2. i = Len(f.commits) /\ i \in 2..Len(f.commits)
        <5>1. v = f.base + Len(f.commits) - 1
          BY <2>3, <2>5, <3>1
        <5>2. i = Len(f.commits)
          BY <2>5, <5>1 DEF i
        <5> QED
          BY <2>3, <4>1, <5>2
      <4>3. r.text = Last(f.commits).hash
        BY <2>3, <2>5, <2>7, <4>1, <4>2
      <4>4. logs[t] = [md |-> Last(f.commits).md, text |-> logs[t].text]
        BY <2>2 DEF HandleOK
      <4>5. log = [logs[t] EXCEPT !.text = r.text]
        BY <3>1 DEF log, Remember
      <4>6. log = [md |-> Last(f.commits).md, text |-> r.text]
        BY <4>4, <4>5
      <4>7. Len(f.commits) > 1
        BY <2>5, <4>2
      <4> QED
        BY <2>5, <4>3, <4>6, <4>7 DEF HandleOK
    <3>2. CASE ~(r.ok /\ v = logs[t].md.version)
      BY <2>2, <3>2 DEF log, Remember
    <3> QED
      BY <3>1, <3>2
  <2>11. CacheInv' /\ DOMAIN logs' = DOMAIN logs
    <3>1. ASSUME NEW u \in ToSet(lru) PROVE HandleOK(file'[u], logs'[u])
      BY <1>1, <1>3, <2>1, <2>10 DEF Cached, f
    <3>2. logs' = [u \in ToSet(lru) |-> logs'[u]]
      BY <1>3, <2>1 DEF Cached
    <3>3. Cached(file', logs', lru') /\ ToSet(lru') \subseteq 1..tiles'
      BY <1>1, <1>3, <3>1, <3>2 DEF Cached, CacheInv
    <3>4. CacheInv' /\ DOMAIN logs' = ToSet(lru')
      BY <3>3, CacheKept
    <3> QED
      BY <1>1, <1>3, <3>4
  <2>12. WriterInv'
    BY <1>1, <1>3, <2>11 DEF WriterInv, Idle
  <2> QED
    BY <1>1, <1>2, <1>5, <2>9, <2>11, <2>12, StillOpen
<1> QED
  BY <1>6, <1>7

LEMMA ReadFailsStep == Inv /\ ReadFails => Inv'
<1> SUFFICES ASSUME Inv, ReadFails PROVE Inv'
  OBVIOUS
<1>1. /\ reader.pc = "opening" /\ reader' = Idle
      /\ UNCHANGED <<file, up, tiles, version, logs, lru, writer, written>>
  BY DEF ReadFails
<1>2. up
  BY <1>1 DEF Inv, Closed, Idle
<1>3. FilesInv' /\ WrittenInv' /\ CacheInv' /\ WriterInv'
  BY <1>1, <1>2, OpenFacts DEF FilesInv, WrittenInv, CacheInv, WriterInv, Idle
<1>4. ReaderInv'
  BY <1>1 DEF ReaderInv, Idle
<1> QED
  BY <1>1, <1>2, <1>3, <1>4, StillOpen

LEMMA ReadDoneStep == Inv /\ ReadDone => Inv'
<1> SUFFICES ASSUME Inv, ReadDone PROVE Inv'
  OBVIOUS
<1>1. /\ reader.pc = "read" /\ reader' = Idle
      /\ UNCHANGED <<file, up, tiles, version, logs, lru, writer, written>>
  BY DEF ReadDone
<1>2. up
  BY <1>1 DEF Inv, Closed, Idle
<1>3. FilesInv' /\ WrittenInv' /\ CacheInv' /\ WriterInv'
  BY <1>1, <1>2, OpenFacts DEF FilesInv, WrittenInv, CacheInv, WriterInv, Idle
<1>4. ReaderInv'
  BY <1>1 DEF ReaderInv, Idle
<1> QED
  BY <1>1, <1>2, <1>3, <1>4, StillOpen

\* A log that has just been opened, with nothing under way.
LEMMA JustOpened ==
  ASSUME FilesInv', WrittenInv', up', Cached(file', logs', lru'),
         tiles' = Len(file'), Len(file') >= 1, Len(file') \in ToSet(lru'),
         version' = logs'[Len(file')].md.version, writer' = Idle, reader' = Idle,
         up' \in BOOLEAN
  PROVE  Inv'
<1> DEFINE n == Len(file')
           f == file'[n]
<1>1. n \in Nat /\ DOMAIN file' = 1..n /\ n >= 1
  BY SeqFacts DEF FilesInv
<1>2. FileOK(f) /\ HandleOK(f, logs'[n])
  BY <1>1 DEF FilesInv, Cached
<1>3. version' = Newest(f) /\ Newest(f) \in Nat
  <2>1. 0 \in Nat
    OBVIOUS
  <2>2. logs'[n].md.version = Newest(f)
    BY <1>2, <2>1, HandleReads
  <2> QED
    BY <1>2, <2>2, FileFacts
<1>4. ToSet(lru') \subseteq 1..tiles'
  BY <1>1 DEF Cached
<1>5. CacheInv'
  BY <1>4, CacheKept
<1>6. WriterInv' /\ ReaderInv'
  BY DEF WriterInv, ReaderInv, Idle
<1>7. writer'.pc = "idle"
  BY DEF Idle
<1>8. tiles' \in Nat \ {0} /\ tiles' = n
  BY <1>1
<1> HIDE DEF f, n
<1>9. version' = Newest(f) - (IF writer'.pc = "written" THEN 1 ELSE 0)
  BY <1>3, <1>7
<1>10. OpenInv'
  BY <1>3, <1>5, <1>6, <1>7, <1>8, <1>9 DEF OpenInv, f, n
<1> QED
  BY <1>10 DEF Inv

LEMMA OpenStep == Inv /\ Open => Inv'
<1> SUFFICES ASSUME Inv, Open PROVE Inv'
  OBVIOUS
<1>1. /\ ~up /\ up' = TRUE /\ tiles' = Len(file')
      /\ version' = logs'[Len(file')].md.version
      /\ UNCHANGED <<writer, reader, written>>
  BY DEF Open
<1>2. FilesInv /\ WrittenInv /\ Closed
  BY <1>1 DEF Inv
<1>3. logs = <<>> /\ lru = <<>> /\ writer' = Idle /\ reader' = Idle
  BY <1>1, <1>2 DEF Closed
<1>4. Len(file) \in Nat /\ DOMAIN file = 1..Len(file) /\ (file = <<>> <=> Len(file) = 0)
  BY <1>2, FileIndices
<1>5. CASE file = <<>>
  <2> DEFINE c == CreateAt(0)
             f == [base |-> 0, commits |-> c, synced |-> 0]
  <2>1. file' = <<f>> /\ logs' = <<Adopt(c)>> /\ lru' = <<1>>
    BY <1>5 DEF Open, NewFile
  <2>2. Chain(0, c) /\ c # <<>> /\ Len(c) = 1
    BY ChainCreate
  <2> HIDE DEF c
  <2>3. f.base = 0 /\ f.commits = c /\ f.synced = 0 /\ f = [base |-> f.base, commits |-> f.commits, synced |-> f.synced]
    OBVIOUS
  <2> HIDE DEF f
  <2>4. FileOK(f)
    <3>1. Newest(f) = 0 /\ 0 <= MaxVersions
      BY <2>2, <2>3, OlderAssumption DEF Newest
    <3> QED
      BY <2>2, <2>3, <3>1 DEF FileOK
  <2>5. IsSeq(file') /\ Len(file') = 1 /\ DOMAIN file' = {1} /\ file'[1] = f
    <3>1. file' \in Seq({f}) /\ Len(file') = 1 /\ file'[1] = f
      BY <2>1
    <3>2. DOMAIN file' = 1..1
      BY <3>1
    <3> QED
      BY <3>1, <3>2, AnySeq
  <2>6. FilesInv'
    BY <2>3, <2>4, <2>5 DEF FilesInv
  <2>7. WrittenInv'
    <3>1. 2..Len(f.commits) = {}
      <4>1. Len(f.commits) = 1 /\ 2..1 = {}
        BY <2>2, <2>3
      <4> QED
        BY <4>1
    <3>2. Stored(file') = {} /\ Stored(file) = {}
      <4>1. \A v : v \notin Stored(file')
        BY <2>5, <2>6, <3>1, StoredIsP
      <4> QED
        BY <1>2, <1>5, <4>1, NothingStored
    <3> QED
      BY <1>1, <1>2, <2>5, <3>1, <3>2 DEF WrittenInv
  <2>8. Cached(file', logs', lru') /\ ToSet(lru') = {1}
    <3>1. lru' \in Seq({1}) /\ DOMAIN lru' = {1} /\ lru'[1] = 1
      <4>1. lru' \in Seq({1}) /\ Len(lru') = 1 /\ lru'[1] = 1
        BY <2>1
      <4>2. DOMAIN lru' = 1..1
        BY <4>1
      <4> QED
        BY <4>1, <4>2
    <3>2. IsSeq(lru') /\ ToSet(lru') = {1}
      BY <3>1, AnySeq DEF ToSet
    <3>3. logs' = [t \in {1} |-> logs'[t]] /\ logs'[1] = Adopt(c)
      <4>1. logs' \in Seq({Adopt(c)}) /\ Len(logs') = 1 /\ logs'[1] = Adopt(c)
        BY <2>1
      <4>2. logs' = [t \in 1..1 |-> logs'[t]]
        BY <4>1
      <4>3. 1..1 = {1}
        OBVIOUS
      <4> QED
        BY <4>1, <4>2, <4>3
    <3>4. HandleOK(f, Adopt(c))
      BY <2>2, <2>3, AdoptOK
    <3> QED
      BY <2>5, <3>2, <3>3, <3>4 DEF Cached
  <2> QED
    BY <1>1, <1>3, <2>5, <2>6, <2>7, <2>8, JustOpened
<1>6. CASE file # <<>>
  <2> DEFINE n == Len(file)
  <2>1. OpenTile(n, n)
    BY <1>6 DEF Open
  <2>2. n \in Nat /\ n >= 1 /\ n \in DOMAIN file
    BY <1>4, <1>6
  <2>3. Cached(file, logs, lru) /\ ToSet(lru) = {}
    <3>1. IsSeq(lru) /\ ToSet(lru) = {}
      <4>1. lru \in Seq({}) /\ Len(lru) = 0
        BY <1>3
      <4>2. DOMAIN lru = 1..0 /\ 1..0 = {}
        BY <4>1
      <4> QED
        BY <4>1, <4>2, AnySeq DEF ToSet
    <3>2. logs = [t \in {} |-> logs[t]]
      BY <1>3
    <3> QED
      BY <3>1, <3>2 DEF Cached
  <2>4. /\ FilesInv' /\ WrittenInv' /\ Len(file') = n /\ Cached(file', logs', lru')
        /\ n \in ToSet(lru')
    BY <1>1, <1>2, <2>1, <2>2, <2>3, TileOpened
  <2> HIDE DEF n
  <2> QED
    BY <1>1, <1>3, <2>2, <2>4, JustOpened
<1> QED
  BY <1>5, <1>6

\* A first file that could not be written holds nothing.
LEMMA EmptyFile ==
  ASSUME FilesInv, file = <<>>, file' = <<NewFile(0)>>
  PROVE  FilesInv' /\ Stored(file') = {} /\ Stored(file) = {}
         /\ DOMAIN file' = {1} /\ file'[1] = NewFile(0)
<1> DEFINE f == NewFile(0)
<1>1. f.base = 0 /\ f.commits = <<>> /\ f.synced = 0 /\ f = [base |-> f.base, commits |-> f.commits, synced |-> f.synced]
  BY DEF NewFile
<1> HIDE DEF f
<1>2. FileOK(f)
  <2>1. Newest(f) = 0 /\ 0 <= MaxVersions
    BY <1>1, OlderAssumption DEF Newest
  <2>2. Chain(0, <<>>)
    <3>1. IsSeq(<<>>) /\ Len(<<>>) = 0 /\ 2..0 = {}
      BY DEF IsSeq
    <3> QED
      BY <3>1 DEF Chain
  <2>3. f.synced \in 0..Len(f.commits)
    BY <1>1
  <2> QED
    BY <1>1, <2>1, <2>2, <2>3 DEF FileOK
<1>3. IsSeq(file') /\ Len(file') = 1 /\ DOMAIN file' = {1} /\ file'[1] = f
  <2>1. file' = <<f>>
    BY DEF f
  <2>2. file' \in Seq({f}) /\ Len(file') = 1 /\ file'[1] = f
    BY ONLY <2>1
  <2>3. DOMAIN file' = {1}
    <3>1. DOMAIN file' = 1..1 /\ 1..1 = {1}
      BY ONLY <2>2
    <3> QED
      BY ONLY <3>1
  <2>4. IsSeq(file')
    BY <2>2, AnySeq
  <2> QED
    BY ONLY <2>2, <2>3, <2>4
<1>4. FilesInv'
  BY <1>1, <1>2, <1>3 DEF FilesInv
<1>5. Stored(file') = {}
  <2>1. 2..Len(f.commits) = {}
    BY <1>1
  <2>2. \A v : v \notin Stored(file')
    BY <1>3, <1>4, <2>1, StoredIsP
  <2> QED
    BY <2>2
<1> QED
  BY <1>3, <1>4, <1>5, NothingStored DEF f

LEMMA OpenFailsStep == Inv /\ OpenFails => Inv'
<1> SUFFICES ASSUME Inv, OpenFails PROVE Inv'
  OBVIOUS
<1>1. ~up /\ UNCHANGED <<up, tiles, version, logs, lru, writer, reader, written>>
  BY DEF OpenFails
<1>2. FilesInv /\ WrittenInv /\ Closed
  BY <1>1 DEF Inv
<1>3. Closed' /\ ~up' /\ up' \in BOOLEAN
  BY <1>1, <1>2 DEF Closed, Inv
<1>4. CASE file' = file
  <2>1. FilesInv' /\ WrittenInv'
    BY <1>1, <1>2, <1>4 DEF FilesInv, WrittenInv
  <2> QED
    BY <1>3, <2>1 DEF Inv
<1>5. CASE file = <<>> /\ file' = <<NewFile(0)>>
  <2>1. FilesInv' /\ Stored(file') = Stored(file) /\ DOMAIN file' = {1} /\ file'[1] = NewFile(0)
    BY <1>2, <1>5, EmptyFile
  <2>2. 2..Len(file'[1].commits) = {}
    BY <2>1 DEF NewFile
  <2>3. WrittenInv'
    BY <1>1, <1>2, <2>1, <2>2 DEF WrittenInv
  <2> QED
    BY <1>3, <2>1, <2>3 DEF Inv
<1> QED
  BY <1>4, <1>5 DEF OpenFails

LEMMA CloseStep == Inv /\ Close => Inv'
<1> SUFFICES ASSUME Inv, Close PROVE Inv'
  OBVIOUS
<1>1. /\ up /\ Reset /\ written' = written
      /\ file' = [t \in DOMAIN file |-> IF t \in DOMAIN logs THEN Synced(file[t]) ELSE file[t]]
  BY DEF Close
<1>2. FilesInv /\ WrittenInv
  BY DEF Inv
<1>3. ASSUME NEW t \in DOMAIN file PROVE Touched(file[t], file'[t])
  <2>1. FileOK(file[t])
    BY <1>2 DEF FilesInv
  <2>2. /\ file[t] = [base |-> file[t].base, commits |-> file[t].commits, synced |-> file[t].synced]
        /\ Len(file[t].commits) \in Nat /\ file[t].synced \in Nat /\ file[t].synced <= Len(file[t].commits)
    BY <2>1, FileFacts DEF FileOK
  <2>3. Synced(file[t]) = [base |-> file[t].base, commits |-> file[t].commits, synced |-> Len(file[t].commits)]
    BY <2>2 DEF Synced
  <2>4. file'[t] = Synced(file[t]) \/ file'[t] = file[t]
    BY <1>1
  <2> QED
    BY <2>2, <2>3, <2>4 DEF Touched
<1>4. FilesInv' /\ WrittenInv'
  <2>1. file' = [t \in DOMAIN file |-> file'[t]]
    BY <1>1
  <2> QED
    BY <1>1, <1>2, <1>3, <2>1, FilesTouched
<1>5. Closed' /\ up' = FALSE
  BY <1>1 DEF Reset, Closed, Idle
<1> QED
  BY <1>4, <1>5 DEF Inv

\* A crash leaves of every file a prefix, and of the versions those in the prefixes.
LEMMA CrashLeaves ==
  ASSUME Inv, Crash
  PROVE  /\ FilesInv' /\ WrittenInv' /\ Reset /\ FilesInv /\ WrittenInv
         /\ DOMAIN file' = DOMAIN file /\ DOMAIN written' \subseteq DOMAIN written
         /\ written' = Restrict(written, Stored(file'))
         /\ \A t \in DOMAIN file :
              /\ file[t].synced <= Len(file'[t].commits) /\ Len(file'[t].commits) <= Len(file[t].commits)
              /\ file'[t].synced = Len(file'[t].commits)
              /\ \A i \in 1..Len(file'[t].commits) : file'[t].commits[i] = file[t].commits[i]
<1>1. PICK left \in [DOMAIN file -> 0..Max({Len(f.commits) : f \in ToSet(file)})] :
        /\ \A t \in DOMAIN file :
             /\ left[t] \in (IF "power" \in Faults THEN file[t].synced
                             ELSE Len(file[t].commits))..Len(file[t].commits)
        /\ file' = [t \in DOMAIN file |->
                      [file[t] EXCEPT !.commits = SubSeq(@, 1, left[t]), !.synced = left[t]]]
  BY DEF Crash
<1>2. /\ written' = Restrict(written, Stored(file')) /\ Reset
      /\ FilesInv /\ WrittenInv
  BY DEF Crash, Inv
<1>3. Len(file) \in Nat /\ DOMAIN file = 1..Len(file)
  BY <1>2, FileIndices
<1>4. ASSUME NEW t \in DOMAIN file
      PROVE  /\ file'[t].commits = SubSeq(file[t].commits, 1, left[t])
             /\ file'[t] = [base |-> file[t].base, commits |-> file'[t].commits, synced |-> left[t]]
             /\ file'[t].base = file[t].base /\ file'[t].synced = left[t]
             /\ left[t] \in Nat /\ left[t] >= file[t].synced /\ left[t] <= Len(file[t].commits)
             /\ Len(file'[t].commits) = left[t]
             /\ \A i \in 1..left[t] : file'[t].commits[i] = file[t].commits[i]
             /\ FileOK(file'[t]) /\ Newest(file'[t]) <= Newest(file[t])
             /\ Newest(file'[t]) \in Nat /\ Newest(file[t]) \in Nat /\ file[t].base \in Nat
  <2> DEFINE f == file[t]
             g == file'[t]
             k == left[t]
             c == f.commits
  <2>1. FileOK(f)
    BY <1>2 DEF FilesInv
  <2>2. /\ f = [base |-> f.base, commits |-> c, synced |-> f.synced]
        /\ f.base \in Nat /\ Chain(f.base, c) /\ IsSeq(c) /\ Newest(f) <= MaxVersions
        /\ Len(c) \in Nat /\ f.synced \in Nat /\ f.synced <= Len(c) /\ Newest(f) \in Nat
    BY <2>1, FileFacts DEF FileOK
  <2>3. k \in Nat /\ k >= f.synced /\ k <= Len(c)
    <3>1. k \in f.synced..Len(c) \/ k \in Len(c)..Len(c)
      BY <1>1
    <3> HIDE DEF k, c, f
    <3> QED
      BY <2>2, <3>1
  <2>4. g = [f EXCEPT !.commits = SubSeq(@, 1, k), !.synced = k]
    BY <1>1
  <2>5. g = [base |-> f.base, commits |-> SubSeq(c, 1, k), synced |-> k]
    BY <2>2, <2>4
  <2> HIDE DEF f, g, k, c
  <2>6. g.commits = SubSeq(c, 1, k) /\ g.base = f.base /\ g.synced = k
    BY <2>5
  <2>7. k \in 0..Len(c)
    BY <2>2, <2>3
  <2>8. IsSeq(g.commits) /\ Len(g.commits) = k /\ \A i \in 1..k : g.commits[i] = c[i]
    BY <2>2, <2>6, <2>7, Prefix
  <2>9. Chain(g.base, g.commits)
    BY <2>2, <2>6, <2>7, ChainPrefix
  <2>10. Newest(g) \in Nat /\ Newest(g) <= Newest(f)
    <3>1. Newest(g) = f.base + (IF k = 0 THEN 0 ELSE k - 1)
      BY <2>3, <2>6, <2>8, SeqFacts DEF Newest
    <3>2. Newest(f) = f.base + (IF Len(c) = 0 THEN 0 ELSE Len(c) - 1)
      BY <2>2, SeqFacts DEF Newest, c
    <3> QED
      BY <2>2, <2>3, <3>1, <3>2
  <2>11. FileOK(g)
    <3>1. g.synced \in 0..Len(g.commits)
      BY <2>3, <2>6, <2>8
    <3>2. MaxVersions \in Nat
      BY OlderAssumption
    <3>3. Newest(g) <= MaxVersions
      BY <2>2, <2>10, <3>2
    <3> QED
      BY <2>2, <2>5, <2>6, <2>9, <3>1, <3>3 DEF FileOK
  <2> QED
    BY <2>2, <2>3, <2>5, <2>6, <2>8, <2>10, <2>11 DEF f, g, k, c
<1>5. IsSeq(file') /\ DOMAIN file' = DOMAIN file /\ Len(file') = Len(file)
  <2>1. file' = [t \in 1..Len(file) |-> file'[t]]
    BY <1>1, <1>3
  <2> QED
    BY <1>3, <2>1, FunctionSeq
<1>6. FilesInv'
  <2>1. file' # <<>> => file'[1].base = 0
    <3> SUFFICES ASSUME file' # <<>> PROVE file'[1].base = 0
      OBVIOUS
    <3>1. Len(file') # 0
      BY <1>5, SeqFacts
    <3>2. 1 \in DOMAIN file /\ file # <<>>
      BY <1>2, <1>3, <1>5, <3>1, FileIndices
    <3> QED
      BY <1>2, <1>4, <3>2 DEF FilesInv
  <2>2. ASSUME NEW t \in DOMAIN file, NEW u \in DOMAIN file, t < u
        PROVE  Newest(file'[t]) <= file'[u].base
    <3>1. Newest(file[t]) <= file[u].base
      BY <1>2, <2>2 DEF FilesInv
    <3>2. /\ Newest(file'[t]) <= Newest(file[t]) /\ Newest(file'[t]) \in Nat /\ Newest(file[t]) \in Nat
          /\ file'[u].base = file[u].base /\ file[u].base \in Nat
      BY <1>4
    <3> QED
      BY <3>1, <3>2
  <2> QED
    BY <1>4, <1>5, <2>1, <2>2 DEF FilesInv
<1>7. \A t \in DOMAIN file : /\ 2..Len(file'[t].commits) \subseteq 2..Len(file[t].commits)
                             /\ \A i \in 2..Len(file'[t].commits) : file'[t].commits[i] = file[t].commits[i]
  <2> SUFFICES ASSUME NEW t \in DOMAIN file
               PROVE  /\ 2..Len(file'[t].commits) \subseteq 2..Len(file[t].commits)
                      /\ \A i \in 2..Len(file'[t].commits) : file'[t].commits[i] = file[t].commits[i]
    OBVIOUS
  <2>1. /\ Len(file'[t].commits) \in Nat /\ Len(file[t].commits) \in Nat
        /\ Len(file'[t].commits) <= Len(file[t].commits)
        /\ \A i \in 1..Len(file'[t].commits) : file'[t].commits[i] = file[t].commits[i]
    <3>1. Len(file[t].commits) \in Nat
      BY <1>2, FileFacts DEF FilesInv
    <3> QED
      BY <1>4, <3>1
  <2> QED
    BY <2>1
<1>8. Stored(file') \subseteq Stored(file)
  <2>1. \A v : v \in Stored(file') => v \in Stored(file)
    BY <1>2, <1>5, <1>6, <1>7, StoredIs, StoredIsP
  <2> QED
    BY <2>1
<1>9. /\ DOMAIN written' = Stored(file') /\ written' = [v \in DOMAIN written' |-> written'[v]]
      /\ \A v \in Stored(file') : written'[v] = written[v]
  BY <1>2 DEF Restrict
<1>10. WrittenInv'
  <2>1. ASSUME NEW t \in DOMAIN file', NEW i \in 2..Len(file'[t].commits)
        PROVE  written'[file'[t].commits[i].version] = file'[t].commits[i].hash
    <3>1. t \in DOMAIN file /\ i \in 2..Len(file[t].commits) /\ file'[t].commits[i] = file[t].commits[i]
      BY <1>5, <1>7, <2>1
    <3>2. file'[t].commits[i].version \in Stored(file')
      BY <1>6, StoredIsP
    <3>3. written[file[t].commits[i].version] = file[t].commits[i].hash
      BY <1>2, <3>1 DEF WrittenInv
    <3> QED
      BY <1>9, <3>1, <3>2, <3>3
  <2> QED
    BY <1>9, <2>1 DEF WrittenInv
<1>11. DOMAIN written' \subseteq DOMAIN written
  BY <1>2, <1>8, <1>9 DEF WrittenInv
<1>12. \A t \in DOMAIN file :
              /\ file[t].synced <= Len(file'[t].commits) /\ Len(file'[t].commits) <= Len(file[t].commits)
              /\ file'[t].synced = Len(file'[t].commits)
              /\ \A i \in 1..Len(file'[t].commits) : file'[t].commits[i] = file[t].commits[i]
  <2> SUFFICES ASSUME NEW t \in DOMAIN file
               PROVE  /\ file[t].synced <= Len(file'[t].commits) /\ Len(file'[t].commits) <= Len(file[t].commits)
                      /\ file'[t].synced = Len(file'[t].commits)
                      /\ \A i \in 1..Len(file'[t].commits) : file'[t].commits[i] = file[t].commits[i]
    OBVIOUS
  <2>1. file[t].synced \in Nat
    BY <1>2, FileFacts DEF FilesInv
  <2> QED
    BY <1>4, <2>1
<1> QED
  BY <1>2, <1>5, <1>6, <1>10, <1>11, <1>12

LEMMA CrashStep == Inv /\ Crash => Inv'
<1> SUFFICES ASSUME Inv, Crash PROVE Inv'
  OBVIOUS
<1>1. FilesInv' /\ WrittenInv' /\ Reset
  BY CrashLeaves
<1>2. Closed' /\ up' = FALSE
  BY <1>1 DEF Reset, Closed, Idle
<1> QED
  BY <1>1, <1>2 DEF Inv

LEMMA NextInv == Inv /\ [Next]_vars => Inv'
<1> SUFFICES ASSUME Inv, [Next]_vars PROVE Inv'
  OBVIOUS
<1>1. CASE UNCHANGED vars
  BY <1>1 DEF vars, Inv, FilesInv, WrittenInv, Closed, OpenInv, CacheInv, WriterInv, ReaderInv,
              Idle, TileFor, NewFile
<1>2. CASE Add
  BY <1>2, AddCallStep, AddOpenedStep, AddRollStep, AddRolledStep, AddWriteStep, AddReturnStep,
     AddFailsStep DEF Add
<1>3. CASE Read
  BY <1>3, ReadCallStep, ReadOpenedStep, ReadFailsStep, ReadReturnStep, ReadDoneStep DEF Read
<1> QED
  BY <1>1, <1>2, <1>3, OpenStep, OpenFailsStep, FlushStep, CloseStep, CrashStep DEF Next

-----------------------------------------------------------------------------
(* The theorems.                                                           *)

\* The inductive invariant: it holds in every reachable state.
THEOREM InvAlways == Spec => []Inv
<1>1. Init => Inv
  BY InitInv
<1>2. Inv /\ [Next]_vars => Inv'
  BY NextInv
<1> QED
  BY <1>1, <1>2, PTL DEF Spec

-----------------------------------------------------------------------------
(* Files with a part of a first commit.                                     *)

\* The files so far torn stay empty, and an empty one may be torn.
LEMMA TearsEmpty ==
  ASSUME TornInv, NEW t \in DOMAIN file, OpenThrows(t), file' = file
  PROVE  TornInv'
<1>1. t \in torn \/ file[t].commits = <<>>
  BY DEF OpenThrows
<1>2. file[t].commits = <<>>
  BY <1>1 DEF TornInv
<1>3. torn' = torn \/ torn' = torn \cup {t}
  BY DEF OpenThrows
<1> QED
  BY <1>2, <1>3 DEF TornInv

LEMMA SyncedCommits ==
  ASSUME FilesInv, NEW t \in DOMAIN file
  PROVE  Synced(file[t]).commits = file[t].commits
<1>1. FileOK(file[t])
  BY DEF FilesInv
<1>2. file[t] = [base |-> file[t].base, commits |-> file[t].commits, synced |-> file[t].synced]
  BY <1>1 DEF FileOK
<1>3. Synced(file[t]) = [base |-> file[t].base, commits |-> file[t].commits, synced |-> Len(file[t].commits)]
  BY <1>2 DEF Synced
<1> QED
  BY <1>3

\* What becomes of the files that are torn.
LEMMA StaysTorn ==
  ASSUME TornInv, torn' = torn, DOMAIN file \subseteq DOMAIN file',
         \A t \in torn : file'[t].commits = file[t].commits
  PROVE  TornInv'
BY DEF TornInv

LEMMA TileLeavesTorn ==
  ASSUME FilesInv, TornInv, NEW t \in DOMAIN file, NEW active, OpenTile(t, active), torn' = torn
  PROVE  TornInv'
<1> DEFINE commits == IF file[t].commits = <<>> THEN CreateAt(file[t].base) ELSE file[t].commits
           out == ToSet(Evicted(Used(t, lru), active))
           new(u) == IF u = t THEN [file[t] EXCEPT !.commits = commits] ELSE file[u]
<1>1. t \notin torn /\ file' = [u \in DOMAIN file |-> IF u \in out THEN Synced(new(u)) ELSE new(u)]
  BY DEF OpenTile
<1> HIDE DEF commits, out
<1>2. ASSUME NEW u \in torn PROVE file'[u].commits = file[u].commits
  <2>1. u \in DOMAIN file /\ u # t
    BY <1>1 DEF TornInv
  <2>2. file'[u] = Synced(file[u]) \/ file'[u] = file[u]
    BY <1>1, <2>1
  <2> QED
    BY <2>1, <2>2, SyncedCommits
<1> QED
  BY <1>1, <1>2, StaysTorn

\* The tile an add or a read waits for is one of the files.
LEMMA TilesWaitedFor ==
  ASSUME Inv
  PROVE  /\ writer # Idle => writer.tile \in DOMAIN file
         /\ reader.pc \in {"opening", "got"} => reader.tile \in DOMAIN file
<1>1. CASE ~up
  BY <1>1 DEF Inv, Closed, Idle
<1>2. CASE up
  <2>1. WriterInv /\ ReaderInv /\ tiles \in DOMAIN file /\ 1..tiles \subseteq DOMAIN file
    BY <1>2, OpenFacts
  <2>2. writer # Idle => writer.tile = tiles
    BY <2>1 DEF WriterInv
  <2>3. reader.pc \in {"opening", "got"} => reader.tile \in 1..tiles
    BY <2>1 DEF ReaderInv, Idle
  <2> QED
    BY <2>1, <2>2, <2>3
<1> QED
  BY <1>1, <1>2

LEMMA OpenTorn == Inv /\ TornInv /\ (Open \/ OpenFails) => TornInv'
<1> SUFFICES ASSUME Inv, TornInv, Open \/ OpenFails PROVE TornInv'
  OBVIOUS
<1>1. Len(file) \in Nat /\ DOMAIN file = 1..Len(file) /\ (file = <<>> <=> Len(file) = 0)
  BY FileIndices DEF Inv
<1>2. CASE file = <<>>
  <2>1. torn = {}
    BY <1>1, <1>2 DEF TornInv
  <2>2. Open => torn' = {}
    BY <2>1 DEF Open
  <2>3. CASE OpenFails
    <3>1. file' = <<NewFile(0)>> /\ torn' \subseteq {1}
      BY <1>2, <2>3 DEF OpenFails
    <3>2. FilesInv
      BY DEF Inv
    <3>3. DOMAIN file' = {1} /\ file'[1] = NewFile(0)
      BY <1>2, <3>1, <3>2, EmptyFile
    <3> QED
      BY <3>1, <3>3 DEF TornInv, NewFile
  <2> QED
    BY <2>2, <2>3 DEF TornInv
<1>3. CASE file # <<>>
  <2>1. Len(file) \in DOMAIN file
    BY <1>1, <1>3
  <2>2. CASE Open
    <3>1. OpenTile(Len(file), Len(file)) /\ torn' = torn
      BY <1>3, <2>2 DEF Open
    <3> QED
      BY <2>1, <3>1, TileLeavesTorn DEF Inv
  <2>3. CASE OpenFails
    <3>1. OpenThrows(Len(file)) /\ file' = file
      BY <1>3, <2>3 DEF OpenFails
    <3> QED
      BY <2>1, <3>1, TearsEmpty
  <2> QED
    BY <2>2, <2>3
<1> QED
  BY <1>2, <1>3

LEMMA AddTorn == Inv /\ TornInv /\ Add => TornInv'
<1> SUFFICES ASSUME Inv, TornInv, Add PROVE TornInv'
  OBVIOUS
<1>1. CASE AddCall \/ AddRolled \/ AddReturn
  BY <1>1, StaysTorn DEF AddCall, AddRolled, AddReturn
<1>2. CASE AddOpened
  <2>1. writer # Idle /\ OpenTile(writer.tile, Active) /\ torn' = torn
    BY <1>2 DEF AddOpened, Idle
  <2> QED
    BY <2>1, TilesWaitedFor, TileLeavesTorn DEF Inv
<1>3. CASE AddRoll
  <2>1. file' = Append(file, NewFile(version)) /\ torn' = torn
    BY <1>3 DEF AddRoll
  <2>2. IsSeq(file)
    BY DEF Inv, FilesInv
  <2>3. DOMAIN file \subseteq DOMAIN file' /\ \A t \in DOMAIN file : file'[t] = file[t]
    BY <2>1, <2>2 DEF IsSeq
  <2>4. \A t \in torn : file'[t].commits = file[t].commits
    BY <2>3 DEF TornInv
  <2> QED
    BY <2>1, <2>3, <2>4, StaysTorn
<1>4. CASE AddWrite
  <2> DEFINE t == writer.tile
  <2>1. /\ up /\ t \in DOMAIN logs /\ torn' = torn
        /\ file' = [file EXCEPT ![t].commits = file'[t].commits]
    <3>1. /\ writer.pc = "got" /\ t \in DOMAIN logs /\ torn' = torn
          /\ \E c : file' = [file EXCEPT ![t].commits = Append(@, c)]
      BY <1>4 DEF AddWrite
    <3>2. writer # Idle
      BY <3>1 DEF Idle
    <3>3. up
      BY <3>2 DEF Inv, Closed
    <3>4. t \in DOMAIN file
      BY <3>2, TilesWaitedFor
    <3>5. FileOK(file[t])
      BY <3>4 DEF Inv, FilesInv
    <3> HIDE DEF t
    <3>6. file[t] = [base |-> file[t].base, commits |-> file[t].commits, synced |-> file[t].synced]
      BY <3>5 DEF FileOK
    <3> QED
      BY <3>1, <3>3, <3>4, <3>6
  <2>2. file[t].commits # <<>>
    BY <2>1, OpenFacts DEF CacheInv, HandleOK
  <2>3. t \notin torn
    BY <2>2 DEF TornInv
  <2>4. DOMAIN file' = DOMAIN file /\ \A u \in DOMAIN file : u # t => file'[u] = file[u]
    BY <2>1
  <2> HIDE DEF t
  <2>5. \A u \in torn : file'[u].commits = file[u].commits
    BY <2>3, <2>4 DEF TornInv
  <2> QED
    BY <2>1, <2>4, <2>5, StaysTorn
<1>5. CASE AddFails
  <2>1. file' = file /\ (torn' = torn \/ (writer.pc = "opening" /\ OpenThrows(writer.tile)))
    BY <1>5 DEF AddFails
  <2>2. writer.pc = "opening" => writer # Idle
    BY DEF Idle
  <2> QED
    BY <2>1, <2>2, TilesWaitedFor, TearsEmpty, StaysTorn
<1> QED
  BY <1>1, <1>2, <1>3, <1>4, <1>5 DEF Add

LEMMA ReadTorn == Inv /\ TornInv /\ Read => TornInv'
<1> SUFFICES ASSUME Inv, TornInv, Read PROVE TornInv'
  OBVIOUS
<1>1. CASE ReadCall \/ ReadReturn \/ ReadDone
  BY <1>1, StaysTorn DEF ReadCall, ReadReturn, ReadDone
<1>2. CASE ReadOpened
  <2>1. reader.pc = "opening" /\ OpenTile(reader.tile, Active) /\ torn' = torn
    BY <1>2 DEF ReadOpened
  <2> QED
    BY <2>1, TilesWaitedFor, TileLeavesTorn DEF Inv
<1>3. CASE ReadFails
  <2>1. reader.pc = "opening" /\ OpenThrows(reader.tile) /\ file' = file
    BY <1>3 DEF ReadFails
  <2> QED
    BY <2>1, TilesWaitedFor, TearsEmpty
<1> QED
  BY <1>1, <1>2, <1>3 DEF Read

LEMMA FlushTorn == Inv /\ TornInv /\ (Flush \/ Close) => TornInv'
<1> SUFFICES ASSUME Inv, TornInv, Flush \/ Close PROVE TornInv'
  OBVIOUS
<1>1. torn' = torn /\ DOMAIN file' = DOMAIN file
  BY DEF Flush, Close
<1>2. \A t \in DOMAIN file : file'[t] = Synced(file[t]) \/ file'[t] = file[t]
  BY DEF Flush, Close
<1>3. \A t \in torn : file'[t].commits = file[t].commits
  <2>1. FilesInv
    BY DEF Inv
  <2> QED
    BY <1>2, <2>1, SyncedCommits DEF TornInv
<1> QED
  BY <1>1, <1>3, StaysTorn

LEMMA CrashTorn == Inv /\ Crash => TornInv'
<1> SUFFICES ASSUME Inv, Crash PROVE TornInv'
  OBVIOUS
<1>1. PICK left :
        /\ file' = [t \in DOMAIN file |->
                      [file[t] EXCEPT !.commits = SubSeq(@, 1, left[t]), !.synced = left[t]]]
        /\ torn' \in SUBSET {t \in DOMAIN file : left[t] = 0 /\ (file[t].commits # <<>> \/ t \in torn)}
  BY DEF Crash
<1>2. ASSUME NEW t \in torn' PROVE t \in DOMAIN file' /\ file'[t].commits = <<>>
  <2>1. t \in DOMAIN file /\ left[t] = 0
    BY <1>1
  <2>2. FileOK(file[t])
    BY <2>1 DEF Inv, FilesInv
  <2>3. /\ file[t] = [base |-> file[t].base, commits |-> file[t].commits, synced |-> file[t].synced]
        /\ IsSeq(file[t].commits)
    BY <2>2, FileFacts DEF FileOK
  <2>4. SubSeq(file[t].commits, 1, 0) = <<>>
    BY <2>3 DEF IsSeq
  <2>5. file'[t] = [file[t] EXCEPT !.commits = SubSeq(@, 1, 0), !.synced = 0] /\ t \in DOMAIN file'
    BY <1>1, <2>1
  <2> QED
    BY <2>3, <2>4, <2>5
<1> QED
  BY <1>2 DEF TornInv

LEMMA NextTorn == Inv /\ TornInv /\ [Next]_vars => TornInv'
<1>1. UNCHANGED vars /\ TornInv => TornInv'
  BY DEF vars, TornInv
<1> QED
  BY <1>1, OpenTorn, FlushTorn, CrashTorn, AddTorn, ReadTorn DEF Next

\* A file whose first commit is torn holds no version, and is one of the files.
THEOREM TornAlways == Spec => []TornInv
<1>1. Init => TornInv
  BY DEF Init, TornInv
<1>2. Inv /\ TornInv /\ [Next]_vars => TornInv'
  BY NextTorn
<1> QED
  BY <1>1, <1>2, InvAlways, PTL DEF Spec

\* No version is above the bound.
LEMMA InvBounds == Inv => DOMAIN written \subseteq 1..MaxVersions
<1> SUFFICES ASSUME Inv PROVE DOMAIN written \subseteq 1..MaxVersions
  OBVIOUS
<1>1. FilesInv /\ WrittenInv
  BY DEF Inv
<1>2. DOMAIN written \subseteq 1..MaxVersions
  <2> SUFFICES ASSUME NEW v \in DOMAIN written PROVE v \in 1..MaxVersions
    OBVIOUS
  <2>1. PICK t \in DOMAIN file : \E i \in 2..Len(file[t].commits) : v = file[t].commits[i].version
    BY <1>1, StoredIs DEF WrittenInv
  <2>2. PICK i \in 2..Len(file[t].commits) : v = file[t].commits[i].version
    BY <2>1
  <2>3. FileOK(file[t])
    BY <1>1 DEF FilesInv
  <2>4. /\ v = file[t].base + i - 1 /\ file[t].base < file[t].base + i - 1
        /\ file[t].base + i - 1 <= Newest(file[t]) /\ file[t].base \in Nat
        /\ Newest(file[t]) \in Nat /\ Newest(file[t]) <= MaxVersions /\ Len(file[t].commits) \in Nat
    BY <2>2, <2>3, FileFacts DEF FileOK
  <2>5. v \in Nat /\ v >= 1 /\ v <= MaxVersions /\ MaxVersions \in Nat
    BY <2>4, OlderAssumption
  <2> QED
    BY <2>5
<1> QED
  BY <1>2

LEMMA InvTypes == Inv /\ TornInv => TypeOK
<1> SUFFICES ASSUME Inv, TornInv PROVE TypeOK
  OBVIOUS
<1>1. FilesInv /\ WrittenInv /\ Len(file) \in Nat
  BY FileIndices DEF Inv
<1>2. \A t \in DOMAIN file : file[t].base \in Nat /\ file[t].synced \in 0..Len(file[t].commits)
  BY <1>1 DEF FilesInv, FileOK
<1>3. /\ tiles \in 0..Len(file) /\ (up => tiles > 0)
      /\ DOMAIN logs = ToSet(lru) /\ DOMAIN logs \subseteq 1..tiles
  <2>1. CASE up
    <3>1. tiles \in 1..Len(file) /\ DOMAIN logs = ToSet(lru) /\ ToSet(lru) \subseteq 1..tiles
      BY <2>1, OpenFacts DEF CacheInv
    <3> HIDE DEF Inv
    <3> QED
      BY <1>1, <3>1
  <2>2. CASE ~up
    <3>1. tiles = 0 /\ logs = <<>> /\ lru = <<>>
      BY <2>2 DEF Inv, Closed
    <3>2. DOMAIN <<>> = {} /\ ToSet(<<>>) = {}
      BY DEF ToSet
    <3> QED
      BY <1>1, <2>2, <3>1, <3>2
  <2> QED
    BY <2>1, <2>2
<1>4. DOMAIN written \subseteq 1..MaxVersions
  BY InvBounds
<1> QED
  BY <1>2, <1>3, <1>4 DEF TypeOK, TornInv

\* Type correctness: files keep no more synced than they hold, the log knows only files
\* there are, its cache and the order in which it is used are of the same known tiles.
THEOREM TypesAlways == Spec => []TypeOK
BY InvAlways, TornAlways, InvTypes, PTL

LEMMA InvAgrees == Inv => LogsAgree
<1> SUFFICES ASSUME Inv PROVE LogsAgree
  OBVIOUS
<1>1. CASE up
  <2>1. /\ FilesInv /\ WrittenInv /\ WriterInv /\ Cached(file, logs, lru) /\ DOMAIN logs = ToSet(lru)
        /\ \A t \in DOMAIN file : FileOK(file[t])
    BY <1>1, OpenFacts
  <2>2. ASSUME NEW t \in DOMAIN logs
        PROVE  /\ logs[t].md = Last(file[t].commits).md
               /\ logs[t].text # NoText => logs[t].text = written[logs[t].md.version]
    <3> DEFINE f == file[t]
               log == logs[t]
               n == Len(f.commits)
    <3>1. t \in DOMAIN file /\ FileOK(f) /\ HandleOK(f, log)
      BY <2>1 DEF Cached
    <3>2. log.md = Last(f.commits).md /\ (log.text # NoText => n > 1 /\ log.text = Last(f.commits).hash)
      BY <3>1 DEF HandleOK
    <3>3. /\ n \in Nat /\ f.base \in Nat /\ Chain(f.base, f.commits) /\ f.commits # <<>> /\ n >= 1
          /\ \A i \in 2..n : f.commits[i].version = f.base + i - 1
      <4>1. /\ n \in Nat /\ f.base \in Nat /\ Chain(f.base, f.commits) /\ (f.commits = <<>> <=> n = 0)
            /\ \A i \in 2..n : f.commits[i].version = f.base + i - 1
        BY <3>1, FileFacts
      <4>2. f.commits # <<>>
        BY <3>1 DEF HandleOK
      <4> HIDE DEF n, f
      <4> QED
        BY <4>1, <4>2
    <3>4. Last(f.commits) = f.commits[n] /\ Last(f.commits).md.version = f.base + n - 1
      BY <3>3, ChainLast
    <3>5. ASSUME log.text # NoText PROVE log.text = written[log.md.version]
      <4>1. n \in 2..n
        BY <3>2, <3>3, <3>5
      <4>2. written[f.commits[n].version] = f.commits[n].hash
        BY <2>1, <3>1, <4>1 DEF WrittenInv
      <4>3. f.commits[n].version = log.md.version
        BY <3>2, <3>3, <3>4, <4>1
      <4> QED
        BY <3>2, <3>4, <3>5, <4>2, <4>3
    <3> QED
      BY <3>2, <3>5
  <2>3. writer.pc \in {"got", "written"} => writer.tile \in DOMAIN logs
    BY <2>1 DEF WriterInv, Idle
  <2> QED
    BY <2>2, <2>3 DEF LogsAgree
<1>2. CASE ~up
  <2>1. logs = <<>> /\ writer.pc = "idle"
    BY <1>2 DEF Inv, Closed, Idle
  <2>2. DOMAIN logs = {}
    BY <2>1
  <2> QED
    BY <2>1, <2>2 DEF LogsAgree
<1> QED
  BY <1>1, <1>2

\* An open tile stands where its file does and remembers its newest text, and the tile an
\* add goes on with stays open whatever is read beside it.
THEOREM LogsAlwaysAgree == Spec => []LogsAgree
BY InvAlways, InvAgrees, PTL

LEMMA InvOrders == Inv => TilesInOrder
<1> SUFFICES ASSUME Inv PROVE TilesInOrder
  OBVIOUS
<1>1. FilesInv /\ \A t \in DOMAIN file : FileOK(file[t])
  BY DEF Inv, FilesInv
<1>2. ASSUME NEW t \in DOMAIN file
      PROVE  LET c == file[t].commits  es == Entries(c) IN
             /\ file[t].base \in Nat /\ Len(c) \in Nat /\ Newest(file[t]) \in Nat
             /\ DOMAIN es = 1..(Len(c) - 1)
             /\ \A i \in DOMAIN es : /\ i + 1 \in 2..Len(c) /\ es[i] = c[i + 1]
                                     /\ es[i].version = file[t].base + i
                                     /\ file[t].base + i <= Newest(file[t])
  <2> DEFINE c == file[t].commits
             es == Entries(c)
             b == file[t].base
             n == Len(c)
  <2>1. /\ b \in Nat /\ n \in Nat /\ IsSeq(c) /\ Newest(file[t]) \in Nat
        /\ \A i \in 2..n : c[i].version = b + i - 1 /\ b + i - 1 <= Newest(file[t])
    BY <1>1, FileFacts
  <2>2. DOMAIN es = 1..(n - 1) /\ \A i \in 1..(n - 1) : es[i] = c[i + 1]
    BY <2>1, EntriesAre
  <2> HIDE DEF es, c, b, n
  <2>3. ASSUME NEW i \in DOMAIN es
        PROVE  /\ i + 1 \in 2..n /\ es[i] = c[i + 1] /\ es[i].version = b + i
               /\ b + i <= Newest(file[t])
    <3>1. i \in 1..(n - 1) /\ i + 1 \in 2..n
      BY <2>1, <2>2
    <3> DEFINE k == i + 1
    <3>2. k \in 2..n /\ k \in Nat /\ b + k - 1 = b + i /\ es[i] = c[k]
      BY <2>1, <2>2, <3>1
    <3> HIDE DEF k
    <3>3. c[k].version = b + k - 1 /\ b + k - 1 <= Newest(file[t])
      BY <2>1, <3>2
    <3>4. es[i].version = b + i /\ b + i <= Newest(file[t])
      BY <3>2, <3>3
    <3> QED
      BY <3>2, <3>4 DEF k
  <2> QED
    BY <2>1, <2>2, <2>3 DEF es, c, b, n
<1>3. \A t \in DOMAIN file : \A i \in DOMAIN Entries(file[t].commits) :
         Entries(file[t].commits)[i].version = file[t].base + i
  BY <1>2
<1>4. ASSUME NEW t \in DOMAIN file, NEW u \in DOMAIN file, t < u,
             NEW e \in ToSet(Entries(file[t].commits))
      PROVE  e.version <= file[u].base
  <2>1. PICK i \in DOMAIN Entries(file[t].commits) : e = Entries(file[t].commits)[i]
    BY DEF ToSet
  <2>2. e.version = file[t].base + i /\ file[t].base + i <= Newest(file[t]) /\ Newest(file[t]) \in Nat
        /\ file[t].base + i \in Nat /\ file[u].base \in Nat
    <3>1. /\ e.version = file[t].base + i /\ file[t].base + i <= Newest(file[t])
          /\ Newest(file[t]) \in Nat /\ file[t].base \in Nat /\ file[u].base \in Nat
          /\ i + 1 \in 2..Len(file[t].commits) /\ Len(file[t].commits) \in Nat
          /\ i \in 1..(Len(file[t].commits) - 1)
      BY <1>2, <2>1
    <3> QED
      BY <3>1
  <2>3. Newest(file[t]) <= file[u].base
    BY <1>1, <1>4 DEF FilesInv
  <2> QED
    BY <2>2, <2>3
<1>5. ASSUME NEW t \in DOMAIN file, NEW i \in DOMAIN Entries(file[t].commits),
             Entries(file[t].commits)[i].type = "delta"
      PROVE  \E j \in Max({1, i - DiffsPerSnapshot})..i : Entries(file[t].commits)[j].type # "delta"
  <2> DEFINE c == file[t].commits
             es == Entries(c)
             n == Len(c)
  <2>1. /\ n \in Nat /\ DOMAIN es = 1..(n - 1) /\ i + 1 \in 2..n /\ i \in 1..(n - 1)
        /\ \A k \in DOMAIN es : es[k] = c[k + 1]
    BY <1>2
  <2>2. Chain(file[t].base, c)
    BY <1>1 DEF FileOK
  <2>3. VersionAt(file[t].base, c, i + 1)
    BY <2>1, <2>2 DEF Chain
  <2>4. c[i + 1].type = "delta" /\ c[i + 1].md.diffs \in Nat /\ c[i + 1].md.diffs <= DiffsPerSnapshot
    BY <1>5, <2>1, <2>3 DEF VersionAt
  <2>5. PICK j \in 2..(i + 1) : (i + 1) - j <= c[i + 1].md.diffs /\ c[j].type # "delta"
    BY <2>3 DEF VersionAt
  <2> DEFINE d == c[i + 1].md.diffs
             S == {1, i - DiffsPerSnapshot}
  <2> HIDE DEF d, es, n, c
  <2>6. /\ j - 1 \in 1..(n - 1) /\ (j - 1) + 1 = j /\ j - 1 <= i /\ j - 1 >= 1
        /\ j - 1 >= i - DiffsPerSnapshot /\ j - 1 \in Int /\ i \in Int
    BY <2>1, <2>4, <2>5, SnapshotAssumption, SMTT(40) DEF d
  <2>7. Max(S) \in Int /\ Max(S) <= j - 1
    <3>1. Max(S) = IF 1 >= i - DiffsPerSnapshot THEN 1 ELSE i - DiffsPerSnapshot
      <4> DEFINE a == i - DiffsPerSnapshot
      <4>1. a \in Int
        BY <2>1, SnapshotAssumption
      <4> HIDE DEF a
      <4>2. Max({1, a}) = IF 1 >= a THEN 1 ELSE a
        BY <4>1 DEF Max
      <4> QED
        BY <4>2 DEF a
    <3> QED
      BY <2>6, <3>1, SnapshotAssumption
  <2>8. j - 1 \in Max(S)..i
    BY <2>6, <2>7
  <2>9. es[j - 1].type # "delta"
    BY <2>1, <2>5, <2>6
  <2> QED
    BY <2>8, <2>9 DEF es, c
<1> QED
  BY <1>3, <1>4, <1>5 DEF TilesInOrder

\* No version is in two files, none is missing between two of one file, and at most
\* DiffsPerSnapshot deltas in a row are applied to read any.
THEOREM AlwaysInOrder == Spec => []TilesInOrder
BY InvAlways, InvOrders, PTL

LEMMA InvReads == Inv => VersionsReadBack
<1> SUFFICES ASSUME Inv PROVE VersionsReadBack
  OBVIOUS
<1>1. FilesInv /\ WrittenInv /\ Len(file) \in Nat /\ DOMAIN file = 1..Len(file)
      /\ (file = <<>> <=> Len(file) = 0)
  BY FileIndices DEF Inv
<1>2. ASSUME NEW v \in DOMAIN written PROVE ReadBack(v) = Done(written[v])
  <2>1. PICK t \in DOMAIN file : \E i \in 2..Len(file[t].commits) : v = file[t].commits[i].version
    BY <1>1, StoredIs DEF WrittenInv
  <2>2. PICK i \in 2..Len(file[t].commits) : v = file[t].commits[i].version
    BY <2>1
  <2> DEFINE f == file[t]
             c == f.commits
             n == Len(file)
  <2>3. /\ FileOK(f) /\ Len(c) \in Nat /\ f.base \in Nat /\ v = f.base + i - 1
        /\ f.base < f.base + i - 1 /\ f.base + i - 1 <= Newest(f) /\ (c = <<>> <=> Len(c) = 0)
    <3>1. FileOK(f)
      BY <1>1 DEF FilesInv
    <3> QED
      BY <2>2, <3>1, FileFacts
  <2>4. written[v] = c[i].hash
    BY <1>1, <2>2 DEF WrittenInv
  <2>5. n \in 1..n /\ t \in 1..n /\ file # <<>>
    BY <1>1
  <2>6. FileOf(v) = t
    <3>1. Owner(file, n, v) = t
      BY <1>1, <2>3, <2>5, OwnerHolds
    <3>2. FileOf(v) = Owner(file, n, v)
      BY <1>1 DEF FileOf, Owner
    <3> QED
      BY <3>1, <3>2
  <2> HIDE DEF c, f, n
  <2>7. c # <<>> /\ v \in Nat /\ i = v - f.base + 1 /\ v > f.base /\ v <= Newest(f)
    BY <2>2, <2>3 DEF c, f
  <2>8. HandleOK(f, Adopt(c))
    BY <2>7, AdoptOK DEF c
  <2>9. GetVersion(c, Adopt(c), v) = Done(c[i].hash)
    BY <2>3, <2>7, <2>8, HandleReads DEF c
  <2>10. ReadBack(v) = GetVersion(c, Adopt(c), v)
    BY <2>5, <2>6, <2>7 DEF ReadBack, c, f
  <2> QED
    BY <2>4, <2>9, <2>10
<1>3. reader.pc = "read" => IF reader.version \in DOMAIN written
                            THEN reader.result = Done(written[reader.version])
                            ELSE ~reader.result.ok
  <2>1. CASE up
    BY <2>1, OpenFacts DEF ReaderInv, Idle
  <2>2. CASE ~up
    BY <2>2 DEF Inv, Closed, Idle
  <2> QED
    BY <2>1, <2>2
<1> QED
  BY <1>2, <1>3 DEF VersionsReadBack

\* Every version on storage reads back as the text added under its number, and what is
\* read beside an add is that text or a failure.
THEOREM VersionsAlwaysReadBack == Spec => []VersionsReadBack
BY InvAlways, InvReads, PTL

-----------------------------------------------------------------------------
(* The refinement of TextHistory.                                          *)

\* What of the files is synced.
SyncedPart(fs) == [t \in DOMAIN fs |-> [fs[t] EXCEPT !.commits = SubSeq(@, 1, fs[t].synced)]]
Safe(fs) == Stored(SyncedPart(fs))

LEMMA SafeIs ==
  ASSUME NEW fs, \A t \in DOMAIN fs : FileOK(fs[t])
  PROVE  \A v : v \in Safe(fs) <=>
           \E t \in DOMAIN fs : \E i \in 2..fs[t].synced : v = fs[t].commits[i].version
<1> DEFINE gs == SyncedPart(fs)
<1>1. DOMAIN gs = DOMAIN fs
  BY DEF SyncedPart
<1>2. ASSUME NEW t \in DOMAIN fs
      PROVE  /\ IsSeq(gs[t].commits) /\ Len(gs[t].commits) = fs[t].synced
             /\ \A i \in 2..fs[t].synced : gs[t].commits[i] = fs[t].commits[i]
  <2> DEFINE f == fs[t]
             k == f.synced
  <2>1. /\ f = [base |-> f.base, commits |-> f.commits, synced |-> f.synced]
        /\ IsSeq(f.commits) /\ Len(f.commits) \in Nat /\ k \in Nat /\ k <= Len(f.commits)
    BY FileFacts DEF FileOK
  <2>2. gs[t] = [f EXCEPT !.commits = SubSeq(@, 1, k)]
    BY DEF SyncedPart
  <2> HIDE DEF f, k, gs
  <2>3. gs[t].commits = SubSeq(f.commits, 1, k)
    BY <2>1, <2>2
  <2>4. k \in 0..Len(f.commits) /\ 2..k \subseteq 1..k
    BY <2>1
  <2>5. IsSeq(gs[t].commits) /\ Len(gs[t].commits) = k /\ \A i \in 1..k : gs[t].commits[i] = f.commits[i]
    BY <2>1, <2>3, <2>4, Prefix
  <2> QED
    BY <2>4, <2>5 DEF f, k
<1> HIDE DEF gs
<1>3. \A v : v \in Stored(gs) <=>
        \E t \in DOMAIN gs : \E i \in 2..Len(gs[t].commits) : v = gs[t].commits[i].version
  BY <1>1, <1>2, StoredAre
<1>4. \A v : v \in Stored(gs) <=>
        \E t \in DOMAIN fs : \E i \in 2..fs[t].synced : v = fs[t].commits[i].version
  BY <1>1, <1>2, <1>3
<1> QED
  BY <1>4 DEF Safe, gs

\* What is safe is stored.
LEMMA SafeStored == FilesInv => Safe(file) \subseteq Stored(file)
<1> SUFFICES ASSUME FilesInv, NEW v \in Safe(file) PROVE v \in Stored(file)
  OBVIOUS
<1>1. \A t \in DOMAIN file : FileOK(file[t])
  BY DEF FilesInv
<1>2. PICK t \in DOMAIN file : \E i \in 2..file[t].synced : v = file[t].commits[i].version
  BY <1>1, SafeIs
<1>3. 2..file[t].synced \subseteq 2..Len(file[t].commits)
  <2>1. file[t].synced \in Nat /\ Len(file[t].commits) \in Nat /\ file[t].synced <= Len(file[t].commits)
    BY <1>1, FileFacts
  <2> QED
    BY <2>1
<1> QED
  BY <1>2, <1>3, StoredIs

LEMMA SafeStoredP == FilesInv' => Safe(file') \subseteq Stored(file')
<1>1. (FilesInv => Safe(file) \subseteq Stored(file))'
  BY SafeStored, PTL
<1> QED
  BY <1>1 DEF Safe, SyncedPart, Stored

\* The step leaves the history as it is.
Same == written' = written /\ Safe(file') = Safe(file)

LEMMA SameIs == Same => UNCHANGED History!vars
BY DEF Same, Safe, SyncedPart, History!vars

LEMMA TouchedSyncs ==
  ASSUME Inv, FilesInv', WrittenInv', written' = written, DOMAIN file' = DOMAIN file,
         \A t \in DOMAIN file : Touched(file[t], file'[t])
  PROVE  History!Sync
<1>1. FilesInv /\ \A t \in DOMAIN file : FileOK(file[t])
  BY DEF Inv, FilesInv
<1>2. \A t \in DOMAIN file' : FileOK(file'[t])
  BY DEF FilesInv
<1>3. ASSUME NEW v \in Safe(file) PROVE v \in Safe(file')
  <2>1. PICK t \in DOMAIN file : \E i \in 2..file[t].synced : v = file[t].commits[i].version
    BY <1>1, SafeIs
  <2>2. PICK i \in 2..file[t].synced : v = file[t].commits[i].version
    BY <2>1
  <2>3. /\ file[t].synced \in Nat /\ Len(file[t].commits) \in Nat
        /\ file[t].synced <= Len(file[t].commits) /\ (file[t].commits = <<>> <=> Len(file[t].commits) = 0)
    BY <1>1, FileFacts
  <2>4. file[t].commits # <<>>
    BY <2>3
  <2>5. file'[t].commits = file[t].commits /\ file'[t].synced \in Nat /\ file[t].synced <= file'[t].synced
    BY <2>4 DEF Touched
  <2>6. i \in 2..file'[t].synced /\ v = file'[t].commits[i].version
    BY <2>2, <2>3, <2>5
  <2> QED
    BY <1>2, <2>6, SafeIs
<1>4. Safe(file') \subseteq DOMAIN written
  BY SafeStoredP DEF WrittenInv
<1>5. Safe(file) \subseteq Safe(file') /\ Safe(file') \subseteq DOMAIN written /\ written' = written
  BY <1>3, <1>4
<1> QED
  BY <1>5 DEF History!Sync, Safe, SyncedPart

LEMMA InitHistory == Init => History!Init
<1> SUFFICES ASSUME Init PROVE History!Init
  OBVIOUS
<1>1. FilesInv /\ WrittenInv
  BY InitInv DEF Inv
<1>2. \A t \in DOMAIN file : file[t].synced = Len(file[t].commits)
  <2>1. PICK older \in OlderTexts \cup {<<>>} :
          file = IF older = <<>> THEN <<>>
                 ELSE <<Synced([base |-> 0, commits |-> OlderFile(older), synced |-> 0])>>
    BY DEF Init
  <2>2. CASE older = <<>>
    <3>1. file = <<>> /\ DOMAIN file = 1..0 /\ 1..0 = {}
      BY <1>1, <2>1, <2>2, FileIndices
    <3> QED
      BY <3>1
  <2>3. CASE older # <<>>
    <3> DEFINE c == OlderFile(older)
               f == [base |-> 0, commits |-> c, synced |-> Len(c)]
    <3>1. file = <<f>>
      BY <2>1, <2>3 DEF Synced
    <3>2. f.synced = Len(c) /\ f.commits = c
      OBVIOUS
    <3> HIDE DEF f, c
    <3>3. file[1] = f /\ DOMAIN file = 1..1
      BY <3>1
    <3> QED
      BY <3>2, <3>3
  <2> QED
    BY <2>2, <2>3
<1>3. \A t \in DOMAIN file : FileOK(file[t])
  BY <1>1 DEF FilesInv
<1>4. \A v : v \in Safe(file) <=> v \in Stored(file)
  BY <1>1, <1>2, <1>3, SafeIs, StoredIs
<1>5. Safe(file) = DOMAIN written
  BY <1>1, <1>4 DEF WrittenInv
<1> QED
  BY <1>5 DEF History!Init, Safe, SyncedPart

\* A step that keeps what is synced of each file, and the commits that are.
LEMMA SafeKept ==
  ASSUME Inv, FilesInv', DOMAIN file \subseteq DOMAIN file',
         \A t \in DOMAIN file : /\ file'[t].synced = file[t].synced
                                /\ \A i \in 2..file[t].synced : file'[t].commits[i] = file[t].commits[i],
         \A t \in DOMAIN file' : t \notin DOMAIN file => file'[t].synced = 0
  PROVE  Safe(file') = Safe(file)
<1>1. \A t \in DOMAIN file : FileOK(file[t])
  BY DEF Inv, FilesInv
<1>2. \A t \in DOMAIN file' : FileOK(file'[t])
  BY DEF FilesInv
<1>3. ASSUME NEW v, v \in Safe(file) PROVE v \in Safe(file')
  <2>1. PICK t \in DOMAIN file : \E i \in 2..file[t].synced : v = file[t].commits[i].version
    BY <1>1, <1>3, SafeIs
  <2>2. PICK i \in 2..file[t].synced : v = file[t].commits[i].version
    BY <2>1
  <2>3. t \in DOMAIN file' /\ i \in 2..file'[t].synced /\ v = file'[t].commits[i].version
    BY <2>2
  <2> QED
    BY <1>2, <2>3, SafeIs
<1>4. ASSUME NEW v, v \in Safe(file') PROVE v \in Safe(file)
  <2>1. PICK t \in DOMAIN file' : \E i \in 2..file'[t].synced : v = file'[t].commits[i].version
    BY <1>2, <1>4, SafeIs
  <2>2. PICK i \in 2..file'[t].synced : v = file'[t].commits[i].version
    BY <2>1
  <2>3. t \in DOMAIN file
    <3>1. 2..0 = {}
      OBVIOUS
    <3> QED
      BY <2>2, <3>1
  <2>4. i \in 2..file[t].synced /\ v = file[t].commits[i].version
    BY <2>2, <2>3
  <2> QED
    BY <1>1, <2>3, <2>4, SafeIs
<1> QED
  BY <1>3, <1>4

LEMMA OpenHistory == Inv /\ Open => History!Sync \/ Same
<1> SUFFICES ASSUME Inv, Open PROVE History!Sync \/ Same
  OBVIOUS
<1>1. FilesInv' /\ WrittenInv' /\ FilesInv /\ WrittenInv /\ written' = written /\ Closed
  BY OpenStep DEF Inv, Open
<1>2. Len(file) \in Nat /\ DOMAIN file = 1..Len(file) /\ (file = <<>> <=> Len(file) = 0)
  BY <1>1, FileIndices
<1>3. CASE file = <<>>
  <2>1. file' = <<[NewFile(0) EXCEPT !.commits = CreateAt(0)]>>
    BY <1>3 DEF Open
  <2>2. DOMAIN file = {}
    BY <1>2, <1>3
  <2>3. [NewFile(0) EXCEPT !.commits = CreateAt(0)].synced = 0
    BY DEF NewFile
  <2>4. \A t \in DOMAIN file' : file'[t].synced = 0
    <3> DEFINE f == [NewFile(0) EXCEPT !.commits = CreateAt(0)]
    <3> HIDE DEF f
    <3>1. file' = <<f>>
      BY <2>1 DEF f
    <3>2. DOMAIN file' = 1..1 /\ file'[1] = f
      BY <3>1
    <3>3. f.synced = 0
      BY <2>3 DEF f
    <3> QED
      BY <3>2, <3>3
  <2>5. Safe(file') = Safe(file)
    BY <1>1, <2>2, <2>4, SafeKept
  <2> QED
    BY <1>1, <2>5 DEF Same
<1>4. CASE file # <<>>
  <2> DEFINE n == Len(file)
  <2>1. OpenTile(n, n) /\ n \in DOMAIN file
    BY <1>2, <1>4 DEF Open
  <2>2. Cached(file, logs, lru)
    <3>1. lru = <<>> /\ logs = <<>>
      BY <1>1 DEF Closed
    <3>2. IsSeq(lru) /\ ToSet(lru) = {}
      <4>1. lru \in Seq({}) /\ Len(lru) = 0
        BY <3>1
      <4>2. DOMAIN lru = 1..0 /\ 1..0 = {}
        BY <4>1
      <4> QED
        BY <4>1, <4>2, AnySeq DEF ToSet
    <3>3. logs = [t \in {} |-> logs[t]]
      BY <3>1
    <3> QED
      BY <3>2, <3>3 DEF Cached
  <2> HIDE DEF n
  <2>3. DOMAIN file' = DOMAIN file /\ \A t \in DOMAIN file : Touched(file[t], file'[t])
    BY <1>1, <2>1, <2>2, TileOpened
  <2> QED
    BY <1>1, <2>3, TouchedSyncs
<1> QED
  BY <1>3, <1>4

\* Files that are flushed where they stand.
LEMMA FlushedHistory ==
  ASSUME Inv, Inv', written' = written, NEW T,
         file' = [t \in DOMAIN file |-> IF t \in T THEN Synced(file[t]) ELSE file[t]]
  PROVE  History!Sync
<1>1. FilesInv' /\ WrittenInv'
  BY DEF Inv
<1>2. ASSUME NEW t \in DOMAIN file PROVE Touched(file[t], file'[t])
  <2>1. FileOK(file[t])
    BY DEF Inv, FilesInv
  <2>2. /\ file[t] = [base |-> file[t].base, commits |-> file[t].commits, synced |-> file[t].synced]
        /\ Len(file[t].commits) \in Nat /\ file[t].synced \in Nat /\ file[t].synced <= Len(file[t].commits)
    BY <2>1, FileFacts DEF FileOK
  <2>3. Synced(file[t]) = [base |-> file[t].base, commits |-> file[t].commits, synced |-> Len(file[t].commits)]
    BY <2>2 DEF Synced
  <2>4. file'[t] = Synced(file[t]) \/ file'[t] = file[t]
    OBVIOUS
  <2> QED
    BY <2>2, <2>3, <2>4 DEF Touched
<1> QED
  BY <1>1, <1>2, TouchedSyncs

LEMMA FlushHistory == Inv /\ Flush => History!Sync
<1> SUFFICES ASSUME Inv, Flush PROVE History!Sync
  OBVIOUS
<1>1. Inv' /\ written' = written /\ file' = [file EXCEPT ![tiles] = Synced(@)]
  BY FlushStep DEF Flush, Active
<1>2. file' = [t \in DOMAIN file |-> IF t \in {tiles} THEN Synced(file[t]) ELSE file[t]]
  BY <1>1, FileIndices DEF Inv
<1> QED
  BY <1>1, <1>2, FlushedHistory

LEMMA CloseHistory == Inv /\ Close => History!Sync
<1> SUFFICES ASSUME Inv, Close PROVE History!Sync
  OBVIOUS
<1>1. /\ Inv' /\ written' = written
      /\ file' = [t \in DOMAIN file |-> IF t \in DOMAIN logs THEN Synced(file[t]) ELSE file[t]]
  BY CloseStep DEF Close
<1> QED
  BY <1>1, FlushedHistory

LEMMA TileHistory ==
  ASSUME Inv, Inv', up, written' = written, NEW t \in 1..tiles, OpenTile(t, Active)
  PROVE  History!Sync
<1>1. FilesInv' /\ WrittenInv'
  BY DEF Inv
<1>2. FilesInv /\ WrittenInv /\ Cached(file, logs, lru) /\ t \in DOMAIN file
  BY OpenFacts
<1>3. DOMAIN file' = DOMAIN file /\ \A u \in DOMAIN file : Touched(file[u], file'[u])
  BY <1>2, TileOpened
<1> QED
  BY <1>1, <1>3, TouchedSyncs

LEMMA AddOpenedHistory == Inv /\ AddOpened => History!Sync
<1> SUFFICES ASSUME Inv, AddOpened PROVE History!Sync
  OBVIOUS
<1>1. writer.pc = "opening" /\ OpenTile(writer.tile, Active) /\ written' = written /\ Inv'
  BY AddOpenedStep DEF AddOpened
<1>2. up
  BY <1>1 DEF Inv, Closed, Idle
<1>3. writer.tile \in 1..tiles
  <2>1. WriterInv /\ tiles \in Nat /\ tiles \in 1..Len(file)
    BY <1>2, OpenFacts
  <2>2. writer.tile = tiles
    BY <1>1, <2>1 DEF WriterInv, Idle
  <2> QED
    BY <2>1, <2>2
<1> QED
  BY <1>1, <1>2, <1>3, TileHistory

LEMMA ReadOpenedHistory == Inv /\ ReadOpened => History!Sync
<1> SUFFICES ASSUME Inv, ReadOpened PROVE History!Sync
  OBVIOUS
<1>1. reader.pc = "opening" /\ OpenTile(reader.tile, Active) /\ written' = written /\ Inv'
  BY ReadOpenedStep DEF ReadOpened
<1>2. up
  BY <1>1 DEF Inv, Closed, Idle
<1>3. reader.tile \in 1..tiles
  BY <1>1, <1>2, OpenFacts DEF ReaderInv, Idle
<1> QED
  BY <1>1, <1>2, <1>3, TileHistory

LEMMA RollHistory == Inv /\ AddRoll => Same
<1> SUFFICES ASSUME Inv, AddRoll PROVE Same
  OBVIOUS
<1>1. file' = Append(file, NewFile(version)) /\ written' = written /\ FilesInv'
  BY AddRollStep DEF AddRoll, Inv
<1>2. FilesInv /\ Len(file) \in Nat /\ DOMAIN file = 1..Len(file)
  BY FileIndices DEF Inv
<1> DEFINE n == Len(file)
<1>3. DOMAIN file' = 1..(n + 1) /\ file'[n + 1] = NewFile(version) /\ \A t \in 1..n : file'[t] = file[t]
  BY <1>1, <1>2, Appended, SeqFacts DEF FilesInv
<1>4. NewFile(version).synced = 0
  BY DEF NewFile
<1> HIDE DEF n
<1>5. DOMAIN file \subseteq DOMAIN file' /\ \A t \in DOMAIN file' : t \notin DOMAIN file => file'[t].synced = 0
  BY <1>2, <1>3, <1>4 DEF n
<1>6. \A t \in DOMAIN file : file'[t] = file[t]
  BY <1>2, <1>3 DEF n
<1> QED
  BY <1>1, <1>5, <1>6, SafeKept DEF Same

LEMMA WriteHistory == Inv /\ AddWrite => History!Add
<1> SUFFICES ASSUME Inv, AddWrite PROVE History!Add
  OBVIOUS
<1>1. AddsVersion /\ FilesInv' /\ FilesInv
  BY AddWriteStep DEF Inv
<1>2. Safe(file') = Safe(file)
  <2>1. ASSUME NEW t \in DOMAIN file
        PROVE  /\ file'[t].synced = file[t].synced
               /\ \A i \in 2..file[t].synced : file'[t].commits[i] = file[t].commits[i]
    <3>1. file[t].synced \in Nat /\ Len(file[t].commits) \in Nat /\ file[t].synced <= Len(file[t].commits)
      BY <1>1, FileFacts DEF FilesInv
    <3>2. 2..file[t].synced \subseteq 2..Len(file[t].commits)
      BY <3>1
    <3> QED
      BY <1>1, <3>2 DEF AddsVersion
  <2> QED
    BY <1>1, <2>1, SafeKept DEF AddsVersion
<1>3. version + 1 \in 1..MaxVersions /\ \A u \in DOMAIN written : u < version + 1
  <2>1. DOMAIN written \subseteq Nat
    BY InvBounds
  <2> QED
    BY <1>1, <2>1, OlderAssumption DEF AddsVersion
<1>4. PICK x \in AllTexts : written' = [v \in DOMAIN written \cup {version + 1} |->
                                         IF v = version + 1 THEN x ELSE written[v]]
  BY <1>1 DEF AddsVersion
<1>5. \E v \in 1..MaxVersions, y \in AllTexts :
         /\ \A u \in DOMAIN written : u < v
         /\ written' = [u \in DOMAIN written \cup {v} |-> IF u = v THEN y ELSE written[u]]
  BY <1>3, <1>4
<1> QED
  BY <1>2, <1>5 DEF History!Add, Safe, SyncedPart

LEMMA CrashHistory == Inv /\ Crash => History!PowerCut
<1> SUFFICES ASSUME Inv, Crash PROVE History!PowerCut
  OBVIOUS
<1> DEFINE kept == Stored(file')
<1>1. /\ FilesInv' /\ WrittenInv' /\ FilesInv /\ WrittenInv
      /\ DOMAIN file' = DOMAIN file /\ DOMAIN written' \subseteq DOMAIN written
      /\ written' = Restrict(written, kept)
      /\ \A t \in DOMAIN file :
           /\ file[t].synced <= Len(file'[t].commits) /\ Len(file'[t].commits) <= Len(file[t].commits)
           /\ file'[t].synced = Len(file'[t].commits)
           /\ \A i \in 1..Len(file'[t].commits) : file'[t].commits[i] = file[t].commits[i]
  BY CrashLeaves
<1>2. (\A t \in DOMAIN file : FileOK(file[t])) /\ (\A t \in DOMAIN file' : FileOK(file'[t]))
  BY <1>1 DEF FilesInv
<1>3. kept \in SUBSET DOMAIN written
  BY <1>1 DEF WrittenInv
<1>4. Safe(file') = kept
  <2>1. \A v : v \in Safe(file') <=> v \in Stored(file')
    BY <1>1, <1>2, SafeIs, StoredIsP
  <2> QED
    BY <2>1
<1>5. Safe(file) \subseteq kept
  <2> SUFFICES ASSUME NEW v \in Safe(file) PROVE v \in Stored(file')
    OBVIOUS
  <2>1. PICK t \in DOMAIN file : \E i \in 2..file[t].synced : v = file[t].commits[i].version
    BY <1>2, SafeIs
  <2>2. PICK i \in 2..file[t].synced : v = file[t].commits[i].version
    BY <2>1
  <2>3. file[t].synced \in Nat /\ Len(file'[t].commits) \in Nat /\ file[t].synced <= Len(file'[t].commits)
    BY <1>1, <1>2, FileFacts
  <2>4. i \in 2..Len(file'[t].commits) /\ i \in 1..Len(file'[t].commits)
    BY <2>2, <2>3
  <2>5. file'[t].commits[i] = file[t].commits[i]
    BY <1>1, <2>4
  <2> QED
    BY <1>1, <2>2, <2>4, <2>5, StoredIsP
<1> HIDE DEF kept
<1>6. written' = History!Restrict(written, kept)
  BY <1>1 DEF Restrict, History!Restrict
<1>7. \E k \in SUBSET DOMAIN written :
        /\ Safe(file) \subseteq k
        /\ written' = History!Restrict(written, k) /\ Safe(file') = k
  BY <1>3, <1>4, <1>5, <1>6
<1> QED
  BY <1>7 DEF History!PowerCut, Safe, SyncedPart

LEMMA OpenFailsHistory == Inv /\ OpenFails => Same
<1> SUFFICES ASSUME Inv, OpenFails PROVE Same
  OBVIOUS
<1>1. FilesInv /\ written' = written
  BY DEF Inv, OpenFails
<1>2. CASE file' = file
  BY <1>1, <1>2 DEF Same
<1>3. CASE file = <<>> /\ file' = <<NewFile(0)>>
  <2>1. FilesInv' /\ Stored(file') = {} /\ Stored(file) = {}
    BY <1>1, <1>3, EmptyFile
  <2>2. Safe(file') = {} /\ Safe(file) = {}
    BY <1>1, <2>1, SafeStored, SafeStoredP
  <2> QED
    BY <1>1, <2>2 DEF Same
<1> QED
  BY <1>2, <1>3 DEF OpenFails

LEMMA NextHistory == Inv /\ [Next]_vars => [History!Next]_(History!vars)
<1> SUFFICES ASSUME Inv, [Next]_vars, ~Same PROVE History!Add \/ History!Sync \/ History!PowerCut
  BY SameIs DEF History!Next
<1>1. CASE file' = file /\ written' = written
  BY <1>1 DEF Same
<1>2. CASE Open
  BY <1>2, OpenHistory
<1>3. CASE Flush
  BY <1>3, FlushHistory
<1>4. CASE Close
  BY <1>4, CloseHistory
<1>5. CASE Crash
  BY <1>5, CrashHistory
<1>6. CASE Add
  <2>1. AddCall \/ AddRolled \/ AddReturn \/ AddFails => file' = file /\ written' = written
    BY DEF AddCall, AddRolled, AddReturn, AddFails
  <2> QED
    BY <1>1, <1>6, <2>1, AddOpenedHistory, RollHistory, WriteHistory DEF Add
<1>7. CASE Read
  <2>1. ReadCall \/ ReadFails \/ ReadReturn \/ ReadDone => file' = file /\ written' = written
    BY DEF ReadCall, ReadFails, ReadReturn, ReadDone
  <2> QED
    BY <1>1, <1>7, <2>1, ReadOpenedHistory DEF Read
<1>8. UNCHANGED vars => file' = file /\ written' = written
  BY DEF vars
<1>9. OpenFails => Same
  BY OpenFailsHistory
<1> QED
  BY <1>1, <1>2, <1>3, <1>4, <1>5, <1>6, <1>7, <1>8, <1>9 DEF Next

\* The log implements the history of versions: no version is replaced or taken, but by a
\* power cut, and none that was flushed or is in a tile that was closed by that.
THEOREM ImplementsHistory == Spec => HistorySpec
<1>1. Init => History!Init
  BY InitHistory
<1>2. Inv /\ [Next]_vars => [History!Next]_(History!vars)
  BY NextHistory
<1> QED
  BY <1>1, <1>2, InvAlways, PTL DEF Spec, HistorySpec, History!Spec
=============================================================================
