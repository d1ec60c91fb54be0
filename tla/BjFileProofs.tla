------------------------------ MODULE BjFileProofs ------------------------------
(***************************************************************************)
(* TLAPS proofs about BjFile, for every payload set, bound and choice of   *)
(* faults: what a handle stands on verifies, open comes to the last whole  *)
(* commit, nothing durable is lost, and wherever the host keeps the order   *)
(* of writes the file keeps the promise of CommitFile.                      *)
(***************************************************************************)
EXTENDS BjFile, NatLemmas

-----------------------------------------------------------------------------
(* The inductive invariant.                                                *)

DataRecs == [kind : {"data"}, val : Payload]
Sums     == {Append(s, Meta) : s \in Seq(DataRecs)}
Trailers == [kind : {"trailer"}, sum : Sums]
Recs     == DataRecs \cup {Meta} \cup Trailers \cup {Torn}

Types ==
  /\ disk \in Seq(Recs) /\ wb \in Seq(Recs \ {Torn})
  /\ crc \in Seq(DataRecs) /\ crcCommitted \in Seq(DataRecs)
  /\ flen \in 0..Len(disk) /\ kept \in 0..Len(disk)
  /\ open \in BOOLEAN /\ reordered \in BOOLEAN

\* What was handed to the host, and what the handle holds with the buffer.
Handed == SubSeq(disk, 1, flen)
Held   == Handed \o wb

Intact(f, n) == \A q \in 1..n : ~Damaged(f, q)
EndsWhole(f) == f # <<>> => f[Len(f)].kind # "trailer"

\* The records since the last commit.
Since(f) == SubSeq(f, Epoch(f, Len(f) + 1), Len(f))

\* The first n records are intact, and no metadata record follows them.
Layout(f, n) == Intact(f, n) /\ \A p \in (n + 1)..Len(f) : f[p].kind # "meta"

\* The CRCs cover the records since the last commit, no half written trailer ends a
\* buffer, and the buffer holds at most one commit.
Handle ==
  /\ kept <= flen
  /\ crc = Since(Held) /\ crcCommitted = Since(Handed)
  /\ EndsWhole(Held) /\ EndsWhole(Handed)
  /\ \A p \in 1..(Len(wb) - 1) : wb[p].kind # "meta"

\* What failed writes leave past the committed length holds no metadata record, and
\* as long as writes keep their order nothing else follows an intact prefix.
FileInv ==
  /\ Types
  /\ open => Handle
  /\ ~reordered =>
       IF open THEN Intact(Held, Len(Held)) /\ Layout(disk, flen)
               ELSE \E n \in 0..Len(disk) : Layout(disk, n)

-----------------------------------------------------------------------------
(* Damage looks back only.                                                 *)

LEMMA KindsDiffer ==
  ASSUME NEW r \in Recs
  PROVE  /\ r.kind \in {"data", "meta", "trailer", "torn"}
         /\ r.kind = "meta" => r = Meta
         /\ r.kind = "trailer" => r.sum \in Sums
         /\ r.kind = "data" => r \in DataRecs
         /\ (r = Torn) <=> (r.kind = "torn")
  BY DEF Recs, DataRecs, Meta, Trailers, Torn

\* The commit that record q belongs to starts after the last metadata record before q.
LEMMA EpochIs ==
  ASSUME NEW f \in Seq(Recs), NEW q \in 1..(Len(f) + 1)
  PROVE  /\ Epoch(f, q) \in 1..q
         /\ Epoch(f, q) > 1 => f[Epoch(f, q) - 1].kind = "meta"
         /\ \A p \in Epoch(f, q)..(q - 1) : f[p].kind # "meta"
<1> DEFINE S == {0} \cup {p \in 1..(q - 1) : Is(f, p, "meta")}
<1>1. q - 1 \in Nat /\ S \in SUBSET (0..(q - 1)) /\ S # {} /\ q - 1 <= Len(f)
  OBVIOUS
<1>2. \A p \in S : p > 0 => f[p].kind = "meta"
  BY DEF Is
<1>3. \A p \in 1..(q - 1) : f[p].kind = "meta" => p \in S
  BY <1>1 DEF Is
<1> HIDE DEF S
<1>4. Max(S) \in S /\ \A y \in S : y <= Max(S)
  BY <1>1, MaxOfNats
<1>5. Epoch(f, q) = 1 + Max(S)
  BY DEF Epoch, S
<1>6. Max(S) \in 0..(q - 1)
  BY <1>1, <1>4
<1>7. Epoch(f, q) \in 1..q
  BY <1>5, <1>6
<1>8. Epoch(f, q) > 1 => f[Epoch(f, q) - 1].kind = "meta"
  BY <1>2, <1>4, <1>5, <1>6
<1>9. ASSUME NEW p \in Epoch(f, q)..(q - 1) PROVE f[p].kind # "meta"
  <2>1. p \in 1..(q - 1) /\ p > Max(S)
    BY <1>5, <1>6, <1>7
  <2> QED
    BY <2>1, <1>3, <1>4, <1>6
<1> QED
  BY <1>7, <1>8, <1>9

LEMMA EpochAgrees ==
  ASSUME NEW f \in Seq(Recs), NEW g \in Seq(Recs),
         NEW q \in 1..(Len(f) + 1), q <= Len(g) + 1, \A p \in 1..(q - 1) : f[p] = g[p]
  PROVE  Epoch(f, q) = Epoch(g, q)
<1>1. \A p \in 1..(q - 1) : Is(f, p, "meta") <=> Is(g, p, "meta")
  BY DEF Is
<1>2. {p \in 1..(q - 1) : Is(f, p, "meta")} = {p \in 1..(q - 1) : Is(g, p, "meta")}
  BY <1>1
<1> QED
  BY <1>2 DEF Epoch

LEMMA SpanAgreesWith ==
  ASSUME NEW R, NEW f \in Seq(R), NEW g \in Seq(R), NEW a \in Nat, NEW b \in Nat,
         1 <= a, a <= b + 1, b <= Len(f), b <= Len(g), \A p \in a..b : f[p] = g[p]
  PROVE  SubSeq(f, a, b) = SubSeq(g, a, b)
<1> DEFINE s == SubSeq(f, a, b)
           t == SubSeq(g, a, b)
<1>1. /\ s \in Seq(R) /\ t \in Seq(R) /\ Len(s) = b - a + 1 /\ Len(t) = b - a + 1
      /\ \A i \in 1..(b - a + 1) : s[i] = f[a + i - 1] /\ t[i] = g[a + i - 1]
  OBVIOUS
<1>2. \A i \in 1..(b - a + 1) : s[i] = t[i]
  BY <1>1
<1> HIDE DEF s, t
<1>3. s = t
  BY <1>1, <1>2
<1> QED
  BY <1>3 DEF s, t

LEMMA DamageAgrees ==
  ASSUME NEW f \in Seq(Recs), NEW g \in Seq(Recs),
         NEW q \in 1..Len(f), q <= Len(g), \A p \in 1..q : f[p] = g[p]
  PROVE  Damaged(f, q) <=> Damaged(g, q)
<1>1. f[q] = g[q] /\ q \in 1..Len(g) /\ (Is(f, q, "meta") <=> Is(g, q, "meta"))
  BY DEF Is
<1>2. Is(f, q - 1, "trailer") <=> Is(g, q - 1, "trailer")
  BY DEF Is
<1>3. CASE Is(f, q - 1, "trailer")
  <2> DEFINE e == Epoch(f, q)
  <2>1. q - 1 \in 1..Len(f) /\ f[q - 1].kind = "trailer" /\ f[q - 1] = g[q - 1]
    BY <1>3 DEF Is
  <2>2. e \in 1..q /\ e = Epoch(g, q) /\ (e > 1 => f[e - 1].kind = "meta")
    BY EpochIs, EpochAgrees
  <2>3. e <= q - 1
    BY <2>1, <2>2
  <2> HIDE DEF e
  <2>4. SubSeq(f, e, q - 2) = SubSeq(g, e, q - 2)
    BY <2>1, <2>2, <2>3, SpanAgreesWith
  <2>5. Verifies(f, q) <=> Verifies(g, q)
    BY <1>1, <2>1, <2>2, <2>4 DEF Verifies, e
  <2> QED
    BY <1>1, <1>2, <2>5 DEF Damaged
<1>4. CASE ~Is(f, q - 1, "trailer")
  BY <1>1, <1>2, <1>4 DEF Damaged
<1> QED
  BY <1>3, <1>4

LEMMA IntactAgrees ==
  ASSUME NEW f \in Seq(Recs), NEW g \in Seq(Recs), NEW n \in 0..Len(f), n <= Len(g),
         \A p \in 1..n : f[p] = g[p], Intact(f, n)
  PROVE  Intact(g, n)
<1> SUFFICES ASSUME NEW q \in 1..n PROVE ~Damaged(g, q)
  BY DEF Intact
<1> QED
  BY DamageAgrees DEF Intact

-----------------------------------------------------------------------------
(* What open comes to.                                                     *)

\* bjfile_scan_commits comes to the end of a commit, everything up to it is intact, and
\* no later commit end is.
LEMMA GoodIs ==
  ASSUME NEW f \in Seq(Recs)
  PROVE  /\ Good(f) \in 0..Len(f)
         /\ Good(f) > 0 => f[Good(f)].kind = "meta"
         /\ Intact(f, Good(f))
         /\ \A n \in 1..Len(f) : Intact(f, n) /\ f[n].kind = "meta" => n <= Good(f)
<1> DEFINE D == {Len(f) + 1} \cup {p \in 1..Len(f) : Damaged(f, p)}
           d == Min(D)
           S == {0} \cup {q \in 1..(d - 1) : Is(f, q, "meta")}
           g == Max(S)
<1>1. D \in SUBSET Nat /\ D # {} /\ \A p \in D : p \in 1..(Len(f) + 1)
  OBVIOUS
<1>2. \A p \in 1..Len(f) : Damaged(f, p) <=> p \in D
  OBVIOUS
<1> HIDE DEF D
<1>3. d \in 1..(Len(f) + 1) /\ \A p \in D : d <= p
  BY <1>1, MinOfNats
<1> HIDE DEF d
<1>4. d - 1 \in Nat /\ S \in SUBSET (0..(d - 1)) /\ S # {}
  BY <1>3
<1>5. /\ \A q \in S : q > 0 => f[q].kind = "meta"
      /\ \A q \in 1..(d - 1) : f[q].kind = "meta" => q \in S
  BY <1>3 DEF Is
<1> HIDE DEF S
<1>6. g \in S /\ g \in 0..(d - 1) /\ \A q \in S : q <= g
  BY <1>4, MaxOfNats
<1>7. Good(f) = g
  BY DEF Good, g, S, d, D
<1> HIDE DEF g
<1>8. g \in 0..Len(f)
  BY <1>3, <1>6
<1>9. g > 0 => f[g].kind = "meta"
  BY <1>5, <1>6
<1>10. Intact(f, g)
  <2> SUFFICES ASSUME NEW q \in 1..g PROVE ~Damaged(f, q)
    BY DEF Intact
  <2>1. q \in 1..Len(f) /\ q < d
    BY <1>3, <1>6
  <2> QED
    BY <2>1, <1>2, <1>3
<1>11. ASSUME NEW n \in 1..Len(f), Intact(f, n), f[n].kind = "meta"
       PROVE  n <= g
  <2>1. d > n
    <3>1. SUFFICES ASSUME d <= n PROVE FALSE
      BY <1>3
    <3>2. d \in 1..n /\ d \in 1..Len(f)
      BY <3>1, <1>3
    <3>3. Damaged(f, d)
      <4>1. d \in D
        BY <1>1, MinOfNats DEF d
      <4> QED
        BY <4>1, <3>2, <1>2
    <3> QED
      BY <3>2, <3>3, <1>11 DEF Intact
  <2>2. n \in 1..(d - 1)
    BY <2>1, <1>3
  <2> QED
    BY <2>2, <1>5, <1>6, <1>11
<1> QED
  BY <1>7, <1>8, <1>9, <1>10, <1>11

\* The record a trailer's span ends with is a metadata record.
LEMMA SpanEndsWithMeta ==
  ASSUME NEW f \in Seq(Recs), NEW t \in 1..(Len(f) - 1), f[t].kind = "trailer",
         SpanAgrees(f, t)
  PROVE  f[t + 1] = Meta
<1> DEFINE n == Len(f[t].sum) - 1
           w == SubSeq(f, t - n, t - 1)
<1>1. f[t] \in Recs /\ f[t + 1] \in Recs /\ t + 1 \in 1..Len(f) /\ t \in Nat
  OBVIOUS
<1>2. PICK s \in Seq(DataRecs) : f[t].sum = Append(s, Meta)
  BY <1>1, KindsDiffer DEF Sums
<1>3. n = Len(s) /\ n \in Nat /\ Len(Append(s, Meta)) = n + 1
      /\ Append(s, Meta)[n + 1] = Meta
  BY <1>2
<1>4. n < t /\ Append(s, Meta) = Append(w, f[t + 1])
  BY <1>2 DEF SpanAgrees
<1> HIDE DEF n
<1>5. w \in Seq(Recs) /\ Len(w) = n
  BY <1>1, <1>3, <1>4
<1> HIDE DEF w
<1>6. Append(w, f[t + 1])[n + 1] = f[t + 1]
  BY <1>1, <1>5
<1> QED
  BY <1>3, <1>4, <1>6

\* A torn tail is cut off and no more, and the fast path comes to the same file.
LEMMA LayoutOpens ==
  ASSUME NEW f \in Seq(Recs), NEW n \in 0..Len(f), Layout(f, n)
  PROVE  /\ ~Refuses(f)
         /\ TailIntact(f) => n = Len(f) /\ Good(f) = Len(f)
<1>1. /\ Good(f) \in 0..Len(f)
      /\ \A k \in 1..Len(f) : Intact(f, k) /\ f[k].kind = "meta" => k <= Good(f)
  BY GoodIs
<1>2. ASSUME NEW k \in 1..Len(f), f[k].kind = "meta" PROVE k <= n /\ k <= Good(f)
  <2>1. k <= n
    BY <1>2 DEF Layout
  <2>2. Intact(f, k)
    BY <2>1 DEF Layout, Intact
  <2> QED
    BY <2>1, <2>2, <1>1, <1>2
<1>3. ASSUME Refuses(f) PROVE FALSE
  <2>1. PICK t \in (Good(f) + 1)..(Len(f) - 1) : Is(f, t, "trailer") /\ SpanAgrees(f, t)
    BY <1>3 DEF Refuses, VerifiedBeyond
  <2>2. t \in 1..(Len(f) - 1) /\ f[t].kind = "trailer" /\ t + 1 \in 1..Len(f) /\ t + 1 > Good(f)
    BY <2>1, <1>1 DEF Is
  <2>3. f[t + 1].kind = "meta"
    BY <2>1, <2>2, SpanEndsWithMeta DEF Meta
  <2> QED
    BY <2>2, <2>3, <1>1, <1>2
<1>4. ASSUME TailIntact(f) PROVE n = Len(f) /\ Good(f) = Len(f)
  <2>1. Len(f) \in 1..Len(f) /\ f[Len(f)].kind = "meta"
    BY <1>4 DEF TailIntact, Is
  <2> QED
    BY <2>1, <1>1, <1>2
<1> QED
  BY <1>3, <1>4

-----------------------------------------------------------------------------
(* Growing the file.                                                       *)

\* A file that ends with a commit, or is empty, has no records since the last commit.
LEMMA SinceCommit ==
  ASSUME NEW f \in Seq(Recs), f = <<>> \/ f[Len(f)].kind = "meta"
  PROVE  Since(f) = <<>> /\ EndsWhole(f)
<1>1. /\ Epoch(f, Len(f) + 1) \in 1..(Len(f) + 1)
      /\ \A p \in Epoch(f, Len(f) + 1)..Len(f) : f[p].kind # "meta"
  BY EpochIs
<1>2. Epoch(f, Len(f) + 1) = Len(f) + 1
  BY <1>1
<1> QED
  BY <1>2 DEF Since, EndsWhole

\* Only one place follows the last metadata record.
LEMMA EpochAt ==
  ASSUME NEW f \in Seq(Recs), NEW q \in 1..(Len(f) + 1), NEW x \in 1..q,
         x > 1 => f[x - 1].kind = "meta", \A p \in x..(q - 1) : f[p].kind # "meta"
  PROVE  Epoch(f, q) = x
<1> DEFINE e == Epoch(f, q)
<1>1. /\ e \in 1..q /\ (e > 1 => f[e - 1].kind = "meta")
      /\ \A p \in e..(q - 1) : f[p].kind # "meta"
  BY EpochIs
<1> HIDE DEF e
<1>2. ~ (x < e)
  <2> SUFFICES ASSUME x < e PROVE FALSE
    OBVIOUS
  <2>1. e - 1 \in x..(q - 1) /\ e > 1
    BY <1>1
  <2> QED
    BY <2>1, <1>1
<1>3. ~ (e < x)
  <2> SUFFICES ASSUME e < x PROVE FALSE
    OBVIOUS
  <2>1. x - 1 \in e..(q - 1) /\ x > 1
    BY <1>1
  <2> QED
    BY <2>1, <1>1
<1>4. e = x
  BY <1>1, <1>2, <1>3
<1> QED
  BY <1>4 DEF e

\* One more record that is not metadata does not start a new commit.
LEMMA EpochKept ==
  ASSUME NEW f \in Seq(Recs), NEW g \in Seq(Recs), Len(g) > Len(f),
         \A p \in 1..Len(f) : g[p] = f[p], g[Len(f) + 1].kind # "meta"
  PROVE  /\ Epoch(f, Len(f) + 1) \in 1..(Len(f) + 1)
         /\ Epoch(g, Len(f) + 2) = Epoch(f, Len(f) + 1)
<1> DEFINE n == Len(f)
           q == n + 2
           k == n + 1
           e == Epoch(f, k)
<1>1. n \in Nat /\ q \in 1..(Len(g) + 1) /\ k \in 1..(Len(f) + 1) /\ k - 1 = n /\ q - 1 = k
  OBVIOUS
<1> HIDE DEF q, k
<1>2. /\ e \in 1..k /\ (e > 1 => f[e - 1].kind = "meta")
      /\ \A p \in e..n : f[p].kind # "meta"
  BY <1>1, EpochIs
<1> HIDE DEF e
<1>3. e \in 1..q /\ (e > 1 => g[e - 1].kind = "meta")
  BY <1>1, <1>2 DEF q, k
<1>4. ASSUME NEW p \in e..(q - 1) PROVE g[p].kind # "meta"
  <2>1. p \in e..n \/ p = n + 1
    BY <1>1, <1>2 DEF k
  <2>2. p \in e..n => p \in 1..n
    BY <1>2
  <2> QED
    BY <2>1, <2>2, <1>2
<1>5. Epoch(g, q) = e
  BY <1>1, <1>3, <1>4, EpochAt
<1> QED
  BY <1>1, <1>2, <1>5 DEF e, q, k

\* A record that is neither damaged nor a trailer keeps a file intact when it does not
\* follow a trailer, and joins the records since the last commit if it is data.
LEMMA GrowPlain ==
  ASSUME NEW f \in Seq(Recs), EndsWhole(f), NEW r \in Recs, r # Torn, r.kind # "meta"
  PROVE  LET g == Append(f, r) IN
         /\ g \in Seq(Recs) /\ Len(g) = Len(f) + 1 /\ g[Len(f) + 1] = r
         /\ \A p \in 1..Len(f) : g[p] = f[p]
         /\ Since(g) = Append(Since(f), r)
         /\ Intact(f, Len(f)) => Intact(g, Len(g))
<1> DEFINE g == Append(f, r)
           n == Len(f)
           e == Epoch(f, n + 1)
<1>1. /\ g \in Seq(Recs) /\ Len(g) = n + 1 /\ g[n + 1] = r /\ n \in Nat
      /\ \A p \in 1..n : g[p] = f[p]
  OBVIOUS
<1> HIDE DEF g
<1>2. e \in 1..(n + 1) /\ Epoch(g, n + 2) = e
  BY <1>1, EpochKept
<1> HIDE DEF e
<1>4. SubSeq(g, e, n + 1) = Append(SubSeq(f, e, n), r)
  <2> DEFINE s == SubSeq(g, e, n + 1)
             t == Append(SubSeq(f, e, n), r)
  <2>1. /\ s \in Seq(Recs) /\ Len(s) = n + 2 - e
        /\ \A i \in 1..(n + 2 - e) : s[i] = g[e + i - 1]
    BY <1>1, <1>2
  <2>2. /\ SubSeq(f, e, n) \in Seq(Recs) /\ Len(SubSeq(f, e, n)) = n + 1 - e
        /\ \A i \in 1..(n + 1 - e) : SubSeq(f, e, n)[i] = f[e + i - 1]
    BY <1>1, <1>2
  <2>3. /\ t \in Seq(Recs) /\ Len(t) = n + 2 - e /\ t[n + 2 - e] = r
        /\ \A i \in 1..(n + 1 - e) : t[i] = f[e + i - 1]
    BY <2>2, <1>1, <1>2
  <2> HIDE DEF s, t
  <2>4. ASSUME NEW i \in 1..(n + 2 - e) PROVE s[i] = t[i]
    <3>1. CASE i = n + 2 - e
      <4>1. e + i - 1 = n + 1
        BY <3>1, <1>1, <1>2
      <4> QED
        BY <4>1, <3>1, <2>1, <2>3, <1>1
    <3>2. CASE i # n + 2 - e
      <4>1. i \in 1..(n + 1 - e) /\ e + i - 1 \in 1..n
        BY <3>2, <1>1, <1>2
      <4> QED
        BY <4>1, <2>1, <2>3, <1>1
    <3> QED
      BY <3>1, <3>2
  <2>5. s = t
    BY <2>1, <2>3, <2>4
  <2> QED
    BY <2>5 DEF s, t
<1>5. Since(g) = Append(Since(f), r)
  <2>1. Len(g) + 1 = n + 2
    BY <1>1
  <2> QED
    BY <2>1, <1>1, <1>2, <1>4 DEF Since, e
<1>6. ASSUME Intact(f, n) PROVE Intact(g, n + 1)
  <2>1. Intact(g, n)
    BY <1>1, <1>6, IntactAgrees
  <2>2. ~Damaged(g, n + 1)
    <3>1. ~Is(g, n, "trailer")
      BY <1>1 DEF Is, EndsWhole
    <3> QED
      BY <3>1, <1>1 DEF Damaged
  <2> QED
    BY <2>1, <2>2, <1>1 DEF Intact
<1> QED
  BY <1>1, <1>5, <1>6 DEF g

\* bjfile_append_protected: the trailer's CRC covers what it must.
LEMMA GrowCommit ==
  ASSUME NEW f \in Seq(Recs), EndsWhole(f), NEW s \in Seq(DataRecs), s = Since(f)
  PROVE  LET g == f \o <<Trailer(Append(s, Meta)), Meta>> IN
         /\ g \in Seq(Recs) /\ Len(g) = Len(f) + 2 /\ g[Len(f) + 2].kind = "meta"
         /\ Intact(f, Len(f)) => Intact(g, Len(g))
<1> DEFINE T == Trailer(Append(s, Meta))
           n == Len(f)
           h == Append(f, T)
           g == f \o <<T, Meta>>
<1>1. /\ T \in Recs /\ Meta \in Recs /\ T # Torn /\ T.kind = "trailer" /\ T.sum = Append(s, Meta)
      /\ Meta.kind = "meta" /\ Meta # Torn
  BY DEF Trailer, Trailers, Sums, Recs, Torn, Meta
<1> HIDE DEF T
<1>2. /\ g \in Seq(Recs) /\ Len(g) = n + 2 /\ n \in Nat
      /\ g[n + 1] = T /\ g[n + 2] = Meta /\ \A p \in 1..n : g[p] = f[p]
  BY <1>1
<1>3. /\ h \in Seq(Recs) /\ Len(h) = n + 1 /\ h[n + 1] = T /\ \A p \in 1..n : h[p] = f[p]
      /\ Since(h) = Append(Since(f), T)
      /\ Intact(f, n) => Intact(h, n + 1)
  BY <1>1, GrowPlain
<1> HIDE DEF g, h
<1>4. ASSUME Intact(f, n) PROVE Intact(g, n + 2)
  <2>1. Intact(g, n + 1)
    <3> DEFINE k == n + 1
    <3>1. k \in 0..Len(h) /\ k <= Len(g) /\ Intact(h, k)
      BY <1>2, <1>3, <1>4
    <3>2. ASSUME NEW p \in 1..k PROVE h[p] = g[p]
      <4>1. p \in 1..n \/ p = n + 1
        BY <1>2
      <4> QED
        BY <4>1, <1>2, <1>3
    <3> HIDE DEF k
    <3>3. Intact(g, k)
      BY <3>1, <3>2, <1>2, <1>3, IntactAgrees
    <3> QED
      BY <3>3 DEF k
  <2> DEFINE q == n + 2
             e == Epoch(g, q)
  <2>2. e = Epoch(f, n + 1) /\ e \in 1..(n + 1)
    <3>1. g[n + 1].kind # "meta" /\ Len(g) > n
      BY <1>1, <1>2
    <3> QED
      BY <3>1, <1>2, EpochKept
  <2>4. SubSeq(g, e, n) = s
    <3> HIDE DEF e
    <3>1. SubSeq(g, e, n) = SubSeq(f, e, n)
      <4>1. e \in Nat /\ 1 <= e /\ e <= n + 1 /\ n <= Len(g) /\ \A p \in e..n : g[p] = f[p]
        BY <1>2, <2>2
      <4> QED
        BY <4>1, <1>2, SpanAgreesWith
    <3> QED
      BY <3>1, <2>2 DEF Since
  <2>5. Is(g, q, "meta") /\ q - 1 = n + 1 /\ q - 2 = n
    BY <1>1, <1>2 DEF Is
  <2>6. Verifies(g, q)
    <3>1. g[q - 1].sum = Append(s, Meta)
      BY <1>1, <1>2, <2>5
    <3>2. g[q] = Meta
      BY <1>2
    <3> HIDE DEF q
    <3> QED
      BY <2>4, <2>5, <3>1, <3>2 DEF Verifies, e
  <2>7. ~Damaged(g, q)
    BY <1>1, <1>2, <2>6 DEF Damaged
  <2> QED
    BY <2>1, <2>7, <1>2 DEF Intact
<1> QED
  BY <1>1, <1>2, <1>4 DEF g, T

-----------------------------------------------------------------------------
(* Opening.                                                                *)

\* A handle on a file that ends with a commit, or on a new one.
LEMMA AttachKeeps ==
  ASSUME FileInv, NEW f \in Seq(Recs), Attach(f), UNCHANGED reordered,
         f = <<>> \/ f[Len(f)].kind = "meta",
         ~reordered => Intact(f, Len(f))
  PROVE  FileInv'
<1>1. /\ open' = TRUE /\ disk' = f /\ flen' = Len(f) /\ kept' = Min({kept, Len(f)})
      /\ wb' = <<>> /\ crc' = <<>> /\ crcCommitted' = <<>>
  BY DEF Attach
<1>2. kept' \in 0..Len(f)
  <2>1. {kept, Len(f)} \in SUBSET Nat /\ {kept, Len(f)} # {}
    BY DEF FileInv, Types
  <2>2. kept' \in {kept, Len(f)} /\ kept' <= Len(f)
    BY <2>1, <1>1, MinOfNats
  <2> QED
    BY <2>1, <2>2
<1>3. Handed' = f /\ Held' = f
  <2>1. SubSeq(f, 1, Len(f)) = f /\ f \o <<>> = f
    OBVIOUS
  <2> QED
    BY <2>1, <1>1 DEF Handed, Held
<1>4. Types'
  <2>1. wb' \in Seq(Recs \ {Torn}) /\ crc' \in Seq(DataRecs) /\ crcCommitted' \in Seq(DataRecs)
    BY <1>1
  <2> QED
    BY <2>1, <1>1, <1>2 DEF FileInv, Types
<1>5. Handle'
  <2>1. Since(f) = <<>> /\ EndsWhole(f)
    BY SinceCommit
  <2>2. Since(Held)' = Since(f) /\ Since(Handed)' = Since(f)
    BY <1>3 DEF Since, Epoch, Is
  <2>3. EndsWhole(Held)' /\ EndsWhole(Handed)'
    BY <2>1, <1>3 DEF EndsWhole
  <2> QED
    BY <2>1, <2>2, <2>3, <1>1, <1>2 DEF Handle
<1>6. ASSUME ~reordered'
      PROVE  Intact(Held, Len(Held))' /\ Layout(disk, flen)'
  <2>1. Intact(f, Len(f)) /\ Layout(f, Len(f))
    BY <1>6 DEF Layout
  <2> QED
    BY <2>1, <1>1, <1>3
<1> QED
  BY <1>1, <1>4, <1>5, <1>6 DEF FileInv

LEMMA OpeningKeeps ==
  ASSUME FileInv, OpenNew \/ OpenScan \/ OpenTail, UNCHANGED reordered
  PROVE  FileInv'
<1>1. /\ disk \in Seq(Recs) /\ ~open
      /\ ~reordered => \E n \in 0..Len(disk) : Layout(disk, n)
  BY DEF FileInv, Types, OpenNew, OpenScan, OpenTail, Attach
<1>2. CASE OpenNew
  <2>1. <<>> \in Seq(Recs) /\ Intact(<<>>, Len(<<>>))
    BY DEF Intact
  <2> QED
    BY <2>1, <1>2, AttachKeeps DEF OpenNew
<1>3. CASE OpenScan
  <2> DEFINE g == Good(disk)
             f == SubSeq(disk, 1, g)
  <2>1. g \in 1..Len(disk) /\ disk[g].kind = "meta" /\ Intact(disk, g) /\ Attach(f)
    BY <1>1, <1>3, GoodIs DEF OpenScan
  <2> HIDE DEF g
  <2>2. f \in Seq(Recs) /\ Len(f) = g /\ \A p \in 1..g : f[p] = disk[p]
    BY <1>1, <2>1
  <2> HIDE DEF f
  <2>3. g \in 0..Len(disk) /\ g <= Len(f) /\ g \in 1..g
    BY <2>1, <2>2
  <2>4. Intact(f, Len(f)) /\ f[Len(f)].kind = "meta"
    BY <1>1, <2>1, <2>2, <2>3, IntactAgrees
  <2> QED
    BY <2>1, <2>2, <2>4, AttachKeeps
<1>4. CASE OpenTail
  <2>1. TailIntact(disk) /\ Attach(disk)
    BY <1>4 DEF OpenTail
  <2>2. disk[Len(disk)].kind = "meta"
    BY <2>1 DEF TailIntact, Is
  <2>3. ASSUME ~reordered PROVE Intact(disk, Len(disk))
    <3>1. PICK n \in 0..Len(disk) : Layout(disk, n)
      BY <1>1, <2>3
    <3>2. n = Len(disk)
      BY <1>1, <2>1, <3>1, LayoutOpens
    <3> QED
      BY <3>1, <3>2 DEF Layout
  <2> QED
    BY <1>1, <2>1, <2>2, <2>3, AttachKeeps
<1> QED
  BY <1>2, <1>3, <1>4

-----------------------------------------------------------------------------
(* Buffering.                                                              *)

\* The types of an open handle, and its files.
LEMMA HandleTypes ==
  ASSUME FileInv
  PROVE  /\ Types /\ disk \in Seq(Recs) /\ wb \in Seq(Recs) /\ flen \in Nat
         /\ Handed \in Seq(Recs) /\ Len(Handed) = flen
         /\ \A p \in 1..flen : Handed[p] = disk[p]
         /\ Held \in Seq(Recs) /\ Len(Held) = flen + Len(wb)
         /\ \A p \in 1..flen : Held[p] = disk[p]
         /\ \A p \in 1..Len(wb) : Held[flen + p] = wb[p]
<1>1. /\ Types /\ disk \in Seq(Recs) /\ wb \in Seq(Recs) /\ flen \in 0..Len(disk)
  BY DEF FileInv, Types
<1>2. /\ Handed \in Seq(Recs) /\ Len(Handed) = flen
      /\ \A p \in 1..flen : Handed[p] = disk[p]
  BY <1>1 DEF Handed
<1> DEFINE g == Handed
<1> HIDE DEF g
<1>3. /\ g \o wb \in Seq(Recs) /\ Len(g \o wb) = flen + Len(wb)
      /\ \A p \in 1..flen : (g \o wb)[p] = disk[p]
      /\ \A p \in 1..Len(wb) : (g \o wb)[flen + p] = wb[p]
  <2>1. \A s, t \in Seq(Recs) :
          /\ s \o t \in Seq(Recs) /\ Len(s \o t) = Len(s) + Len(t)
          /\ \A p \in 1..Len(s) : (s \o t)[p] = s[p]
          /\ \A p \in 1..Len(t) : (s \o t)[Len(s) + p] = t[p]
    OBVIOUS
  <2>2. g \in Seq(Recs) /\ Len(g) = flen /\ \A p \in 1..flen : g[p] = disk[p]
    BY <1>2 DEF g
  <2> QED
    BY <2>1, <2>2, <1>1
<1> QED
  BY <1>1, <1>2, <1>3 DEF Held, g

\* Only the buffer and the running CRC change.
LEMMA BufferKeeps ==
  ASSUME FileInv, open, UNCHANGED <<disk, kept, open, flen, crcCommitted, reordered>>,
         wb' \in Seq(Recs \ {Torn}), crc' \in Seq(DataRecs),
         crc' = Since(Handed \o wb'), EndsWhole(Handed \o wb'),
         \A p \in 1..(Len(wb') - 1) : wb'[p].kind # "meta",
         ~reordered => Intact(Handed \o wb', Len(Handed \o wb'))
  PROVE  FileInv'
<1>1. Handed' = Handed /\ Held' = Handed \o wb'
  BY DEF Handed, Held
<1>2. Types'
  BY DEF FileInv, Types
<1>3. Since(Held)' = Since(Handed \o wb') /\ Since(Handed)' = Since(Handed)
  BY <1>1 DEF Since, Epoch, Is
<1>4. EndsWhole(Held)' /\ EndsWhole(Handed)' /\ kept' <= flen'
  BY <1>1 DEF EndsWhole, FileInv, Handle
<1>5. Handle'
  BY <1>3, <1>4 DEF Handle, FileInv
<1>6. ~reordered' => Intact(Held, Len(Held))'
  BY <1>1 DEF Intact, Damaged, Verifies, Epoch, Is
<1>7. ASSUME ~reordered' PROVE Layout(disk, flen)'
  <2>1. Layout(disk, flen)
    BY <1>7 DEF FileInv
  <2> QED
    BY <2>1
<1> QED
  BY <1>2, <1>5, <1>6, <1>7 DEF FileInv

LEMMA AppendDataKeeps ==
  ASSUME FileInv, NEW v \in Payload, AppendData(v), UNCHANGED reordered
  PROVE  FileInv'
<1> DEFINE r == Data(v)
           f == Held
<1>1. /\ open /\ wb' = Append(wb, r) /\ crc' = Append(crc, r)
      /\ UNCHANGED <<disk, kept, open, flen, crcCommitted>>
      /\ \A p \in 1..Len(wb) : ~Is(wb, p, "meta")
  BY DEF AppendData, Room
<1>2. /\ r \in DataRecs /\ r \in Recs \ {Torn} /\ r # Torn /\ r.kind = "data"
      /\ Handed \in Seq(Recs) /\ wb \in Seq(Recs) /\ wb \in Seq(Recs \ {Torn})
      /\ crc \in Seq(DataRecs) /\ f \in Seq(Recs) /\ f = Handed \o wb
      /\ EndsWhole(f) /\ crc = Since(f)
      /\ ~reordered => Intact(f, Len(f))
  BY <1>1, HandleTypes DEF Data, DataRecs, Recs, Torn, Types, Held, FileInv, Handle
<1> HIDE DEF r
<1>3. Handed \o wb' = Append(f, r)
  BY <1>1, <1>2
<1> HIDE DEF f
<1>4. /\ Since(Append(f, r)) = Append(Since(f), r) /\ EndsWhole(Append(f, r))
      /\ Intact(f, Len(f)) => Intact(Append(f, r), Len(Append(f, r)))
  <2> DEFINE g == Append(f, r)
  <2>1. r.kind # "meta"
    BY <1>2
  <2>2. /\ Len(g) = Len(f) + 1 /\ g[Len(f) + 1] = r
        /\ Since(g) = Append(Since(f), r) /\ (Intact(f, Len(f)) => Intact(g, Len(g)))
    BY <1>2, <2>1, GrowPlain
  <2> HIDE DEF g
  <2>3. EndsWhole(g)
    BY <1>2, <2>2 DEF EndsWhole
  <2> QED
    BY <2>2, <2>3 DEF g
<1>5. wb' \in Seq(Recs \ {Torn}) /\ crc' \in Seq(DataRecs)
  BY <1>1, <1>2
<1>6. \A p \in 1..(Len(wb') - 1) : wb'[p].kind # "meta"
  BY <1>1, <1>2 DEF Is
<1> QED
  BY <1>1, <1>2, <1>3, <1>4, <1>5, <1>6, BufferKeeps

LEMMA AppendProtectedKeeps ==
  ASSUME FileInv, AppendProtected, UNCHANGED reordered
  PROVE  FileInv'
<1> DEFINE t == <<Trailer(Append(crc, Meta)), Meta>>
           f == Held
           g == f \o t
<1>1. /\ open /\ wb' = wb \o t /\ crc' = <<>>
      /\ UNCHANGED <<disk, kept, open, flen, crcCommitted>>
      /\ \A p \in 1..Len(wb) : ~Is(wb, p, "meta")
  BY DEF AppendProtected, Room
<1>2. /\ Handed \in Seq(Recs) /\ wb \in Seq(Recs) /\ wb \in Seq(Recs \ {Torn})
      /\ crc \in Seq(DataRecs) /\ f \in Seq(Recs) /\ f = Handed \o wb
      /\ EndsWhole(f) /\ crc = Since(f)
      /\ ~reordered => Intact(f, Len(f))
  BY <1>1, HandleTypes DEF Types, Held, FileInv, Handle
<1>3. /\ t \in Seq(Recs) /\ t \in Seq(Recs \ {Torn}) /\ Len(t) = 2 /\ t[1].kind = "trailer"
  <2> DEFINE T == Trailer(Append(crc, Meta))
  <2>1. T \in Recs \ {Torn} /\ T.kind = "trailer"
    BY <1>2 DEF Trailer, Trailers, Sums, Recs, Torn
  <2>2. Meta \in Recs \ {Torn}
    BY DEF Meta, Recs, Torn
  <2> HIDE DEF T
  <2>3. <<T, Meta>> \in Seq(Recs \ {Torn}) /\ <<T, Meta>> \in Seq(Recs) /\ Len(<<T, Meta>>) = 2
        /\ <<T, Meta>>[1] = T
    BY <2>1, <2>2
  <2>4. t = <<T, Meta>>
    BY DEF T
  <2> QED
    BY <2>1, <2>3, <2>4
<1>4. /\ g \in Seq(Recs) /\ Len(g) = Len(f) + 2 /\ g[Len(g)].kind = "meta"
      /\ Intact(f, Len(f)) => Intact(g, Len(g))
  <2> HIDE DEF f
  <2> QED
    BY <1>2, GrowCommit
<1> HIDE DEF t
<1> HIDE DEF f
<1>5. Handed \o wb' = g
  <2>1. \A a, b, c \in Seq(Recs) : a \o (b \o c) = (a \o b) \o c
    OBVIOUS
  <2>2. Handed \o (wb \o t) = (Handed \o wb) \o t
    BY <2>1, <1>2, <1>3, ZenonT(60)
  <2> QED
    BY <2>2, <1>1, <1>2
<1>6. wb' \in Seq(Recs \ {Torn}) /\ crc' \in Seq(DataRecs)
  BY <1>1, <1>2, <1>3
<1>7. \A p \in 1..(Len(wb') - 1) : wb'[p].kind # "meta"
  <2> SUFFICES ASSUME NEW p \in 1..(Len(wb') - 1) PROVE wb'[p].kind # "meta"
    OBVIOUS
  <2>1. p \in 1..Len(wb) \/ p = Len(wb) + 1
    <3>1. \A a, b \in Seq(Recs) : Len(a \o b) = Len(a) + Len(b) /\ Len(a) \in Nat
      OBVIOUS
    <3>2. Len(wb') = Len(wb) + 2 /\ Len(wb) \in Nat
      BY <3>1, <1>1, <1>2, <1>3
    <3> QED
      BY <3>2
  <2>2. CASE p \in 1..Len(wb)
    <3>1. wb'[p] = wb[p]
      BY <2>2, <1>1, <1>2, <1>3
    <3> QED
      BY <3>1, <2>2, <1>1 DEF Is
  <2>3. CASE p = Len(wb) + 1
    <3>1. wb'[p] = t[1]
      BY <2>3, <1>1, <1>2, <1>3
    <3> QED
      BY <3>1, <1>3
  <2> QED
    BY <2>1, <2>2, <2>3
<1>8. Since(g) = <<>> /\ EndsWhole(g)
  <2> HIDE DEF g
  <2> QED
    BY <1>4, SinceCommit
<1> HIDE DEF g
<1> QED
  BY <1>1, <1>2, <1>4, <1>5, <1>6, <1>7, <1>8, BufferKeeps

LEMMA DiscardKeeps ==
  ASSUME FileInv, Discard, UNCHANGED reordered
  PROVE  FileInv'
<1>1. /\ open /\ wb' = <<>> /\ crc' = crcCommitted
      /\ UNCHANGED <<disk, kept, open, flen, crcCommitted>>
  BY DEF Discard
<1>2. /\ Handed \in Seq(Recs) /\ Held \in Seq(Recs) /\ Len(Handed) = flen /\ flen \in Nat
      /\ Len(Held) = flen + Len(wb) /\ Len(wb) \in Nat
      /\ \A p \in 1..flen : Handed[p] = Held[p]
  BY HandleTypes
<1>3. Handed \o wb' = Handed
  BY <1>1, <1>2
<1>4. /\ crc' \in Seq(DataRecs) /\ crc' = Since(Handed) /\ EndsWhole(Handed)
      /\ ~reordered => Intact(Held, Len(Held))
  BY <1>1 DEF FileInv, Types, Handle
<1>5. ASSUME ~reordered PROVE Intact(Handed, flen)
  <2>1. Intact(Held, flen)
    BY <1>2, <1>4, <1>5 DEF Intact
  <2> QED
    BY <2>1, <1>2, IntactAgrees
<1>6. wb' \in Seq(Recs \ {Torn}) /\ \A p \in 1..(Len(wb') - 1) : wb'[p].kind # "meta"
  BY <1>1
<1> QED
  BY <1>1, <1>2, <1>3, <1>4, <1>5, <1>6, BufferKeeps

-----------------------------------------------------------------------------
(* Writing.                                                                *)

\* What a write leaves of the old records was there, or is torn.
LEMMA RemainsAreOld ==
  ASSUME NEW w, NEW r \in Seq(Recs), NEW s \in Remains(w, r)
  PROVE  /\ s \in Seq(Recs)
         /\ \A i \in 1..Len(s) : s[i] = Torn \/ \E j \in 1..Len(r) : s[i] = r[j]
<1>1. ASSUME NEW j \in 1..Len(r)
      PROVE  LET t == SubSeq(r, j + 1, Len(r)) IN
             /\ t \in Seq(Recs)
             /\ \A i \in 1..Len(t) : \E l \in 1..Len(r) : t[i] = r[l]
  <2> DEFINE t == SubSeq(r, j + 1, Len(r))
  <2>1. /\ t \in Seq(Recs) /\ Len(t) = Len(r) - j
        /\ \A i \in 1..(Len(r) - j) : t[i] = r[j + i]
    OBVIOUS
  <2> HIDE DEF t
  <2>2. ASSUME NEW i \in 1..Len(t) PROVE \E l \in 1..Len(r) : t[i] = r[l]
    <3>1. j + i \in 1..Len(r) /\ t[i] = r[j + i]
      BY <2>1
    <3> QED
      BY <3>1
  <2> QED
    BY <2>1, <2>2 DEF t
<1>2. \/ s = <<>>
      \/ \E j \in 1..Len(r) : s = SubSeq(r, j + 1, Len(r))
      \/ \E j \in 1..Len(r) : s = <<Torn>> \o SubSeq(r, j + 1, Len(r))
  BY Zenon DEF Remains
<1>3. ASSUME NEW j \in 1..Len(r), s = <<Torn>> \o SubSeq(r, j + 1, Len(r))
      PROVE  /\ s \in Seq(Recs)
             /\ \A i \in 1..Len(s) : s[i] = Torn \/ \E l \in 1..Len(r) : s[i] = r[l]
  <2> DEFINE t == SubSeq(r, j + 1, Len(r))
             T == <<Torn>>
  <2>1. t \in Seq(Recs) /\ \A i \in 1..Len(t) : \E l \in 1..Len(r) : t[i] = r[l]
    BY <1>1
  <2>2. T \in Seq(Recs) /\ Len(T) = 1 /\ T[1] = Torn
    BY DEF Recs
  <2> HIDE DEF t, T
  <2>3. \A a, b \in Seq(Recs) :
          /\ a \o b \in Seq(Recs) /\ Len(a \o b) = Len(a) + Len(b) /\ Len(b) \in Nat
          /\ \A i \in 1..Len(a) : (a \o b)[i] = a[i]
          /\ \A i \in 1..Len(b) : (a \o b)[Len(a) + i] = b[i]
    OBVIOUS
  <2>4. /\ T \o t \in Seq(Recs) /\ Len(T \o t) = 1 + Len(t) /\ Len(t) \in Nat
        /\ (T \o t)[1] = Torn
        /\ \A i \in 1..Len(t) : (T \o t)[1 + i] = t[i]
    <3>1. /\ T \o t \in Seq(Recs) /\ Len(T \o t) = Len(T) + Len(t) /\ Len(t) \in Nat
          /\ \A i \in 1..Len(T) : (T \o t)[i] = T[i]
          /\ \A i \in 1..Len(t) : (T \o t)[Len(T) + i] = t[i]
      BY <2>1, <2>2, <2>3
    <3>2. 1 \in 1..Len(T)
      BY <2>2
    <3> QED
      BY <3>1, <3>2, <2>2
  <2>5. s = T \o t
    BY <1>3 DEF T, t
  <2>6. ASSUME NEW i \in 1..Len(s)
        PROVE  s[i] = Torn \/ \E l \in 1..Len(r) : s[i] = r[l]
    <3>1. CASE i = 1
      BY <3>1, <2>4, <2>5
    <3>2. CASE i # 1
      <4>1. i - 1 \in 1..Len(t) /\ 1 + (i - 1) = i
        BY <3>2, <2>4, <2>5
      <4>2. s[i] = t[i - 1]
        BY <4>1, <2>4, <2>5
      <4> QED
        BY <4>1, <4>2, <2>1
    <3> QED
      BY <3>1, <3>2
  <2> QED
    BY <2>4, <2>5, <2>6
<1>4. CASE s = <<>>
  BY <1>4
<1>5. CASE \E j \in 1..Len(r) : s = SubSeq(r, j + 1, Len(r))
  <2>1. PICK j \in 1..Len(r) : s = SubSeq(r, j + 1, Len(r))
    BY <1>5
  <2>2. /\ SubSeq(r, j + 1, Len(r)) \in Seq(Recs)
        /\ \A i \in 1..Len(SubSeq(r, j + 1, Len(r))) :
             \E l \in 1..Len(r) : SubSeq(r, j + 1, Len(r))[i] = r[l]
    BY <1>1, Zenon
  <2> QED
    BY <2>1, <2>2, Zenon
<1>6. CASE \E j \in 1..Len(r) : s = <<Torn>> \o SubSeq(r, j + 1, Len(r))
  BY <1>3, <1>6
<1> QED
  BY <1>2, <1>4, <1>5, <1>6

\* A write keeps what is below the committed length and puts the new records there.
LEMMA OverwriteFacts ==
  ASSUME Types, NEW w \in Seq(Recs), NEW d \in Overwrites(w)
  PROVE  /\ d \in Seq(Recs) /\ Len(d) >= flen + Len(w)
         /\ \A p \in 1..flen : d[p] = disk[p]
         /\ \A p \in 1..Len(w) : d[flen + p] = w[p]
         /\ (\A p \in (flen + 1)..Len(disk) : disk[p].kind # "meta") =>
              \A p \in (flen + Len(w) + 1)..Len(d) : d[p].kind # "meta"
<1>1. disk \in Seq(Recs) /\ flen \in 0..Len(disk) /\ flen \in Nat /\ Len(disk) \in Nat
  BY DEF Types
<1>2. CASE w = <<>>
  BY <1>1, <1>2 DEF Overwrites
<1>3. CASE w # <<>>
  <2> DEFINE r == SubSeq(disk, flen + 1, Len(disk))
             h == SubSeq(disk, 1, flen)
  <2>1. PICK s \in Remains(w, r) : d = h \o w \o s
    BY <1>3 DEF Overwrites
  <2>2. /\ r \in Seq(Recs) /\ Len(r) = Len(disk) - flen
        /\ \A j \in 1..Len(r) : r[j] = disk[flen + j]
    BY <1>1
  <2>3. h \in Seq(Recs) /\ Len(h) = flen /\ \A p \in 1..flen : h[p] = disk[p]
    BY <1>1
  <2> HIDE DEF r, h
  <2>4. /\ s \in Seq(Recs)
        /\ \A i \in 1..Len(s) : s[i] = Torn \/ \E j \in 1..Len(r) : s[i] = r[j]
    BY <2>1, <2>2, RemainsAreOld
  <2>5. \A a, b \in Seq(Recs) :
          /\ a \o b \in Seq(Recs) /\ Len(a \o b) = Len(a) + Len(b)
          /\ Len(a) \in Nat /\ Len(b) \in Nat
          /\ \A i \in 1..Len(a) : (a \o b)[i] = a[i]
          /\ \A i \in 1..Len(b) : (a \o b)[Len(a) + i] = b[i]
    OBVIOUS
  <2>6. /\ h \o w \in Seq(Recs) /\ Len(h \o w) = flen + Len(w) /\ Len(w) \in Nat
        /\ \A p \in 1..flen : (h \o w)[p] = disk[p]
        /\ \A p \in 1..Len(w) : (h \o w)[flen + p] = w[p]
    BY <2>3, <2>5
  <2> DEFINE hw == h \o w
             m  == flen + Len(w)
  <2>7. /\ hw \in Seq(Recs) /\ Len(hw) = m /\ m \in Nat /\ Len(w) \in Nat
        /\ \A p \in 1..flen : hw[p] = disk[p]
        /\ \A p \in 1..Len(w) : hw[flen + p] = w[p]
        /\ \A p \in 1..flen : p \in 1..m
        /\ \A p \in 1..Len(w) : flen + p \in 1..m
    BY <2>6, <1>1
  <2> HIDE DEF hw, m
  <2>8. /\ d \in Seq(Recs) /\ Len(d) = m + Len(s) /\ Len(s) \in Nat
        /\ \A p \in 1..m : d[p] = hw[p]
        /\ \A i \in 1..Len(s) : d[m + i] = s[i]
    BY <2>1, <2>4, <2>5, <2>7, ZenonT(40) DEF hw
  <2>9. /\ Len(d) >= m
        /\ \A p \in 1..flen : d[p] = disk[p]
        /\ \A p \in 1..Len(w) : d[flen + p] = w[p]
    BY <2>7, <2>8
  <2>10. ASSUME \A p \in (flen + 1)..Len(disk) : disk[p].kind # "meta",
                NEW p \in (m + 1)..Len(d)
         PROVE  d[p].kind # "meta"
    <3>1. p - m \in 1..Len(s) /\ m + (p - m) = p
      BY <2>7, <2>8
    <3>2. d[p] = s[p - m]
      BY <3>1, <2>8
    <3>3. CASE s[p - m] = Torn
      BY <3>2, <3>3 DEF Torn
    <3>4. CASE \E j \in 1..Len(r) : s[p - m] = r[j]
      <4>1. PICK j \in 1..Len(r) : s[p - m] = r[j]
        BY <3>4
      <4>2. flen + j \in (flen + 1)..Len(disk)
        BY <1>1, <2>2
      <4>3. d[p] = disk[flen + j]
        BY <4>1, <3>2, <2>2
      <4> QED
        BY <4>2, <4>3, <2>10
    <3> QED
      BY <3>1, <3>3, <3>4, <2>4
  <2> QED
    BY <2>8, <2>9, <2>10 DEF m
<1> QED
  BY <1>2, <1>3

\* What a write hands over is what the handle held, and no metadata record is past it.
LEMMA WrittenGives ==
  ASSUME FileInv, Written
  PROVE  LET n == flen + Len(wb) IN
         /\ flen' = n /\ wb' = <<>> /\ crcCommitted' = crc /\ crc' = crc
         /\ Held \in Seq(Recs) /\ Len(Held) = n /\ n \in Nat
         /\ disk' \in Seq(Recs) /\ Len(disk') >= n
         /\ \A p \in 1..n : disk'[p] = Held[p]
         /\ (\A p \in (flen + 1)..Len(disk) : disk[p].kind # "meta") =>
              \A p \in (n + 1)..Len(disk') : disk'[p].kind # "meta"
         /\ Handed' = Held /\ Held' = Held
<1> DEFINE f == Held
           n == flen + Len(wb)
<1>1. /\ disk' \in Overwrites(wb) /\ flen' = n /\ wb' = <<>>
      /\ crcCommitted' = crc /\ crc' = crc
  BY DEF Written
<1>2. /\ Types /\ wb \in Seq(Recs) /\ flen \in Nat /\ Len(wb) \in Nat
      /\ f \in Seq(Recs) /\ Len(f) = n /\ n \in Nat
      /\ \A p \in 1..flen : f[p] = disk[p]
      /\ \A p \in 1..Len(wb) : f[flen + p] = wb[p]
  BY HandleTypes
<1>4. /\ disk' \in Seq(Recs) /\ Len(disk') >= n
      /\ \A p \in 1..flen : disk'[p] = disk[p]
      /\ \A p \in 1..Len(wb) : disk'[flen + p] = wb[p]
      /\ (\A p \in (flen + 1)..Len(disk) : disk[p].kind # "meta") =>
            \A p \in (n + 1)..Len(disk') : disk'[p].kind # "meta"
  BY <1>1, <1>2, OverwriteFacts
<1> HIDE DEF f
<1>5. ASSUME NEW p \in 1..n PROVE disk'[p] = f[p]
  <2>1. CASE p \in 1..flen
    BY <2>1, <1>2, <1>4
  <2>2. CASE p \notin 1..flen
    <3>1. p - flen \in 1..Len(wb) /\ flen + (p - flen) = p
      BY <2>2, <1>2 DEF n
    <3> QED
      BY <3>1, <1>2, <1>4, ZenonT(60)
  <2> QED
    BY <2>1, <2>2
<1> HIDE DEF n
<1>6. SubSeq(disk', 1, n) = f
  <2> DEFINE h == SubSeq(disk', 1, n)
  <2>1. h \in Seq(Recs) /\ Len(h) = n /\ \A p \in 1..n : h[p] = disk'[p]
    BY <1>2, <1>4
  <2> HIDE DEF h
  <2>2. h = f
    BY <2>1, <1>2, <1>5
  <2> QED
    BY <2>2 DEF h
<1>7. Handed' = f /\ Held' = f
  <2>1. f \o <<>> = f
    BY <1>2
  <2> QED
    BY <2>1, <1>1, <1>6 DEF Handed, Held
<1> QED
  BY <1>1, <1>2, <1>4, <1>5, <1>7 DEF n, f

\* The host took the buffer: what the handle holds is what it handed over.
LEMMA WrittenKeeps ==
  ASSUME FileInv, open, open', Written, kept' \in {kept, flen'}, UNCHANGED reordered
  PROVE  FileInv'
<1> DEFINE f == Held
           n == flen + Len(wb)
<1>1. flen' = n /\ wb' = <<>> /\ crcCommitted' = crc /\ crc' = crc
  BY DEF Written
<1>2. /\ Types /\ flen \in Nat /\ Len(wb) \in Nat
      /\ f \in Seq(Recs) /\ Len(f) = n /\ n \in Nat
  BY HandleTypes
<1>3. Handle /\ EndsWhole(f) /\ crc = Since(f) /\ crc \in Seq(DataRecs)
  BY DEF FileInv, Types, Handle
<1>4. /\ disk' \in Seq(Recs) /\ Len(disk') >= n
      /\ (\A p \in (flen + 1)..Len(disk) : disk[p].kind # "meta") =>
            \A p \in (n + 1)..Len(disk') : disk'[p].kind # "meta"
  BY WrittenGives
<1>5. \A p \in 1..n : disk'[p] = f[p]
  BY WrittenGives
<1>7. Handed' = f /\ Held' = f
  BY WrittenGives
<1> HIDE DEF f
<1>8. kept' \in 0..n /\ n \in 0..Len(disk')
  <2>1. kept \in Nat /\ kept <= flen
    BY <1>2, <1>3 DEF Types, Handle
  <2> QED
    BY <2>1, <1>1, <1>2, <1>4 DEF n
<1>9. Types'
  <2>1. wb' \in Seq(Recs \ {Torn}) /\ kept' \in 0..Len(disk')
    BY <1>1, <1>2, <1>4, <1>8
  <2> QED
    BY <2>1, <1>1, <1>2, <1>4, <1>8 DEF Types
<1>10. Handle'
  <2>1. Since(Held)' = Since(f) /\ Since(Handed)' = Since(f)
    BY <1>7 DEF Since, Epoch, Is
  <2>2. EndsWhole(Held)' /\ EndsWhole(Handed)'
    BY <1>3, <1>7 DEF EndsWhole
  <2>3. kept' <= flen'
    BY <1>1, <1>8
  <2>4. \A p \in 1..(Len(wb') - 1) : wb'[p].kind # "meta"
    BY <1>1
  <2> QED
    BY <2>1, <2>2, <2>3, <2>4, <1>1, <1>3 DEF Handle
<1>11. ASSUME ~reordered PROVE Intact(Held, Len(Held))' /\ Layout(disk, flen)'
  <2>1. Intact(f, n) /\ Layout(disk, flen)
    BY <1>2, <1>11 DEF FileInv, f
  <2>2. Intact(disk', n)
    <3>1. n \in 0..Len(f) /\ n <= Len(disk') /\ \A p \in 1..n : f[p] = disk'[p]
      BY <1>2, <1>4, <1>5
    <3> QED
      BY <3>1, <2>1, <1>2, <1>4, IntactAgrees
  <2>3. Layout(disk', n)
    BY <2>1, <2>2, <1>4 DEF Layout
  <2>4. Intact(Held, Len(Held))'
    BY <2>1, <1>2, <1>7
  <2> QED
    BY <2>3, <2>4, <1>1
<1> QED
  BY <1>9, <1>10, <1>11 DEF FileInv

\* A failed write leaves no metadata record: that is the last of the buffer.
LEMMA WriteFailedKeeps ==
  ASSUME FileInv, open, open', WriteFailed, UNCHANGED <<kept, reordered>>
  PROVE  FileInv'
<1>1. /\ disk' \in PartialWrites /\ UNCHANGED <<flen, wb, crc, crcCommitted>>
  BY DEF WriteFailed
<1>2. /\ Types /\ wb \in Seq(Recs) /\ flen \in 0..Len(disk) /\ flen \in Nat
      /\ Handed \in Seq(Recs) /\ disk \in Seq(Recs)
  BY HandleTypes DEF Types
<1>3. Handle
  BY DEF FileInv
<1>4. PICK k \in 0..(Len(wb) - 1) :
        \/ disk' \in Overwrites(SubSeq(wb, 1, k))
        \/ disk' \in Overwrites(Append(SubSeq(wb, 1, k), Torn))
  BY <1>1, Zenon DEF PartialWrites
<1> DEFINE h == SubSeq(wb, 1, k)
           t == Append(h, Torn)
<1>5. /\ h \in Seq(Recs) /\ Len(h) = k /\ k \in Nat /\ \A p \in 1..k : h[p] = wb[p]
      /\ \A p \in 1..k : h[p].kind # "meta"
  BY <1>2, <1>3 DEF Handle
<1> HIDE DEF h
<1>6. /\ t \in Seq(Recs) /\ Len(t) = k + 1 /\ Torn.kind = "torn" /\ t[k + 1] = Torn
      /\ \A p \in 1..k : t[p] = h[p]
  BY <1>5 DEF Torn, Recs
<1> HIDE DEF t
<1>7. \A p \in 1..(k + 1) : t[p].kind # "meta"
  <2> SUFFICES ASSUME NEW p \in 1..(k + 1) PROVE t[p].kind # "meta"
    OBVIOUS
  <2>1. p \in 1..k \/ p = k + 1
    BY <1>5
  <2> QED
    BY <2>1, <1>5, <1>6
<1>8. PICK w \in Seq(Recs) : disk' \in Overwrites(w) /\ \A p \in 1..Len(w) : w[p].kind # "meta"
  <2>1. CASE disk' \in Overwrites(h)
    BY <2>1, <1>5
  <2>2. CASE disk' \in Overwrites(t)
    BY <2>2, <1>6, <1>7
  <2> QED
    BY <1>4, <2>1, <2>2 DEF h, t
<1>9. /\ disk' \in Seq(Recs) /\ Len(disk') >= flen + Len(w) /\ Len(w) \in Nat
      /\ \A p \in 1..flen : disk'[p] = disk[p]
      /\ \A p \in 1..Len(w) : disk'[flen + p] = w[p]
      /\ (\A p \in (flen + 1)..Len(disk) : disk[p].kind # "meta") =>
            \A p \in (flen + Len(w) + 1)..Len(disk') : disk'[p].kind # "meta"
  <2>1. Len(w) \in Nat
    BY <1>8
  <2>2. disk' \in Overwrites(w) /\ w \in Seq(Recs)
    BY <1>8
  <2> QED
    BY <2>1, <2>2, <1>2, OverwriteFacts, ZenonT(60)
<1>10. flen \in 0..Len(disk')
  BY <1>2, <1>9
<1>11. Handed' = Handed /\ Held' = Held
  <2>1. SubSeq(disk', 1, flen) = SubSeq(disk, 1, flen)
    BY <1>2, <1>9, <1>10, SpanAgreesWith
  <2> QED
    BY <2>1, <1>1 DEF Handed, Held
<1>12. Types'
  <2>1. kept' \in 0..Len(disk')
    BY <1>2, <1>3, <1>10 DEF Types, Handle
  <2> QED
    BY <2>1, <1>1, <1>2, <1>9, <1>10 DEF Types
<1>13. Handle'
  <2>1. Since(Held)' = Since(Held) /\ Since(Handed)' = Since(Handed)
    BY <1>11 DEF Since, Epoch, Is
  <2>2. EndsWhole(Held)' /\ EndsWhole(Handed)'
    BY <1>3, <1>11 DEF EndsWhole, Handle
  <2> QED
    BY <2>1, <2>2, <1>1, <1>3 DEF Handle
<1>14. ASSUME ~reordered PROVE Intact(Held, Len(Held))' /\ Layout(disk, flen)'
  <2>1. Intact(Held, Len(Held)) /\ Layout(disk, flen)
    BY <1>14 DEF FileInv
  <2>2. Intact(disk', flen)
    BY <2>1, <1>2, <1>9, <1>10, IntactAgrees DEF Layout
  <2>3. ASSUME NEW p \in (flen + 1)..Len(disk') PROVE disk'[p].kind # "meta"
    <3>1. CASE p \in (flen + Len(w) + 1)..Len(disk')
      BY <3>1, <2>1, <1>9 DEF Layout
    <3>2. CASE p \notin (flen + Len(w) + 1)..Len(disk')
      <4>1. p - flen \in 1..Len(w) /\ flen + (p - flen) = p
        BY <3>2, <1>2, <1>9
      <4> QED
        BY <4>1, <1>8, <1>9
    <3> QED
      BY <3>1, <3>2
  <2>4. Layout(disk', flen)
    BY <2>2, <2>3 DEF Layout
  <2>5. Intact(Held, Len(Held))'
    BY <2>1, <1>11
  <2> QED
    BY <2>4, <2>5, <1>1
<1> QED
  BY <1>12, <1>13, <1>14 DEF FileInv

LEMMA FlushingKeeps ==
  ASSUME FileInv, Commit \/ Sync, UNCHANGED reordered
  PROVE  FileInv'
<1>1. open /\ open'
  BY DEF Commit, Sync
<1>2. \/ Written /\ kept' \in {kept, flen'}
      \/ WriteFailed /\ UNCHANGED kept
  BY DEF Commit, Sync
<1> QED
  BY <1>1, <1>2, WrittenKeeps, WriteFailedKeeps

-----------------------------------------------------------------------------
(* Crashing.                                                               *)

\* What a crash that keeps the order of writes leaves: a prefix that holds everything
\* durable, perhaps with a torn record after it.
LEMMA CrashLeaves ==
  ASSUME Types, NEW d \in CrashedDisks
  PROVE  /\ d \in Seq(Recs) /\ Len(d) <= Len(disk)
         /\ \E k \in kept..Len(disk) :
              /\ Len(d) >= k
              /\ \A p \in 1..k : d[p] = disk[p]
              /\ \A p \in (k + 1)..Len(d) : d[p].kind # "meta"
<1>1. disk \in Seq(Recs) /\ kept \in 0..Len(disk) /\ kept \in Nat /\ Len(disk) \in Nat
  BY DEF Types
<1>2. PICK k \in kept..Len(disk) :
        d = SubSeq(disk, 1, k) \/ (d = Append(SubSeq(disk, 1, k), Torn) /\ k < Len(disk))
  <2>1. CASE d \in {SubSeq(disk, 1, k) : k \in kept..Len(disk)}
    BY <2>1
  <2>2. CASE d \in {Append(SubSeq(disk, 1, k), Torn) : k \in kept..(Len(disk) - 1)}
    <3>1. PICK k \in kept..(Len(disk) - 1) : d = Append(SubSeq(disk, 1, k), Torn)
      BY <2>2
    <3>2. k \in kept..Len(disk) /\ k < Len(disk)
      BY <1>1
    <3> QED
      BY <3>1, <3>2
  <2> QED
    BY <2>1, <2>2 DEF CrashedDisks
<1> DEFINE h == SubSeq(disk, 1, k)
           t == Append(h, Torn)
<1>3. h \in Seq(Recs) /\ Len(h) = k /\ k \in Nat /\ \A p \in 1..k : h[p] = disk[p]
  BY <1>1
<1> HIDE DEF h
<1>4. /\ t \in Seq(Recs) /\ Len(t) = k + 1 /\ t[k + 1] = Torn /\ Torn.kind = "torn"
      /\ \A p \in 1..k : t[p] = h[p]
  BY <1>3 DEF Torn, Recs
<1> HIDE DEF t
<1>5. CASE d = h
  BY <1>3, <1>5
<1>6. CASE d = t /\ k < Len(disk)
  <2>1. \A p \in (k + 1)..Len(d) : p = k + 1
    BY <1>3, <1>4, <1>6
  <2> QED
    BY <2>1, <1>3, <1>4, <1>6
<1> QED
  BY <1>2, <1>5, <1>6 DEF h, t

\* The next open will find an intact prefix and no commit past it.
LEMMA CrashKeeps ==
  ASSUME FileInv, Crash, UNCHANGED reordered
  PROVE  FileInv'
<1>1. /\ open /\ ~open' /\ open' = FALSE /\ flen' = 0 /\ wb' = <<>> /\ crc' = <<>>
      /\ crcCommitted' = <<>> /\ kept' = kept /\ disk' \in CrashedDisks
  BY DEF Crash, Detach
<1>2. /\ Types /\ disk \in Seq(Recs) /\ flen \in 0..Len(disk) /\ flen \in Nat
      /\ kept \in 0..Len(disk) /\ Len(disk) \in Nat
  BY DEF FileInv, Types
<1>3. disk' \in Seq(Recs)
  BY <1>1, <1>2, CrashLeaves
<1>4. PICK k \in kept..Len(disk) :
        /\ Len(disk') >= k
        /\ \A p \in 1..k : disk'[p] = disk[p]
        /\ \A p \in (k + 1)..Len(disk') : disk'[p].kind # "meta"
  BY <1>1, <1>2, CrashLeaves
<1>5. Types'
  <2>1. kept \in 0..Len(disk') /\ 0 \in 0..Len(disk')
    BY <1>2, <1>3, <1>4
  <2>2. wb' \in Seq(Recs \ {Torn}) /\ crc' \in Seq(DataRecs) /\ crcCommitted' \in Seq(DataRecs)
    BY <1>1
  <2> QED
    BY <2>1, <2>2, <1>1, <1>2, <1>3 DEF Types
<1>6. ASSUME ~reordered PROVE \E n \in 0..Len(disk') : Layout(disk', n)
  <2>1. Layout(disk, flen)
    BY <1>1, <1>6 DEF FileInv
  <2>2. PICK n \in {flen, k} : n <= flen /\ n <= k
    <3>1. flen <= k \/ k <= flen
      BY <1>2
    <3> QED
      BY <3>1, <1>2
  <2>3. n \in Nat /\ n \in 0..Len(disk) /\ n \in 0..Len(disk') /\ \A p \in 1..n : disk'[p] = disk[p]
    BY <2>2, <1>2, <1>3, <1>4
  <2>4. Intact(disk, n)
    BY <2>1, <2>2, <2>3, <1>2 DEF Layout, Intact
  <2>5. Intact(disk', n)
    <3>1. n <= Len(disk')
      BY <2>3
    <3> QED
      BY <3>1, <2>3, <2>4, <1>2, <1>3, IntactAgrees
  <2>6. ASSUME NEW p \in (n + 1)..Len(disk') PROVE disk'[p].kind # "meta"
    <3>1. CASE p <= k
      <4>1. n = flen /\ p \in (flen + 1)..Len(disk) /\ p \in 1..k
        BY <3>1, <2>2, <2>3, <1>2
      <4> QED
        BY <4>1, <2>1, <1>4 DEF Layout
    <3>2. CASE ~(p <= k)
      <4>1. p \in (k + 1)..Len(disk')
        BY <3>2, <1>2, <2>3
      <4> QED
        BY <4>1, <1>4
    <3> QED
      BY <3>1, <3>2
  <2> QED
    BY <2>3, <2>5, <2>6 DEF Layout
<1>7. ~reordered' => \E n \in 0..Len(disk)' : Layout(disk, n)'
  BY <1>6
<1> QED
  BY <1>1, <1>5, <1>7 DEF FileInv

\* What one that does not leaves.
LEMMA ReorderLeaves ==
  ASSUME Types, NEW d \in ReorderedDisks
  PROVE  d \in Seq(Recs) /\ Len(d) = Len(disk) /\ \A p \in 1..kept : d[p] = disk[p]
<1>1. disk \in Seq(Recs) /\ kept \in 0..Len(disk)
  BY DEF Types
<1>2. PICK lost \in SUBSET ((kept + 1)..Len(disk)) :
        d = [p \in 1..Len(disk) |-> IF p \in lost THEN Torn ELSE disk[p]]
  BY Zenon DEF ReorderedDisks
<1>3. Torn \in Recs
  BY DEF Recs
<1>4. d \in [1..Len(disk) -> Recs]
  BY <1>1, <1>2, <1>3
<1>5. Len(disk) \in Nat
  BY <1>1
<1> DEFINE m == Len(disk)
<1> HIDE DEF m
<1>6. d \in Seq(Recs) /\ Len(d) = m
  BY <1>4, <1>5 DEF m
<1>7. ASSUME NEW p \in 1..kept PROVE d[p] = disk[p]
  <2>1. p \in 1..Len(disk) /\ p \notin lost
    BY <1>1
  <2> QED
    BY <2>1, <1>2
<1> QED
  BY <1>6, <1>7 DEF m

LEMMA CrashReorderedKeeps ==
  ASSUME FileInv, CrashReordered
  PROVE  FileInv'
<1>1. /\ ~open' /\ open' = FALSE /\ flen' = 0 /\ wb' = <<>> /\ crc' = <<>>
      /\ crcCommitted' = <<>> /\ kept' = kept /\ reordered' = TRUE /\ disk' \in ReorderedDisks
  BY DEF CrashReordered, Detach
<1>2. /\ Types /\ disk' \in Seq(Recs) /\ Len(disk') = Len(disk)
  BY <1>1, ReorderLeaves DEF FileInv
<1>3. kept' \in 0..Len(disk') /\ 0 \in 0..Len(disk')
  BY <1>1, <1>2 DEF Types
<1>4. wb' \in Seq(Recs \ {Torn}) /\ crc' \in Seq(DataRecs) /\ crcCommitted' \in Seq(DataRecs)
  BY <1>1
<1>5. Types'
  BY <1>1, <1>2, <1>3, <1>4 DEF Types
<1> QED
  BY <1>1, <1>5 DEF FileInv

-----------------------------------------------------------------------------
(* The theorems.                                                           *)

LEMMA InitFile == Init => FileInv
<1> SUFFICES ASSUME Init PROVE FileInv
  OBVIOUS
<1>1. /\ disk = <<>> /\ kept = 0 /\ open = FALSE /\ flen = 0 /\ wb = <<>>
      /\ crc = <<>> /\ crcCommitted = <<>> /\ reordered = FALSE
  BY DEF Init
<1>2. Types
  <2>1. /\ disk \in Seq(Recs) /\ Len(disk) = 0 /\ wb \in Seq(Recs \ {Torn})
        /\ crc \in Seq(DataRecs) /\ crcCommitted \in Seq(DataRecs)
    BY <1>1
  <2>2. kept \in 0..Len(disk) /\ flen \in 0..Len(disk)
    BY <1>1, <2>1
  <2> QED
    BY <2>1, <2>2, <1>1 DEF Types
<1>3. Layout(disk, 0) /\ 0 \in 0..Len(disk)
  BY <1>1 DEF Layout, Intact
<1> QED
  BY <1>1, <1>2, <1>3 DEF FileInv

LEMMA StepKeepsFile ==
  ASSUME FileInv, [Next]_vars
  PROVE  FileInv'
<1>1. CASE UNCHANGED vars
  <2>1. UNCHANGED <<disk, kept, open, flen, wb, crc, crcCommitted, reordered>>
    BY <1>1 DEF vars
  <2>2. Handed' = Handed /\ Held' = Held
    BY <2>1 DEF Handed, Held
  <2>3. Types'
    BY <2>1 DEF FileInv, Types
  <2>4. Handle' <=> Handle
    BY <2>1, <2>2 DEF Handle, Since, Epoch, Is, EndsWhole
  <2>5. /\ Intact(Held, Len(Held))' <=> Intact(Held, Len(Held))
        /\ Layout(disk, flen)' <=> Layout(disk, flen)
    BY <2>1, <2>2
  <2>6. (\E n \in 0..Len(disk) : Layout(disk, n))' <=> \E n \in 0..Len(disk) : Layout(disk, n)
    BY <2>1
  <2> QED
    BY <2>1, <2>3, <2>4, <2>5, <2>6 DEF FileInv
<1>2. CASE (OpenNew \/ OpenScan \/ OpenTail) /\ UNCHANGED reordered
  BY <1>2, OpeningKeeps
<1>3. CASE (\E v \in Payload : AppendData(v)) /\ UNCHANGED reordered
  BY <1>3, AppendDataKeeps
<1>4. CASE AppendProtected /\ UNCHANGED reordered
  BY <1>4, AppendProtectedKeeps
<1>5. CASE (Commit \/ Sync) /\ UNCHANGED reordered
  BY <1>5, FlushingKeeps
<1>6. CASE Discard /\ UNCHANGED reordered
  BY <1>6, DiscardKeeps
<1>7. CASE Crash /\ UNCHANGED reordered
  BY <1>7, CrashKeeps
<1>8. CASE CrashReordered
  BY <1>8, CrashReorderedKeeps
<1> QED
  BY <1>1, <1>2, <1>3, <1>4, <1>5, <1>6, <1>7, <1>8 DEF Next

\* The inductive invariant of bjfile: the handle's CRCs and buffer agree with what it
\* handed to the host, and nothing that looks like a commit lies past an intact prefix.
THEOREM FileInvariant == Spec => []FileInv
<1> QED
  BY InitFile, StepKeepsFile, PTL DEF Spec

\* The fields of a bjfile have their types, and no fewer records are in the file than
\* the handle committed or a power cut spares.
THEOREM FileTyped == Spec => []TypeOK
<1>1. ASSUME FileInv PROVE TypeOK
  <2>1. Types
    BY <1>1 DEF FileInv
  <2>2. ASSUME NEW p \in 1..Len(disk)
        PROVE  disk[p].kind \in {"data", "meta", "trailer", "torn"}
    <3>1. disk[p] \in Recs
      BY <2>1 DEF Types
    <3> QED
      BY <3>1, KindsDiffer
  <2>3. ASSUME NEW p \in 1..Len(wb) PROVE wb[p].kind \in {"data", "meta", "trailer"}
    <3>1. wb[p] \in Recs /\ wb[p] # Torn
      BY <2>1 DEF Types
    <3> QED
      BY <3>1, KindsDiffer
  <2> QED
    BY <2>1, <2>2, <2>3 DEF Types, TypeOK
<1> QED
  BY <1>1, FileInvariant, PTL

\* Whatever failed writes left in the file, every commit below the committed length
\* verifies, and the running CRC is the one the next commit needs.
THEOREM HandlesVerify == Spec => []HandleVerifies
<1>1. ASSUME FileInv PROVE HandleVerifies
  <2>1. CommittedIntact
    BY <1>1 DEF FileInv, Layout, Intact, CommittedIntact
  <2>2. CrcCoversCommit
    BY <1>1 DEF FileInv, Handle, Held, Handed, Since, CrcCoversCommit
  <2> QED
    BY <2>1, <2>2 DEF HandleVerifies
<1> QED
  BY <1>1, FileInvariant, PTL

\* Where the host keeps the order of writes, a file is never refused at open, and the
\* fast path of the trees adopts nothing that the full scan would not.
THEOREM OpenComesToCommit == Spec => []OpensAtCommit
<1>1. ASSUME FileInv PROVE OpensAtCommit
  <2>1. disk \in Seq(Recs) /\ flen \in 0..Len(disk)
    BY <1>1 DEF FileInv, Types
  <2>2. ASSUME ~reordered PROVE \E n \in 0..Len(disk) : Layout(disk, n)
    BY <1>1, <2>1, <2>2 DEF FileInv
  <2>3. ASSUME ~reordered
        PROVE  ~Refuses(disk) /\ (TailIntact(disk) => Good(disk) = Len(disk))
    BY <2>1, <2>2, <2>3, LayoutOpens
  <2> QED
    BY <2>3 DEF OpensAtCommit, NeverRefused, TailAgreesWithScan
<1> QED
  BY <1>1, FileInvariant, PTL

\* The last synced commit lies among the records that a power cut spares.
LEMMA LastDurableIs ==
  ASSUME Types
  PROVE  /\ LastDurable \in 0..kept
         /\ LastDurable > 0 =>
              /\ LastDurable - 1 \in 1..(Len(disk) - 1) /\ Is(disk, LastDurable - 1, "trailer")
              /\ SpanAgrees(disk, LastDurable - 1)
<1> DEFINE S == {0} \cup {q \in 2..kept : Is(disk, q - 1, "trailer") /\ SpanAgrees(disk, q - 1)}
           m == Max(S)
<1>1. kept \in Nat /\ kept <= Len(disk) /\ Len(disk) \in Nat
  BY DEF Types
<1>2. S \in SUBSET (0..kept) /\ S # {}
  BY <1>1
<1>3. \A q \in S : q > 0 => q \in 2..kept /\ Is(disk, q - 1, "trailer") /\ SpanAgrees(disk, q - 1)
  OBVIOUS
<1> HIDE DEF S
<1>4. m \in S
  BY <1>1, <1>2, MaxOfNats
<1>5. LastDurable = m
  BY DEF LastDurable, S
<1> HIDE DEF m
<1> QED
  BY <1>1, <1>2, <1>3, <1>4, <1>5

\* A file that open does not refuse is not cut before its last synced commit.
LEMMA DurableIsGood ==
  ASSUME Types, ~Refuses(disk)
  PROVE  LastDurable <= Good(disk)
<1> DEFINE g == Good(disk)
           m == LastDurable
           t == m - 1
<1>1. disk \in Seq(Recs) /\ g \in 0..Len(disk) /\ (g > 0 => disk[g].kind = "meta")
  BY GoodIs DEF Types
<1>2. /\ m \in 0..kept /\ kept \in 0..Len(disk)
      /\ m > 0 => /\ t \in 1..(Len(disk) - 1) /\ Is(disk, t, "trailer") /\ SpanAgrees(disk, t)
  BY LastDurableIs DEF Types
<1> HIDE DEF g, m
<1>3. ASSUME g < m PROVE FALSE
  <2>1. t \in 1..(Len(disk) - 1) /\ Is(disk, t, "trailer") /\ SpanAgrees(disk, t)
    BY <1>1, <1>2, <1>3
  <2>2. t # g
    BY <2>1, <1>1 DEF Is
  <2>3. t \in (g + 1)..(Len(disk) - 1) /\ g < Len(disk)
    BY <2>1, <2>2, <1>1, <1>2, <1>3
  <2> QED
    BY <2>1, <2>3 DEF Refuses, VerifiedBeyond, g
<1> QED
  BY <1>1, <1>2, <1>3 DEF g, m

\* The first n records of the file stay.
Keeps(n) == Len(disk') >= n /\ \A p \in 1..n : disk'[p] = disk[p]

LEMMA OpeningKeepsDurable ==
  ASSUME FileInv, OpenNew \/ OpenScan \/ OpenTail
  PROVE  Keeps(LastDurable)
<1> DEFINE m == LastDurable
           g == Good(disk)
<1>1. /\ Types /\ disk \in Seq(Recs) /\ m \in 0..kept /\ kept \in 0..Len(disk) /\ g \in 0..Len(disk)
      /\ ~Refuses(disk) => m <= g
  BY LastDurableIs, DurableIsGood, GoodIs DEF FileInv, Types
<1>2. CASE OpenTail
  BY <1>1, <1>2 DEF OpenTail, Attach, Keeps
<1>3. CASE OpenNew
  <2>1. disk' = <<>> /\ g = 0 /\ m <= g
    BY <1>1, <1>3 DEF OpenNew, Attach
  <2> HIDE DEF m
  <2> QED
    BY <2>1, <1>1 DEF Keeps, m
<1>4. CASE OpenScan
  <2>1. disk' = SubSeq(disk, 1, g) /\ m <= g
    BY <1>1, <1>4 DEF OpenScan, Attach
  <2> HIDE DEF m, g
  <2>2. m \in Nat /\ g \in Nat /\ g <= Len(disk)
    BY <1>1
  <2>3. Len(disk') = g /\ \A p \in 1..g : disk'[p] = disk[p]
    BY <2>1, <2>2, <1>1
  <2> QED
    BY <2>1, <2>2, <2>3 DEF Keeps, m
<1> QED
  BY <1>2, <1>3, <1>4

LEMMA FlushingKeepsDurable ==
  ASSUME FileInv, Commit \/ Sync
  PROVE  Keeps(LastDurable)
<1>1. /\ Types /\ LastDurable \in 0..kept /\ kept \in Nat /\ kept <= flen
      /\ disk \in Seq(Recs) /\ wb \in Seq(Recs) /\ wb \in Seq(Recs \ {Torn}) /\ flen \in Nat
  BY LastDurableIs, HandleTypes DEF FileInv, Types, Handle, Commit, Sync
<1>2. Written \/ WriteFailed
  BY DEF Commit, Sync
<1>3. \E w \in Seq(Recs) : disk' \in Overwrites(w)
  <2>1. CASE Written
    BY <2>1, <1>1 DEF Written
  <2>2. CASE WriteFailed
    <3>1. disk' \in PartialWrites
      BY <2>2 DEF WriteFailed
    <3>2. PICK k \in 0..(Len(wb) - 1) :
            \/ disk' \in Overwrites(SubSeq(wb, 1, k))
            \/ disk' \in Overwrites(Append(SubSeq(wb, 1, k), Torn))
      BY <3>1, Zenon DEF PartialWrites
    <3>3. SubSeq(wb, 1, k) \in Seq(Recs)
      BY <1>1
    <3>4. Append(SubSeq(wb, 1, k), Torn) \in Seq(Recs)
      BY <3>3 DEF Recs
    <3> QED
      BY <3>2, <3>3, <3>4
  <2> QED
    BY <1>2, <2>1, <2>2
<1>4. PICK w \in Seq(Recs) : disk' \in Overwrites(w)
  BY <1>3
<1>5. /\ disk' \in Seq(Recs) /\ Len(disk') >= flen + Len(w) /\ Len(w) \in Nat
      /\ \A p \in 1..flen : disk'[p] = disk[p]
  BY <1>1, <1>4, OverwriteFacts
<1> DEFINE m == LastDurable
<1> HIDE DEF m
<1>6. m \in Nat /\ m <= flen
  BY <1>1 DEF m
<1>7. Len(disk') >= m /\ \A p \in 1..m : disk'[p] = disk[p]
  BY <1>1, <1>5, <1>6
<1> QED
  BY <1>7 DEF Keeps, m

LEMMA CrashingKeepsDurable ==
  ASSUME FileInv, Crash \/ CrashReordered
  PROVE  Keeps(LastDurable)
<1>1. Types /\ LastDurable \in 0..kept /\ kept \in Nat /\ Len(disk) >= kept /\ disk \in Seq(Recs)
  BY LastDurableIs DEF FileInv, Types
<1>2. \E k \in Nat : k >= kept /\ Len(disk') >= k /\ \A p \in 1..k : disk'[p] = disk[p]
  <2>1. CASE Crash
    <3>1. PICK k \in kept..Len(disk) : Len(disk') >= k /\ \A p \in 1..k : disk'[p] = disk[p]
      BY <2>1, <1>1, CrashLeaves DEF Crash
    <3>2. k \in Nat /\ k >= kept
      BY <1>1
    <3> QED
      BY <3>1, <3>2
  <2>2. CASE CrashReordered
    BY <2>2, <1>1, ReorderLeaves DEF CrashReordered
  <2> QED
    BY <2>1, <2>2
<1>3. PICK k \in Nat : k >= kept /\ Len(disk') >= k /\ \A p \in 1..k : disk'[p] = disk[p]
  BY <1>2
<1> DEFINE m == LastDurable
<1> HIDE DEF m
<1>4. m \in Nat /\ m <= k
  BY <1>1, <1>3 DEF m
<1>5. disk' \in Seq(Recs)
  BY <1>1, CrashLeaves, ReorderLeaves DEF Crash, CrashReordered
<1>6. Len(disk') >= m /\ \A p \in 1..m : disk'[p] = disk[p]
  BY <1>3, <1>4, <1>5
<1> QED
  BY <1>6 DEF Keeps, m

\* No crash, failed write, recovery or order of writes takes back or changes a record up to
\* the end of the last commit that was synced.
THEOREM DurableSafe == Spec => DurableNeverLost
<1>1. ASSUME FileInv, FileInv', [Next]_vars
      PROVE  [ /\ Len(disk') >= LastDurable
               /\ SubSeq(disk', 1, LastDurable) = SubSeq(disk, 1, LastDurable) ]_vars
  <2> DEFINE m == LastDurable
  <2>1. /\ m \in Nat /\ m <= Len(disk) /\ disk \in Seq(Recs) /\ disk' \in Seq(Recs)
    BY <1>1, LastDurableIs DEF FileInv, Types
  <2>2. CASE UNCHANGED disk
    BY <2>1, <2>2
  <2>3. CASE Next /\ ~UNCHANGED disk
    <3>1. Keeps(m)
      BY <1>1, <2>3, OpeningKeepsDurable, FlushingKeepsDurable, CrashingKeepsDurable
         DEF Next, AppendData, AppendProtected, Discard
    <3> HIDE DEF m
    <3>2. m <= Len(disk') /\ Len(disk') >= m /\ \A p \in 1..m : disk'[p] = disk[p]
      BY <3>1, <2>1 DEF Keeps
    <3>3. SubSeq(disk', 1, m) = SubSeq(disk, 1, m)
      <4>1. 1 \in Nat /\ 1 <= m + 1
        BY <2>1
      <4> QED
        BY <4>1, <3>2, <2>1, SpanAgreesWith
    <3> QED
      BY <3>2, <3>3 DEF m
  <2>4. CASE UNCHANGED vars
    BY <2>4
  <2> QED
    BY <1>1, <2>2, <2>3, <2>4
<1> QED
  BY <1>1, FileInvariant, PTL DEF Spec, DurableNeverLost

-----------------------------------------------------------------------------
(* The strengthening: metadata records and their trailers, and the bounds.  *)

\* A metadata record is appended together with its trailer.
Protected(f) == \A q \in 1..Len(f) : f[q].kind = "meta" => q > 1 /\ f[q - 1].kind = "trailer"

\* Every metadata record has its trailer before it, and the bounds hold.
CommitInv ==
  /\ Len(disk) <= MaxRecs
  /\ open => flen + Len(wb) <= MaxRecs
  /\ Protected(wb)
  /\ ~reordered => Protected(disk)

\* A file whose metadata records are among the first k records of a protected file.
LEMMA ProtectedPrefix ==
  ASSUME NEW f \in Seq(Recs), NEW g \in Seq(Recs), NEW k \in Nat, k <= Len(f), k <= Len(g),
         \A p \in 1..k : g[p] = f[p], \A p \in (k + 1)..Len(g) : g[p].kind # "meta",
         Protected(f)
  PROVE  Protected(g)
<1> SUFFICES ASSUME NEW q \in 1..Len(g), g[q].kind = "meta"
             PROVE  q > 1 /\ g[q - 1].kind = "trailer"
  BY DEF Protected
<1>1. q \in 1..k /\ q \in 1..Len(f)
  OBVIOUS
<1>2. q > 1 /\ f[q - 1].kind = "trailer"
  BY <1>1 DEF Protected
<1>3. q - 1 \in 1..k
  BY <1>1, <1>2
<1> QED
  BY <1>2, <1>3

\* A write fills no more than the bound.
LEMMA OverwriteBound ==
  ASSUME Types, Len(disk) <= MaxRecs, NEW w \in Seq(Recs), flen + Len(w) <= MaxRecs,
         NEW d \in Overwrites(w)
  PROVE  Len(d) <= MaxRecs
<1>1. disk \in Seq(Recs) /\ flen \in 0..Len(disk) /\ flen \in Nat /\ Len(disk) \in Nat
  BY DEF Types
<1>2. CASE w = <<>>
  BY <1>2 DEF Overwrites
<1>3. CASE w # <<>>
  <2> DEFINE r == SubSeq(disk, flen + 1, Len(disk))
             h == SubSeq(disk, 1, flen)
  <2>1. PICK s \in Remains(w, r) : d = h \o w \o s
    BY <1>3 DEF Overwrites
  <2>2. r \in Seq(Recs) /\ h \in Seq(Recs) /\ Len(h) = flen
    BY <1>1
  <2> HIDE DEF r, h
  <2>3. s \in Seq(Recs)
    BY <2>1, <2>2, RemainsAreOld
  <2>4. s = <<>> \/ flen + Len(w) + Len(s) <= MaxRecs
    BY <2>1 DEF Remains
  <2>5. \A a, b \in Seq(Recs) : a \o b \in Seq(Recs) /\ Len(a \o b) = Len(a) + Len(b)
    OBVIOUS
  <2>6. h \o w \in Seq(Recs) /\ Len(h \o w) = flen + Len(w)
    BY <2>2, <2>5
  <2>7. Len(d) = flen + Len(w) + Len(s)
    BY <2>1, <2>3, <2>5, <2>6
  <2>8. s = <<>> => Len(d) = flen + Len(w)
    BY <1>1, <2>7
  <2> QED
    BY <2>4, <2>7, <2>8
<1> QED
  BY <1>2, <1>3

\* What a failed write leaves of the file and the handle.
LEMMA WriteFailedGives ==
  ASSUME FileInv, open, WriteFailed
  PROVE  /\ UNCHANGED <<flen, wb, crc, crcCommitted>>
         /\ disk' \in Seq(Recs) /\ Len(disk') >= flen
         /\ \A p \in 1..flen : disk'[p] = disk[p]
         /\ Len(disk) <= MaxRecs /\ flen + Len(wb) <= MaxRecs => Len(disk') <= MaxRecs
<1>1. /\ disk' \in PartialWrites /\ UNCHANGED <<flen, wb, crc, crcCommitted>>
  BY DEF WriteFailed
<1>2. Types /\ wb \in Seq(Recs) /\ flen \in Nat
  BY HandleTypes
<1>3. PICK k \in 0..(Len(wb) - 1) :
        \/ disk' \in Overwrites(SubSeq(wb, 1, k))
        \/ disk' \in Overwrites(Append(SubSeq(wb, 1, k), Torn))
  BY <1>1, Zenon DEF PartialWrites
<1>4. SubSeq(wb, 1, k) \in Seq(Recs) /\ Len(SubSeq(wb, 1, k)) = k /\ k \in Nat
  BY <1>2
<1>5. Append(SubSeq(wb, 1, k), Torn) \in Seq(Recs) /\ Len(Append(SubSeq(wb, 1, k), Torn)) = k + 1
  BY <1>4 DEF Recs
<1>6. PICK w \in Seq(Recs) : disk' \in Overwrites(w) /\ Len(w) <= Len(wb)
  <2>1. k <= Len(wb) /\ k + 1 <= Len(wb)
    BY <1>2
  <2> QED
    BY <2>1, <1>3, <1>4, <1>5
<1>7. /\ disk' \in Seq(Recs) /\ Len(disk') >= flen + Len(w) /\ Len(w) \in Nat
      /\ \A p \in 1..flen : disk'[p] = disk[p]
  BY <1>2, <1>6, OverwriteFacts
<1>8. ASSUME Len(disk) <= MaxRecs, flen + Len(wb) <= MaxRecs PROVE Len(disk') <= MaxRecs
  <2>1. flen + Len(w) <= MaxRecs
    BY <1>2, <1>6, <1>7, <1>8, MaxRecsAssumption
  <2> QED
    BY <2>1, <1>2, <1>6, <1>8, OverwriteBound
<1> QED
  BY <1>1, <1>2, <1>7, <1>8

LEMMA InitCommits == Init => CommitInv
  BY MaxRecsAssumption DEF Init, CommitInv, Protected

LEMMA OpeningKeepsCommits ==
  ASSUME FileInv, CommitInv, OpenNew \/ OpenScan \/ OpenTail, UNCHANGED reordered
  PROVE  CommitInv'
<1>1. /\ disk \in Seq(Recs) /\ Good(disk) \in 0..Len(disk) /\ Good(disk) \in Nat /\ Len(disk) \in Nat
      /\ Len(disk) <= MaxRecs
  BY GoodIs DEF FileInv, Types, CommitInv
<1>2. PICK k \in 0..Len(disk) : Attach(SubSeq(disk, 1, k))
  <2>1. SubSeq(disk, 1, 0) = <<>> /\ SubSeq(disk, 1, Len(disk)) = disk
    BY <1>1
  <2>2. CASE OpenNew
    BY <2>1, <2>2, <1>1 DEF OpenNew
  <2>3. CASE OpenScan
    BY <2>3, <1>1 DEF OpenScan
  <2>4. CASE OpenTail
    <3>1. Attach(SubSeq(disk, 1, Len(disk)))
      BY <2>4, <2>1 DEF OpenTail
    <3>2. Len(disk) \in 0..Len(disk)
      BY <1>1
    <3> QED
      BY <3>1, <3>2
  <2> QED
    BY <2>2, <2>3, <2>4
<1> DEFINE f == SubSeq(disk, 1, k)
<1>3. f \in Seq(Recs) /\ Len(f) = k /\ k \in Nat /\ \A p \in 1..k : f[p] = disk[p]
  BY <1>1
<1>4. disk' = f /\ flen' = Len(f) /\ wb' = <<>>
  BY <1>2 DEF Attach
<1> HIDE DEF f
<1>5. ASSUME ~reordered PROVE Protected(f)
  <2>1. Protected(disk)
    BY <1>5 DEF CommitInv
  <2>2. k <= Len(disk) /\ k <= Len(f) /\ \A p \in (k + 1)..Len(f) : f[p].kind # "meta"
    BY <1>1, <1>3
  <2> QED
    BY <2>1, <2>2, <1>1, <1>3, ProtectedPrefix
<1>6. Len(disk') <= MaxRecs /\ flen' + Len(wb') <= MaxRecs
  BY <1>1, <1>3, <1>4, MaxRecsAssumption
<1>7. Protected(wb)'
  BY <1>4 DEF Protected
<1>8. ~reordered' => Protected(disk)'
  BY <1>4, <1>5
<1> QED
  BY <1>6, <1>7, <1>8 DEF CommitInv

LEMMA BufferKeepsCommits ==
  ASSUME FileInv, CommitInv, UNCHANGED reordered,
         (\E v \in Payload : AppendData(v)) \/ AppendProtected \/ Discard
  PROVE  CommitInv'
<1>1. /\ UNCHANGED <<disk, open, flen>> /\ open /\ wb \in Seq(Recs) /\ flen \in Nat
      /\ Len(disk) <= MaxRecs /\ flen + Len(wb) <= MaxRecs /\ Protected(wb) /\ Len(wb) \in Nat
  <2>1. UNCHANGED <<disk, open, flen>> /\ open
    BY Zenon DEF AppendData, AppendProtected, Discard, Room
  <2>2. wb \in Seq(Recs) /\ flen \in Nat
    BY <2>1, HandleTypes
  <2>3. Len(disk) <= MaxRecs /\ flen + Len(wb) <= MaxRecs /\ Protected(wb)
    BY <2>1 DEF CommitInv
  <2> QED
    BY <2>1, <2>2, <2>3
<1>2. flen + Len(wb') <= MaxRecs /\ Protected(wb')
  <2>1. CASE \E v \in Payload : AppendData(v)
    <3>1. PICK v \in Payload : AppendData(v)
      BY <2>1
    <3> DEFINE r == Data(v)
    <3>2. wb' = Append(wb, r) /\ Len(wb) + flen + 3 <= MaxRecs
      BY <3>1 DEF AppendData, Room
    <3>3. r.kind = "data" /\ r \in Recs
      BY DEF Data, Recs, DataRecs
    <3> HIDE DEF r
    <3>4. /\ Len(wb') = Len(wb) + 1 /\ wb'[Len(wb) + 1] = r
          /\ \A p \in 1..Len(wb) : wb'[p] = wb[p]
      BY <3>2, <3>3, <1>1
    <3>5. ASSUME NEW q \in 1..Len(wb'), wb'[q].kind = "meta"
          PROVE  q > 1 /\ wb'[q - 1].kind = "trailer"
      <4>1. q \in 1..Len(wb)
        BY <3>3, <3>4, <3>5, <1>1
      <4>2. q > 1 /\ wb[q - 1].kind = "trailer"
        BY <3>4, <3>5, <4>1, <1>1 DEF Protected
      <4>3. q - 1 \in 1..Len(wb)
        BY <4>1, <4>2
      <4> QED
        BY <4>2, <4>3, <3>4
    <3> QED
      BY <3>2, <3>4, <3>5, <1>1, MaxRecsAssumption DEF Protected
  <2>2. CASE AppendProtected
    <3> DEFINE T == Trailer(Append(crc, Meta))
               t == <<T, Meta>>
    <3>1. wb' = wb \o t /\ Len(wb) + flen + 2 <= MaxRecs
      BY <2>2 DEF AppendProtected, Room
    <3>2. T.kind = "trailer" /\ T \in Recs /\ Meta \in Recs
      <4>1. crc \in Seq(DataRecs)
        BY HandleTypes DEF Types
      <4> QED
        BY <4>1 DEF Trailer, Trailers, Sums, Recs
    <3> HIDE DEF T
    <3>3. t \in Seq(Recs) /\ Len(t) = 2 /\ t[1] = T /\ t[2] = Meta
      BY <3>2
    <3> HIDE DEF t
    <3>4. /\ Len(wb') = Len(wb) + 2 /\ wb'[Len(wb) + 1] = T
          /\ \A p \in 1..Len(wb) : wb'[p] = wb[p]
      <4>1. \A a, b \in Seq(Recs) :
              /\ Len(a \o b) = Len(a) + Len(b)
              /\ \A i \in 1..Len(a) : (a \o b)[i] = a[i]
              /\ \A i \in 1..Len(b) : (a \o b)[Len(a) + i] = b[i]
        OBVIOUS
      <4>2. 1 \in 1..Len(t)
        BY <3>3
      <4>3. /\ Len(wb \o t) = Len(wb) + Len(t)
            /\ \A i \in 1..Len(wb) : (wb \o t)[i] = wb[i]
            /\ (wb \o t)[Len(wb) + 1] = t[1]
        BY <4>1, <4>2, <3>3, <1>1
      <4> QED
        BY <4>3, <3>1, <3>3
    <3>5. ASSUME NEW q \in 1..Len(wb'), wb'[q].kind = "meta"
          PROVE  q > 1 /\ wb'[q - 1].kind = "trailer"
      <4>1. q \in 1..Len(wb) \/ q = Len(wb) + 2
        BY <3>2, <3>4, <3>5, <1>1
      <4>2. CASE q \in 1..Len(wb)
        <5>1. q > 1 /\ wb[q - 1].kind = "trailer"
          BY <3>4, <3>5, <4>2, <1>1 DEF Protected
        <5>2. q - 1 \in 1..Len(wb)
          BY <4>2, <5>1
        <5> QED
          BY <5>1, <5>2, <3>4
      <4>3. CASE q = Len(wb) + 2
        <5>1. q > 1 /\ q - 1 = Len(wb) + 1
          BY <4>3, <1>1
        <5> QED
          BY <5>1, <3>2, <3>4
      <4> QED
        BY <4>1, <4>2, <4>3
    <3>6. flen + Len(wb') <= MaxRecs
      BY <3>1, <3>4, <1>1, MaxRecsAssumption
    <3> QED
      BY <3>5, <3>6 DEF Protected
  <2>3. CASE Discard
    <3>1. wb' = <<>>
      BY <2>3 DEF Discard
    <3>2. flen + Len(wb') <= MaxRecs
      BY <3>1, <1>1, MaxRecsAssumption
    <3> QED
      BY <3>1, <3>2 DEF Protected
  <2> QED
    BY <2>1, <2>2, <2>3
<1>3. Protected(wb)' /\ (~reordered' => Protected(disk)')
  BY <1>1, <1>2 DEF CommitInv
<1> QED
  BY <1>1, <1>2, <1>3 DEF CommitInv

\* The host took the buffer, or part of it.
LEMMA FlushingKeepsCommits ==
  ASSUME FileInv, FileInv', CommitInv, Commit \/ Sync, UNCHANGED reordered
  PROVE  CommitInv'
<1>1. open /\ open'
  BY DEF Commit, Sync
<1>2. /\ Types /\ disk \in Seq(Recs) /\ wb \in Seq(Recs) /\ flen \in Nat /\ flen \in 0..Len(disk)
      /\ Len(disk) <= MaxRecs /\ flen + Len(wb) <= MaxRecs /\ Protected(wb)
      /\ Handle /\ (~reordered => Layout(disk, flen) /\ Protected(disk))
  BY <1>1, HandleTypes DEF FileInv, CommitInv, Types
<1>3. CASE Written
  <2> DEFINE n == flen + Len(wb)
             f == Held
  <2>1. /\ disk' \in Overwrites(wb) /\ flen' = n /\ wb' = <<>>
    BY <1>3 DEF Written
  <2>2. /\ f \in Seq(Recs) /\ Len(f) = n /\ n \in Nat
        /\ disk' \in Seq(Recs) /\ Len(disk') >= n
        /\ \A p \in 1..n : disk'[p] = f[p]
        /\ (\A p \in (flen + 1)..Len(disk) : disk[p].kind # "meta") =>
             \A p \in (n + 1)..Len(disk') : disk'[p].kind # "meta"
    BY <1>3, WrittenGives
  <2>3. /\ \A p \in 1..flen : f[p] = disk[p]
        /\ \A p \in 1..Len(wb) : f[flen + p] = wb[p]
    BY HandleTypes
  <2> HIDE DEF f
  <2>4. ASSUME ~reordered PROVE Protected(disk')
    <3>1. ASSUME NEW q \in 1..n, f[q].kind = "meta"
          PROVE  q > 1 /\ f[q - 1].kind = "trailer"
      <4>1. CASE q <= flen
        <5>1. q \in 1..flen /\ q \in 1..Len(disk) /\ disk[q].kind = "meta"
          BY <4>1, <3>1, <1>2, <2>3
        <5>2. q > 1 /\ disk[q - 1].kind = "trailer"
          BY <5>1, <2>4, <1>2 DEF Protected
        <5>3. q - 1 \in 1..flen
          BY <5>1, <5>2, <1>2
        <5> QED
          BY <5>2, <5>3, <2>3
      <4>2. CASE ~(q <= flen)
        <5> DEFINE i == q - flen
        <5>1. i \in 1..Len(wb) /\ flen + i = q
          BY <4>2, <3>1, <1>2
        <5> HIDE DEF i
        <5>2. wb[i].kind = "meta"
          BY <5>1, <3>1, <2>3
        <5>3. i > 1 /\ wb[i - 1].kind = "trailer"
          BY <5>1, <5>2, <1>2 DEF Protected
        <5>4. i - 1 \in 1..Len(wb) /\ flen + (i - 1) = q - 1 /\ q > 1
          BY <5>1, <5>3, <1>2
        <5> QED
          BY <5>3, <5>4, <2>3
      <4> QED
        BY <4>1, <4>2
    <3>2. Protected(f)
      BY <3>1, <2>2 DEF Protected
    <3>3. \A p \in (n + 1)..Len(disk') : disk'[p].kind # "meta"
      BY <2>2, <2>4, <1>2 DEF Layout
    <3>4. n <= Len(f) /\ n <= Len(disk')
      BY <2>2
    <3> QED
      BY <3>2, <3>3, <3>4, <2>2, ProtectedPrefix
  <2>5. Len(disk') <= MaxRecs
    BY <2>1, <1>2, OverwriteBound
  <2>6. flen' + Len(wb') <= MaxRecs
    BY <2>1, <2>2, <1>2
  <2>7. Protected(wb')
    BY <2>1 DEF Protected
  <2> QED
    BY <2>4, <2>5, <2>6, <2>7 DEF CommitInv
<1>4. CASE WriteFailed
  <2>1. /\ UNCHANGED <<flen, wb>>
        /\ disk' \in Seq(Recs) /\ Len(disk') >= flen /\ Len(disk') <= MaxRecs
        /\ \A p \in 1..flen : disk'[p] = disk[p]
    BY <1>1, <1>2, <1>4, WriteFailedGives
  <2>2. ASSUME ~reordered PROVE Protected(disk')
    <3>1. \A p \in (flen + 1)..Len(disk') : disk'[p].kind # "meta"
      BY <2>2, <2>1, <1>1 DEF FileInv, Layout
    <3>2. flen <= Len(disk) /\ flen <= Len(disk')
      BY <1>2, <2>1
    <3> QED
      BY <3>1, <3>2, <2>1, <2>2, <1>2, ProtectedPrefix
  <2>3. Protected(wb') /\ flen' + Len(wb') <= MaxRecs
    BY <2>1, <1>2
  <2> QED
    BY <2>1, <2>2, <2>3 DEF CommitInv
<1> QED
  BY <1>3, <1>4 DEF Commit, Sync

\* A crash leaves no more records, and no metadata record without its trailer.
LEMMA CrashKeepsCommits ==
  ASSUME FileInv, CommitInv, Crash, UNCHANGED reordered
  PROVE  CommitInv'
<1>1. ~open' /\ wb' = <<>> /\ disk' \in CrashedDisks
  BY DEF Crash, Detach
<1>2. Types /\ disk \in Seq(Recs) /\ Len(disk) \in Nat /\ kept \in 0..Len(disk) /\ kept \in Nat
  BY DEF FileInv, Types
<1>3. disk' \in Seq(Recs)
  BY <1>1, <1>2, CrashLeaves
<1>4. PICK k \in kept..Len(disk) :
        /\ Len(disk') >= k
        /\ \A p \in 1..k : disk'[p] = disk[p]
        /\ \A p \in (k + 1)..Len(disk') : disk'[p].kind # "meta"
  BY <1>1, <1>2, CrashLeaves
<1>5. ASSUME ~reordered PROVE Protected(disk')
  <2>1. k \in Nat /\ k <= Len(disk) /\ k <= Len(disk')
    BY <1>2, <1>3, <1>4
  <2> QED
    BY <2>1, <1>2, <1>3, <1>4, <1>5, ProtectedPrefix DEF CommitInv
<1>6. Len(disk') <= Len(disk)
  BY <1>1, <1>2, CrashLeaves
<1>7. Len(disk') <= MaxRecs
  BY <1>2, <1>3, <1>6, MaxRecsAssumption DEF CommitInv
<1>8. Protected(wb)'
  BY <1>1 DEF Protected
<1>9. ~reordered' => Protected(disk)'
  BY <1>5
<1> QED
  BY <1>1, <1>7, <1>8, <1>9 DEF CommitInv

LEMMA StepKeepsCommits ==
  ASSUME FileInv, FileInv', CommitInv, [Next]_vars
  PROVE  CommitInv'
<1>1. CASE UNCHANGED vars
  BY <1>1 DEF vars, CommitInv, Protected
<1>2. CASE (OpenNew \/ OpenScan \/ OpenTail) /\ UNCHANGED reordered
  BY <1>2, OpeningKeepsCommits
<1>3. CASE ((\E v \in Payload : AppendData(v)) \/ AppendProtected \/ Discard) /\ UNCHANGED reordered
  BY <1>3, BufferKeepsCommits
<1>4. CASE (Commit \/ Sync) /\ UNCHANGED reordered
  BY <1>4, FlushingKeepsCommits
<1>5. CASE Crash /\ UNCHANGED reordered
  BY <1>5, CrashKeepsCommits
<1>6. CASE CrashReordered
  <2>1. /\ ~open' /\ wb' = <<>> /\ reordered' = TRUE /\ disk' \in ReorderedDisks
    BY <1>6 DEF CrashReordered, Detach
  <2>2. Len(disk') = Len(disk)
    BY <2>1, ReorderLeaves DEF FileInv
  <2>3. Protected(wb)'
    BY <2>1 DEF Protected
  <2> QED
    BY <2>1, <2>2, <2>3 DEF CommitInv
<1> QED
  BY <1>1, <1>2, <1>3, <1>4, <1>5, <1>6 DEF Next

LEMMA CommitsInvariant == Spec => [](FileInv /\ CommitInv)
  BY FileInvariant, InitCommits, StepKeepsCommits, PTL DEF Spec

-----------------------------------------------------------------------------
(* The last commit of a file.                                              *)

\* No metadata record follows it.
LEMMA LayoutGood ==
  ASSUME NEW f \in Seq(Recs), NEW n \in 0..Len(f), Layout(f, n)
  PROVE  /\ Good(f) \in 0..n
         /\ Good(f) > 0 => f[Good(f)].kind = "meta"
         /\ \A p \in (Good(f) + 1)..Len(f) : f[p].kind # "meta"
<1> DEFINE g == Good(f)
<1>1. /\ g \in 0..Len(f) /\ (g > 0 => f[g].kind = "meta")
      /\ \A p \in 1..Len(f) : Intact(f, p) /\ f[p].kind = "meta" => p <= g
  BY GoodIs
<1> HIDE DEF g
<1>2. \A p \in 1..Len(f) : f[p].kind = "meta" => p <= n
  BY DEF Layout
<1>3. g \in 0..n
  BY <1>1, <1>2
<1>4. ASSUME NEW p \in (g + 1)..Len(f), f[p].kind = "meta" PROVE FALSE
  <2>1. p \in 1..Len(f) /\ p <= n /\ p > g
    BY <1>1, <1>2, <1>4
  <2>2. Intact(f, p)
    BY <2>1 DEF Layout, Intact
  <2> QED
    BY <2>1, <2>2, <1>1, <1>4
<1> QED
  BY <1>1, <1>3, <1>4 DEF g

\* It ends with the last metadata record.
LEMMA GoodAt ==
  ASSUME NEW f \in Seq(Recs), NEW n \in 0..Len(f), Layout(f, n), NEW x \in 0..Len(f),
         x > 0 => f[x].kind = "meta", \A p \in (x + 1)..Len(f) : f[p].kind # "meta"
  PROVE  Good(f) = x
<1> DEFINE g == Good(f)
<1>1. /\ g \in 0..n /\ (g > 0 => f[g].kind = "meta")
      /\ \A p \in (g + 1)..Len(f) : f[p].kind # "meta"
  BY LayoutGood
<1> HIDE DEF g
<1>2. ~(g > x)
  <2> SUFFICES ASSUME g > x PROVE FALSE
    OBVIOUS
  <2>1. g \in (x + 1)..Len(f) /\ g > 0
    BY <1>1
  <2> QED
    BY <2>1, <1>1
<1>3. ~(x > g)
  <2> SUFFICES ASSUME x > g PROVE FALSE
    OBVIOUS
  <2>1. x \in (g + 1)..Len(f) /\ x > 0
    BY <1>1
  <2> QED
    BY <2>1, <1>1
<1>4. g = x
  BY <1>1, <1>2, <1>3
<1> QED
  BY <1>4 DEF g

\* Two files with the same metadata records end with the same commit.
LEMMA GoodSame ==
  ASSUME NEW f \in Seq(Recs), NEW n \in 0..Len(f), Layout(f, n),
         NEW g \in Seq(Recs), NEW m \in 0..Len(g), Layout(g, m),
         \A p \in 1..Len(f) : f[p].kind = "meta" => p \in 1..Len(g) /\ g[p].kind = "meta",
         \A p \in 1..Len(g) : g[p].kind = "meta" => p \in 1..Len(f) /\ f[p].kind = "meta"
  PROVE  Good(f) = Good(g)
<1> DEFINE x == Good(f)
<1>1. /\ x \in 0..Len(f) /\ (x > 0 => f[x].kind = "meta")
      /\ \A p \in (x + 1)..Len(f) : f[p].kind # "meta"
  BY LayoutGood
<1> HIDE DEF x
<1>2. x \in 0..Len(g) /\ (x > 0 => g[x].kind = "meta")
  <2>1. CASE x = 0
    BY <2>1
  <2>2. CASE x > 0
    <3>1. x \in 1..Len(f)
      BY <2>2, <1>1
    <3>2. x \in 1..Len(g) /\ g[x].kind = "meta"
      BY <3>1, <2>2, <1>1
    <3> QED
      BY <3>2
  <2> QED
    BY <2>1, <2>2, <1>1
<1>3. ASSUME NEW p \in (x + 1)..Len(g), g[p].kind = "meta" PROVE FALSE
  <2>1. p \in 1..Len(g) /\ p > x
    BY <1>2
  <2>2. p \in (x + 1)..Len(f) /\ f[p].kind = "meta"
    BY <2>1, <1>3, <1>2
  <2> QED
    BY <2>2, <1>1
<1>4. Good(g) = x
  BY <1>2, <1>3, GoodAt
<1> QED
  BY <1>4 DEF x

\* A prefix of a file with an intact prefix and no commit past it is another.
LEMMA LayoutCut ==
  ASSUME NEW f \in Seq(Recs), NEW n \in 0..Len(f), Layout(f, n), NEW k \in 0..Len(f)
  PROVE  LET h == SubSeq(f, 1, k) IN
         /\ h \in Seq(Recs) /\ Len(h) = k /\ k \in Nat
         /\ \A p \in 1..k : h[p] = f[p]
         /\ \E m \in 0..Len(h) : Layout(h, m)
<1> DEFINE h == SubSeq(f, 1, k)
<1>1. h \in Seq(Recs) /\ Len(h) = k /\ k \in Nat /\ \A p \in 1..k : h[p] = f[p]
  OBVIOUS
<1> HIDE DEF h
<1>2. PICK m \in {n, k} : m <= n /\ m <= k
  <2>1. n <= k \/ k <= n
    OBVIOUS
  <2> QED
    BY <2>1
<1>3. m \in Nat /\ m \in 0..Len(f) /\ m \in 0..Len(h) /\ m <= Len(h) /\ \A p \in 1..m : h[p] = f[p]
  BY <1>1, <1>2
<1>4. Intact(f, m)
  BY <1>2, <1>3 DEF Layout, Intact
<1>5. Intact(h, m)
  BY <1>1, <1>3, <1>4, IntactAgrees
<1>6. ASSUME NEW p \in (m + 1)..Len(h) PROVE h[p].kind # "meta"
  <2>1. m = n /\ p \in (n + 1)..Len(f) /\ p \in 1..k
    BY <1>1, <1>2, <1>3
  <2> QED
    BY <2>1, <1>1 DEF Layout
<1> QED
  BY <1>1, <1>3, <1>5, <1>6 DEF Layout, h

-----------------------------------------------------------------------------
(* What the structures see.                                                *)

\* Where the order of writes is kept, the handle and the next open see the same commits.
LEMMA FileIs ==
  ASSUME FileInv, ~reordered
  PROVE  /\ disk \in Seq(Recs) /\ \E n \in 0..Len(disk) : Layout(disk, n)
         /\ Visible(Committed) = SubSeq(disk, 1, Good(disk))
<1>1. /\ Types /\ disk \in Seq(Recs) /\ flen \in 0..Len(disk) /\ flen \in Nat
      /\ Handed \in Seq(Recs) /\ Len(Handed) = flen /\ \A p \in 1..flen : Handed[p] = disk[p]
  BY HandleTypes DEF Types
<1>2. PICK n \in 0..Len(disk) : Layout(disk, n) /\ (open => n = flen)
  BY <1>1 DEF FileInv
<1>3. CASE open
  <2> DEFINE h == Handed
  <2>1. Committed = h /\ n = flen
    BY <1>2, <1>3 DEF Committed, Handed
  <2>2. h \in Seq(Recs) /\ Len(h) = flen /\ \A p \in 1..flen : h[p] = disk[p]
    BY <1>1
  <2> HIDE DEF h
  <2>3. flen \in 0..Len(h) /\ Layout(h, flen)
    <3>1. Intact(disk, flen)
      BY <1>2, <2>1 DEF Layout
    <3>2. Intact(h, flen)
      BY <3>1, <2>2, <1>1, IntactAgrees
    <3> QED
      BY <3>2, <2>2, <1>1 DEF Layout
  <2>4. Good(disk) = Good(h)
    <3>1. \A p \in 1..Len(disk) : disk[p].kind = "meta" => p \in 1..Len(h) /\ h[p].kind = "meta"
      BY <1>1, <1>2, <2>1, <2>2 DEF Layout
    <3>2. \A p \in 1..Len(h) : h[p].kind = "meta" => p \in 1..Len(disk) /\ disk[p].kind = "meta"
      BY <1>1, <2>2
    <3> QED
      BY <3>1, <3>2, <1>1, <1>2, <2>1, <2>2, <2>3, GoodSame
  <2> DEFINE g == Good(disk)
  <2>5. g \in 0..flen
    BY <1>1, <1>2, <2>1, LayoutGood
  <2> HIDE DEF g
  <2>6. SubSeq(h, 1, g) = SubSeq(disk, 1, g)
    <3>1. /\ 1 \in Nat /\ g \in Nat /\ 1 <= g + 1 /\ g <= Len(h) /\ g <= Len(disk)
          /\ \A p \in 1..g : h[p] = disk[p]
      BY <2>2, <2>5, <1>1
    <3> QED
      BY <3>1, <2>2, <1>1, SpanAgreesWith
  <2>7. Visible(Committed) = SubSeq(h, 1, g)
    BY <2>1, <2>4 DEF Visible, g
  <2> QED
    BY <2>6, <2>7, <1>1, <1>2 DEF g
<1>4. CASE ~open
  <2>1. Visible(Committed) = SubSeq(disk, 1, Good(disk))
    BY <1>4 DEF Committed, Visible
  <2> QED
    BY <2>1, <1>1, <1>2
<1> QED
  BY <1>3, <1>4

-----------------------------------------------------------------------------
(* The batch a commit adds.                                                *)

LEMMA CutInTwo ==
  ASSUME NEW R, NEW f \in Seq(R), NEW g \in 0..Len(f)
  PROVE  f = SubSeq(f, 1, g) \o SubSeq(f, g + 1, Len(f))
<1> DEFINE a == SubSeq(f, 1, g)
           b == SubSeq(f, g + 1, Len(f))
<1>1. a \in Seq(R) /\ Len(a) = g /\ \A p \in 1..g : a[p] = f[p]
  OBVIOUS
<1>2. b \in Seq(R) /\ Len(b) = Len(f) - g /\ \A p \in 1..(Len(f) - g) : b[p] = f[g + p]
  OBVIOUS
<1> HIDE DEF a, b
<1>3. \A s, t \in Seq(R) :
        /\ s \o t \in Seq(R) /\ Len(s \o t) = Len(s) + Len(t)
        /\ \A p \in 1..Len(s) : (s \o t)[p] = s[p]
        /\ \A p \in 1..Len(t) : (s \o t)[Len(s) + p] = t[p]
  OBVIOUS
<1> DEFINE c == a \o b
<1>4. /\ c \in Seq(R) /\ Len(c) = Len(f)
      /\ \A p \in 1..g : c[p] = f[p]
      /\ \A p \in 1..(Len(f) - g) : c[g + p] = f[g + p]
  BY <1>1, <1>2, <1>3
<1> HIDE DEF c
<1>5. ASSUME NEW p \in 1..Len(f) PROVE c[p] = f[p]
  <2>1. CASE p <= g
    <3>1. p \in 1..g
      BY <2>1
    <3> QED
      BY <3>1, <1>4
  <2>2. CASE ~(p <= g)
    <3> DEFINE i == p - g
    <3>1. i \in 1..(Len(f) - g) /\ g + i = p
      BY <2>2
    <3> HIDE DEF i
    <3> QED
      BY <3>1, <1>4
  <2> QED
    BY <2>1, <2>2
<1>6. c = f
  BY <1>4, <1>5
<1> QED
  BY <1>6 DEF a, b, c

\* What a file that ends with a commit holds since the one before: data records, the
\* trailer that covers them, and the metadata record.
LEMMA LastBatch ==
  ASSUME NEW f \in Seq(Recs), NEW n \in Nat, n = Len(f), n > 0, n <= MaxRecs, Intact(f, n), Protected(f),
         f[n].kind = "meta", NEW g \in 0..(n - 1), g > 0 => f[g].kind = "meta",
         \A p \in (g + 1)..(n - 1) : f[p].kind # "meta"
  PROVE  LET b == SubSeq(f, g + 1, n) IN
         CF!IsCommit(b) /\ b \in Batches /\ f = SubSeq(f, 1, g) \o b
<1>1. /\ n > 1 /\ f[n - 1].kind = "trailer" /\ n \in 1..Len(f) /\ n - 1 \in 1..Len(f)
      /\ f[n] = Meta /\ f[n - 1] \in Trailers
  <2>1. n > 1 /\ f[n - 1].kind = "trailer" /\ n \in 1..Len(f)
    BY DEF Protected
  <2>2. n - 1 \in 1..Len(f)
    BY <2>1
  <2>3. f[n] \in Recs /\ f[n - 1] \in Recs
    BY <2>1, <2>2
  <2> QED
    BY <2>1, <2>2, <2>3 DEF Recs, DataRecs, Trailers, Meta, Torn
<1>2. g <= n - 2
  BY <1>1
<1> DEFINE d == SubSeq(f, g + 1, n - 2)
           b == SubSeq(f, g + 1, n)
<1>3. f[n - 1].sum = Append(d, Meta)
  <2>1. Epoch(f, n) = g + 1
    BY <1>1, EpochAt
  <2>2. Is(f, n - 1, "trailer") /\ ~Damaged(f, n)
    BY <1>1 DEF Is, Intact
  <2> QED
    BY <2>1, <2>2, <1>1 DEF Damaged, Verifies
<1>4. ASSUME NEW p \in (g + 1)..(n - 2) PROVE f[p] \in DataRecs
  <2>1. p \in 1..n /\ p \in 1..Len(f) /\ p + 1 \in 1..n /\ p + 1 \in (g + 1)..(n - 1) /\ p \in (g + 1)..(n - 1)
    BY <1>2
  <2>2. f[p].kind # "meta" /\ f[p + 1].kind # "meta"
    BY <2>1
  <2>3. f[p] # Torn
    BY <2>1 DEF Intact, Damaged
  <2>4. f[p].kind # "trailer"
    <3>1. ~Damaged(f, p + 1) /\ (p + 1) - 1 = p
      BY <2>1 DEF Intact
    <3> QED
      BY <3>1, <2>1, <2>2 DEF Damaged, Verifies, Is
  <2>5. f[p] \in Recs
    BY <2>1
  <2> QED
    BY <2>2, <2>3, <2>4, <2>5, KindsDiffer
<1>5. Len(d) = n - 2 - g /\ Len(d) \in Nat /\ \A i \in 1..Len(d) : d[i] = f[g + i] /\ g + i \in (g + 1)..(n - 2)
  BY <1>2
<1>6. d \in Seq(Recs) /\ d \in [1..Len(d) -> DataRecs]
  <2>1. d \in Seq(Recs)
    BY <1>2
  <2> HIDE DEF d
  <2>2. \A i \in 1..Len(d) : d[i] \in DataRecs
    BY <1>4, <1>5
  <2>3. d = [i \in 1..Len(d) |-> d[i]]
    BY <2>1
  <2> QED
    BY <2>1, <2>2, <2>3
<1>7. d \in BoundedSeq({Data(v) : v \in Payload}, MaxRecs)
  <2>1. \A r \in DataRecs : \E v \in Payload : r = Data(v)
    BY DEF DataRecs, Data
  <2>2. DataRecs = {Data(v) : v \in Payload}
    <3>1. \A v \in Payload : Data(v) \in DataRecs
      BY DEF DataRecs, Data
    <3> QED
      BY <2>1, <3>1, Zenon
  <2>3. Len(d) \in 0..MaxRecs
    BY <1>5, MaxRecsAssumption
  <2> HIDE DEF d
  <2> QED
    BY <2>2, <2>3, <1>6, Zenon DEF BoundedSeq, SeqOf
<1> DEFINE T == Trailer(Append(d, Meta))
           t == <<T, Meta>>
<1>8. f[n - 1] = T
  <2> HIDE DEF d
  <2> QED
    BY <1>1, <1>3 DEF Trailers, Trailer
<1>9. /\ b \in Seq(Recs) /\ Len(b) = n - g /\ \A i \in 1..(n - g) : b[i] = f[g + i]
  <2>1. g + 1 <= n /\ n <= Len(f) /\ g \in Nat /\ n \in Nat
    OBVIOUS
  <2> HIDE DEF T, t, d
  <2> QED
    BY <2>1
<1>10. T \in Recs /\ Meta \in Recs
  BY <1>1, <1>8 DEF Recs
<1> HIDE DEF T, d
<1>11. t \in Seq(Recs) /\ Len(t) = 2 /\ t[1] = T /\ t[2] = Meta
  BY <1>10
<1> HIDE DEF t, b
<1>12. b = d \o t
  <2> DEFINE c == d \o t
  <2>1. \A x, y \in Seq(Recs) :
          /\ x \o y \in Seq(Recs) /\ Len(x \o y) = Len(x) + Len(y)
          /\ \A p \in 1..Len(x) : (x \o y)[p] = x[p]
          /\ \A p \in 1..Len(y) : (x \o y)[Len(x) + p] = y[p]
    OBVIOUS
  <2>2. 1 \in 1..Len(t) /\ 2 \in 1..Len(t)
    BY <1>11
  <2>3. /\ c \in Seq(Recs) /\ Len(c) = Len(d) + 2
        /\ \A p \in 1..Len(d) : c[p] = d[p]
        /\ c[Len(d) + 1] = T /\ c[Len(d) + 2] = Meta
    <3>1. /\ d \o t \in Seq(Recs) /\ Len(d \o t) = Len(d) + Len(t)
          /\ \A p \in 1..Len(d) : (d \o t)[p] = d[p]
          /\ (d \o t)[Len(d) + 1] = t[1] /\ (d \o t)[Len(d) + 2] = t[2]
      <4>1. d \in Seq(Recs) /\ t \in Seq(Recs)
        BY <1>6, <1>11
      <4>2. /\ d \o t \in Seq(Recs) /\ Len(d \o t) = Len(d) + Len(t)
            /\ \A p \in 1..Len(d) : (d \o t)[p] = d[p]
            /\ \A p \in 1..Len(t) : (d \o t)[Len(d) + p] = t[p]
        <5> HIDE DEF c
        <5> QED
          BY <2>1, <4>1, Zenon
      <4>3. (d \o t)[Len(d) + 1] = t[1] /\ (d \o t)[Len(d) + 2] = t[2]
        BY <4>2, <2>2, Zenon
      <4> QED
        BY <4>2, <4>3, Zenon
    <3>2. Len(t) = 2 /\ t[1] = T /\ t[2] = Meta
      BY <1>11
    <3> QED
      BY <3>1, <3>2, Zenon
  <2> HIDE DEF c
  <2>4. ASSUME NEW i \in 1..Len(b) PROVE b[i] = c[i]
    <3>1. CASE i \in 1..Len(d)
      BY <3>1, <2>3, <1>5, <1>9
    <3>2. CASE i = Len(d) + 1
      <4>1. g + i = n - 1 /\ i \in 1..(n - g)
        BY <3>2, <1>5, <1>9
      <4> QED
        BY <4>1, <3>2, <2>3, <1>8, <1>9
    <3>3. CASE i = Len(d) + 2
      <4>1. g + i = n /\ i \in 1..(n - g)
        BY <3>3, <1>5, <1>9
      <4> QED
        BY <4>1, <3>3, <2>3, <1>1, <1>9
    <3> QED
      BY <3>1, <3>2, <3>3, <1>5, <1>9
  <2>5. Len(b) = Len(c)
    BY <2>3, <1>5, <1>9
  <2>6. b = c
    BY <2>3, <2>4, <2>5, <1>9
  <2> QED
    BY <2>6 DEF c
<1>13. b \in Batches
  BY <1>7, <1>12 DEF Batches, T, t
<1>14. CF!IsCommit(b)
  <2>1. b # <<>>
    BY <1>9, <1>2
  <2>2. ASSUME NEW i \in 1..Len(b) PROVE b[i].kind = "meta" <=> i = Len(b)
    <3>1. CASE i = Len(b)
      BY <3>1, <1>9, <1>1
    <3>2. CASE i # Len(b)
      <4>1. g + i \in (g + 1)..(n - 1) /\ i \in 1..(n - g)
        BY <3>2, <1>9
      <4> QED
        BY <4>1, <3>2, <1>9
    <3> QED
      BY <3>1, <3>2
  <2> QED
    BY <2>1, <2>2 DEF CF!IsCommit, CF!IsMeta
<1>15. f = SubSeq(f, 1, g) \o b
  <2>1. g \in 0..Len(f)
    BY <1>1
  <2> QED
    BY <2>1, CutInTwo DEF b
<1> QED
  BY <1>13, <1>14, <1>15 DEF b

-----------------------------------------------------------------------------
(* The steps, where the order of writes is kept.                           *)

Safe == Good(SubSeq(disk, 1, kept))

\* A shorter or a longer file with the same first k records.
LEMMA PrefixSame ==
  ASSUME NEW f \in Seq(Recs), NEW g \in Seq(Recs), NEW k \in Nat, k <= Len(f), k <= Len(g),
         \A p \in 1..k : f[p] = g[p]
  PROVE  SubSeq(f, 1, k) = SubSeq(g, 1, k)
<1>1. 1 \in Nat /\ 1 <= k + 1
  OBVIOUS
<1> QED
  BY <1>1, SpanAgreesWith

\* The same of the state that a step leads to.
Seen ==
  /\ disk \in Seq(Recs) /\ \E n \in 0..Len(disk) : Layout(disk, n)
  /\ Visible(Committed) = SubSeq(disk, 1, Good(disk))

LEMMA FileSeen == FileInv /\ ~reordered => Seen
  BY FileIs DEF Seen

LEMMA FileSeenNext == FileInv' /\ ~reordered' => Seen'
  BY FileSeen, PTL

LEMMA FileIsNext ==
  ASSUME FileInv', ~reordered'
  PROVE  /\ disk' \in Seq(Recs) /\ \E n \in 0..Len(disk') : Layout(disk', n)
         /\ Visible(Committed)' = SubSeq(disk', 1, Good(disk'))
<1>1. Seen'
  BY FileSeenNext
<1> QED
  BY <1>1 DEF Seen

\* Opening cuts off an unfinished commit that nobody saw.
LEMMA OpeningStep ==
  ASSUME FileInv, FileInv', ~reordered, ~reordered', OpenNew \/ OpenScan \/ OpenTail
  PROVE  UNCHANGED <<Visible(Committed), Safe>>
<1> DEFINE g == Good(disk)
<1>1. PICK n \in 0..Len(disk) : Layout(disk, n)
  BY FileIs
<1>2. /\ disk \in Seq(Recs) /\ g \in 0..n /\ (g > 0 => disk[g].kind = "meta")
      /\ \A p \in (g + 1)..Len(disk) : disk[p].kind # "meta"
      /\ Visible(Committed) = SubSeq(disk, 1, g)
      /\ kept \in 0..Len(disk) /\ kept \in Nat
  <2>1. disk \in Seq(Recs) /\ Visible(Committed) = SubSeq(disk, 1, g)
    BY FileIs
  <2>2. kept \in 0..Len(disk) /\ kept \in Nat
    BY DEF FileInv, Types
  <2>3. /\ g \in 0..n /\ (g > 0 => disk[g].kind = "meta")
        /\ \A p \in (g + 1)..Len(disk) : disk[p].kind # "meta"
    BY <1>1, <2>1, LayoutGood
  <2> QED
    BY <2>1, <2>2, <2>3
<1>3. /\ disk' = SubSeq(disk, 1, g) /\ kept' = Min({kept, Len(disk')})
  <2>1. SubSeq(disk, 1, 0) = <<>> /\ SubSeq(disk, 1, Len(disk)) = disk
    BY <1>2
  <2>2. CASE OpenNew
    BY <2>1, <2>2 DEF OpenNew, Attach
  <2>3. CASE OpenScan
    BY <2>3 DEF OpenScan, Attach
  <2>4. CASE OpenTail
    <3>1. g = Len(disk)
      BY <2>4, <1>1, <1>2, LayoutOpens DEF OpenTail
    <3>2. disk' = disk /\ kept' = Min({kept, Len(disk)})
      BY <2>4 DEF OpenTail, Attach
    <3> QED
      BY <3>1, <3>2, <2>1
  <2> QED
    BY <2>2, <2>3, <2>4
<1> DEFINE h == SubSeq(disk, 1, g)
<1>4. g \in 0..Len(disk) /\ g \in Nat
  BY <1>2
<1> HIDE DEF g
<1>5. /\ h \in Seq(Recs) /\ Len(h) = g /\ \A p \in 1..g : h[p] = disk[p]
      /\ \E m \in 0..Len(h) : Layout(h, m)
  BY <1>1, <1>2, <1>4, LayoutCut
<1>6. Good(h) = g
  <2> HIDE DEF h
  <2>1. g \in 0..Len(h) /\ (g > 0 => h[g].kind = "meta") /\ \A p \in (g + 1)..Len(h) : h[p].kind # "meta"
    BY <1>2, <1>4, <1>5
  <2> QED
    BY <2>1, <1>5, GoodAt
<1>7. SubSeq(h, 1, g) = h
  <2>1. g <= Len(h) /\ g <= Len(disk) /\ \A p \in 1..g : h[p] = disk[p]
    BY <1>4, <1>5
  <2> QED
    BY <2>1, <1>2, <1>4, <1>5, PrefixSame
<1>8. Visible(Committed)' = Visible(Committed)
  BY <1>2, <1>3, <1>6, <1>7, FileIsNext
<1> HIDE DEF h
<1>9. kept' \in Nat /\ (kept <= g => kept' = kept) /\ (g < kept => kept' = g)
  <2>1. Min({kept, g}) \in {kept, g} /\ Min({kept, g}) <= kept /\ Min({kept, g}) <= g
    BY <1>2, <1>4, MinOfNats
  <2>2. kept' = Min({kept, g})
    BY <1>3, <1>5 DEF h
  <2> QED
    BY <2>1, <2>2, <1>2, <1>4
<1>10. Safe' = Safe
  <2>1. CASE kept <= g
    <3>1. kept <= Len(disk) /\ kept <= Len(h) /\ \A p \in 1..kept : disk[p] = h[p]
      BY <2>1, <1>2, <1>4, <1>5
    <3>2. SubSeq(disk, 1, kept) = SubSeq(h, 1, kept)
      BY <3>1, <1>2, <1>5, PrefixSame
    <3> QED
      BY <3>2, <2>1, <1>3, <1>9 DEF Safe, h
  <2>2. CASE g < kept
    <3>1. Safe' = g
      BY <2>2, <1>3, <1>6, <1>7, <1>9 DEF Safe, h
    <3> DEFINE c == SubSeq(disk, 1, kept)
    <3>2. /\ c \in Seq(Recs) /\ Len(c) = kept /\ \A p \in 1..kept : c[p] = disk[p]
          /\ \E m \in 0..Len(c) : Layout(c, m)
      BY <1>1, <1>2, LayoutCut
    <3> HIDE DEF c
    <3>3. g \in 0..Len(c) /\ (g > 0 => c[g].kind = "meta") /\ \A p \in (g + 1)..Len(c) : c[p].kind # "meta"
      BY <2>2, <1>2, <1>4, <3>2
    <3>4. Good(c) = g
      BY <3>2, <3>3, GoodAt
    <3> QED
      BY <3>1, <3>4 DEF Safe, c
  <2> QED
    BY <2>1, <2>2, <1>2, <1>4
<1> QED
  BY <1>8, <1>10

\* Nothing below the committed length changes, and no commit is left past it.
LEMMA WriteFailedStep ==
  ASSUME FileInv, FileInv', ~reordered, ~reordered', open, open', WriteFailed, UNCHANGED kept
  PROVE  UNCHANGED <<Visible(Committed), Safe>>
<1>1. /\ UNCHANGED flen /\ disk' \in Seq(Recs) /\ Len(disk') >= flen
      /\ \A p \in 1..flen : disk'[p] = disk[p]
  BY WriteFailedGives
<1>2. /\ disk \in Seq(Recs) /\ flen \in 0..Len(disk) /\ flen \in 0..Len(disk') /\ flen \in Nat
      /\ kept <= flen /\ kept \in Nat
      /\ Layout(disk, flen) /\ Layout(disk', flen)
  BY <1>1 DEF FileInv, Types, Handle
<1> DEFINE g == Good(disk)
<1>3. Good(disk') = g
  <2>1. \A p \in 1..Len(disk) : disk[p].kind = "meta" => p \in 1..Len(disk') /\ disk'[p].kind = "meta"
    BY <1>1, <1>2 DEF Layout
  <2>2. \A p \in 1..Len(disk') : disk'[p].kind = "meta" => p \in 1..Len(disk) /\ disk[p].kind = "meta"
    BY <1>1, <1>2 DEF Layout
  <2> QED
    BY <2>1, <2>2, <1>1, <1>2, GoodSame
<1>4. g \in 0..flen
  BY <1>2, LayoutGood
<1> HIDE DEF g
<1>5. SubSeq(disk, 1, g) = SubSeq(disk', 1, g)
  <2>1. g \in Nat /\ g <= Len(disk) /\ g <= Len(disk') /\ \A p \in 1..g : disk[p] = disk'[p]
    BY <1>1, <1>2, <1>4
  <2> QED
    BY <2>1, <1>1, <1>2, PrefixSame
<1>6. SubSeq(disk, 1, kept) = SubSeq(disk', 1, kept)
  <2>1. kept <= Len(disk) /\ kept <= Len(disk') /\ \A p \in 1..kept : disk[p] = disk'[p]
    BY <1>1, <1>2
  <2> QED
    BY <2>1, <1>1, <1>2, PrefixSame
<1> QED
  BY <1>3, <1>5, <1>6, FileIs, FileIsNext DEF Safe, g

\* A buffer with no metadata record adds no commit, one with a metadata record adds one, and
\* everything is durable once the sync succeeded.
LEMMA WrittenStep ==
  ASSUME FileInv, FileInv', CommitInv, CommitInv', ~reordered, ~reordered', open, open',
         Written, kept' \in {kept, flen'}
  PROVE  CF!Next \/ UNCHANGED <<Visible(Committed), Safe>>
<1> DEFINE n == flen + Len(wb)
           f == Held
           g == Good(disk)
<1>1. /\ flen' = n /\ f \in Seq(Recs) /\ Len(f) = n /\ n \in Nat
      /\ disk' \in Seq(Recs) /\ Len(disk') >= n
      /\ \A p \in 1..n : disk'[p] = f[p]
      /\ Handed' = f
  BY WrittenGives
<1>2. /\ disk \in Seq(Recs) /\ wb \in Seq(Recs) /\ flen \in 0..Len(disk) /\ flen \in Nat
      /\ kept <= flen /\ kept \in Nat /\ Len(wb) \in Nat
      /\ \A p \in 1..flen : f[p] = disk[p]
      /\ \A p \in 1..Len(wb) : f[flen + p] = wb[p]
      /\ \A p \in 1..(Len(wb) - 1) : wb[p].kind # "meta"
  BY HandleTypes DEF FileInv, Types, Handle
<1>3. Layout(disk, flen) /\ Layout(disk', n) /\ Intact(f, n)
  BY <1>1 DEF FileInv
<1>4. /\ g \in 0..flen /\ g \in Nat /\ (g > 0 => disk[g].kind = "meta")
      /\ \A p \in (g + 1)..Len(disk) : disk[p].kind # "meta"
  BY <1>2, <1>3, LayoutGood
<1>5. /\ Visible(Committed) = SubSeq(disk, 1, g)
      /\ Visible(Committed)' = SubSeq(disk', 1, Good(disk'))
  BY FileIs, FileIsNext
<1>6. Protected(f) /\ n <= MaxRecs
  <2>1. Protected(disk') /\ n <= MaxRecs
    BY <1>1, <1>2 DEF CommitInv
  <2>2. ASSUME NEW q \in 1..Len(f), f[q].kind = "meta"
        PROVE  q > 1 /\ f[q - 1].kind = "trailer"
    <3>1. q \in 1..n /\ q \in 1..Len(disk') /\ disk'[q].kind = "meta"
      BY <2>2, <1>1
    <3>2. q > 1 /\ disk'[q - 1].kind = "trailer"
      BY <2>1, <3>1 DEF Protected
    <3>3. q - 1 \in 1..n
      <4> HIDE DEF n
      <4> QED
        BY <3>1, <3>2, <1>1
    <3> QED
      BY <3>2, <3>3, <1>1
  <2> QED
    BY <2>1, <2>2 DEF Protected
<1> HIDE DEF f, g, n
<1>7. /\ 0 <= flen /\ flen <= n /\ kept <= n /\ kept <= Len(disk) /\ kept <= Len(disk')
      /\ g <= n /\ g <= Len(disk) /\ g <= Len(disk') /\ g <= Len(f)
      /\ \A p \in 1..flen : disk'[p] = disk[p]
  BY <1>1, <1>2, <1>4 DEF n
<1>8. SubSeq(disk', 1, kept) = SubSeq(disk, 1, kept)
  <2>1. \A p \in 1..kept : disk'[p] = disk[p]
    BY <1>2, <1>7
  <2> QED
    BY <2>1, <1>1, <1>2, <1>7, PrefixSame
<1>9. kept' = kept => Safe' = Safe
  BY <1>8 DEF Safe
<1>10. SubSeq(disk', 1, n) = f
  <2>1. SubSeq(f, 1, n) = f
    BY <1>1
  <2>2. n <= Len(f) /\ n <= Len(disk')
    BY <1>1
  <2> QED
    BY <2>1, <2>2, <1>1, PrefixSame
<1>11. \A p \in 1..n : p > flen => p - flen \in 1..Len(wb) /\ f[p] = wb[p - flen]
  <2> SUFFICES ASSUME NEW p \in 1..n, p > flen PROVE p - flen \in 1..Len(wb) /\ f[p] = wb[p - flen]
    OBVIOUS
  <2>1. p - flen \in 1..Len(wb) /\ flen + (p - flen) = p
    BY <1>1, <1>2 DEF n
  <2> QED
    BY <2>1, <1>2
<1>12. ASSUME NEW p \in 1..(n - 1), p > g PROVE f[p].kind # "meta"
  <2>1. CASE p <= flen
    <3>1. p \in 1..flen /\ p \in (g + 1)..Len(disk)
      BY <2>1, <1>2, <1>4, <1>12
    <3> QED
      BY <3>1, <1>2, <1>4
  <2>2. CASE p > flen
    <3>1. p \in 1..n
      BY <1>1, <1>12
    <3>2. p - flen \in 1..(Len(wb) - 1)
      BY <2>2, <1>1, <1>2, <1>12 DEF n
    <3> QED
      BY <2>2, <3>1, <3>2, <1>2, <1>11
  <2> QED
    BY <2>1, <2>2, <1>2
<1>13. g > 0 => f[g].kind = "meta"
  BY <1>2, <1>4
<1>14. CASE n > g /\ f[n].kind = "meta"
  <2> DEFINE b == SubSeq(f, g + 1, n)
  <2>1. /\ g \in 0..(n - 1) /\ n > 0 /\ n \in 1..Len(f)
        /\ \A p \in (g + 1)..(n - 1) : f[p].kind # "meta"
    BY <1>1, <1>4, <1>12, <1>14
  <2>2. CF!IsCommit(b) /\ b \in Batches /\ f = SubSeq(f, 1, g) \o b
    BY <2>1, <1>1, <1>3, <1>6, <1>13, <1>14, LastBatch
  <2> HIDE DEF b
  <2>3. Good(disk') = n
    <3>1. /\ n \in 0..Len(disk') /\ disk'[n].kind = "meta"
          /\ \A p \in (n + 1)..Len(disk') : disk'[p].kind # "meta"
      BY <2>1, <1>1, <1>3, <1>14 DEF Layout
    <3> QED
      BY <3>1, <1>1, <1>3, GoodAt
  <2>4. Visible(Committed)' = f /\ Len(Visible(Committed)') = n
    BY <2>3, <1>1, <1>5, <1>10
  <2>5. SubSeq(f, 1, g) = SubSeq(disk, 1, g)
    <3>1. \A p \in 1..g : f[p] = disk[p]
      BY <1>2, <1>4
    <3> QED
      BY <3>1, <1>1, <1>2, <1>4, <1>7, PrefixSame
  <2>6. Visible(Committed)' = Visible(Committed) \o b
    BY <2>2, <2>4, <2>5, <1>5
  <2>7. CASE kept' = kept
    <3>1. CF!Commit(b)
      BY <2>2, <2>6, <2>7, <1>9 DEF CF!Commit, Safe
    <3> QED
      BY <3>1, <2>2 DEF CF!Next
  <2>8. CASE kept' = n
    <3>1. Good(SubSeq(disk, 1, kept))' = Len(Visible(Committed)')
      <4>1. SubSeq(disk', 1, kept') = f
        BY <2>8, <1>10
      <4>2. Good(f) = n
        <5>1. /\ n \in 0..Len(f) /\ f[n].kind = "meta" /\ Layout(f, n)
              /\ \A p \in (n + 1)..Len(f) : f[p].kind # "meta"
          BY <2>1, <1>1, <1>3, <1>14 DEF Layout
        <5> QED
          BY <5>1, <1>1, GoodAt
      <4> QED
        BY <4>1, <4>2, <2>4
    <3>2. CF!CommitDurably(b)
      BY <2>2, <2>6, <3>1 DEF CF!CommitDurably
    <3> QED
      BY <3>2, <2>2 DEF CF!Next
  <2> QED
    BY <2>7, <2>8, <1>1
<1>15. CASE ~(n > g /\ f[n].kind = "meta")
  <2>1. ASSUME NEW p \in (g + 1)..n PROVE f[p].kind # "meta"
    <3>1. p = n \/ (p \in 1..(n - 1) /\ p > g)
      BY <1>1, <1>4
    <3> QED
      BY <3>1, <1>4, <1>12, <1>15, <1>1
  <2>2. ASSUME NEW p \in (g + 1)..Len(disk') PROVE disk'[p].kind # "meta"
    <3>1. CASE p <= n
      <4>1. p \in (g + 1)..n /\ p \in 1..n
        BY <3>1, <1>1, <1>4
      <4> QED
        BY <4>1, <2>1, <1>1
    <3>2. CASE ~(p <= n)
      <4>1. p \in (n + 1)..Len(disk')
        BY <3>2, <1>1, <1>4
      <4> QED
        BY <4>1, <1>3 DEF Layout
    <3> QED
      BY <3>1, <3>2
  <2>3. g > 0 => disk'[g].kind = "meta"
    BY <1>1, <1>4, <1>7, <1>13
  <2>4. Good(disk') = g
    <3>1. g \in 0..Len(disk') /\ n \in 0..Len(disk')
      BY <1>1, <1>4, <1>7
    <3> QED
      BY <3>1, <2>2, <2>3, <1>1, <1>3, GoodAt
  <2>5. SubSeq(disk', 1, g) = SubSeq(disk, 1, g)
    <3>1. \A p \in 1..g : disk'[p] = disk[p]
      BY <1>2, <1>4, <1>7
    <3> QED
      BY <3>1, <1>1, <1>2, <1>4, <1>7, PrefixSame
  <2>6. Visible(Committed)' = Visible(Committed) /\ Len(Visible(Committed)) = g
    BY <2>4, <2>5, <1>2, <1>4, <1>5, <1>7
  <2>7. CASE kept' = kept
    BY <2>6, <2>7, <1>9
  <2>8. CASE kept' = n
    <3>1. Good(SubSeq(disk, 1, kept))' = g
      <4>1. SubSeq(disk', 1, kept') = f
        BY <2>8, <1>10
      <4>2. Good(f) = g
        <5>1. /\ g \in 0..Len(f) /\ n \in 0..Len(f) /\ Layout(f, n)
              /\ \A p \in (g + 1)..Len(f) : f[p].kind # "meta"
          BY <2>1, <1>1, <1>3, <1>4, <1>7 DEF Layout
        <5> QED
          BY <5>1, <1>1, <1>13, GoodAt
      <4> QED
        BY <4>1, <4>2
    <3>2. CF!Flush
      BY <2>6, <3>1 DEF CF!Flush
    <3> QED
      BY <3>2 DEF CF!Next
  <2> QED
    BY <2>7, <2>8, <1>1
<1> QED
  BY <1>14, <1>15

\* What a crash leaves ends with a commit no earlier than the last durable one.
LEMMA CrashStep ==
  ASSUME FileInv, FileInv', ~reordered, ~reordered', Crash
  PROVE  CF!Next
<1>1. disk' \in CrashedDisks /\ kept' = kept
  BY DEF Crash, Detach
<1>2. Types /\ disk \in Seq(Recs) /\ kept \in 0..Len(disk) /\ kept \in Nat /\ Len(disk) \in Nat
  BY DEF FileInv, Types
<1>3. PICK k \in kept..Len(disk) :
        /\ Len(disk') >= k
        /\ \A p \in 1..k : disk'[p] = disk[p]
        /\ \A p \in (k + 1)..Len(disk') : disk'[p].kind # "meta"
  BY <1>1, <1>2, CrashLeaves
<1>4. PICK n \in 0..Len(disk) : Layout(disk, n)
  BY FileIs
<1>5. PICK m \in 0..Len(disk') : Layout(disk', m)
  BY FileIsNext
<1> DEFINE g == Good(disk)
           x == Good(disk')
           s == SubSeq(disk, 1, kept)
           y == Good(s)
           f == Visible(Committed)
<1>6. /\ g \in 0..Len(disk) /\ (g > 0 => disk[g].kind = "meta")
      /\ \A p \in (g + 1)..Len(disk) : disk[p].kind # "meta"
  BY <1>2, <1>4, LayoutGood
<1>7. /\ disk' \in Seq(Recs) /\ x \in 0..Len(disk') /\ (x > 0 => disk'[x].kind = "meta")
      /\ \A p \in (x + 1)..Len(disk') : disk'[p].kind # "meta"
  <2>1. disk' \in Seq(Recs)
    BY FileIsNext
  <2> QED
    BY <2>1, <1>5, LayoutGood
<1>8. /\ s \in Seq(Recs) /\ Len(s) = kept /\ \A p \in 1..kept : s[p] = disk[p]
  BY <1>2
<1> HIDE DEF s
<1>9. y \in 0..kept /\ (y > 0 => s[y].kind = "meta")
  BY <1>8, GoodIs
<1>10. f = SubSeq(disk, 1, g) /\ Visible(Committed)' = SubSeq(disk', 1, x)
  BY FileIs, FileIsNext
<1> HIDE DEF g, x, y, f
<1>11. f \in Seq(Recs) /\ Len(f) = g /\ \A p \in 1..g : f[p] = disk[p]
  BY <1>2, <1>6, <1>10
<1>12. k \in Nat /\ k >= kept /\ k <= Len(disk) /\ g \in Nat /\ x \in Nat /\ y \in Nat
  BY <1>2, <1>3, <1>6, <1>7, <1>9
<1>13. x <= k /\ x <= g
  <2>1. CASE x = 0
    BY <2>1, <1>12
  <2>2. CASE x > 0
    <3>1. x <= k
      <4>1. ~(x \in (k + 1)..Len(disk'))
        BY <2>2, <1>3, <1>7
      <4> QED
        BY <4>1, <1>7, <1>12
    <3>2. disk[x].kind = "meta" /\ x \in 1..Len(disk)
      BY <2>2, <3>1, <1>3, <1>7, <1>12
    <3> QED
      BY <3>1, <3>2, <1>6, <1>12
  <2> QED
    BY <2>1, <2>2, <1>12
<1>14. y <= x
  <2>1. CASE y = 0
    BY <2>1, <1>12
  <2>2. CASE y > 0
    <3>1. y \in 1..kept /\ y \in 1..k /\ y \in 1..Len(disk')
      <4>1. Len(disk') \in Nat /\ k <= Len(disk')
        BY <1>3, <1>7
      <4>2. y \in Nat /\ y >= 1 /\ y <= kept
        BY <2>2, <1>2, <1>9, <1>12
      <4> QED
        BY <4>1, <4>2, <1>2, <1>12
    <3>2. disk'[y].kind = "meta"
      BY <2>2, <3>1, <1>3, <1>8, <1>9
    <3> QED
      BY <3>1, <3>2, <1>7, <1>12
  <2> QED
    BY <2>1, <2>2, <1>12
<1>15. x \in CF!CrashPoints(f, y)
  <2>1. x = 0 \/ (x \in 1..Len(f) /\ f[x].kind = "meta")
    <3> SUFFICES ASSUME x > 0 PROVE x \in 1..Len(f) /\ f[x].kind = "meta"
      BY <1>12
    <3>1. x \in 1..g /\ x \in 1..k
      BY <1>12, <1>13
    <3> QED
      BY <3>1, <1>3, <1>7, <1>11
  <2> QED
    BY <2>1, <1>14 DEF CF!CrashPoints, CF!CommitEnds, CF!IsMeta
<1>16. Visible(Committed)' = SubSeq(f, 1, x)
  <2>1. x <= Len(f) /\ x <= Len(disk') /\ \A p \in 1..x : disk'[p] = f[p]
    BY <1>3, <1>7, <1>11, <1>12, <1>13
  <2> QED
    BY <2>1, <1>7, <1>10, <1>11, <1>12, PrefixSame
<1>17. SubSeq(disk', 1, kept') = s
  <2>1. kept <= Len(disk) /\ kept <= Len(disk') /\ \A p \in 1..kept : disk'[p] = disk[p]
    BY <1>2, <1>3, <1>7, <1>12
  <2> QED
    BY <2>1, <1>1, <1>2, <1>7, PrefixSame DEF s
<1>18. CF!Crash
  BY <1>15, <1>16, <1>17 DEF CF!Crash, f, y, s
<1> QED
  BY <1>18 DEF CF!Next

-----------------------------------------------------------------------------
(* The refinement.                                                         *)

LEMMA InitCommitFile == Init => CF!Init
<1> SUFFICES ASSUME Init PROVE CF!Init
  OBVIOUS
<1>1. disk = <<>> /\ kept = 0 /\ open = FALSE
  BY DEF Init
<1> DEFINE f == SubSeq(disk, 1, 0)
<1>2. disk \in Seq(Recs) /\ Len(disk) = 0 /\ f = <<>>
  BY <1>1
<1>3. Good(disk) = 0
  <2>1. Good(disk) \in 0..Len(disk)
    BY <1>2, GoodIs
  <2> QED
    BY <2>1, <1>2
<1>4. Visible(Committed) = <<>>
  BY <1>1, <1>2, <1>3 DEF Visible, Committed
<1>5. Good(SubSeq(disk, 1, kept)) = 0
  BY <1>1, <1>2, <1>3
<1> QED
  BY <1>4, <1>5 DEF CF!Init

LEMMA StepRefines ==
  ASSUME FileInv, FileInv', CommitInv, CommitInv', [Next]_vars
  PROVE  CommitFileStep
<1> SUFFICES ASSUME ~reordered' PROVE CF!Next \/ UNCHANGED <<Visible(Committed), Safe>>
  BY DEF CommitFileStep, CF!vars, Safe
<1>1. ~reordered
  BY DEF Next, CrashReordered, vars
<1>2. CASE UNCHANGED <<disk, kept, open, flen>>
  BY <1>2 DEF Visible, Committed, Safe
<1>3. CASE OpenNew \/ OpenScan \/ OpenTail
  BY <1>1, <1>3, OpeningStep
<1>4. CASE Commit \/ Sync
  <2>1. /\ open /\ open'
        /\ \/ Written /\ kept' \in {kept, flen'}
           \/ WriteFailed /\ UNCHANGED kept
    BY <1>4 DEF Commit, Sync
  <2> QED
    BY <2>1, <1>1, WrittenStep, WriteFailedStep
<1>5. CASE Crash
  BY <1>1, <1>5, CrashStep
<1>6. CASE CrashReordered
  BY <1>6 DEF CrashReordered
<1>7. CASE (\E v \in Payload : AppendData(v)) \/ AppendProtected \/ Discard \/ UNCHANGED vars
  <2>1. UNCHANGED <<disk, kept, open, flen>>
    BY <1>7 DEF AppendData, AppendProtected, Discard, vars
  <2> QED
    BY <2>1, <1>2
<1> QED
  BY <1>3, <1>4, <1>5, <1>6, <1>7 DEF Next

\* As long as no crash broke the order of writes, what bjfile does to its file is an
\* append of a whole commit, a sync that makes every commit durable, or a crash that
\* loses a suffix of whole commits that were not synced: the promise of CommitFile.
THEOREM ImplementsCommitFile == Spec => CommitFileSpec
<1>1. ASSUME FileInv, FileInv', CommitInv, CommitInv', [Next]_vars
      PROVE  [CommitFileStep]_vars
  BY <1>1, StepRefines
<1> QED
  BY <1>1, InitCommitFile, CommitsInvariant, PTL DEF Spec, CommitFileSpec
=============================================================================
